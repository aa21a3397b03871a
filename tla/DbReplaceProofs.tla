--------------------------- MODULE DbReplaceProofs ---------------------------
(***************************************************************************)
(* The database file: what users last worked on is never lost, no request   *)
(* works on a database short of a migration, and an import without a fault  *)
(* settles - for one import at a time, with any number of files, edits and  *)
(* faults.                                                                 *)
(***************************************************************************)
EXTENDS DbReplace, TLAPS

(* The importers that are in progress have an archive, while the process is up. *)
Busy(i) == pc[i] # "idle"
Running == \A i \in Importers : Busy(i) => process = "up" /\ arg[i] \in Archives

LEMMA ConstantsTyped ==
  /\ Archives \subseteq Contents /\ Readable \subseteq Contents /\ Partial \in Contents
  /\ None \notin Files /\ Newest \in Nat /\ VersionOf \in [Archives -> Nat]
  /\ Original \in Readable /\ Fresh \in Readable /\ Fresh # Original
  /\ 1..MaxEdits \subseteq Readable /\ Fresh \notin Nat /\ Fresh \notin Archives
  BY ArchivesOK, BoundsOK DEF Contents, Readable, Edited, Original, Files, None
-----------------------------------------------------------------------------
(* Types *)

LEMMA TypeInit == Init => TypeOK /\ Running
<1> SUFFICES ASSUME Init PROVE TypeOK /\ Running
  OBVIOUS
<1>1. 1 \in Files /\ Newest \in Nat /\ Original \in Contents /\ 0 \in Nat
  BY ArchivesOK, BoundsOK, ConstantsTyped DEF Files
<1>2. 0 \in 0..MaxEdits /\ 0 \in 0..MaxImports /\ 0 \in 0..MaxFaults
  BY BoundsOK
<1>3. 1 # None
  BY DEF None
<1> QED BY <1>1, <1>2, <1>3 DEF Init, TypeOK, Running, Busy, Steps

(* Opening finds or makes a file; writing starts with an empty one. *)
LEMMA Opens ==
  ASSUME TypeOK, NEW f \in Files, OpenMakes(f)
  PROVE  /\ dir' \in [Names -> Files \cup {None}] /\ data' \in [Files -> Contents]
         /\ version' \in [Files -> Nat] /\ dir'["main"] = f
  BY ConstantsTyped DEF TypeOK, OpenMakes, Names, Exists, None

LEMMA Truncates ==
  ASSUME TypeOK, NEW i \in Importers, NEW n \in Names, Truncate(i, n)
  PROVE  \E f \in Files :
           /\ f \in IF Exists(n) THEN {dir[n]} ELSE Unused
           /\ dir' = [dir EXCEPT ![n] = f] /\ data' = [data EXCEPT ![f] = Partial]
           /\ fd' = [fd EXCEPT ![i] = f] /\ version' = version
  BY DEF TypeOK, Truncate, Exists, Unused

LEMMA TypeStep == TypeOK /\ Running /\ [Next]_vars => TypeOK' /\ Running'
<1> SUFFICES ASSUME TypeOK, Running, [Next]_vars PROVE TypeOK' /\ Running'
  OBVIOUS
<1> USE ConstantsTyped
<1>1. CASE UNCHANGED vars
  BY <1>1 DEF vars, disk, imps, TypeOK, Running, Busy
<1>2. CASE Edit
  <2>1. edits + 1 \in Contents /\ edits' \in 0..MaxEdits /\ data' \in [Files -> Contents]
    BY <1>2, BoundsOK DEF Edit, TypeOK
  <2> QED BY <1>2, <2>1 DEF Edit, TypeOK, Running, Busy, imps
<1>3. CASE Crash
  BY <1>3, BoundsOK DEF Crash, Fault, TypeOK, Running, Busy, disk, Steps
<1>4. CASE Start
  BY <1>4, Opens DEF Start, TypeOK, Running, Busy, imps
<1>5. CASE MigrateAtStart
  BY <1>5 DEF MigrateAtStart, Migrated, TypeOK, Running, Busy, imps
<1>6. CASE Listen
  BY <1>6 DEF Listen, Serves, TypeOK, Running, Busy, imps, disk
<1>7. ASSUME NEW i \in Importers, Receive(i) PROVE TypeOK' /\ Running'
  BY <1>7, BoundsOK DEF Receive, At, Go, TypeOK, Running, Busy, disk, Steps
<1>8. ASSUME NEW i \in Importers, Close(i) \/ Stat(i) PROVE TypeOK' /\ Running'
  BY <1>8 DEF Close, Stat, At, Go, Others, TypeOK, Running, Busy, disk, Steps
<1>9. ASSUME NEW i \in Importers, BeginWrite(i) PROVE TypeOK' /\ Running'
  <2>1. PICK f \in Files : /\ dir' = [dir EXCEPT !["tmp"] = f] /\ data' = [data EXCEPT ![f] = Partial]
                           /\ fd' = [fd EXCEPT ![i] = f] /\ version' = version
    BY <1>9, Truncates DEF BeginWrite, Names
  <2> QED BY <1>9, <2>1 DEF BeginWrite, At, Go, Others, TypeOK, Running, Busy, Steps, Names
<1>10. ASSUME NEW i \in Importers, EndWrite(i) PROVE TypeOK' /\ Running'
  BY <1>10 DEF EndWrite, At, Go, Others, TypeOK, Running, Busy, Steps
<1>11. ASSUME NEW i \in Importers, WriteFails(i) PROVE TypeOK' /\ Running'
  BY <1>11, BoundsOK DEF WriteFails, At, Go, Fault, Others, TypeOK, Running, Busy, disk, Steps
<1>12. ASSUME NEW i \in Importers,
              DropBak(i) \/ MoveAside(i) \/ Install(i) \/ PutBack(i) \/ Discard(i) \/ Restore(i)
       PROVE  TypeOK' /\ Running'
  <2>1. faults' \in 0..MaxFaults
    BY <1>12, BoundsOK DEF DropBak, MoveAside, Install, PutBack, Discard, Restore, Fault, TypeOK
  <2>2. dir' \in [Names -> Files \cup {None}]
    BY <1>12 DEF DropBak, MoveAside, Install, PutBack, Discard, Restore, Rename, Unlink, TypeOK, Names
  <2>3. /\ \E s \in Steps \ {"finish", "migrate", "remigrate"} : pc' = [pc EXCEPT ![i] = s]
        /\ At(i, "dropBak") \/ At(i, "moveAside") \/ At(i, "install") \/ At(i, "putBack")
             \/ At(i, "discard") \/ At(i, "restore")
        /\ UNCHANGED <<data, version, db, fd, current>> /\ Others
    BY <1>12 DEF DropBak, MoveAside, Install, PutBack, Discard, Restore, Go, Steps
  <2> QED BY <2>1, <2>2, <2>3 DEF At, Others, TypeOK, Running, Busy, Steps
<1>13. ASSUME NEW i \in Importers, Open(i) \/ Reopen(i) PROVE TypeOK' /\ Running'
  <2>1. faults' \in 0..MaxFaults
    BY <1>13, BoundsOK DEF Open, Reopen, Fault, TypeOK
  <2>2. CASE \E f \in Files : /\ OpenMakes(f) /\ fd' = [fd EXCEPT ![i] = f]
                              /\ current' = [current EXCEPT ![i] = version'[f]]
                              /\ \E s \in {"migrate", "remigrate"} : Go(i, s)
    BY <1>13, <2>1, <2>2, Opens DEF Open, Reopen, At, Go, Others, TypeOK, Running, Busy, Steps
  <2>3. CASE UNCHANGED <<disk, fd, current>> /\ \E s \in {"discard", "idle"} : Go(i, s)
    BY <1>13, <2>1, <2>3 DEF Open, Reopen, At, Go, Others, TypeOK, Running, Busy, Steps, disk
  <2> QED BY <1>13, <2>2, <2>3 DEF Open, Reopen
<1>14. ASSUME NEW i \in Importers, Migrate(i) PROVE TypeOK' /\ Running'
  BY <1>14 DEF Migrate, Migrated, Migrating, At, Others, TypeOK, Running, Busy
<1>15. ASSUME NEW i \in Importers, MigrateFails(i) PROVE TypeOK' /\ Running'
  <2>1. faults' \in 0..MaxFaults
    BY <1>15, BoundsOK DEF MigrateFails, Fault, TypeOK
  <2> QED BY <1>15, <2>1 DEF MigrateFails, Migrating, At, Go, Others, TypeOK, Running, Busy, disk, Steps
<1>16. ASSUME NEW i \in Importers, Serve(i) PROVE TypeOK' /\ Running'
  BY <1>16 DEF Serve, Serves, Migrating, At, Go, TypeOK, Running, Busy, disk, Steps
<1> QED BY <1>1, <1>2, <1>3, <1>4, <1>5, <1>6, <1>7, <1>8, <1>9, <1>10, <1>11, <1>12, <1>13, <1>14,
           <1>15, <1>16 DEF Next, Step

(* Names and connections lead to files (DbReplace!TypeOK), however imports meet and *)
(* wherever the process stops (internal/store/backup.go:16).                       *)
THEOREM FilesTyped == Spec => []TypeOK
<1> QED BY TypeInit, TypeStep, PTL DEF Spec
-----------------------------------------------------------------------------
(* One import at a time *)

Holds(n) == Exists(n) /\ data[dir[n]] = kept
Somewhere == Holds("main") \/ Holds("bak")

(* Where the contents are kept at each step of an import, and which file it has open. *)
Placed(i) ==
  /\ pc[i] \in {"close", "write", "finish", "stat", "dropBak", "moveAside"} => Holds("main")
  /\ pc[i] \in {"install", "putBack", "open", "migrate", "discard", "restore"} => Holds("bak")
  /\ pc[i] = "finish" => fd[i] = dir["tmp"]
  /\ pc[i] \in {"migrate", "remigrate"} => fd[i] = dir["main"] /\ version[fd[i]] = current[i]
  /\ pc[i] # "close" => db = None

Served == db # None => /\ db = dir["main"]
                       /\ process = "up" => data[db] \in {Fresh, kept} /\ version[db] >= Newest

Alone == \A i, j \in Importers : Busy(i) /\ Busy(j) => i = j
OneImport == Alone /\ Somewhere /\ Served /\ \A i \in Importers : Busy(i) => Placed(i)

(* No file has two names. *)
Apart == \A a, b \in Names : a # b /\ dir[a] = dir[b] => dir[a] = None

Good == TypeOK /\ Running /\ Apart
Safe == Good /\ kept # Fresh /\ (~met => OneImport)

(* What opening, writing, renaming and removing leave alone. *)
LEMMA Names3 == Names = {"main", "bak", "tmp"} /\ Files \subseteq Nat \ {0} /\ None = 0
  BY BoundsOK DEF Names, Files, None

LEMMA OpenKeeps ==
  ASSUME Good, NEW f \in Files, OpenMakes(f)
  PROVE  /\ Apart' /\ dir'["main"] = f /\ dir'["bak"] = dir["bak"] /\ dir'["tmp"] = dir["tmp"]
         /\ Exists("bak") => data'[dir["bak"]] = data[dir["bak"]]
         /\ Exists("main") => f = dir["main"] /\ data' = data
         /\ f \notin {dir["bak"], dir["tmp"]}
  BY Names3 DEF Good, TypeOK, Apart, OpenMakes, Exists, Unused

LEMMA TruncateKeeps ==
  ASSUME Good, NEW i \in Importers, Truncate(i, "tmp")
  PROVE  /\ Apart' /\ dir'["main"] = dir["main"] /\ dir'["bak"] = dir["bak"]
         /\ fd'[i] = dir'["tmp"]
         /\ Exists("main") => data'[dir["main"]] = data[dir["main"]]
<1>1. PICK f \in Files :
        /\ f \in IF Exists("tmp") THEN {dir["tmp"]} ELSE Unused
        /\ dir' = [dir EXCEPT !["tmp"] = f] /\ data' = [data EXCEPT ![f] = Partial]
        /\ fd' = [fd EXCEPT ![i] = f] /\ version' = version
  BY Names3, Truncates DEF Good
<1>2. f # dir["main"] /\ f # dir["bak"]
  BY <1>1, Names3 DEF Good, TypeOK, Apart, Exists, Unused
<1> QED BY <1>1, <1>2, Names3 DEF Good, TypeOK, Apart, Exists

LEMMA RenameKeeps ==
  ASSUME Good, NEW a \in Names, NEW b \in Names, a # b, Rename(a, b)
  PROVE  /\ Apart' /\ dir'[b] = dir[a] /\ dir'[a] = None
         /\ \A n \in Names \ {a, b} : dir'[n] = dir[n]
  BY DEF Good, TypeOK, Apart, Rename

LEMMA UnlinkKeeps ==
  ASSUME Good, NEW a \in Names, Unlink(a)
  PROVE  /\ Apart' /\ dir'[a] = None /\ \A n \in Names \ {a} : dir'[n] = dir[n]
  BY DEF Good, TypeOK, Apart, Unlink

(* What is to be shown of a step of the one import. *)
LEMMA OnlyOne ==
  ASSUME Safe, ~met, NEW i \in Importers, Busy(i), NEW s \in Steps, pc' = [pc EXCEPT ![i] = s],
         Somewhere', Served', s # "idle" => Placed(i)'
  PROVE  OneImport'
<1>1. \A j \in Importers : j # i => pc'[j] = "idle"
  BY DEF Safe, Good, TypeOK, OneImport, Alone, Busy
<1>2. pc'[i] = s
  BY DEF Safe, Good, TypeOK
<1> QED BY <1>1, <1>2 DEF OneImport, Alone, Busy

LEMMA SafeInit == Init => Safe
<1> SUFFICES ASSUME Init PROVE Safe
  OBVIOUS
<1>1. TypeOK /\ Running
  BY TypeInit
<1>2. 1 \in Files /\ 1 # None /\ Original # Fresh
  BY BoundsOK, ConstantsTyped DEF Files, None
<1>3. Apart
  BY Names3 DEF Init, Apart
<1>4. OneImport
  BY <1>2, Names3, BoundsOK, ArchivesOK DEF Init, OneImport, Alone, Busy, Somewhere, Holds, Exists, Served
<1> QED BY <1>1, <1>2, <1>3, <1>4 DEF Safe, Good, Init

(* Steps that are not an import's. *)
LEMMA OtherSteps ==
  ASSUME Safe, Edit \/ Crash \/ Start \/ MigrateAtStart \/ Listen
  PROVE  Apart' /\ kept' # Fresh /\ (~met' => OneImport')
<1> USE Names3
<1>1. CASE Edit
  <2>1. Apart' /\ edits + 1 \in Nat /\ kept' # Fresh
    BY <1>1, ConstantsTyped DEF Edit, Safe, Good, Apart, TypeOK
  <2>2. ASSUME ~met' PROVE OneImport'
    <3>1. OneImport /\ db = dir["main"] /\ db \in Files /\ data'[db] = kept' /\ dir' = dir /\ pc' = pc
      BY <1>1, <2>2 DEF Edit, Safe, Good, TypeOK, OneImport, Served, imps
    <3>2. \A i \in Importers : Busy(i) => pc[i] = "close"
      BY <1>1, <3>1 DEF Edit, OneImport, Placed
    <3>3. Holds("main")'
      BY <3>1 DEF Holds, Exists
    <3>4. Served'
      BY <1>1, <3>1 DEF Edit, OneImport, Served
    <3> QED BY <3>1, <3>2, <3>3, <3>4 DEF OneImport, Alone, Busy, Somewhere, Placed
  <2> QED BY <2>1, <2>2
<1>2. CASE Crash
  BY <1>2 DEF Crash, Safe, Good, Apart, disk, OneImport, Alone, Busy, Somewhere, Holds, Exists, Served
<1>3. CASE Start
  <2>1. PICK f \in Files : OpenMakes(f) /\ db' = f
    BY <1>3 DEF Start
  <2>2. \A i \in Importers : ~Busy(i)
    BY <1>3 DEF Start, Safe, Good, Running
  <2>3. Apart' /\ kept' # Fresh
    BY <1>3, <2>1, OpenKeeps DEF Start, Safe
  <2>4. ASSUME ~met' PROVE Somewhere'
    BY <1>3, <2>1, <2>4, OpenKeeps DEF Start, Safe, OneImport, Somewhere, Holds, Exists
  <2>5. Served'
    BY <1>3, <2>1, OpenKeeps DEF Start, Safe, Served
  <2> QED BY <1>3, <2>2, <2>3, <2>4, <2>5 DEF Start, OneImport, Alone, Busy, imps
<1>4. CASE MigrateAtStart
  BY <1>4 DEF MigrateAtStart, Migrated, Safe, Good, Running, Apart, imps, OneImport, Alone, Busy, Somewhere,
              Holds, Exists, Served
<1>5. CASE Listen
  <2>1. Apart' /\ kept' # Fresh
    BY <1>5 DEF Listen, Serves, Safe, Good, Apart, disk
  <2>2. \A i \in Importers : ~Busy(i)
    BY <1>5 DEF Listen, Safe, Good, Running
  <2>3. ASSUME ~met' PROVE Somewhere' /\ Served'
    <3>1. db \in Files /\ db = dir["main"] /\ Somewhere
          /\ dir' = dir /\ data' = data /\ version' = version /\ db' = db
      BY <1>5, <2>3 DEF Listen, Safe, Good, TypeOK, OneImport, Served, disk
    <3>2. version[db] \in Nat /\ Newest \in Nat /\ ~(version[db] < Newest)
      BY <1>5, <3>1, ConstantsTyped DEF Listen, Pending, Safe, Good, TypeOK
    <3>3. version[db] >= Newest
      BY <3>2
    <3> QED BY <1>5, <3>1, <3>3 DEF Listen, Serves, Somewhere, Holds, Exists, Served
  <2> QED BY <1>5, <2>1, <2>2, <2>3 DEF Listen, OneImport, Alone, Busy, imps
<1> QED BY <1>1, <1>2, <1>3, <1>4, <1>5

LEMMA ReceiveStep ==
  ASSUME Safe, NEW i \in Importers, Receive(i)
  PROVE  Apart' /\ kept' # Fresh /\ (~met' => OneImport')
<1>1. Apart' /\ kept' # Fresh
  BY DEF Receive, Safe, Good, Apart, disk
<1>2. ASSUME ~met' PROVE OneImport'
  <2>1. ~met /\ \A j \in Importers : ~Busy(j)
    BY <1>2 DEF Receive, Busy, Safe, Good, TypeOK
  <2>2. db # None /\ db = dir["main"] /\ data[db] = kept /\ pc' = [pc EXCEPT ![i] = "close"]
    BY <2>1 DEF Receive, At, Go, Safe, OneImport, Served
  <2>3. UNCHANGED <<disk, db, process, kept>>
    BY DEF Receive
  <2>4. Holds("main")' /\ Served'
    BY <2>1, <2>2, <2>3 DEF Holds, Exists, Served, Safe, OneImport, disk
  <2> QED BY <2>1, <2>2, <2>4 DEF OneImport, Alone, Busy, Somewhere, Placed, Safe, Good, TypeOK
<1> QED BY <1>1, <1>2

(* The steps of an import, but for what becomes of Alone. *)
LEMMA FileSteps ==
  ASSUME Safe, NEW i \in Importers,
         Close(i) \/ BeginWrite(i) \/ EndWrite(i) \/ WriteFails(i) \/ Stat(i) \/ DropBak(i)
           \/ MoveAside(i) \/ Install(i) \/ PutBack(i) \/ Discard(i) \/ Restore(i)
  PROVE  Apart' /\ kept' = kept /\ met' = met
         /\ (~met => Somewhere' /\ Served'
              /\ \E s \in Steps : pc' = [pc EXCEPT ![i] = s] /\ (s # "idle" => Placed(i)'))
<1> USE Names3
<1>a. pc \in [Importers -> Steps] /\ Busy(i)
  BY DEF Safe, Good, TypeOK, Busy, At, Close, BeginWrite, EndWrite, WriteFails, Stat, DropBak, MoveAside,
         Install, PutBack, Discard, Restore
<1>b. ~met => Placed(i)
  BY <1>a DEF Safe, OneImport
<1>1. CASE Close(i)
  <2>1. Apart' /\ kept' = kept /\ met' = met /\ UNCHANGED disk /\ db' = None
        /\ pc' = [pc EXCEPT ![i] = "write"] /\ pc[i] = "close"
    BY <1>1 DEF Close, Go, At, Others, Safe, Good, Apart, disk
  <2> QED BY <1>a, <1>b, <2>1 DEF Placed, Somewhere, Holds, Exists, Served, disk, Steps
<1>2. CASE BeginWrite(i)
  <2>1. Truncate(i, "tmp") /\ kept' = kept /\ met' = met /\ db' = db
        /\ pc' = [pc EXCEPT ![i] = "finish"] /\ pc[i] = "write"
    BY <1>2 DEF BeginWrite, Go, At, Others
  <2> QED BY <1>a, <1>b, <2>1, TruncateKeeps DEF Placed, Somewhere, Holds, Exists, Served, Steps, Safe
<1>3. CASE EndWrite(i)
  <2>1. Apart' /\ kept' = kept /\ met' = met /\ dir' = dir /\ db' = db /\ data' = [data EXCEPT ![fd[i]] = arg[i]]
        /\ pc' = [pc EXCEPT ![i] = "stat"] /\ pc[i] = "finish"
    BY <1>3 DEF EndWrite, Go, At, Others, Safe, Good, Apart
  <2>2. ~met => Holds("main")'
    <3> SUFFICES ASSUME ~met PROVE Holds("main")'
      OBVIOUS
    <3>1. fd[i] = dir["tmp"] /\ fd[i] \in Files /\ fd[i] # dir["main"] /\ dir["main"] \in Files
      BY <1>b, <2>1 DEF Placed, Holds, Exists, Safe, Good, Apart, TypeOK
    <3>2. data \in [Files -> Contents] /\ Holds("main")
      BY <1>b, <2>1 DEF Placed, Safe, Good, TypeOK
    <3> QED BY <2>1, <3>1, <3>2 DEF Holds, Exists
  <2> QED BY <1>a, <1>b, <2>1, <2>2 DEF Placed, Somewhere, Served, Steps
<1>4. CASE WriteFails(i)
  BY <1>4, <1>a, <1>b DEF WriteFails, Go, At, Others, Safe, Good, Apart, disk, Placed, Somewhere, Holds,
                          Exists, Served, Steps
<1>5. CASE Stat(i)
  <2>1. Apart' /\ kept' = kept /\ met' = met /\ UNCHANGED <<disk, db>> /\ pc[i] = "stat"
        /\ pc' = [pc EXCEPT ![i] = IF Exists("main") THEN "dropBak" ELSE "install"]
    BY <1>5 DEF Stat, Go, At, Others, Safe, Good, Apart, disk
  <2> QED BY <1>a, <1>b, <2>1 DEF Placed, Somewhere, Holds, Exists, Served, disk, Steps
<1>6. CASE DropBak(i)
  <2>1. kept' = kept /\ met' = met /\ UNCHANGED <<data, db>> /\ pc[i] = "dropBak"
        /\ pc' = [pc EXCEPT ![i] = "moveAside"]
    BY <1>6 DEF DropBak, Go, At, Others
  <2>2. Apart' /\ dir'["main"] = dir["main"]
    BY <1>6, UnlinkKeeps DEF DropBak, Safe, Good, Apart
  <2> QED BY <1>a, <1>b, <2>1, <2>2 DEF Placed, Somewhere, Holds, Exists, Served, Steps
<1>7. CASE MoveAside(i)
  <2>1. kept' = kept /\ met' = met /\ UNCHANGED <<data, db>> /\ pc[i] = "moveAside"
    BY <1>7 DEF MoveAside, At, Others
  <2>2. CASE Rename("main", "bak") /\ Go(i, "install")
    BY <1>a, <1>b, <2>1, <2>2, RenameKeeps DEF Go, Placed, Somewhere, Holds, Exists, Served, Steps, Safe
  <2>3. CASE Unlink("tmp") /\ Go(i, "idle")
    BY <1>a, <1>b, <2>1, <2>3, UnlinkKeeps DEF Go, Placed, Somewhere, Holds, Exists, Served, Steps, Safe
  <2> QED BY <1>7, <2>2, <2>3 DEF MoveAside
<1>8. CASE Install(i)
  <2>1. kept' = kept /\ met' = met /\ UNCHANGED <<data, db>> /\ pc[i] = "install"
    BY <1>8 DEF Install, At, Others
  <2>2. CASE Rename("tmp", "main") /\ Go(i, "open")
    BY <1>a, <1>b, <2>1, <2>2, RenameKeeps DEF Go, Placed, Somewhere, Holds, Exists, Served, Steps, Safe
  <2>3. CASE dir' = dir /\ Go(i, "putBack")
    BY <1>a, <1>b, <2>1, <2>3 DEF Go, Placed, Somewhere, Holds, Exists, Served, Steps, Safe, Good, Apart
  <2> QED BY <1>8, <2>2, <2>3 DEF Install
<1>9. CASE PutBack(i)
  <2>1. kept' = kept /\ met' = met /\ UNCHANGED <<data, db>> /\ pc[i] = "putBack"
        /\ pc' = [pc EXCEPT ![i] = "idle"]
    BY <1>9 DEF PutBack, At, Go, Others
  <2>2. CASE Rename("bak", "main")
    BY <1>a, <1>b, <2>1, <2>2, RenameKeeps DEF Placed, Somewhere, Holds, Exists, Served, Steps, Safe
  <2>3. CASE dir' = dir
    BY <1>a, <1>b, <2>1, <2>3 DEF Placed, Somewhere, Holds, Exists, Served, Steps, Safe, Good, Apart
  <2> QED BY <1>9, <2>2, <2>3 DEF PutBack
<1>10. CASE Discard(i)
  <2>1. kept' = kept /\ met' = met /\ UNCHANGED <<data, db>> /\ pc[i] = "discard"
        /\ pc' = [pc EXCEPT ![i] = IF Exists("bak") THEN "restore" ELSE "idle"]
    BY <1>10 DEF Discard, At, Go, Others
  <2>2. Apart' /\ dir'["bak"] = dir["bak"]
    BY <1>10, UnlinkKeeps DEF Discard, Safe, Good, Apart
  <2> QED BY <1>a, <1>b, <2>1, <2>2 DEF Placed, Somewhere, Holds, Exists, Served, Steps
<1>11. CASE Restore(i)
  <2>1. kept' = kept /\ met' = met /\ UNCHANGED <<data, db>> /\ pc[i] = "restore"
        /\ pc' = [pc EXCEPT ![i] = "reopen"]
    BY <1>11 DEF Restore, At, Go, Others
  <2>2. CASE Rename("bak", "main")
    BY <1>a, <1>b, <2>1, <2>2, RenameKeeps DEF Placed, Somewhere, Holds, Exists, Served, Steps, Safe
  <2>3. CASE dir' = dir
    BY <1>a, <1>b, <2>1, <2>3 DEF Placed, Somewhere, Holds, Exists, Served, Steps, Safe, Good, Apart
  <2> QED BY <1>11, <2>2, <2>3 DEF Restore
<1> QED BY <1>1, <1>2, <1>3, <1>4, <1>5, <1>6, <1>7, <1>8, <1>9, <1>10, <1>11

LEMMA OpenSteps ==
  ASSUME Safe, NEW i \in Importers, Open(i) \/ Reopen(i)
  PROVE  Apart' /\ kept' = kept /\ met' = met
         /\ (~met => Somewhere' /\ Served'
              /\ \E s \in Steps : pc' = [pc EXCEPT ![i] = s] /\ (s # "idle" => Placed(i)'))
<1> USE Names3
<1>1. pc \in [Importers -> Steps] /\ Busy(i) /\ (pc[i] = "open" \/ pc[i] = "reopen")
  BY DEF Safe, Good, TypeOK, Busy, At, Open, Reopen
<1>2. kept' = kept /\ met' = met /\ db' = db /\ (~met => Placed(i) /\ Somewhere)
  BY <1>1 DEF Open, Reopen, Others, Safe, OneImport
<1>3. ASSUME NEW f \in Files, OpenMakes(f), fd' = [fd EXCEPT ![i] = f],
             current' = [current EXCEPT ![i] = version'[f]],
             ((Open(i) /\ Go(i, "migrate")) \/ (Reopen(i) /\ Go(i, "remigrate")))
      PROVE  Apart' /\ (~met => Somewhere' /\ Served'
               /\ \E s \in Steps : pc' = [pc EXCEPT ![i] = s] /\ (s # "idle" => Placed(i)'))
  <2>1. fd'[i] = dir'["main"] /\ version'[fd'[i]] = current'[i]
    BY <1>3, OpenKeeps DEF Safe, Good, TypeOK
  <2>2. /\ Apart' /\ (Holds("bak") => Holds("bak")') /\ (Holds("main") => Holds("main")')
    BY <1>2, <1>3, OpenKeeps DEF Safe, Holds, Exists
  <2>3. \/ pc[i] = "open" /\ pc' = [pc EXCEPT ![i] = "migrate"]
        \/ pc[i] = "reopen" /\ pc' = [pc EXCEPT ![i] = "remigrate"]
    BY <1>3 DEF Open, Reopen, At, Go
  <2> QED BY <1>1, <1>2, <2>1, <2>2, <2>3 DEF Placed, Somewhere, Served, Steps
<1>4. ASSUME UNCHANGED disk, (Open(i) /\ Go(i, "discard")) \/ (Reopen(i) /\ Go(i, "idle"))
      PROVE  Apart' /\ (~met => Somewhere' /\ Served'
               /\ \E s \in Steps : pc' = [pc EXCEPT ![i] = s] /\ (s # "idle" => Placed(i)'))
  <2>1. \/ pc[i] = "open" /\ pc' = [pc EXCEPT ![i] = "discard"]
        \/ pc[i] = "reopen" /\ pc' = [pc EXCEPT ![i] = "idle"]
    BY <1>4 DEF Open, Reopen, At, Go
  <2> QED BY <1>1, <1>2, <1>4, <2>1 DEF Placed, Somewhere, Holds, Exists, Served, disk, Steps, Safe, Good, Apart
<1>5. \/ \E f \in Files : /\ OpenMakes(f) /\ fd' = [fd EXCEPT ![i] = f]
                          /\ current' = [current EXCEPT ![i] = version'[f]]
                          /\ ((Open(i) /\ Go(i, "migrate")) \/ (Reopen(i) /\ Go(i, "remigrate")))
      \/ UNCHANGED disk /\ ((Open(i) /\ Go(i, "discard")) \/ (Reopen(i) /\ Go(i, "idle")))
  <2>1. Open(i) =>
          \/ \E f \in Files : /\ OpenMakes(f) /\ fd' = [fd EXCEPT ![i] = f]
                              /\ current' = [current EXCEPT ![i] = version'[f]] /\ Go(i, "migrate")
          \/ UNCHANGED disk /\ Go(i, "discard")
    BY Zenon DEF Open, disk
  <2>2. Reopen(i) =>
          \/ \E f \in Files : /\ OpenMakes(f) /\ fd' = [fd EXCEPT ![i] = f]
                              /\ current' = [current EXCEPT ![i] = version'[f]] /\ Go(i, "remigrate")
          \/ UNCHANGED disk /\ Go(i, "idle")
    BY Zenon DEF Reopen, disk
  <2> QED BY <2>1, <2>2
<1> QED BY <1>2, <1>3, <1>4, <1>5

LEMMA MigrationSteps ==
  ASSUME Safe, NEW i \in Importers, Migrate(i) \/ MigrateFails(i) \/ Serve(i)
  PROVE  Apart' /\ kept' # Fresh /\ met' = met
         /\ (~met => Somewhere' /\ Served'
              /\ \E s \in Steps : pc' = [pc EXCEPT ![i] = s] /\ (s # "idle" => Placed(i)'))
<1> USE Names3
<1>1. /\ pc \in [Importers -> Steps] /\ Busy(i) /\ pc[i] \in {"migrate", "remigrate"}
      /\ fd[i] \in Files /\ version \in [Files -> Nat] /\ current \in [Importers -> Nat]
      /\ kept # Fresh /\ Newest \in Nat
  BY ConstantsTyped DEF Safe, Good, TypeOK, Busy, At, Migrating, Migrate, MigrateFails, Serve
<1>2. ~met => Placed(i) /\ Somewhere
  BY <1>1 DEF Safe, OneImport
<1>3. CASE Migrate(i)
  <2>1. /\ kept' = kept /\ met' = met /\ db' = db /\ dir' = dir /\ data' = data
        /\ pc' = pc /\ fd' = fd
        /\ version[fd[i]] = current[i] /\ version' = [version EXCEPT ![fd[i]] = @ + 1]
        /\ current' = [current EXCEPT ![i] = @ + 1]
    BY <1>3 DEF Migrate, Migrated, Others
  <2>2. version'[fd[i]] = current'[i]
    BY <1>1, <2>1
  <2>3. pc' = [pc EXCEPT ![i] = pc[i]] /\ Apart'
    BY <1>1, <2>1 DEF Safe, Good, Apart
  <2>4. ~met => Placed(i)' /\ Somewhere' /\ Served'
    BY <1>1, <1>2, <2>1, <2>2 DEF Placed, Somewhere, Holds, Exists, Served
  <2> QED BY <1>1, <2>1, <2>3, <2>4
<1>4. CASE MigrateFails(i)
  <2>1. /\ kept' = kept /\ met' = met /\ db' = db /\ UNCHANGED disk
        /\ \E s \in {"discard", "idle"} : pc' = [pc EXCEPT ![i] = s] /\ (s = "discard" => pc[i] = "migrate")
    BY <1>4 DEF MigrateFails, Go, At, Others
  <2>2. Apart'
    BY <2>1 DEF Safe, Good, Apart, disk
  <2> QED BY <1>1, <1>2, <2>1, <2>2 DEF Placed, Somewhere, Holds, Exists, Served, disk, Steps
<1>5. CASE Serve(i)
  <2>1. /\ met' = met /\ UNCHANGED disk /\ process' = process /\ pc' = [pc EXCEPT ![i] = "idle"]
        /\ db' = fd[i] /\ kept' = (IF data[fd[i]] = Fresh THEN kept ELSE data[fd[i]])
        /\ ~(current[i] < Newest)
    BY <1>5 DEF Serve, Serves, Go, Pending
  <2>2. current[i] >= Newest
    BY <1>1, <2>1
  <2>3. Apart' /\ kept' # Fresh
    BY <1>1, <2>1 DEF Safe, Good, Apart, disk
  <2>4. ~met => Somewhere' /\ Served'
    BY <1>1, <1>2, <2>1, <2>2 DEF Placed, Somewhere, Holds, Exists, Served, disk
  <2> QED BY <1>1, <2>1, <2>3, <2>4 DEF Steps
<1> QED BY <1>3, <1>4, <1>5

LEMMA SafeStep == Safe /\ [Next]_vars => Safe'
<1> SUFFICES ASSUME Safe, [Next]_vars PROVE Safe'
  OBVIOUS
<1>1. TypeOK' /\ Running'
  BY TypeStep DEF Safe, Good
<1>2. CASE UNCHANGED vars
  BY <1>1, <1>2 DEF vars, disk, imps, Safe, Good, Apart, OneImport, Alone, Busy, Somewhere, Holds, Exists,
                    Served, Placed
<1>3. CASE Edit \/ Crash \/ Start \/ MigrateAtStart \/ Listen
  BY <1>1, <1>3, OtherSteps DEF Safe, Good
<1>4. ASSUME NEW i \in Importers, Receive(i) PROVE Safe'
  BY <1>1, <1>4, ReceiveStep DEF Safe, Good
<1>5. ASSUME NEW i \in Importers, Step(i) PROVE Safe'
  <2>1. Apart' /\ kept' # Fresh /\ met' = met
        /\ (~met => Somewhere' /\ Served'
             /\ \E s \in Steps : pc' = [pc EXCEPT ![i] = s] /\ (s # "idle" => Placed(i)'))
    BY <1>5, FileSteps, OpenSteps, MigrationSteps DEF Step, Safe
  <2>2. Busy(i)
    BY <1>5 DEF Step, Close, BeginWrite, EndWrite, WriteFails, Stat, DropBak, MoveAside, Install,
                PutBack, Open,
                Migrate, MigrateFails, Serve, Discard, Restore, Reopen, Migrating, At, Busy
  <2>3. ~met => OneImport'
    BY <2>1, <2>2, OnlyOne
  <2> QED BY <1>1, <2>1, <2>3 DEF Safe, Good
<1> QED BY <1>2, <1>3, <1>4, <1>5 DEF Next

(* Of imports one at a time, whatever fails and wherever the process dies: what users *)
(* last worked on is under main or bak (DbReplace!NothingLost), which is what        *)
(* internal/store/backup.go:27 keeps the bak for.                                   *)
THEOREM KeptSomewhere == Spec => []NothingLost
<1>1. Safe => NothingLost
  BY DEF Safe, OneImport, Somewhere, Holds, NothingLost
<1> QED BY <1>1, SafeInit, SafeStep, PTL DEF Spec

(* No request works on a database short of a migration (DbReplace!ServesMigrated): the *)
(* version an import has migrated to is that of the file it serves, as nobody else    *)
(* opens it meanwhile (internal/db/migrate.go:15).                                    *)
THEOREM WorksMigrated == Spec => []ServesMigrated
<1>1. Safe => ServesMigrated
  BY DEF Safe, OneImport, Served, ServesMigrated
<1> QED BY <1>1, SafeInit, SafeStep, PTL DEF Spec
-----------------------------------------------------------------------------
(* Without faults *)

Idle(s) == s \in {"idle", "close"}

(* What is under the names of the tmp and the database, and that no system call fails. *)
Settling(i) ==
  /\ pc[i] \in {"stat", "dropBak", "moveAside", "install"} =>
       Exists("tmp") /\ data[dir["tmp"]] = arg[i]
  /\ pc[i] \in {"open", "migrate"} => Exists("main") /\ data[dir["main"]] = arg[i]
  /\ pc[i] = "migrate" => arg[i] \in Readable
  /\ pc[i] \in {"reopen", "remigrate"} => Holds("main")
  /\ pc[i] # "putBack"

Settled == /\ process = "up" /\ kept \in Readable
           /\ (\A i \in Importers : Idle(pc[i])) => db # None /\ data[db] = kept
           /\ \A i \in Importers : Busy(i) => Settling(i)
Quiet == ~met /\ faults = 0

LEMMA OnlyOneSettles ==
  ASSUME Safe, ~met, NEW i \in Importers, Busy(i), NEW s \in Steps, pc' = [pc EXCEPT ![i] = s],
         process' = "up", kept' \in Readable, s # "idle" => Settling(i)',
         Idle(s) => db' # None /\ data'[db'] = kept'
  PROVE  Settled'
<1>1. \A j \in Importers : j # i => pc'[j] = "idle"
  BY DEF Safe, Good, TypeOK, OneImport, Alone, Busy
<1>2. pc'[i] = s
  BY DEF Safe, Good, TypeOK
<1> QED BY <1>1, <1>2 DEF Settled, Busy

LEMMA NoFault == TypeOK /\ faults' = 0 => ~Fault
  BY BoundsOK DEF TypeOK, Fault

LEMMA QuietBefore == TypeOK /\ Quiet' /\ [Next]_vars => Quiet
<1> SUFFICES ASSUME TypeOK, Quiet', [Next]_vars PROVE Quiet
  OBVIOUS
<1>1. faults \in Nat /\ ~Fault
  BY NoFault, BoundsOK DEF TypeOK, Quiet
<1>2. (met' = met \/ \E j \in Importers : met' = (met \/ \E k \in Importers : pc[k] # "idle")) /\ faults' = faults
  <2>1. CASE UNCHANGED vars
    BY <2>1 DEF vars
  <2>2. CASE Edit \/ Crash \/ Start \/ MigrateAtStart \/ Listen
    BY <1>1, <2>2 DEF Edit, Crash, Start, MigrateAtStart, Listen
  <2>3. ASSUME NEW i \in Importers, Receive(i) \/ Step(i)
        PROVE  (met' = met \/ met' = (met \/ \E k \in Importers : pc[k] # "idle")) /\ faults' = faults
    BY <1>1, <2>3 DEF Receive, Step, Close, BeginWrite, EndWrite, WriteFails, Stat, DropBak, MoveAside,
                      Install,
                      PutBack, Open, Migrate, MigrateFails, Serve, Discard, Restore, Reopen, Others
  <2> QED BY <2>1, <2>2, <2>3 DEF Next
<1>3. met \in BOOLEAN
  BY DEF TypeOK
<1> QED BY <1>2, <1>3 DEF Quiet

LEMMA SettledInit == Init => Settled
<1> SUFFICES ASSUME Init PROVE Settled
  OBVIOUS
<1> QED BY ConstantsTyped, BoundsOK DEF Init, Settled, Idle, Busy, None, Files

(* Before an archive is put in place. *)
LEMMA SettlingWrite ==
  ASSUME Safe, Settled, Quiet, ~Fault, NEW i \in Importers,
         Close(i) \/ BeginWrite(i) \/ EndWrite(i) \/ WriteFails(i) \/ Stat(i) \/ DropBak(i)
           \/ MoveAside(i) \/ Install(i) \/ PutBack(i)
  PROVE  \E s \in Steps : s # "idle" /\ ~Idle(s) /\ pc' = [pc EXCEPT ![i] = s] /\ Settling(i)'
<1> USE Names3
<1>a. pc \in [Importers -> Steps] /\ arg \in [Importers -> Archives \cup {Original}] /\ arg' = arg /\ Busy(i)
  BY DEF Safe, Good, TypeOK, Busy, Others, At, Close, BeginWrite, EndWrite, WriteFails, Stat, DropBak,
         MoveAside,
         Install, PutBack
<1>b. Placed(i) /\ Settling(i)
  BY <1>a DEF Safe, OneImport, Quiet, Settled
<1>1. CASE Close(i)
  <2>1. pc' = [pc EXCEPT ![i] = "write"]
    BY <1>1 DEF Close, Go
  <2> QED BY <1>a, <2>1 DEF Settling, Steps, Idle
<1>2. CASE BeginWrite(i)
  <2>1. pc' = [pc EXCEPT ![i] = "finish"]
    BY <1>2 DEF BeginWrite, Go
  <2> QED BY <1>a, <2>1 DEF Settling, Steps, Idle
<1>3. CASE EndWrite(i)
  <2>1. /\ dir' = dir /\ data' = [data EXCEPT ![fd[i]] = arg[i]] /\ pc' = [pc EXCEPT ![i] = "stat"]
        /\ pc[i] = "finish"
    BY <1>3 DEF EndWrite, Go, At
  <2>2. fd[i] = dir["tmp"] /\ fd[i] \in Files /\ data \in [Files -> Contents]
    BY <1>a, <1>b, <2>1 DEF Placed, Safe, Good, TypeOK
  <2> QED BY <1>a, <2>1, <2>2 DEF Settling, Exists, Steps, Idle
<1>4. CASE WriteFails(i)
  BY <1>4 DEF WriteFails
<1>5. CASE Stat(i)
  <2>1. UNCHANGED disk /\ pc[i] = "stat" /\ \E s \in {"dropBak", "install"} : pc' = [pc EXCEPT ![i] = s]
    BY <1>5 DEF Stat, Go, At
  <2> QED BY <1>a, <1>b, <2>1 DEF Settling, Exists, disk, Steps, Idle
<1>6. CASE DropBak(i)
  <2>1. data' = data /\ pc[i] = "dropBak" /\ pc' = [pc EXCEPT ![i] = "moveAside"]
    BY <1>6 DEF DropBak, Go, At
  <2>2. dir'["tmp"] = dir["tmp"]
    BY <1>6, UnlinkKeeps DEF DropBak, Safe
  <2> QED BY <1>a, <1>b, <2>1, <2>2 DEF Settling, Exists, Steps, Idle
<1>7. CASE MoveAside(i)
  <2>1. data' = data /\ pc[i] = "moveAside"
    BY <1>7 DEF MoveAside, At
  <2>2. Exists("main")
    BY <1>b, <2>1 DEF Placed, Holds
  <2>3. Rename("main", "bak") /\ pc' = [pc EXCEPT ![i] = "install"]
    BY <1>7, <2>2 DEF MoveAside, Go
  <2>4. dir'["tmp"] = dir["tmp"]
    BY <2>3, RenameKeeps DEF Safe
  <2> QED BY <1>a, <1>b, <2>1, <2>3, <2>4 DEF Settling, Exists, Steps, Idle
<1>8. CASE Install(i)
  <2>1. data' = data /\ pc[i] = "install"
    BY <1>8 DEF Install, At
  <2>2. Exists("tmp")
    BY <1>b, <2>1 DEF Settling
  <2>3. Rename("tmp", "main") /\ pc' = [pc EXCEPT ![i] = "open"]
    BY <1>8, <2>2 DEF Install, Go
  <2>4. dir'["main"] = dir["tmp"]
    BY <2>3, RenameKeeps DEF Safe
  <2> QED BY <1>a, <1>b, <2>1, <2>3, <2>4 DEF Settling, Exists, Steps, Idle
<1>9. CASE PutBack(i)
  BY <1>9, <1>b DEF PutBack, At, Settling
<1> QED BY <1>1, <1>2, <1>3, <1>4, <1>5, <1>6, <1>7, <1>8, <1>9

(* Once it is in place. *)
LEMMA SettlingOpen ==
  ASSUME Safe, Settled, Quiet, ~Fault, NEW i \in Importers,
         Open(i) \/ Reopen(i) \/ Migrate(i) \/ MigrateFails(i) \/ Serve(i) \/ Discard(i) \/ Restore(i)
  PROVE  /\ kept' \in Readable
         /\ \E s \in Steps : /\ pc' = [pc EXCEPT ![i] = s] /\ (s # "idle" => Settling(i)')
                             /\ Idle(s) => db' # None /\ data'[db'] = kept'
<1> USE Names3
<1>a. /\ pc \in [Importers -> Steps] /\ arg \in [Importers -> Archives \cup {Original}] /\ arg' = arg
      /\ Busy(i) /\ arg[i] \in Archives /\ kept \in Readable /\ kept # Fresh
  BY DEF Safe, Good, Running, TypeOK, Busy, Others, At, Open, Reopen, Migrate, MigrateFails, Serve,
         Discard, Restore,
         Migrating, Settled
<1>b. Placed(i) /\ Settling(i)
  BY <1>a DEF Safe, OneImport, Quiet, Settled
<1>1. CASE Open(i)
  <2>1. pc[i] = "open" /\ kept' = kept /\ Exists("main") /\ data[dir["main"]] = arg[i]
    BY <1>1, <1>b DEF Open, At, Others, Settling
  <2>2. ASSUME NEW f \in Files, OpenMakes(f), pc' = [pc EXCEPT ![i] = "migrate"]
        PROVE  Settling(i)'
    <3>1. data' = data /\ dir'["main"] = dir["main"] /\ data[dir["main"]] \in Readable
      BY <2>1, <2>2, OpenKeeps DEF Safe, OpenMakes
    <3> QED BY <1>a, <2>1, <2>2, <3>1 DEF Settling, Exists
  <2>3. \/ \E f \in Files : OpenMakes(f) /\ pc' = [pc EXCEPT ![i] = "migrate"]
        \/ pc' = [pc EXCEPT ![i] = "discard"]
    BY <1>1 DEF Open, Go
  <2>4. pc' = [pc EXCEPT ![i] = "discard"] => Settling(i)'
    BY <1>a DEF Settling
  <2> QED BY <1>a, <2>1, <2>2, <2>3, <2>4 DEF Idle, Steps
<1>2. CASE Reopen(i)
  <2>1. kept' = kept /\ Holds("main")
    BY <1>2, <1>b DEF Reopen, At, Others, Settling
  <2>2. ~OpenFails
    BY <1>a, <2>1 DEF OpenFails, Holds
  <2>3. PICK f \in Files : OpenMakes(f) /\ pc' = [pc EXCEPT ![i] = "remigrate"]
    BY <1>2, <2>2 DEF Reopen, Go
  <2>4. Holds("main")'
    BY <2>1, <2>3, OpenKeeps DEF Safe, Holds, Exists
  <2> QED BY <1>a, <2>1, <2>3, <2>4 DEF Settling, Idle, Steps
<1>3. CASE Migrate(i)
  <2>1. kept' = kept /\ dir' = dir /\ data' = data /\ pc' = pc /\ pc[i] \in {"migrate", "remigrate"}
    BY <1>3 DEF Migrate, Migrated, Migrating, At, Others
  <2>2. pc' = [pc EXCEPT ![i] = pc[i]]
    BY <1>a, <2>1
  <2>3. Settling(i)'
    BY <1>a, <1>b, <2>1 DEF Settling, Holds, Exists
  <2> QED BY <1>a, <2>1, <2>2, <2>3 DEF Idle
<1>4. CASE MigrateFails(i)
  BY <1>4, <1>b DEF MigrateFails, Migrating, At, Placed
<1>5. CASE Serve(i)
  <2>1. /\ UNCHANGED disk /\ pc' = [pc EXCEPT ![i] = "idle"] /\ pc[i] \in {"migrate", "remigrate"}
        /\ db' = fd[i] /\ kept' = (IF data[fd[i]] = Fresh THEN kept ELSE data[fd[i]])
    BY <1>5 DEF Serve, Serves, Migrating, At, Go
  <2>2. fd[i] \in Files /\ fd[i] = dir["main"]
    BY <1>b, <2>1 DEF Placed, Safe, Good, TypeOK
  <2>3. data[fd[i]] \in Readable /\ data[fd[i]] # Fresh
    BY <1>a, <1>b, <2>1, <2>2, ConstantsTyped DEF Settling, Holds
  <2> QED BY <2>1, <2>2, <2>3 DEF disk, Steps
<1>6. CASE Discard(i)
  <2>1. kept' = kept /\ pc[i] = "discard"
        /\ pc' = [pc EXCEPT ![i] = IF Exists("bak") THEN "restore" ELSE "idle"]
    BY <1>6 DEF Discard, At, Go, Others
  <2>2. Exists("bak")
    BY <1>b, <2>1 DEF Placed, Holds
  <2> QED BY <1>a, <2>1, <2>2 DEF Settling, Idle, Steps
<1>7. CASE Restore(i)
  <2>1. kept' = kept /\ data' = data /\ pc[i] = "restore" /\ pc' = [pc EXCEPT ![i] = "reopen"]
    BY <1>7 DEF Restore, At, Go, Others
  <2>2. Holds("bak")
    BY <1>b, <2>1 DEF Placed
  <2>3. Rename("bak", "main")
    BY <1>7, <2>2 DEF Restore, Holds
  <2>4. Holds("main")'
    BY <2>1, <2>2, <2>3, RenameKeeps DEF Safe, Holds, Exists
  <2> QED BY <1>a, <2>1, <2>4 DEF Settling, Idle, Steps
<1> QED BY <1>1, <1>2, <1>3, <1>4, <1>5, <1>6, <1>7

LEMMA SettledStep == Safe /\ (Quiet => Settled) /\ [Next]_vars => (Quiet' => Settled')
<1> SUFFICES ASSUME Safe, Quiet => Settled, [Next]_vars, Quiet' PROVE Settled'
  OBVIOUS
<1>a. Quiet /\ Settled /\ ~Fault /\ process = "up"
  BY QuietBefore, NoFault DEF Safe, Good, Quiet, Settled
<1>1. CASE UNCHANGED vars
  BY <1>a, <1>1 DEF vars, disk, imps, Settled, Settling, Idle, Busy, Holds, Exists
<1>2. CASE Crash \/ Start \/ MigrateAtStart \/ Listen
  BY <1>a, <1>2 DEF Crash, Start, MigrateAtStart, Listen
<1>3. CASE Edit
  <2>1. edits + 1 \in Readable /\ db \in Files /\ data \in [Files -> Contents]
    BY <1>3, BoundsOK DEF Edit, Safe, Good, TypeOK, Readable, Edited
  <2>2. \A i \in Importers : Busy(i) => pc[i] = "close"
    BY <1>a, <1>3 DEF Edit, Safe, OneImport, Placed, Quiet
  <2>3. data'[db'] = kept' /\ db' # None /\ process' = "up" /\ kept' \in Readable /\ pc' = pc
    BY <1>a, <1>3, <2>1 DEF Edit, imps
  <2> QED BY <2>2, <2>3 DEF Settled, Settling, Busy
<1>4. ASSUME NEW i \in Importers, Receive(i) PROVE Settled'
  <2>1. /\ UNCHANGED <<disk, db, process, kept>> /\ pc' = [pc EXCEPT ![i] = "close"]
        /\ \A j \in Importers : pc[j] = "idle"
    BY <1>4 DEF Receive, Go, Quiet
  <2>2. \A j \in Importers : pc'[j] \in {"idle", "close"}
    BY <2>1 DEF Safe, Good, TypeOK
  <2> QED BY <1>a, <2>1, <2>2 DEF Settled, Settling, Idle, Busy, disk
<1>5. ASSUME NEW i \in Importers, Step(i) PROVE Settled'
  <2>1. Busy(i) /\ process' = "up"
    BY <1>a, <1>5 DEF Step, Close, BeginWrite, EndWrite, WriteFails, Stat, DropBak, MoveAside, Install,
                      PutBack, Open,
                Migrate, MigrateFails, Serve, Discard, Restore, Reopen, Migrating, At, Busy, Others
  <2>2. /\ kept' \in Readable
        /\ \E s \in Steps : /\ pc' = [pc EXCEPT ![i] = s] /\ (s # "idle" => Settling(i)')
                            /\ Idle(s) => db' # None /\ data'[db'] = kept'
    <3>1. CASE Close(i) \/ BeginWrite(i) \/ EndWrite(i) \/ WriteFails(i) \/ Stat(i) \/ DropBak(i)
                 \/ MoveAside(i) \/ Install(i) \/ PutBack(i)
      <4>1. kept' = kept
        BY <3>1, FileSteps
      <4> QED BY <1>a, <3>1, <4>1, SettlingWrite DEF Settled
    <3>2. CASE Open(i) \/ Reopen(i) \/ Migrate(i) \/ MigrateFails(i) \/ Serve(i) \/ Discard(i) \/ Restore(i)
      BY <1>a, <3>2, SettlingOpen
    <3> QED BY <1>5, <3>1, <3>2 DEF Step
  <2> QED BY <1>a, <2>1, <2>2, OnlyOneSettles DEF Quiet
<1> QED BY <1>1, <1>2, <1>3, <1>4, <1>5 DEF Next

(* An import in which no system call fails ends with the service running on the archive, *)
(* or on what it ran on before if the archive does not open (DbReplace!ImportSettles;    *)
(* internal/store/backup.go:43).                                                        *)
THEOREM ImportsSettle == Spec => []ImportSettles
<1>1. Safe /\ (Quiet => Settled) => ImportSettles
  BY DEF Safe, OneImport, Served, Quiet, Settled, Idle, AllIdle, ImportSettles
<1> QED BY <1>1, SafeInit, SafeStep, SettledInit, SettledStep, PTL DEF Spec
=============================================================================
