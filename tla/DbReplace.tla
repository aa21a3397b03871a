----------------------------- MODULE DbReplace -----------------------------
(***************************************************************************)
(* The database file: ReplaceDatabase of internal/store/backup.go system    *)
(* call by system call, the opening of the database at startup with its     *)
(* migrations, and the requests that write to it meanwhile.  A directory    *)
(* maps a name to a file, so that a rename moves a file from under whoever  *)
(* has it open.                                                            *)
(*                                                                         *)
(* Files survive the process; what the kernel loses with the power is left  *)
(* out.                                                                    *)
(*                                                                         *)
(* An operator marked "mutant" is no part of the model: it is the next     *)
(* definition with a bug in it, for checking that the properties notice.   *)
(***************************************************************************)
EXTENDS Integers, FiniteSets

CONSTANTS
  Importers,     \* POST /backup/import requests that may be in progress
  Archives,      \* databases that an archive may hold
  Broken,        \* those of them that db.Open refuses: a header alone looks like SQLite
  Newest,        \* migrations in migrations/*.sql
  VersionOf,     \* archive -> the last migration that its database has had
  Fresh,         \* what a database made by db.Open holds
  Partial,       \* what a file being written holds
  MaxEdits,      \* bound: writes by other requests
  MaxImports,    \* bound: imports received
  MaxFaults,     \* bound: failed system calls and crashes
  MaxFiles       \* bound: files made

Names == {"main", "bak", "tmp"}
Files == 1..MaxFiles
None == 0                       \* no file under that name; no connection
Edited == 1..MaxEdits           \* contents made by edits
Original == 0                   \* the contents at the outset
Readable == (Archives \ Broken) \cup Edited \cup {Original, Fresh}
Contents == Readable \cup Broken \cup {Partial}

ASSUME ArchivesOK == /\ Broken \subseteq Archives
                     /\ {Fresh, Partial} \cap (Archives \cup Nat) = {} /\ Fresh # Partial
                     /\ Archives \cap Nat = {}
                     /\ Newest \in Nat \ {0} /\ VersionOf \in [Archives -> Nat]
ASSUME BoundsOK == {MaxEdits, MaxImports, MaxFaults, MaxFiles} \subseteq Nat /\ MaxFiles > 0

VARIABLES
  dir,        \* name -> file
  data,       \* file -> contents
  version,    \* file -> MAX(version) of its schema_migrations
  db,         \* the file Store.db is open on, or is being opened on at startup
  process,    \* "down", "opening" its database, or "up"
  pc, arg,    \* importer -> next system call; its archive
  fd,         \* importer -> the file it writes or has opened
  current,    \* importer -> the version it read there, and has migrated to
  kept,       \* contents last served, those of a fresh database apart
  met,        \* two imports have been in progress at once
  edits, imports, faults

disk == <<dir, data, version>>
imps == <<pc, arg, fd, current>>
vars == <<disk, db, process, imps, kept, met, edits, imports, faults>>

Init ==
  /\ dir = [n \in Names |-> IF n = "main" THEN 1 ELSE None]
  /\ data = [f \in Files |-> Original]
  /\ version = [f \in Files |-> Newest]
  /\ db = 1 /\ process = "up"
  /\ pc = [i \in Importers |-> "idle"] /\ fd = [i \in Importers |-> None]
  /\ arg = [i \in Importers |-> Original] /\ current = [i \in Importers |-> 0]
  /\ kept = Original /\ met = FALSE /\ edits = 0 /\ imports = 0 /\ faults = 0
-----------------------------------------------------------------------------
Exists(n) == dir[n] # None

(* Files that no name, connection or descriptor keeps. *)
Unused == Files \ ({dir[n] : n \in Names} \cup {db} \cup {fd[i] : i \in Importers})

Rename(a, b) == dir' = [dir EXCEPT ![b] = dir[a], ![a] = None]
Unlink(n) == dir' = [dir EXCEPT ![n] = None]

(* os.WriteFile truncates the file of that name or makes one. *)
Truncate(i, n) == \E f \in IF Exists(n) THEN {dir[n]} ELSE Unused :
  /\ dir' = [dir EXCEPT ![n] = f]
  /\ data' = [data EXCEPT ![f] = Partial]
  /\ fd' = [fd EXCEPT ![i] = f]
  /\ UNCHANGED version

(* db.Open makes the database it does not find. *)
OpenMakes(f) == /\ f \in IF Exists("main") THEN {dir["main"]} ELSE Unused
                /\ dir' = [dir EXCEPT !["main"] = f]
                /\ data' = IF Exists("main") THEN data ELSE [data EXCEPT ![f] = Fresh]
                /\ version' = IF Exists("main") THEN version ELSE [version EXCEPT ![f] = 0]
                /\ data'[f] \in Readable
OpenFails == Exists("main") /\ data[dir["main"]] \notin Readable

(* A migration and its row in schema_migrations are one transaction. *)
Migrated(f) == version' = [version EXCEPT ![f] = @ + 1] /\ UNCHANGED <<dir, data>>

(* What users work on; a fresh database has to be set up first. *)
Serves(f) == kept' = IF data[f] = Fresh THEN kept ELSE data[f]

At(i, step) == process = "up" /\ pc[i] = step
Go(i, step) == pc' = [pc EXCEPT ![i] = step]
Fault == faults < MaxFaults /\ faults' = faults + 1
Others == UNCHANGED <<process, arg, kept, met, edits, imports>>
-----------------------------------------------------------------------------
(* Other requests; a session is needed, and a fresh database has none before *)
(* it is set up, which is a write too.                                      *)

Edit ==
  /\ process = "up" /\ db # None /\ edits < MaxEdits
  /\ data' = [data EXCEPT ![db] = edits + 1]
  /\ kept' = edits + 1 /\ edits' = edits + 1
  /\ UNCHANGED <<dir, version, db, process, imps, met, imports, faults>>

Receive(i) ==
  /\ At(i, "idle") /\ imports < MaxImports
  /\ db # None /\ data[db] # Fresh
  /\ \E a \in Archives : arg' = [arg EXCEPT ![i] = a]
  /\ Go(i, "close") /\ imports' = imports + 1
  /\ met' = (met \/ \E j \in Importers : pc[j] # "idle")
  /\ UNCHANGED <<disk, db, process, fd, current, kept, edits, faults>>
-----------------------------------------------------------------------------
(* ReplaceDatabase *)

Close(i) ==
  /\ At(i, "close") /\ Go(i, "write")
  /\ db' = None
  /\ UNCHANGED <<disk, fd, current, faults>> /\ Others

BeginWrite(i) ==
  /\ At(i, "write") /\ Truncate(i, "tmp") /\ Go(i, "finish")
  /\ UNCHANGED <<db, current, faults>> /\ Others

EndWrite(i) ==
  /\ At(i, "finish") /\ Go(i, "stat")
  /\ data' = [data EXCEPT ![fd[i]] = arg[i]]
  /\ version' = [version EXCEPT ![fd[i]] = VersionOf[arg[i]]]
  /\ fd' = [fd EXCEPT ![i] = None]
  /\ UNCHANGED <<dir, db, current, faults>> /\ Others

WriteFails(i) ==
  /\ At(i, "write") \/ At(i, "finish")
  /\ Fault /\ Go(i, "idle")
  /\ fd' = [fd EXCEPT ![i] = None]
  /\ UNCHANGED <<disk, db, current>> /\ Others

Stat(i) ==
  /\ At(i, "stat") /\ Go(i, IF Exists("main") THEN "dropBak" ELSE "install")
  /\ UNCHANGED <<disk, db, fd, current, faults>> /\ Others

(* Its error is ignored: the rename overwrites what is left. *)
DropBak(i) ==
  /\ At(i, "dropBak") /\ Go(i, "moveAside")
  /\ \/ Unlink("bak") /\ UNCHANGED faults
     \/ Fault /\ UNCHANGED dir
  /\ UNCHANGED <<data, version, db, fd, current>> /\ Others

MoveAside(i) ==
  /\ At(i, "moveAside")
  /\ \/ Exists("main") /\ Rename("main", "bak") /\ Go(i, "install") /\ UNCHANGED faults
     \/ ~Exists("main") /\ Unlink("tmp") /\ Go(i, "idle") /\ UNCHANGED faults
     \/ Fault /\ Unlink("tmp") /\ Go(i, "idle")
  /\ UNCHANGED <<data, version, db, fd, current>> /\ Others

InstallOverBak(i) ==                                  \* mutant
  /\ At(i, "install")
  /\ \/ Exists("tmp") /\ dir' = [dir EXCEPT !["main"] = dir["tmp"], !["tmp"] = None, !["bak"] = None]
        /\ Go(i, "open") /\ UNCHANGED faults
     \/ ~Exists("tmp") /\ Go(i, "putBack") /\ UNCHANGED <<dir, faults>>
     \/ Fault /\ Go(i, "putBack") /\ UNCHANGED dir
  /\ UNCHANGED <<data, version, db, fd, current>> /\ Others

Install(i) ==
  /\ At(i, "install")
  /\ \/ Exists("tmp") /\ Rename("tmp", "main") /\ Go(i, "open") /\ UNCHANGED faults
     \/ ~Exists("tmp") /\ Go(i, "putBack") /\ UNCHANGED <<dir, faults>>
     \/ Fault /\ Go(i, "putBack") /\ UNCHANGED dir
  /\ UNCHANGED <<data, version, db, fd, current>> /\ Others

(* The connection stays closed. *)
PutBack(i) ==
  /\ At(i, "putBack") /\ Go(i, "idle")
  /\ \/ Exists("bak") /\ Rename("bak", "main") /\ UNCHANGED faults
     \/ ~Exists("bak") /\ UNCHANGED <<dir, faults>>
     \/ Fault /\ UNCHANGED dir
  /\ UNCHANGED <<data, version, db, fd, current>> /\ Others

OpenUnheld(i) ==                                      \* mutant
  /\ At(i, "open") /\ Go(i, "migrate")
  /\ \E f \in Files : OpenMakes(f)
  /\ UNCHANGED <<fd, current, db, faults>> /\ Others

Open(i) ==
  /\ At(i, "open")
  /\ \/ /\ \E f \in Files : /\ OpenMakes(f) /\ fd' = [fd EXCEPT ![i] = f]
                            /\ current' = [current EXCEPT ![i] = version'[f]]
        /\ Go(i, "migrate") /\ UNCHANGED faults
     \/ OpenFails /\ Go(i, "discard") /\ UNCHANGED <<disk, fd, current, faults>>
     \/ Fault /\ Go(i, "discard") /\ UNCHANGED <<disk, fd, current>>
  /\ UNCHANGED db /\ Others

Migrating(i) == At(i, "migrate") \/ At(i, "remigrate")

Unapplied(v) == v = 0                                 \* mutant
Pending(v) == v < Newest

(* A second opener of the file makes the same change in vain. *)
Migrate(i) ==
  /\ Migrating(i) /\ Pending(current[i])
  /\ version[fd[i]] = current[i] /\ Migrated(fd[i])
  /\ current' = [current EXCEPT ![i] = @ + 1]
  /\ UNCHANGED <<db, pc, fd, faults>> /\ Others

MigrateFails(i) ==
  /\ Migrating(i) /\ Pending(current[i])
  /\ IF version[fd[i]] = current[i] THEN Fault ELSE UNCHANGED faults
  /\ Go(i, IF At(i, "migrate") THEN "discard" ELSE "idle")
  /\ fd' = [fd EXCEPT ![i] = None]
  /\ UNCHANGED <<disk, db, current>> /\ Others

(* The import is as good as answered: a failing Apply does not undo it. *)
Serve(i) ==
  /\ Migrating(i) /\ ~Pending(current[i])
  /\ Go(i, "idle")
  /\ db' = fd[i] /\ fd' = [fd EXCEPT ![i] = None] /\ Serves(fd[i])
  /\ UNCHANGED <<disk, process, arg, current, met, edits, imports, faults>>

Discard(i) ==
  /\ At(i, "discard")
  /\ \/ Unlink("main") /\ UNCHANGED faults
     \/ Fault /\ UNCHANGED dir
  /\ Go(i, IF Exists("bak") THEN "restore" ELSE "idle")
  /\ UNCHANGED <<data, version, db, fd, current>> /\ Others

Restore(i) ==
  /\ At(i, "restore") /\ Go(i, "reopen")
  /\ \/ Exists("bak") /\ Rename("bak", "main") /\ UNCHANGED faults
     \/ ~Exists("bak") /\ UNCHANGED <<dir, faults>>
     \/ Fault /\ UNCHANGED dir
  /\ UNCHANGED <<data, version, db, fd, current>> /\ Others

ReopenForgotten(i) ==                                 \* mutant
  /\ At(i, "reopen") /\ Go(i, "idle")
  /\ \E f \in Files : OpenMakes(f) /\ UNCHANGED <<db, faults>>
  /\ UNCHANGED <<fd, current>> /\ Others

Reopen(i) ==
  /\ At(i, "reopen")
  /\ \/ /\ \E f \in Files : /\ OpenMakes(f) /\ fd' = [fd EXCEPT ![i] = f]
                            /\ current' = [current EXCEPT ![i] = version'[f]]
        /\ Go(i, "remigrate") /\ UNCHANGED faults
     \/ OpenFails /\ Go(i, "idle") /\ UNCHANGED <<disk, fd, current, faults>>
     \/ Fault /\ Go(i, "idle") /\ UNCHANGED <<disk, fd, current>>
  /\ UNCHANGED db /\ Others
-----------------------------------------------------------------------------
Crash ==
  /\ process # "down" /\ Fault
  /\ process' = "down" /\ db' = None
  /\ pc' = [i \in Importers |-> "idle"] /\ fd' = [i \in Importers |-> None]
  /\ UNCHANGED <<disk, arg, current, kept, met, edits, imports>>

(* Start with a database that does not open or migrate ends in os.Exit(1). *)
Start ==
  /\ process = "down" /\ process' = "opening"
  /\ \E f \in Files : OpenMakes(f) /\ db' = f
  /\ UNCHANGED <<imps, kept, met, edits, imports, faults>>

MigrateAtStart ==
  /\ process = "opening" /\ Pending(version[db])
  /\ Migrated(db)
  /\ UNCHANGED <<db, process, imps, kept, met, edits, imports, faults>>

Listen ==
  /\ process = "opening" /\ ~Pending(version[db])
  /\ process' = "up" /\ Serves(db)
  /\ UNCHANGED <<disk, db, imps, met, edits, imports, faults>>

Step(i) == \/ Close(i) \/ BeginWrite(i) \/ EndWrite(i) \/ WriteFails(i) \/ Stat(i) \/ DropBak(i)
           \/ MoveAside(i) \/ Install(i) \/ PutBack(i) \/ Open(i) \/ Migrate(i)
           \/ MigrateFails(i) \/ Serve(i) \/ Discard(i) \/ Restore(i) \/ Reopen(i)

Next == \/ Edit \/ Crash \/ Start \/ MigrateAtStart \/ Listen
        \/ \E i \in Importers : Receive(i) \/ Step(i)

Spec == Init /\ [][Next]_vars
-----------------------------------------------------------------------------
Steps == {"idle", "close", "write", "finish", "stat", "dropBak", "moveAside", "install",
          "putBack", "open", "migrate", "discard", "restore", "reopen", "remigrate"}

(* Names and connections lead to files, a connection is only open while the      *)
(* process runs, and an import has a file to write or to migrate when it does so. *)
TypeOK ==
  /\ dir \in [Names -> Files \cup {None}] /\ data \in [Files -> Contents]
  /\ version \in [Files -> Nat]
  /\ db \in Files \cup {None} /\ process \in {"down", "opening", "up"}
  /\ (process = "down" => db = None) /\ (process = "opening" => db # None)
  /\ met \in BOOLEAN /\ kept \in Contents
  /\ pc \in [Importers -> Steps] /\ fd \in [Importers -> Files \cup {None}]
  /\ \A i \in Importers : pc[i] \in {"finish", "migrate", "remigrate"} <=> fd[i] # None
  /\ arg \in [Importers -> Archives \cup {Original}] /\ current \in [Importers -> Nat]
  /\ edits \in 0..MaxEdits /\ imports \in 0..MaxImports /\ faults \in 0..MaxFaults

AllIdle == \A i \in Importers : pc[i] = "idle"

(* What backup.go keeps the .bak for: the contents users last worked on are       *)
(* under one name or the other, wherever an import has failed or the process has *)
(* died, and whatever has been imported since - one import at a time: two of     *)
(* them share the .tmp and take each other's main for the one to put aside.      *)
NothingLost == ~met => \E n \in {"main", "bak"} : Exists(n) /\ data[dir[n]] = kept

(* No request works on a database that lacks a migration: not on an archive of an *)
(* older version, nor on one whose migration was cut short, put aside, or started *)
(* again (one import at a time: two write one .tmp, even once it is in place).   *)
ServesMigrated == ~met /\ process = "up" /\ db # None => version[db] >= Newest

(* An import that meets no fault of the system ends with the service running on  *)
(* the archive, or on what it ran on before when the archive is not a database.  *)
ImportSettles == faults = 0 /\ ~met /\ AllIdle => db # None /\ db = dir["main"] /\ data[db] = kept

(* backup.go:12 says ReplaceDatabase replaces the file of the database           *)
(* atomically: what is served is never a third thing, a database made because    *)
(* there was none.                                                               *)
ServesOldOrNew == process = "up" /\ db # None => data[db] # Fresh
=============================================================================
