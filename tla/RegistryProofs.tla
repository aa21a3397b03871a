--------------------------- MODULE RegistryProofs ---------------------------
(***************************************************************************)
(* Results on the registry for every set of requests in progress, every     *)
(* form they may carry and every bound: its handlers implement Catalogue as *)
(* long as no other request overtakes them.                                *)
(***************************************************************************)
EXTENDS RegistryRequirements, FiniteSetTheorems, TLAPS
-----------------------------------------------------------------------------
(* What NextPeerPrefix returns, for an address space of any size.  Its scan runs *)
(* between two sums modulo Space.  Neither wraps unless the subnet is a single  *)
(* address at one end of the space: there the scan would leave the subnet, and  *)
(* nothing is claimed.                                                        *)

Ordinary(p) == p.size > 1 \/ p.base \in 1..(Space - 2)

(* The scan of ipalloc.go:49-56 covers the usable hosts of the subnet and       *)
(* nothing else.                                                               *)
LEMMA ScanIsUsable ==
  ASSUME NEW p \in Pools, Ordinary(p)
  PROVE  FirstHost(p)..LastHost(p) = Usable(p)
<1>1. /\ Space \in Nat /\ Space > 3
      /\ p.base \in 0..(Space - 1) /\ p.size \in 1..Space /\ p.base + p.size <= Space
  BY SpaceOK DEF Pools, Hosts
<1>2. CASE p.size > 1
  <2>1. FirstHost(p) = p.base + 1 /\ LastHost(p) = p.base + p.size - 2
    BY <1>1, <1>2 DEF FirstHost, LastHost, Wrap
  <2> QED BY <1>1, <1>2, <2>1 DEF Usable, Hosts
<1>3. CASE p.size = 1 /\ p.base \in 1..(Space - 2)
  <2>1. FirstHost(p) = p.base + 1 /\ LastHost(p) = p.base - 1
    BY <1>1, <1>3 DEF FirstHost, LastHost, Wrap
  <2> QED BY <1>1, <1>3, <2>1 DEF Usable, Hosts
<1> QED BY <1>1, <1>2, <1>3 DEF Ordinary

(* ipalloc.go:26 "the first free /32": what is returned is a host that can be   *)
(* used, is not the server and is nobody's.                                     *)
THEOREM NextPeerSound ==
  ASSUME NEW p \in Pools, Ordinary(p), NEW used, NEW h \in NextPeer(p, used)
  PROVE  h \in Usable(p) \ (used \cup {p.server})
BY ScanIsUsable DEF NextPeer

(* ipalloc.go:58: "no free address" is answered only when there is none.        *)
THEOREM NextPeerComplete ==
  ASSUME NEW p \in Pools, Ordinary(p), NEW used, Allocates(p, used),
         Usable(p) \ (used \cup {p.server}) # {}
  PROVE  NextPeer(p, used) # {}
<1> DEFINE free == Usable(p) \ (used \cup {p.server})
<1>1. free \subseteq Nat
  BY SpaceOK DEF Usable, Hosts
<1>2. PICK h \in free : \A g \in free : h <= g
  <2> DEFINE less == StrictSubsetOrdering(Nat)
             below == {0..h : h \in free}
  <2>1. below \subseteq FiniteSubsetsOf(Nat) /\ below # {}
    <3>1. ASSUME NEW h \in free PROVE 0..h \in FiniteSubsetsOf(Nat)
      <4>1. h \in Int /\ 0..h \subseteq Nat
        BY <1>1
      <4>2. IsFiniteSet(0..h)
        BY <4>1, FS_Interval
      <4> QED BY <4>1, <4>2 DEF FiniteSubsetsOf
    <3> QED BY <3>1
  <2>2. PICK s \in below : \A r \in below : <<r, s>> \notin less
    <3>1. IsWellFoundedOn(less, FiniteSubsetsOf(Nat))
      BY FS_StrictSubsetOrderingWellFounded
    <3> HIDE DEF less, below
    <3> QED BY <2>1, <3>1, WFMin
  <2>3. PICK h \in free : s = 0..h
    OBVIOUS
  <2>4. ASSUME NEW g \in free, g < h PROVE FALSE
    <3>1. g \in Nat /\ h \in Nat
      BY <1>1
    <3>2. 0..g \subseteq 0..h /\ h \in 0..h /\ h \notin 0..g /\ 0..h \subseteq Nat
      BY <2>4, <3>1
    <3>3. <<0..g, 0..h>> \in less
      BY <3>2 DEF StrictSubsetOrdering
    <3> QED BY <2>2, <2>3, <3>3
  <2> QED BY <1>1, <2>4
<1> QED BY <1>2, ScanIsUsable DEF NextPeer
-----------------------------------------------------------------------------
(* The ids of a table are at most its sequence: the first conjuncts of TypeOK. *)
IdsBounded ==
  /\ clientSeq \in Nat /\ DOMAIN clients \subseteq 1..clientSeq
  /\ tunnelSeq \in Nat /\ DOMAIN tunnels \subseteq 1..tunnelSeq
-----------------------------------------------------------------------------
(* What is true between the statements of the handlers. *)

(* The statements a handler may have left, by the next of them. *)
ToApply == <<"apply">>
ToReloadClient == <<"reloadClient", "apply">>
ToInsertClient == <<"insertClient", "reloadClient", "apply">>
ToAllocate == <<"allocate", "insertClient", "reloadClient", "apply">>
ToReadIngress == <<"ingress", "allocate", "insertClient", "reloadClient", "apply">>
ToResolveNew == <<"resolve", "ingress", "allocate", "insertClient", "reloadClient", "apply">>
ToUpdateClient == <<"updateClient", "apply">>
ToResolvePatch == <<"resolve", "updateClient", "apply">>
ToGetPatched == <<"getClient", "resolve", "updateClient", "apply">>
ToGetSwitched == <<"getClient", "updateClient", "apply">>
ToDeleteClient == <<"deleteClient", "apply">>
ToReloadTunnel == <<"reloadTunnel", "apply">>
ToInsertTunnel == <<"insertTunnel", "reloadTunnel", "apply">>
ToUpdateTunnel == <<"updateTunnel", "reloadTunnel", "apply">>
ToCountPatched == <<"countClients", "updateTunnel", "reloadTunnel", "apply">>
ToGetTunnel == <<"getTunnel", "countClients", "updateTunnel", "reloadTunnel", "apply">>
ToDeleteTunnel == <<"deleteTunnel", "apply">>
ToCountDeleted == <<"countClients", "deleteTunnel", "apply">>
ToUpdateIngress == <<"updateIngress", "apply">>
ToGetIngress == <<"getIngress", "updateIngress", "apply">>
ToImportNone == <<"updateIngress">>
ToImportSome == <<"updateIngress", "importClient">>
ToImportClient == <<"importClient">>

(* A client has a tunnel exactly when it goes via one. *)
Sorted(row) == row.type = "direct" <=> row.tunnel = Absent
Switch(en) == [addr |-> Absent, enabled |-> en, type |-> Absent, tunnel |-> Absent]

Asked(row) == Sorted(row) /\ \E b \in ClientForms : row = Resolved(NewClient(b))
PatchAccepted(old, row, ts) == \E b \in ClientPatches :
  Acceptable(ts, PatchedClient(old, b)) /\ row = Resolved(PatchedClient(old, b))
Switched(old, row) == \E en \in BOOLEAN : row = [old EXCEPT !.enabled = en]
PatchOf(old, row) == \E b \in TunnelPatches : row = PatchedTunnel(old, b)
Brought(c) == Importable(c) /\ \E xs \in Imports : \E i \in DOMAIN xs : c = xs[i]

(* What a handler with the statements t left knows: of its locals f, and, unless *)
(* it was overtaken, of how they relate to the tables.                           *)
Stage(t, f, fresh, cs, ts, p) ==
  \/ t \in {<<>>, ToApply, ToReloadClient, ToDeleteClient, ToReloadTunnel, ToCountDeleted}
  \/ t = ToResolveNew /\ ~f.auto /\ \E b \in ClientForms : f.row = NewClient(b)
  \/ t = ToReadIngress /\ ~f.auto /\ Asked(f.row) /\ (fresh => Acceptable(ts, f.row))
  \/ t = ToAllocate /\ ~f.auto /\ Asked(f.row) /\ f.pool \in Settings
     /\ (fresh => Acceptable(ts, f.row) /\ f.pool = p)
  \/ t = ToInsertClient /\ \E d, h :
       /\ Asked(d) /\ h \in Addrs /\ f.row = [d EXCEPT !.addr = h] /\ (f.auto => d.addr = Absent)
       /\ fresh => Acceptable(ts, d) /\ h \in IF d.addr = Absent THEN NextPeer(p, Addresses(cs)) ELSE {d.addr}
  \/ t = ToGetPatched /\ f.body \in ClientPatches
  \/ t = ToGetSwitched /\ \E en \in BOOLEAN : f.body = Switch(en)
  \/ t = ToResolvePatch /\ f.row \in ClientRows /\ (f.row.type = "direct" => f.row.tunnel = Absent)
     /\ (fresh => f.id \in DOMAIN cs /\ \E b \in ClientPatches : f.row = PatchedClient(cs[f.id], b))
  \/ t = ToUpdateClient /\ f.row \in ClientRows /\ Sorted(f.row)
     /\ (fresh => /\ f.id \in DOMAIN cs
                  /\ PatchAccepted(cs[f.id], f.row, ts) \/ Switched(cs[f.id], f.row))
  \/ t = ToInsertTunnel /\ f.body \in TunnelForms
  \/ t = ToGetTunnel /\ f.body \in TunnelPatches
  \/ t = ToCountPatched /\ f.row \in TunnelRows
     /\ (fresh => f.id \in DOMAIN ts /\ PatchOf(ts[f.id], f.row))
  \/ t = ToUpdateTunnel /\ f.row \in TunnelRows
     /\ (fresh => /\ f.id \in DOMAIN ts /\ PatchOf(ts[f.id], f.row)
                  /\ Referenced(cs, f.id) => (ts[f.id].enabled => f.row.enabled))
  \/ t = ToDeleteTunnel /\ (fresh => ~Referenced(cs, f.id))
  \/ t \in {ToGetIngress, ToUpdateIngress, ToImportNone} /\ f.body \in Settings
  \/ t = ToImportSome /\ f.body \in Settings /\ \A i \in DOMAIN f.imports : Brought(f.imports[i])
  \/ t = ToImportClient /\ \A i \in DOMAIN f.imports : Brought(f.imports[i])

Staged(r) == Stage(todo[r], form[r], r \notin overtaken, clients, tunnels, pool)

TablesTyped ==
  /\ IdsBounded
  /\ clients = [c \in DOMAIN clients |-> clients[c]]
  /\ \A c \in DOMAIN clients : clients[c] \in ClientRows /\ Sorted(clients[c])
  /\ tunnels = [t \in DOMAIN tunnels |-> tunnels[t]]
  /\ \A t \in DOMAIN tunnels : tunnels[t] \in TunnelRows
  /\ pool \in Settings

Fields == {"id", "body", "row", "pool", "auto", "imports"}
LocalsTyped == /\ todo = [r \in Requests |-> todo[r]] /\ form = [r \in Requests |-> form[r]]
               /\ \A r \in Requests : DOMAIN form[r] = Fields
HistoryTyped == overtaken \subseteq Requests /\ crossed \in BOOLEAN

RegistryInv == /\ TablesTyped /\ LocalsTyped /\ HistoryTyped
               /\ \A r \in Requests : Staged(r)
               /\ ~crossed => ReferencesHold

(* A handler that will apply whatever the others do. *)
Due(r) == \/ todo[r] = ToApply
          \/ todo[r] = ToReloadClient /\ form[r].id \in DOMAIN clients
          \/ todo[r] = ToReloadTunnel /\ form[r].id \in DOMAIN tunnels
ApplyDue == unapplied => left \/ \E r \in Requests : Due(r)

(* What is next of each plan, and what is left after it. *)
LEMMA Plans ==
  /\ Head(ToApply) = "apply" /\ Tail(ToApply) = <<>>
  /\ Head(ToReloadClient) = "reloadClient" /\ Tail(ToReloadClient) = ToApply
  /\ Head(ToInsertClient) = "insertClient" /\ Tail(ToInsertClient) = ToReloadClient
  /\ Head(ToAllocate) = "allocate" /\ Tail(ToAllocate) = ToInsertClient
  /\ Head(ToReadIngress) = "ingress" /\ Tail(ToReadIngress) = ToAllocate
  /\ Head(ToResolveNew) = "resolve" /\ Tail(ToResolveNew) = ToReadIngress
  /\ Head(ToUpdateClient) = "updateClient" /\ Tail(ToUpdateClient) = ToApply
  /\ Head(ToResolvePatch) = "resolve" /\ Tail(ToResolvePatch) = ToUpdateClient
  /\ Head(ToGetPatched) = "getClient" /\ Tail(ToGetPatched) = ToResolvePatch
  /\ Head(ToGetSwitched) = "getClient" /\ Tail(ToGetSwitched) = ToUpdateClient
  /\ Head(ToDeleteClient) = "deleteClient" /\ Tail(ToDeleteClient) = ToApply
  /\ Head(ToReloadTunnel) = "reloadTunnel" /\ Tail(ToReloadTunnel) = ToApply
  /\ Head(ToInsertTunnel) = "insertTunnel" /\ Tail(ToInsertTunnel) = ToReloadTunnel
  /\ Head(ToUpdateTunnel) = "updateTunnel" /\ Tail(ToUpdateTunnel) = ToReloadTunnel
  /\ Head(ToCountPatched) = "countClients" /\ Tail(ToCountPatched) = ToUpdateTunnel
  /\ Head(ToGetTunnel) = "getTunnel" /\ Tail(ToGetTunnel) = ToCountPatched
  /\ Head(ToDeleteTunnel) = "deleteTunnel" /\ Tail(ToDeleteTunnel) = ToApply
  /\ Head(ToCountDeleted) = "countClients" /\ Tail(ToCountDeleted) = ToDeleteTunnel
  /\ Head(ToUpdateIngress) = "updateIngress" /\ Tail(ToUpdateIngress) = ToApply
  /\ Head(ToGetIngress) = "getIngress" /\ Tail(ToGetIngress) = ToUpdateIngress
  /\ Head(ToImportNone) = "updateIngress" /\ Tail(ToImportNone) = <<>>
  /\ Head(ToImportSome) = "updateIngress" /\ Tail(ToImportSome) = ToImportClient
  /\ Head(ToImportClient) = "importClient"
BY DEF ToApply, ToReloadClient, ToInsertClient, ToAllocate, ToReadIngress, ToResolveNew, ToUpdateClient,
       ToResolvePatch, ToGetPatched, ToGetSwitched, ToDeleteClient, ToReloadTunnel, ToInsertTunnel,
       ToUpdateTunnel, ToCountPatched, ToGetTunnel, ToDeleteTunnel, ToCountDeleted, ToUpdateIngress,
       ToGetIngress, ToImportNone, ToImportSome, ToImportClient

(* What is known of the locals alone survives being overtaken. *)
LEMMA StageStale ==
  ASSUME NEW t, NEW f, NEW b, NEW cs, NEW ts, NEW p, Stage(t, f, b, cs, ts, p), NEW cs2, NEW ts2, NEW p2
  PROVE  Stage(t, f, FALSE, cs2, ts2, p2)
BY DEF Stage

(* The helpers that Catalogue takes from Tables are those of Registry. *)
LEMMA SameHelpers ==
  /\ \A x, y, z : Promise!Add(x, y, z) = Add(x, y, z)
  /\ \A x, y, z : Promise!Put(x, y, z) = Put(x, y, z)
  /\ \A x, y : Promise!Remove(x, y) = Remove(x, y)
  /\ \A x, y : Promise!Acceptable(x, y) = Acceptable(x, y)
  /\ \A x : Promise!Resolved(x) = Resolved(x)
  /\ \A x : Promise!NewClient(x) = NewClient(x)
  /\ \A x, y : Promise!PatchedClient(x, y) = PatchedClient(x, y)
  /\ \A x : Promise!Importable(x) = Importable(x)
  /\ \A x : Promise!Imported(x) = Imported(x)
  /\ \A x : Promise!Addresses(x) = Addresses(x)
  /\ \A x, y, z : Promise!Taken(x, y, z) = Taken(x, y, z)
  /\ \A x, y : Promise!PatchedTunnel(x, y) = PatchedTunnel(x, y)
  /\ \A x, y : Promise!Referenced(x, y) = Referenced(x, y)
  /\ \A x, y : Promise!NextPeer(x, y) = NextPeer(x, y)
<1>1. ASSUME NEW x, NEW y, NEW z PROVE Promise!Add(x, y, z) = Add(x, y, z)
  BY DEF Add, Promise!Add
<1>2. ASSUME NEW x, NEW y, NEW z PROVE Promise!Put(x, y, z) = Put(x, y, z)
  BY DEF Put, Promise!Put
<1>3. ASSUME NEW x, NEW y PROVE Promise!Remove(x, y) = Remove(x, y)
  BY DEF Remove, Promise!Remove
<1>4. ASSUME NEW x, NEW y PROVE Promise!Acceptable(x, y) = Acceptable(x, y)
  BY DEF Acceptable, Promise!Acceptable
<1>5. ASSUME NEW x PROVE Promise!Resolved(x) = Resolved(x)
  BY DEF Resolved, Promise!Resolved
<1>6. ASSUME NEW x PROVE Promise!NewClient(x) = NewClient(x)
  BY DEF NewClient, EnabledClient, Promise!NewClient, Promise!EnabledClient
<1>7. ASSUME NEW x, NEW y PROVE Promise!PatchedClient(x, y) = PatchedClient(x, y)
  BY DEF PatchedClient, Override, Promise!PatchedClient, Promise!Override
<1>8. ASSUME NEW x PROVE Promise!Importable(x) = Importable(x)
  BY DEF Importable, Promise!Importable
<1>9. ASSUME NEW x PROVE Promise!Imported(x) = Imported(x)
  BY DEF Imported, EnabledClient, Override, Promise!Imported, Promise!EnabledClient, Promise!Override
<1>10. ASSUME NEW x PROVE Promise!Addresses(x) = Addresses(x)
  BY DEF Addresses, Promise!Addresses
<1>11. ASSUME NEW x, NEW y, NEW z PROVE Promise!Taken(x, y, z) = Taken(x, y, z)
  BY DEF Taken, Promise!Taken
<1>12. ASSUME NEW x, NEW y PROVE Promise!PatchedTunnel(x, y) = PatchedTunnel(x, y)
  BY DEF PatchedTunnel, Override, Promise!PatchedTunnel, Promise!Override
<1>13. ASSUME NEW x, NEW y PROVE Promise!Referenced(x, y) = Referenced(x, y)
  BY DEF Referenced, Promise!Referenced
<1>14. ASSUME NEW x, NEW y PROVE Promise!NextPeer(x, y) = NextPeer(x, y)
  BY DEF NextPeer, FirstHost, LastHost, Wrap, Allocates, Promise!NextPeer, Promise!FirstHost, Promise!LastHost,
         Promise!Wrap, Promise!Allocates
<1> QED BY <1>1, <1>2, <1>3, <1>4, <1>5, <1>6, <1>7, <1>8, <1>9, <1>10, <1>11, <1>12, <1>13, <1>14

-----------------------------------------------------------------------------
(* What a step of one request leaves to the others. *)

(* A step of r moves nothing of another request, and tells those in progress *)
(* when it changes a table.                                                  *)
OnlyMoves(r) == /\ \A q \in Requests \ {r} : todo'[q] = todo[q] /\ form'[q] = form[q]
                /\ IF tables' = tables
                   THEN \A q \in Requests \ {r} : q \in overtaken' <=> q \in overtaken
                   ELSE \A q \in Requests \ {r} : todo[q] # <<>> => q \in overtaken'

(* The other handlers know of the tables no more than is still so. *)
LEMMA OthersStaged ==
  ASSUME NEW r \in Requests, OnlyMoves(r), NEW q \in Requests \ {r}, Staged(q)
  PROVE  Staged(q)'
<1>1. CASE tables' = tables
  BY <1>1 DEF OnlyMoves, Staged, tables
<1>2. CASE todo[q] = <<>>
  BY <1>2 DEF OnlyMoves, Staged, Stage
<1>3. CASE tables' # tables /\ todo[q] # <<>>
  <2>1. todo'[q] = todo[q] /\ form'[q] = form[q] /\ (q \notin overtaken') = FALSE
    BY <1>3 DEF OnlyMoves
  <2>2. Stage(todo[q], form[q], FALSE, clients', tunnels', pool')
    BY StageStale DEF Staged
  <2> QED BY <2>1, <2>2 DEF Staged
<1> QED BY <1>1, <1>2, <1>3

(* What is to be shown of a statement. *)
LEMMA KeepsInv ==
  ASSUME RegistryInv, NEW r \in Requests, OnlyMoves(r), TablesTyped', LocalsTyped', HistoryTyped',
         Staged(r)',
         ~crossed' => ReferencesHold'
  PROVE  RegistryInv'
BY OthersStaged DEF RegistryInv

(* Moving r on, with its locals f. *)
LEMMA MoveOn ==
  ASSUME LocalsTyped, NEW r \in Requests, NEW t, NEW f, DOMAIN f = Fields,
         todo' = [todo EXCEPT ![r] = t], form' = [form EXCEPT ![r] = f]
  PROVE  /\ LocalsTyped' /\ todo'[r] = t /\ form'[r] = f
         /\ \A q \in Requests \ {r} : todo'[q] = todo[q] /\ form'[q] = form[q]
<1>1. todo' = [q \in Requests |-> IF q = r THEN t ELSE todo[q]]
  BY DEF LocalsTyped
<1>2. form' = [q \in Requests |-> IF q = r THEN f ELSE form[q]]
  BY DEF LocalsTyped
<1>3. \A q \in Requests : DOMAIN form'[q] = Fields
  BY <1>2 DEF LocalsTyped
<1>4. todo' = [q \in Requests |-> todo'[q]] /\ form' = [q \in Requests |-> form'[q]]
  BY <1>1, <1>2
<1> QED BY <1>1, <1>2, <1>3, <1>4 DEF LocalsTyped

(* Locals that stay are locals written back. *)
LEMMA KeepLocals ==
  ASSUME LocalsTyped, NEW r \in Requests, form' = form
  PROVE  form' = [form EXCEPT ![r] = form[r]] /\ DOMAIN form[r] = Fields
BY DEF LocalsTyped

(* A step that leaves the tables alone. *)
LEMMA StaysMove ==
  ASSUME RegistryInv, NEW r \in Requests, NEW t, NEW f, DOMAIN f = Fields,
         UNCHANGED tables, UNCHANGED crossed,
         overtaken' = overtaken \/ overtaken' = overtaken \ {r},
         todo' = [todo EXCEPT ![r] = t], form' = [form EXCEPT ![r] = f],
         Stage(t, f, r \notin overtaken', clients, tunnels, pool)
  PROVE  RegistryInv'
<1>1. UNCHANGED <<clients, tunnels, clientSeq, tunnelSeq, pool>>
  BY DEF tables
<1>2. /\ LocalsTyped' /\ todo'[r] = t /\ form'[r] = f
      /\ \A q \in Requests \ {r} : todo'[q] = todo[q] /\ form'[q] = form[q]
  BY MoveOn DEF RegistryInv
<1>3. OnlyMoves(r)
  BY <1>2 DEF OnlyMoves
<1>4. TablesTyped' /\ HistoryTyped' /\ (~crossed' => ReferencesHold')
  BY <1>1 DEF RegistryInv, TablesTyped, IdsBounded, HistoryTyped, ReferencesHold, Promise!ReferencesHold
<1>5. Staged(r)'
  BY <1>1, <1>2 DEF Staged
<1> QED BY <1>2, <1>3, <1>4, <1>5, KeepsInv

(* A statement that reads. *)
LEMMA ReadsMove ==
  ASSUME RegistryInv, NEW r \in Requests, NEW t, NEW f, DOMAIN f = Fields, Reads,
         todo' = [todo EXCEPT ![r] = t], form' = [form EXCEPT ![r] = f],
         Stage(t, f, r \notin overtaken, clients, tunnels, pool)
  PROVE  RegistryInv' /\ UNCHANGED tables
BY StaysMove DEF Reads, history

(* A statement that writes: it is to be a step of Catalogue, unless overtaken. *)
LEMMA WritesMove ==
  ASSUME RegistryInv, NEW r \in Requests, NEW t, NEW f, DOMAIN f = Fields, Overtakes(r),
         todo' = [todo EXCEPT ![r] = t], form' = [form EXCEPT ![r] = f],
         TablesTyped', Stage(t, f, r \notin overtaken', clients', tunnels', pool'),
         r \in overtaken \/ UNCHANGED tables \/ (~crossed => ReferencesHold')
  PROVE  RegistryInv'
<1>1. /\ overtaken' = overtaken \/ overtaken' = overtaken \cup {q \in Requests \ {r} : todo[q] # <<>>}
      /\ crossed' = crossed \/ crossed' = (crossed \/ r \in overtaken)
  BY DEF Overtakes, history
<1>2. /\ LocalsTyped' /\ todo'[r] = t /\ form'[r] = f
      /\ \A q \in Requests \ {r} : todo'[q] = todo[q] /\ form'[q] = form[q]
  BY MoveOn DEF RegistryInv
<1>3. OnlyMoves(r)
  BY <1>2 DEF OnlyMoves, Overtakes, history
<1>4. HistoryTyped'
  BY <1>1 DEF RegistryInv, HistoryTyped
<1>5. ~crossed' => ReferencesHold'
  <2>1. CASE UNCHANGED tables
    BY <2>1 DEF RegistryInv, Overtakes, history, tables, ReferencesHold, Promise!ReferencesHold
  <2>2. CASE ~(UNCHANGED tables)
    <3>1. crossed' = (crossed \/ r \in overtaken)
      BY <2>2 DEF Overtakes
    <3> QED BY <2>2, <3>1
  <2> QED BY <2>1, <2>2
<1>6. Staged(r)'
  BY <1>2 DEF Staged
<1> QED BY <1>2, <1>3, <1>4, <1>5, <1>6, KeepsInv

(* A statement that reads and keeps the locals. *)
LEMMA Continues ==
  ASSUME RegistryInv, NEW r \in Requests, Reads, UNCHANGED form, NEW t, todo' = [todo EXCEPT ![r] = t],
         Stage(t, form[r], r \notin overtaken, clients, tunnels, pool)
  PROVE  RegistryInv' /\ UNCHANGED tables
<1>1. form' = [form EXCEPT ![r] = form[r]] /\ DOMAIN form[r] = Fields
  BY KeepLocals DEF RegistryInv
<1> QED BY <1>1, ReadsMove

(* A handler that answers early knows nothing more. *)
LEMMA Answers ==
  ASSUME RegistryInv, NEW r \in Requests, Reads, UNCHANGED form, Answer(r)
  PROVE  RegistryInv' /\ UNCHANGED tables
<1>1. Stage(<<>>, form[r], r \notin overtaken, clients, tunnels, pool)
  BY DEF Stage
<1> QED BY <1>1, Continues DEF Answer

(* The locals with one field changed. *)
LEMMA WithRow ==
  ASSUME NEW f, DOMAIN f = Fields, NEW x
  PROVE  LET g == [f EXCEPT !.row = x]
         IN  /\ DOMAIN g = Fields /\ g.row = x /\ g.id = f.id /\ g.body = f.body /\ g.pool = f.pool
             /\ g.auto = f.auto /\ g.imports = f.imports
BY DEF Fields

(* What the invariant says of one request. *)
LEMMA TheLocals == ASSUME RegistryInv, NEW r \in Requests PROVE DOMAIN form[r] = Fields /\ Staged(r)
BY DEF RegistryInv, LocalsTyped

(* Rows that patches make. *)
LEMMA PatchTyped ==
  ASSUME NEW row \in ClientRows, NEW b \in ClientPatches
  PROVE  /\ PatchedClient(row, b) \in ClientRows
         /\ PatchedClient(row, b).type = "direct" => PatchedClient(row, b).tunnel = Absent
<1>1. /\ b.addr \in Addrs \cup {Absent} /\ b.enabled \in BOOLEAN \cup {Absent}
      /\ b.type \in Types \cup {Absent} /\ b.tunnel \in Ids \cup {Absent}
  BY FormsOK
<1>2. row.addr \in Addrs /\ row.enabled \in BOOLEAN /\ row.type \in Types /\ row.tunnel \in Ids \cup {Absent}
  BY DEF ClientRows
<1>3. /\ Override(b.addr, row.addr) \in Addrs /\ Override(b.enabled, row.enabled) \in BOOLEAN
      /\ Override(b.type, row.type) \in Types /\ Override(b.tunnel, row.tunnel) \in Ids \cup {Absent}
  BY <1>1, <1>2 DEF Override
<1> QED BY <1>3 DEF PatchedClient, ClientRows

(* Enabling and disabling change one field, of a row that is sorted. *)
LEMMA SwitchTyped ==
  ASSUME NEW row \in ClientRows, Sorted(row), NEW en \in BOOLEAN
  PROVE  /\ PatchedClient(row, Switch(en)) = [row EXCEPT !.enabled = en]
         /\ PatchedClient(row, Switch(en)) \in ClientRows /\ Sorted(PatchedClient(row, Switch(en)))
<1>1. row = [addr |-> row.addr, enabled |-> row.enabled, type |-> row.type, tunnel |-> row.tunnel]
      /\ row.addr \in Addrs /\ row.type \in Types /\ row.tunnel \in Ids \cup {Absent}
  BY DEF ClientRows
<1>2. PatchedClient(row, Switch(en)) = [addr |-> row.addr, enabled |-> en, type |-> row.type, tunnel |-> row.tunnel]
  BY <1>1, AbsentApart DEF PatchedClient, Switch, Override, Sorted
<1>3. [row EXCEPT !.enabled = en] = [addr |-> row.addr, enabled |-> en, type |-> row.type, tunnel |-> row.tunnel]
  BY <1>1
<1>4. PatchedClient(row, Switch(en)) \in ClientRows
  BY <1>1, <1>2 DEF ClientRows
<1>5. Sorted(PatchedClient(row, Switch(en)))
  BY <1>2 DEF Sorted
<1> QED BY <1>2, <1>3, <1>4, <1>5

(* What resolveUpstreamSpec accepts is sorted once it is resolved, and still accepted. *)
LEMMA ResolvedClient ==
  ASSUME NEW row \in ClientRows, row.type = "direct" => row.tunnel = Absent, DOMAIN tunnels \subseteq Ids,
         Acceptable(tunnels, row)
  PROVE  Resolved(row) = row /\ Sorted(row)
<1>1. row = [addr |-> row.addr, enabled |-> row.enabled, type |-> row.type, tunnel |-> row.tunnel]
      /\ row.type \in Types
  BY DEF ClientRows
<1>2. row.type = "direct" => [row EXCEPT !.tunnel = Absent] = row
  BY <1>1
<1>3. Sorted(row)
  BY <1>1, AbsentApart DEF Acceptable, Sorted, Types
<1> QED BY <1>2, <1>3 DEF Resolved

(* GetClient: the row of a patch or of a switch is made from the one that is read. *)
LEMMA GetClientKeeps ==
  ASSUME RegistryInv, NEW r \in Requests, GetClient(r)
  PROVE  RegistryInv' /\ UNCHANGED tables
<1> DEFINE f == form[r]
           g == [f EXCEPT !.row = PatchedClient(clients[f.id], f.body)]
<1>1. Reads /\ DOMAIN f = Fields
      /\ \/ todo[r] = ToGetPatched /\ f.body \in ClientPatches
         \/ todo[r] = ToGetSwitched /\ \E en \in BOOLEAN : f.body = Switch(en)
  BY TheLocals, Plans DEF GetClient, At, Staged, Stage
<1>2. CASE Answer(r) /\ UNCHANGED form
  BY <1>1, <1>2, Answers
<1>3. CASE f.id \in DOMAIN clients /\ Fill(r, g) /\ Continue(r)
  <2>1. clients[f.id] \in ClientRows /\ Sorted(clients[f.id])
    BY <1>3 DEF RegistryInv, TablesTyped
  <2>2. form' = [form EXCEPT ![r] = g] /\ todo' = [todo EXCEPT ![r] = Tail(todo[r])]
    BY <1>3 DEF Fill, Continue
  <2>3. /\ DOMAIN g = Fields /\ g.row = PatchedClient(clients[f.id], f.body) /\ g.id = f.id
    BY <1>1, WithRow
  <2> HIDE DEF g
  <2>4. CASE todo[r] = ToGetPatched /\ f.body \in ClientPatches
    <3>1. Tail(todo[r]) = ToResolvePatch
      BY <2>4, Plans
    <3>2. g.row \in ClientRows /\ (g.row.type = "direct" => g.row.tunnel = Absent)
      BY <2>1, <2>3, <2>4, PatchTyped
    <3>3. Stage(ToResolvePatch, g, r \notin overtaken, clients, tunnels, pool)
      BY <1>3, <2>3, <2>4, <3>2 DEF Stage
    <3> QED BY <1>1, <2>2, <2>3, <3>1, <3>3, ReadsMove
  <2>5. CASE todo[r] = ToGetSwitched /\ \E en \in BOOLEAN : f.body = Switch(en)
    <3>1. Tail(todo[r]) = ToUpdateClient
      BY <2>5, Plans
    <3>2. g.row \in ClientRows /\ Sorted(g.row) /\ Switched(clients[f.id], g.row)
      BY <2>1, <2>3, <2>5, SwitchTyped DEF Switched
    <3>3. Stage(ToUpdateClient, g, r \notin overtaken, clients, tunnels, pool)
      BY <1>3, <2>3, <3>2 DEF Stage
    <3> QED BY <1>1, <2>2, <2>3, <3>1, <3>3, ReadsMove
  <2> QED BY <1>1, <2>4, <2>5
<1> QED BY <1>2, <1>3 DEF GetClient

(* A client that is asked for, with or without an address. *)
Drafts == [addr : Addrs \cup {Absent}, enabled : BOOLEAN, type : Types, tunnel : Ids \cup {Absent}]

(* The body of a POST laid over the defaults of a client. *)
LEMMA DraftOfBody ==
  ASSUME NEW d \in Drafts, NEW a \in Addrs \cup {Absent}, NEW ty \in Types, NEW t \in Ids \cup {Absent}
  PROVE  [d EXCEPT !.addr = a, !.type = ty, !.tunnel = t] \in Drafts
BY DEF Drafts

(* The row a POST asks for. *)
LEMMA NewIsDraft ==
  ASSUME NEW b \in ClientForms
  PROVE  NewClient(b) \in Drafts /\ NewClient(b).addr = b.addr
<1>1. EnabledClient \in Drafts
  BY DEF EnabledClient, Drafts, Types
<1>2. b.addr \in Addrs \cup {Absent} /\ b.type \in Types /\ b.tunnel \in Ids \cup {Absent}
  BY FormsOK
<1> DEFINE d == [EnabledClient EXCEPT !.addr = b.addr, !.type = b.type, !.tunnel = b.tunnel]
<1>3. d \in Drafts
  BY <1>1, <1>2, DraftOfBody
<1>4. d.addr = b.addr
  BY <1>1 DEF Drafts
<1>5. NewClient(b) = d
  BY DEF NewClient
<1> HIDE DEF d
<1> QED BY <1>3, <1>4, <1>5

(* What resolveUpstreamSpec accepts is still accepted once it is resolved. *)
LEMMA ResolvedDraft ==
  ASSUME NEW d \in Drafts
  PROVE  /\ Resolved(d) \in Drafts /\ Resolved(d).addr = d.addr /\ Resolved(d).type = d.type
         /\ DOMAIN tunnels \subseteq Ids /\ Acceptable(tunnels, d) =>
              Sorted(Resolved(d)) /\ Acceptable(tunnels, Resolved(d))
<1>1. Resolved(d) \in Drafts /\ Resolved(d).addr = d.addr /\ Resolved(d).type = d.type
      /\ Resolved(d).tunnel = IF d.type = "direct" THEN Absent ELSE d.tunnel
  BY DEF Resolved, Drafts
<1> QED BY <1>1, AbsentApart DEF Acceptable, Sorted, Drafts, Types

(* A row that is asked for may lack an address and nothing else. *)
LEMMA AskedIsDraft ==
  ASSUME NEW d, Asked(d)
  PROVE  d \in Drafts
BY NewIsDraft, ResolvedDraft DEF Asked

(* With an address it is a row of the table, and its upstream is what it was. *)
LEMMA DraftWithAddress ==
  ASSUME NEW d \in Drafts, NEW h \in Addrs
  PROVE  /\ [d EXCEPT !.addr = h] \in ClientRows /\ [d EXCEPT !.addr = h].type = d.type
         /\ [d EXCEPT !.addr = h].tunnel = d.tunnel /\ [d EXCEPT !.addr = h].addr = h
         /\ h = d.addr => [d EXCEPT !.addr = h] = d
<1>1. d = [addr |-> d.addr, enabled |-> d.enabled, type |-> d.type, tunnel |-> d.tunnel]
      /\ d.enabled \in BOOLEAN /\ d.type \in Types /\ d.tunnel \in Ids \cup {Absent}
  BY DEF Drafts
<1>2. [d EXCEPT !.addr = h] = [addr |-> h, enabled |-> d.enabled, type |-> d.type, tunnel |-> d.tunnel]
  BY <1>1
<1> QED BY <1>1, <1>2 DEF ClientRows

(* The NULL of upstream_tunnel_id is no id of a tunnel. *)
LEMMA TunnelIds == RegistryInv => DOMAIN tunnels \subseteq Ids
BY DEF RegistryInv, TablesTyped, IdsBounded, Ids

(* resolveUpstreamSpec: the tunnel a client asks for is there and enabled, as far as was read. *)
LEMMA ResolveKeeps ==
  ASSUME RegistryInv, NEW r \in Requests, Resolve(r)
  PROVE  RegistryInv' /\ UNCHANGED tables
<1> DEFINE f == form[r]
           g == [f EXCEPT !.row = Resolved(f.row)]
<1>1. Reads /\ DOMAIN f = Fields
      /\ \/ todo[r] = ToResolveNew /\ ~f.auto /\ \E b \in ClientForms : f.row = NewClient(b)
         \/ todo[r] = ToResolvePatch /\ f.row \in ClientRows /\ (f.row.type = "direct" => f.row.tunnel = Absent)
            /\ (r \notin overtaken =>
                  f.id \in DOMAIN clients /\ \E b \in ClientPatches : f.row = PatchedClient(clients[f.id], b))
  BY TheLocals, Plans DEF Resolve, At, Staged, Stage
<1>2. CASE Answer(r) /\ UNCHANGED form
  BY <1>1, <1>2, Answers
<1>3. CASE Acceptable(tunnels, f.row) /\ Fill(r, [f EXCEPT !.row = Resolved(@)]) /\ Continue(r)
  <2>1. form' = [form EXCEPT ![r] = g] /\ todo' = [todo EXCEPT ![r] = Tail(todo[r])]
    BY <1>3 DEF Fill, Continue
  <2>2. /\ DOMAIN g = Fields /\ g.row = Resolved(f.row) /\ g.id = f.id /\ g.auto = f.auto
    BY <1>1, WithRow
  <2> HIDE DEF g
  <2>3. CASE todo[r] = ToResolveNew /\ ~f.auto /\ \E b \in ClientForms : f.row = NewClient(b)
    <3>1. Tail(todo[r]) = ToReadIngress
      BY <2>3, Plans
    <3>2. f.row \in Drafts
      BY <2>3, NewIsDraft
    <3>3. Asked(g.row) /\ Acceptable(tunnels, g.row)
      BY <1>3, <2>2, <2>3, <3>2, ResolvedDraft, TunnelIds DEF Asked
    <3>4. Stage(ToReadIngress, g, r \notin overtaken, clients, tunnels, pool)
      BY <2>2, <2>3, <3>3 DEF Stage
    <3> QED BY <1>1, <2>1, <2>2, <3>1, <3>4, ReadsMove
  <2>4. CASE /\ todo[r] = ToResolvePatch /\ f.row \in ClientRows
             /\ f.row.type = "direct" => f.row.tunnel = Absent
             /\ r \notin overtaken =>
                  f.id \in DOMAIN clients /\ \E b \in ClientPatches : f.row = PatchedClient(clients[f.id], b)
    <3>1. Tail(todo[r]) = ToUpdateClient
      BY <2>4, Plans
    <3>2. g.row = f.row /\ Sorted(f.row)
      BY <1>3, <2>2, <2>4, ResolvedClient, TunnelIds
    <3>3. r \notin overtaken => f.id \in DOMAIN clients /\ PatchAccepted(clients[f.id], g.row, tunnels)
      BY <1>3, <2>2, <2>4 DEF PatchAccepted
    <3>4. Stage(ToUpdateClient, g, r \notin overtaken, clients, tunnels, pool)
      BY <2>2, <2>4, <3>2, <3>3 DEF Stage
    <3> QED BY <1>1, <2>1, <2>2, <3>1, <3>4, ReadsMove
  <2> QED BY <1>1, <2>3, <2>4
<1> QED BY <1>2, <1>3 DEF Resolve

(* GetIngress of CreateClient: the subnet the address is to come from. *)
LEMMA ReadIngressKeeps ==
  ASSUME RegistryInv, NEW r \in Requests, ReadIngress(r)
  PROVE  RegistryInv' /\ UNCHANGED tables
<1> DEFINE f == form[r]
           g == [f EXCEPT !.pool = pool]
<1>1. Reads /\ DOMAIN f = Fields /\ todo[r] = ToReadIngress /\ ~f.auto /\ Asked(f.row)
      /\ (r \notin overtaken => Acceptable(tunnels, f.row))
  BY TheLocals, Plans DEF ReadIngress, At, Staged, Stage
<1>2. form' = [form EXCEPT ![r] = g] /\ todo' = [todo EXCEPT ![r] = ToAllocate] /\ pool \in Settings
  BY <1>1, Plans DEF ReadIngress, Fill, Continue, RegistryInv, TablesTyped
<1>3. DOMAIN g = Fields /\ g.pool = pool /\ g.row = f.row /\ g.auto = f.auto
  BY <1>1 DEF Fields
<1> HIDE DEF g
<1>4. Stage(ToAllocate, g, r \notin overtaken, clients, tunnels, pool)
  BY <1>1, <1>2, <1>3 DEF Stage
<1> QED BY <1>1, <1>2, <1>3, <1>4, ReadsMove

(* Whether or not it can be used, what the allocator returns is an address.      *)
LEMMA PeerIsAddress ==
  ASSUME NEW p \in Settings, NEW used
  PROVE  NextPeer(p, used) \subseteq Addrs
<1>1. /\ Space \in Nat /\ Space > 3 /\ p \in Pools
      /\ p.base \in 0..(Space - 1) /\ p.size \in 1..Space /\ p.base + p.size <= Space
  BY SpaceOK, SettingsArePools DEF Pools, Hosts
<1>2. FirstHost(p) \in Hosts /\ LastHost(p) \in Hosts
  BY <1>1 DEF FirstHost, LastHost, Wrap, Hosts
<1> QED BY <1>1, <1>2 DEF NextPeer, Hosts, Addrs

(* NextPeerPrefix: the address is free, as far as was read. *)
LEMMA AllocateKeeps ==
  ASSUME RegistryInv, NEW r \in Requests, Allocate(r)
  PROVE  RegistryInv' /\ UNCHANGED tables
<1> DEFINE f == form[r]
<1>1. Reads /\ DOMAIN f = Fields /\ todo[r] = ToAllocate /\ ~f.auto /\ Asked(f.row) /\ f.pool \in Settings
      /\ (r \notin overtaken => Acceptable(tunnels, f.row) /\ f.pool = pool)
  BY TheLocals, Plans DEF Allocate, At, Staged, Stage
<1>2. f.row \in Drafts /\ f.row.addr \in Addrs \cup {Absent}
  BY <1>1, AskedIsDraft DEF Drafts
<1>3. CASE f.row.addr # Absent /\ Continue(r) /\ UNCHANGED form
  <2>1. todo' = [todo EXCEPT ![r] = ToInsertClient]
    BY <1>1, <1>3, Plans DEF Continue
  <2>2. f.row.addr \in Addrs /\ f.row = [f.row EXCEPT !.addr = f.row.addr]
    BY <1>2, <1>3, DraftWithAddress
  <2>3. Stage(ToInsertClient, f, r \notin overtaken, clients, tunnels, pool)
    <3>1. \E d, h :
            /\ Asked(d) /\ h \in Addrs /\ f.row = [d EXCEPT !.addr = h] /\ (f.auto => d.addr = Absent)
            /\ r \notin overtaken =>
                 /\ Acceptable(tunnels, d)
                 /\ h \in IF d.addr = Absent THEN NextPeer(pool, Addresses(clients)) ELSE {d.addr}
      <4> WITNESS f.row, f.row.addr
      <4> QED BY <1>1, <1>3, <2>2
    <3> QED BY <3>1 DEF Stage
  <2> QED BY <1>1, <1>3, <2>1, <2>3, Continues
<1>4. CASE Answer(r) /\ UNCHANGED form
  BY <1>1, <1>4, Answers
<1>5. ASSUME f.row.addr = Absent, NEW h \in NextPeer(f.pool, Addresses(clients)),
             Fill(r, [f EXCEPT !.row.addr = h, !.auto = TRUE]), Continue(r)
      PROVE  RegistryInv' /\ UNCHANGED tables
  <2> DEFINE g == [f EXCEPT !.row.addr = h, !.auto = TRUE]
  <2>1. form' = [form EXCEPT ![r] = g] /\ todo' = [todo EXCEPT ![r] = ToInsertClient]
    BY <1>1, <1>5, Plans DEF Fill, Continue
  <2>2. DOMAIN g = Fields /\ g.row = [f.row EXCEPT !.addr = h]
    BY <1>1 DEF Fields
  <2> HIDE DEF g
  <2>3. h \in Addrs
    BY <1>1, <1>5, PeerIsAddress
  <2>4. Stage(ToInsertClient, g, r \notin overtaken, clients, tunnels, pool)
    <3>1. \E d, e :
            /\ Asked(d) /\ e \in Addrs /\ g.row = [d EXCEPT !.addr = e] /\ (g.auto => d.addr = Absent)
            /\ r \notin overtaken =>
                 /\ Acceptable(tunnels, d)
                 /\ e \in IF d.addr = Absent THEN NextPeer(pool, Addresses(clients)) ELSE {d.addr}
      <4> WITNESS f.row, h
      <4> QED BY <1>1, <1>5, <2>2, <2>3
    <3> QED BY <3>1 DEF Stage
  <2> QED BY <1>1, <2>1, <2>2, <2>4, ReadsMove
<1> QED BY <1>3, <1>4, <1>5 DEF Allocate

(* The row that was just written is read again. *)
LEMMA ReloadKeeps ==
  ASSUME RegistryInv, NEW r \in Requests, ReloadClient(r) \/ ReloadTunnel(r)
  PROVE  RegistryInv' /\ UNCHANGED tables
<1>1. Reads /\ UNCHANGED form /\ (Answer(r) \/ Continue(r)) /\ Tail(todo[r]) = ToApply
  BY TheLocals, Plans DEF ReloadClient, ReloadTunnel, Reload, At, Staged, Stage
<1>2. Stage(ToApply, form[r], r \notin overtaken, clients, tunnels, pool)
  BY DEF Stage
<1> QED BY <1>1, <1>2, Answers, Continues DEF Continue

(* Rows that patches of tunnels make. *)
LEMMA PatchedTunnelTyped ==
  ASSUME NEW row \in TunnelRows, NEW b \in TunnelPatches
  PROVE  PatchedTunnel(row, b) \in TunnelRows
<1>1. b.iface \in Ifaces \cup {Absent} /\ b.enabled \in BOOLEAN \cup {Absent}
  BY FormsOK
<1>2. row.iface \in Ifaces /\ row.enabled \in BOOLEAN
  BY DEF TunnelRows
<1>3. Override(b.iface, row.iface) \in Ifaces /\ Override(b.enabled, row.enabled) \in BOOLEAN
  BY <1>1, <1>2 DEF Override
<1> QED BY <1>3 DEF PatchedTunnel, TunnelRows

(* GetUpstreamTunnel: a tunnel is counted for only when it is to be switched off. *)
LEMMA GetTunnelKeeps ==
  ASSUME RegistryInv, NEW r \in Requests, GetTunnel(r)
  PROVE  RegistryInv' /\ UNCHANGED tables
<1> DEFINE f == form[r]
           old == tunnels[f.id]
           row == PatchedTunnel(old, f.body)
           g == [f EXCEPT !.row = row]
<1>1. Reads /\ DOMAIN f = Fields /\ todo[r] = ToGetTunnel /\ f.body \in TunnelPatches
  BY TheLocals, Plans DEF GetTunnel, At, Staged, Stage
<1>2. CASE Answer(r) /\ UNCHANGED form
  BY <1>1, <1>2, Answers
<1>3. CASE /\ f.id \in DOMAIN tunnels /\ Fill(r, g)
           /\ todo' = [todo EXCEPT ![r] = IF old.enabled /\ ~row.enabled
                                          THEN Tail(todo[r]) ELSE Tail(Tail(todo[r]))]
  <2>1. row \in TunnelRows /\ PatchOf(old, row)
    BY <1>1, <1>3, PatchedTunnelTyped DEF RegistryInv, TablesTyped, PatchOf
  <2>2. DOMAIN g = Fields /\ g.row = row /\ g.id = f.id
    BY <1>1, WithRow
  <2>3. form' = [form EXCEPT ![r] = g]
    BY <1>3 DEF Fill
  <2> HIDE DEF g, row
  <2>4. CASE old.enabled /\ ~row.enabled
    <3>1. todo' = [todo EXCEPT ![r] = ToCountPatched]
      BY <1>1, <1>3, <2>4, Plans
    <3>2. Stage(ToCountPatched, g, r \notin overtaken, clients, tunnels, pool)
      BY <1>3, <2>1, <2>2 DEF Stage
    <3> QED BY <1>1, <2>2, <2>3, <3>1, <3>2, ReadsMove
  <2>5. CASE ~(old.enabled /\ ~row.enabled)
    <3>1. todo' = [todo EXCEPT ![r] = ToUpdateTunnel]
      BY <1>1, <1>3, <2>5, Plans
    <3>2. Stage(ToUpdateTunnel, g, r \notin overtaken, clients, tunnels, pool)
      BY <1>3, <2>1, <2>2, <2>5 DEF Stage
    <3> QED BY <1>1, <2>2, <2>3, <3>1, <3>2, ReadsMove
  <2> QED BY <2>4, <2>5
<1> QED BY <1>2, <1>3 DEF GetTunnel

(* CountClientsOnUpstreamTunnel: no client named the tunnel when it was read. *)
LEMMA CountClientsKeeps ==
  ASSUME RegistryInv, NEW r \in Requests, CountClients(r)
  PROVE  RegistryInv' /\ UNCHANGED tables
<1>1. Reads /\ UNCHANGED form
  BY DEF CountClients
<1>2. CASE Answer(r)
  BY <1>1, <1>2, Answers
<1>3. CASE ~Referenced(clients, form[r].id) /\ Continue(r)
  <2>1. \/ /\ todo[r] = ToCountPatched /\ form[r].row \in TunnelRows
           /\ r \notin overtaken => form[r].id \in DOMAIN tunnels /\ PatchOf(tunnels[form[r].id], form[r].row)
        \/ todo[r] = ToCountDeleted
    BY TheLocals, Plans DEF CountClients, At, Staged, Stage
  <2>2. Stage(Tail(todo[r]), form[r], r \notin overtaken, clients, tunnels, pool)
    <3>1. CASE todo[r] = ToCountDeleted
      BY <1>3, <3>1, Plans DEF Stage
    <3>2. CASE todo[r] # ToCountDeleted
      BY <1>3, <2>1, <3>2, Plans DEF Stage
    <3> QED BY <3>1, <3>2
  <2> QED BY <1>1, <1>3, <2>2, Continues DEF Continue
<1> QED BY <1>2, <1>3 DEF CountClients

(* GetIngress of PutIngress. *)
LEMMA GetIngressKeeps ==
  ASSUME RegistryInv, NEW r \in Requests, GetIngress(r)
  PROVE  RegistryInv' /\ UNCHANGED tables
<1>1. Reads /\ UNCHANGED form /\ Continue(r) /\ todo[r] = ToGetIngress /\ form[r].body \in Settings
  BY TheLocals, Plans DEF GetIngress, At, Staged, Stage
<1>2. Stage(ToUpdateIngress, form[r], r \notin overtaken, clients, tunnels, pool)
  BY <1>1 DEF Stage
<1> QED BY <1>1, <1>2, Plans, Continues DEF Continue

-----------------------------------------------------------------------------
(* Statements that write. *)

(* What may be written of a client without breaking a reference. *)
Fits(row, ts) == row.type = "via_upstream" => row.tunnel \in DOMAIN ts /\ ts[row.tunnel].enabled

(* A client is added under the next id. *)
LEMMA ClientAdded ==
  ASSUME TablesTyped, NEW row \in ClientRows, Sorted(row), UNCHANGED <<tunnels, tunnelSeq, pool>>,
         clients' = Add(clients, clientSeq + 1, row), clientSeq' = clientSeq + 1
  PROVE  TablesTyped' /\ (ReferencesHold /\ Fits(row, tunnels) => ReferencesHold')
<1>1. clients' = [c \in DOMAIN clients' |-> clients'[c]]
      /\ \A c \in DOMAIN clients' : clients'[c] = row \/ (c \in DOMAIN clients /\ clients'[c] = clients[c])
  BY DEF Add
<1>2. IdsBounded'
  BY DEF TablesTyped, IdsBounded, Add
<1>3. TablesTyped'
  BY <1>1, <1>2 DEF TablesTyped
<1> QED BY <1>1, <1>3 DEF ReferencesHold, Promise!ReferencesHold, Fits

(* A client is overwritten, if it is still there. *)
LEMMA ClientPut ==
  ASSUME TablesTyped, NEW row \in ClientRows, Sorted(row), NEW id,
         UNCHANGED <<tunnels, clientSeq, tunnelSeq, pool>>, clients' = Put(clients, id, row)
  PROVE  TablesTyped' /\ (ReferencesHold /\ Fits(row, tunnels) => ReferencesHold')
         /\ (id \notin DOMAIN clients => UNCHANGED tables)
<1>1. /\ clients' = [c \in DOMAIN clients' |-> clients'[c]] /\ DOMAIN clients' = DOMAIN clients
      /\ \A c \in DOMAIN clients' : clients'[c] = row \/ clients'[c] = clients[c]
  BY DEF Put
<1>2. TablesTyped'
  BY <1>1 DEF TablesTyped, IdsBounded
<1>3. id \notin DOMAIN clients => clients' = clients
  BY DEF Put, TablesTyped
<1>4. ReferencesHold /\ Fits(row, tunnels) => ReferencesHold'
  BY <1>1 DEF ReferencesHold, Promise!ReferencesHold, Fits
<1> QED BY <1>2, <1>3, <1>4 DEF tables

(* A client is deleted, if it is still there. *)
LEMMA ClientRemoved ==
  ASSUME TablesTyped, NEW id, UNCHANGED <<tunnels, clientSeq, tunnelSeq, pool>>,
         clients' = Remove(clients, id)
  PROVE  TablesTyped' /\ (ReferencesHold => ReferencesHold')
         /\ (id \notin DOMAIN clients => UNCHANGED tables)
<1>1. clients' = [c \in DOMAIN clients' |-> clients'[c]] /\ DOMAIN clients' \subseteq DOMAIN clients
      /\ \A c \in DOMAIN clients' : clients'[c] = clients[c]
  BY DEF Remove
<1>2. TablesTyped'
  BY <1>1 DEF TablesTyped, IdsBounded
<1>3. id \notin DOMAIN clients => clients' = clients
  <2>1. id \notin DOMAIN clients => DOMAIN clients \ {id} = DOMAIN clients
    OBVIOUS
  <2> QED BY <2>1 DEF Remove, TablesTyped
<1>4. ReferencesHold => ReferencesHold'
  BY <1>1 DEF ReferencesHold, Promise!ReferencesHold
<1> QED BY <1>2, <1>3, <1>4 DEF tables

(* A tunnel is added under the next id: no client can have named it. *)
LEMMA TunnelAdded ==
  ASSUME TablesTyped, NEW row \in TunnelRows, UNCHANGED <<clients, clientSeq, pool>>,
         tunnels' = Add(tunnels, tunnelSeq + 1, row), tunnelSeq' = tunnelSeq + 1
  PROVE  TablesTyped' /\ (ReferencesHold => ReferencesHold')
<1>1. /\ tunnels' = [t \in DOMAIN tunnels' |-> tunnels'[t]] /\ DOMAIN tunnels \subseteq DOMAIN tunnels'
      /\ \A t \in DOMAIN tunnels' : tunnels'[t] = row \/ (t \in DOMAIN tunnels /\ tunnels'[t] = tunnels[t])
  BY DEF Add
<1>2. \A t \in DOMAIN tunnels : tunnels'[t] = tunnels[t]
  BY DEF Add, TablesTyped, IdsBounded
<1>3. IdsBounded'
  BY DEF TablesTyped, IdsBounded, Add
<1>4. TablesTyped'
  BY <1>1, <1>3 DEF TablesTyped
<1>5. ReferencesHold => ReferencesHold'
  BY <1>1, <1>2 DEF ReferencesHold, Promise!ReferencesHold
<1> QED BY <1>4, <1>5

(* A tunnel is overwritten, if it is still there. *)
LEMMA TunnelPut ==
  ASSUME TablesTyped, NEW row \in TunnelRows, NEW id,
         UNCHANGED <<clients, clientSeq, tunnelSeq, pool>>, tunnels' = Put(tunnels, id, row)
  PROVE  /\ TablesTyped'
         /\ ReferencesHold /\ (Referenced(clients, id) => (tunnels[id].enabled => row.enabled))
              => ReferencesHold'
         /\ id \notin DOMAIN tunnels => UNCHANGED tables
<1>1. /\ tunnels' = [t \in DOMAIN tunnels' |-> tunnels'[t]] /\ DOMAIN tunnels' = DOMAIN tunnels
      /\ \A t \in DOMAIN tunnels : IF t = id THEN tunnels'[t] = row ELSE tunnels'[t] = tunnels[t]
  BY DEF Put
<1>2. TablesTyped'
  BY <1>1 DEF TablesTyped, IdsBounded
<1>3. id \notin DOMAIN tunnels => tunnels' = tunnels
  BY DEF Put, TablesTyped
<1>4. ReferencesHold /\ (Referenced(clients, id) => (tunnels[id].enabled => row.enabled)) => ReferencesHold'
  BY <1>1 DEF ReferencesHold, Promise!ReferencesHold, Referenced
<1> QED BY <1>2, <1>3, <1>4 DEF tables

(* A tunnel is deleted, if it is still there. *)
LEMMA TunnelRemoved ==
  ASSUME TablesTyped, NEW id, UNCHANGED <<clients, clientSeq, tunnelSeq, pool>>,
         tunnels' = Remove(tunnels, id)
  PROVE  TablesTyped' /\ (ReferencesHold /\ ~Referenced(clients, id) => ReferencesHold')
         /\ (id \notin DOMAIN tunnels => UNCHANGED tables)
<1>1. tunnels' = [t \in DOMAIN tunnels' |-> tunnels'[t]] /\ DOMAIN tunnels' = DOMAIN tunnels \ {id}
      /\ \A t \in DOMAIN tunnels' : tunnels'[t] = tunnels[t]
  BY DEF Remove
<1>2. TablesTyped'
  BY <1>1 DEF TablesTyped, IdsBounded
<1>3. id \notin DOMAIN tunnels => tunnels' = tunnels
  <2>1. id \notin DOMAIN tunnels => DOMAIN tunnels \ {id} = DOMAIN tunnels
    OBVIOUS
  <2> QED BY <2>1 DEF Remove, TablesTyped
<1>4. ReferencesHold /\ ~Referenced(clients, id) => ReferencesHold'
  BY <1>1 DEF ReferencesHold, Promise!ReferencesHold, Referenced
<1> QED BY <1>2, <1>3, <1>4 DEF tables

(* A write of a request that none has overtaken is an operation of Catalogue. *)
Promised(r) == \/ r \in overtaken
               \/ UNCHANGED tables
               \/ Promise!Next

(* InsertClient is AddClient of Catalogue. *)
LEMMA InsertClientKeeps ==
  ASSUME RegistryInv, NEW r \in Requests, InsertClient(r)
  PROVE  RegistryInv' /\ Promised(r)
<1> DEFINE f == form[r]
           g == [f EXCEPT !.id = clientSeq + 1]
<1>1. DOMAIN f = Fields /\ todo[r] = ToInsertClient
      /\ \E d, h :
           /\ Asked(d) /\ h \in Addrs /\ f.row = [d EXCEPT !.addr = h]
           /\ r \notin overtaken =>
                /\ Acceptable(tunnels, d)
                /\ h \in IF d.addr = Absent THEN NextPeer(pool, Addresses(clients)) ELSE {d.addr}
  BY TheLocals, Plans DEF InsertClient, At, Staged, Stage
<1>2. PICK d, h :
        /\ Asked(d) /\ h \in Addrs /\ f.row = [d EXCEPT !.addr = h]
        /\ r \notin overtaken =>
             /\ Acceptable(tunnels, d)
             /\ h \in IF d.addr = Absent THEN NextPeer(pool, Addresses(clients)) ELSE {d.addr}
  BY <1>1
<1>3. /\ clients' = Add(clients, clientSeq + 1, f.row) /\ clientSeq' = clientSeq + 1
      /\ form' = [form EXCEPT ![r] = g] /\ todo' = [todo EXCEPT ![r] = ToReloadClient]
      /\ UNCHANGED <<tunnels, tunnelSeq, pool>> /\ Overtakes(r)
  BY <1>1, Plans DEF InsertClient, NewId, Fill, Continue, WritesClients, Commits
<1>4. DOMAIN g = Fields
  BY <1>1
<1> HIDE DEF g
<1>5. f.row \in ClientRows /\ f.row.type = d.type /\ f.row.tunnel = d.tunnel /\ d \in Drafts
  BY <1>2, AskedIsDraft, DraftWithAddress
<1>6. Sorted(f.row)
  BY <1>2, <1>5 DEF Asked, Sorted
<1>7. r \notin overtaken => Fits(f.row, tunnels)
  BY <1>2, <1>5 DEF Acceptable, Fits, Drafts, Types
<1>8. TablesTyped' /\ (ReferencesHold /\ Fits(f.row, tunnels) => ReferencesHold')
  BY <1>3, <1>5, <1>6, ClientAdded DEF RegistryInv
<1>9. Stage(ToReloadClient, g, r \notin overtaken', clients', tunnels', pool')
  BY DEF Stage
<1>10. RegistryInv'
  BY <1>3, <1>4, <1>7, <1>8, <1>9, WritesMove DEF RegistryInv
<1>11. r \notin overtaken => Promise!AddClient
  <2>1. SUFFICES ASSUME r \notin overtaken PROVE Promise!AddClient
    OBVIOUS
  <2>2. PICK b \in ClientForms : d = Resolved(NewClient(b))
    BY <1>2 DEF Asked
  <2>3. d.addr = b.addr
    BY <2>2, NewIsDraft, ResolvedDraft
  <2>4. Promise!Acceptable(tunnels, Promise!Resolved(Promise!NewClient(b)))
    BY <1>2, <2>1, <2>2, SameHelpers
  <2>5. h \in IF b.addr = Absent THEN Promise!NextPeer(pool, Promise!Addresses(clients)) ELSE {b.addr}
    BY <1>2, <2>1, <2>3, SameHelpers
  <2>6. Promise!Insert([Promise!Resolved(Promise!NewClient(b)) EXCEPT !.addr = h])
    BY <1>2, <1>3, <2>2, SameHelpers DEF Promise!Insert
  <2> QED BY <2>4, <2>5, <2>6 DEF Promise!AddClient
<1> QED BY <1>10, <1>11 DEF Promised, Promise!Next

(* UpdateClient is ChangeClient or SwitchClient of Catalogue. *)
LEMMA UpdateClientKeeps ==
  ASSUME RegistryInv, NEW r \in Requests, UpdateClient(r)
  PROVE  RegistryInv' /\ Promised(r)
<1> DEFINE f == form[r]
           old == clients[f.id]
<1>1. /\ DOMAIN f = Fields /\ todo[r] = ToUpdateClient /\ f.row \in ClientRows /\ Sorted(f.row)
      /\ r \notin overtaken => /\ f.id \in DOMAIN clients
                               /\ PatchAccepted(old, f.row, tunnels) \/ Switched(old, f.row)
  BY TheLocals, Plans DEF UpdateClient, At, Staged, Stage
<1>2. /\ clients' = Put(clients, f.id, f.row) /\ UNCHANGED form /\ todo' = [todo EXCEPT ![r] = ToApply]
      /\ UNCHANGED <<tunnels, clientSeq, tunnelSeq, pool>> /\ Overtakes(r)
  BY <1>1, Plans DEF UpdateClient, Continue, WritesClients, Commits
<1>3. /\ TablesTyped' /\ (ReferencesHold /\ Fits(f.row, tunnels) => ReferencesHold')
      /\ f.id \notin DOMAIN clients => UNCHANGED tables
  BY <1>1, <1>2, ClientPut DEF RegistryInv
<1>4. f.id \in DOMAIN clients => old \in ClientRows
  BY DEF RegistryInv, TablesTyped
<1>5. r \in overtaken \/ (Promise!Next /\ (ReferencesHold => Fits(f.row, tunnels)))
  <2>1. CASE r \notin overtaken /\ PatchAccepted(old, f.row, tunnels)
    <3>1. PICK b \in ClientPatches :
            Acceptable(tunnels, PatchedClient(old, b)) /\ f.row = Resolved(PatchedClient(old, b))
      BY <2>1 DEF PatchAccepted
    <3>2. f.row = PatchedClient(old, b)
      BY <1>1, <1>4, <2>1, <3>1, PatchTyped, ResolvedClient, TunnelIds
    <3>3. Fits(f.row, tunnels)
      BY <1>1, <3>1, <3>2 DEF Fits, Acceptable
    <3>4. Promise!ChangeClient
      <4>1. /\ Promise!Acceptable(tunnels, Promise!PatchedClient(clients[f.id], b))
            /\ clients' = Promise!Put(clients, f.id, Promise!Resolved(Promise!PatchedClient(clients[f.id], b)))
        BY <1>2, <3>1, SameHelpers
      <4> QED BY <1>1, <1>2, <2>1, <4>1 DEF Promise!ChangeClient
    <3> QED BY <3>3, <3>4 DEF Promise!Next
  <2>2. CASE r \notin overtaken /\ Switched(old, f.row)
    <3>1. PICK en \in BOOLEAN : f.row = [old EXCEPT !.enabled = en]
      BY <2>2 DEF Switched
    <3>2. clients' = [clients EXCEPT ![f.id].enabled = en]
      <4>1. \A c \in DOMAIN clients : c = f.id => f.row = [clients[c] EXCEPT !.enabled = en]
        BY <3>1
      <4> QED BY <1>2, <4>1 DEF Put
    <3>3. f.row.type = old.type /\ f.row.tunnel = old.tunnel
      BY <1>1, <1>4, <2>2, <3>1 DEF ClientRows
    <3>4. ReferencesHold => Fits(f.row, tunnels)
      BY <1>1, <2>2, <3>3 DEF ReferencesHold, Promise!ReferencesHold, Fits
    <3>5. Promise!SwitchClient
      BY <1>1, <1>2, <2>2, <3>2 DEF Promise!SwitchClient
    <3> QED BY <3>4, <3>5 DEF Promise!Next
  <2> QED BY <1>1, <2>1, <2>2
<1>6. Stage(ToApply, f, r \notin overtaken', clients', tunnels', pool')
  BY DEF Stage
<1>7. form' = [form EXCEPT ![r] = f]
  BY <1>2, KeepLocals DEF RegistryInv
<1>8. r \in overtaken \/ (~crossed => ReferencesHold')
  BY <1>3, <1>5 DEF RegistryInv
<1>9. RegistryInv'
  BY <1>1, <1>2, <1>3, <1>6, <1>7, <1>8, WritesMove
<1> QED BY <1>5, <1>9 DEF Promised

(* DeleteClient is DropClient of Catalogue. *)
LEMMA RemoveClientKeeps ==
  ASSUME RegistryInv, NEW r \in Requests, RemoveClient(r)
  PROVE  RegistryInv' /\ Promised(r)
<1> DEFINE f == form[r]
<1>1. DOMAIN f = Fields /\ todo[r] = ToDeleteClient
  BY TheLocals, Plans DEF RemoveClient, At, Staged, Stage
<1>2. /\ clients' = Remove(clients, f.id) /\ UNCHANGED form /\ todo' = [todo EXCEPT ![r] = ToApply]
      /\ UNCHANGED <<tunnels, clientSeq, tunnelSeq, pool>> /\ Overtakes(r)
  BY <1>1, Plans DEF RemoveClient, Continue, WritesClients, Commits
<1>3. /\ TablesTyped' /\ (ReferencesHold => ReferencesHold')
      /\ f.id \notin DOMAIN clients => UNCHANGED tables
  BY <1>2, ClientRemoved DEF RegistryInv
<1>4. f.id \in DOMAIN clients => Promise!DropClient
  BY <1>2, SameHelpers DEF Promise!DropClient
<1>5. Stage(ToApply, f, r \notin overtaken', clients', tunnels', pool')
  BY DEF Stage
<1>6. form' = [form EXCEPT ![r] = f]
  BY <1>2, KeepLocals DEF RegistryInv
<1>7. ~crossed => ReferencesHold'
  BY <1>3 DEF RegistryInv
<1>8. RegistryInv'
  BY <1>1, <1>2, <1>3, <1>5, <1>6, <1>7, WritesMove
<1> QED BY <1>3, <1>4, <1>8 DEF Promised, Promise!Next

(* A client of an export is given two fields and keeps the others. *)
LEMMA DraftImported ==
  ASSUME NEW d \in Drafts, NEW h \in Addrs, NEW en \in BOOLEAN
  PROVE  /\ [d EXCEPT !.addr = h, !.enabled = en] \in ClientRows
         /\ [d EXCEPT !.addr = h, !.enabled = en].type = d.type
         /\ [d EXCEPT !.addr = h, !.enabled = en].tunnel = d.tunnel
BY DEF Drafts, ClientRows

(* Clients of an export have no tunnel to be wrong about. *)
LEMMA ImportedRow ==
  ASSUME NEW c, Brought(c)
  PROVE  Imported(c) \in ClientRows /\ Sorted(Imported(c)) /\ Fits(Imported(c), tunnels)
<1>1. c.addr \in Addrs /\ Override(c.enabled, TRUE) \in BOOLEAN
  <2>1. PICK cs \in Imports : \E i \in DOMAIN cs : c = cs[i]
    BY DEF Brought
  <2>2. c \in [addr : Addrs \cup {Absent}, enabled : BOOLEAN \cup {Absent}, key : BOOLEAN]
    BY <2>1, FormsOK
  <2>3. c.addr \in Addrs \cup {Absent} /\ c.enabled \in BOOLEAN \cup {Absent}
    BY <2>2
  <2> QED BY <2>3 DEF Brought, Importable, Override
<1> DEFINE row == [EnabledClient EXCEPT !.addr = c.addr, !.enabled = Override(c.enabled, TRUE)]
<1>2. EnabledClient \in Drafts /\ EnabledClient.type = "direct" /\ EnabledClient.tunnel = Absent
  BY DEF EnabledClient, Drafts, Types
<1>3. row \in ClientRows /\ row.type = "direct" /\ row.tunnel = Absent
  BY <1>1, <1>2, DraftImported
<1>4. Imported(c) = row
  BY DEF Imported
<1> HIDE DEF row
<1> QED BY <1>3, <1>4 DEF Sorted, Fits

(* InsertClient of the importer is ImportClient of Catalogue, one client at a time. *)
LEMMA ImportClientKeeps ==
  ASSUME RegistryInv, NEW r \in Requests, ImportClient(r)
  PROVE  RegistryInv' /\ Promised(r)
<1> DEFINE f == form[r]
<1>1. /\ DOMAIN f = Fields /\ todo[r] = ToImportClient /\ \A i \in DOMAIN f.imports : Brought(f.imports[i])
  BY TheLocals, Plans DEF ImportClient, At, Staged, Stage
<1>2. PICK i \in DOMAIN f.imports :
        /\ clients' = Add(clients, clientSeq + 1, Imported(f.imports[i])) /\ clientSeq' = clientSeq + 1
        /\ form' = [form EXCEPT ![r] = [f EXCEPT !.imports = Remove(f.imports, i)]]
        /\ IF DOMAIN Remove(f.imports, i) = {} THEN Answer(r) ELSE UNCHANGED todo
  BY DEF ImportClient, NewId, Fill
<1> DEFINE c == f.imports[i]
           g == [f EXCEPT !.imports = Remove(f.imports, i)]
<1>3. UNCHANGED <<tunnels, tunnelSeq, pool>> /\ Overtakes(r)
  BY DEF ImportClient, WritesClients, Commits
<1>4. DOMAIN g = Fields /\ g.imports = Remove(f.imports, i)
  BY <1>1 DEF Fields
<1> HIDE DEF g
<1>5. \A j \in DOMAIN g.imports : Brought(g.imports[j])
  BY <1>1, <1>4 DEF Remove
<1>6. Imported(c) \in ClientRows /\ Sorted(Imported(c)) /\ Fits(Imported(c), tunnels)
  BY <1>1, <1>2, ImportedRow
<1>7. TablesTyped' /\ (ReferencesHold => ReferencesHold')
  BY <1>2, <1>3, <1>6, ClientAdded DEF RegistryInv
<1>8. PICK t \in {<<>>, ToImportClient} : todo' = [todo EXCEPT ![r] = t]
  <2>1. CASE Answer(r)
    BY <2>1 DEF Answer
  <2>2. CASE UNCHANGED todo
    BY <1>1, <2>2 DEF RegistryInv, LocalsTyped
  <2> QED BY <1>2, <2>1, <2>2
<1>9. Stage(t, g, r \notin overtaken', clients', tunnels', pool')
  BY <1>5, <1>8 DEF Stage
<1>10. ~crossed => ReferencesHold'
  BY <1>7 DEF RegistryInv
<1>11. form' = [form EXCEPT ![r] = g]
  BY <1>2 DEF g
<1>12. RegistryInv'
  BY <1>3, <1>4, <1>7, <1>8, <1>9, <1>10, <1>11, WritesMove
<1>13. Promise!ImportClient
  <2>1. PICK cs \in Imports : \E j \in DOMAIN cs : c = cs[j]
    BY <1>1, <1>2 DEF Brought
  <2>2. PICK j \in DOMAIN cs : c = cs[j]
    BY <2>1
  <2>3. Promise!Importable(c) /\ Promise!Insert(Promise!Imported(c))
    BY <1>1, <1>2, <1>3, SameHelpers DEF Brought, Promise!Insert
  <2> QED BY <2>1, <2>2, <2>3 DEF Promise!ImportClient
<1> QED BY <1>12, <1>13 DEF Promised, Promise!Next

(* InsertUpstreamTunnel is AddTunnel of Catalogue. *)
LEMMA InsertTunnelKeeps ==
  ASSUME RegistryInv, NEW r \in Requests, InsertTunnel(r)
  PROVE  RegistryInv' /\ Promised(r)
<1> DEFINE f == form[r]
           g == [f EXCEPT !.id = tunnelSeq + 1]
<1>1. DOMAIN f = Fields /\ todo[r] = ToInsertTunnel /\ f.body \in TunnelForms
  BY TheLocals, Plans DEF InsertTunnel, At, Staged, Stage
<1>2. CASE Answer(r) /\ Reads /\ UNCHANGED form
  BY <1>2, Answers DEF Promised
<1>3. CASE /\ ~Taken(tunnels, f.body.iface, 0)
           /\ tunnels' = Add(tunnels, tunnelSeq + 1, f.body) /\ tunnelSeq' = tunnelSeq + 1
           /\ Fill(r, g) /\ Continue(r) /\ WritesTunnels(r)
  <2>1. /\ form' = [form EXCEPT ![r] = g] /\ todo' = [todo EXCEPT ![r] = ToReloadTunnel]
        /\ UNCHANGED <<clients, clientSeq, pool>> /\ Overtakes(r)
    BY <1>1, <1>3, Plans DEF Fill, Continue, WritesTunnels, Commits
  <2>2. DOMAIN g = Fields
    BY <1>1
  <2> HIDE DEF g
  <2>3. f.body \in TunnelRows
    BY <1>1, FormsOK
  <2>4. TablesTyped' /\ (ReferencesHold => ReferencesHold')
    BY <1>3, <2>1, <2>3, TunnelAdded DEF RegistryInv
  <2>5. Stage(ToReloadTunnel, g, r \notin overtaken', clients', tunnels', pool')
    BY DEF Stage
  <2>6. ~crossed => ReferencesHold'
    BY <2>4 DEF RegistryInv
  <2>7. RegistryInv'
    BY <2>1, <2>2, <2>4, <2>5, <2>6, WritesMove
  <2>8. Promise!AddTunnel
    BY <1>1, <1>3, <2>1, SameHelpers DEF Promise!AddTunnel
  <2> QED BY <2>7, <2>8 DEF Promised, Promise!Next
<1> QED BY <1>2, <1>3 DEF InsertTunnel, NewId

(* UpdateUpstreamTunnel is ChangeTunnel of Catalogue. *)
LEMMA UpdateTunnelKeeps ==
  ASSUME RegistryInv, NEW r \in Requests, UpdateTunnel(r)
  PROVE  RegistryInv' /\ Promised(r)
<1> DEFINE f == form[r]
<1>1. /\ DOMAIN f = Fields /\ todo[r] = ToUpdateTunnel /\ f.row \in TunnelRows
      /\ r \notin overtaken => /\ f.id \in DOMAIN tunnels /\ PatchOf(tunnels[f.id], f.row)
                               /\ Referenced(clients, f.id) => (tunnels[f.id].enabled => f.row.enabled)
  BY TheLocals, Plans DEF UpdateTunnel, At, Staged, Stage
<1>2. CASE Answer(r) /\ Reads
  BY <1>2, Answers DEF UpdateTunnel, Promised
<1>3. CASE /\ ~(f.id \in DOMAIN tunnels /\ Taken(tunnels, f.row.iface, f.id))
           /\ tunnels' = Put(tunnels, f.id, f.row)
           /\ Continue(r) /\ UNCHANGED tunnelSeq /\ WritesTunnels(r)
  <2>1. /\ UNCHANGED form /\ todo' = [todo EXCEPT ![r] = ToReloadTunnel]
        /\ UNCHANGED <<clients, clientSeq, tunnelSeq, pool>> /\ Overtakes(r)
    BY <1>1, <1>3, Plans DEF UpdateTunnel, Continue, WritesTunnels, Commits
  <2>2. /\ TablesTyped'
        /\ ReferencesHold /\ (Referenced(clients, f.id) => (tunnels[f.id].enabled => f.row.enabled))
             => ReferencesHold'
        /\ f.id \notin DOMAIN tunnels => UNCHANGED tables
    BY <1>1, <1>3, <2>1, TunnelPut DEF RegistryInv
  <2>3. Stage(ToReloadTunnel, f, r \notin overtaken', clients', tunnels', pool')
    BY DEF Stage
  <2>4. form' = [form EXCEPT ![r] = f]
    BY <2>1, KeepLocals DEF RegistryInv
  <2>5. r \in overtaken \/ (~crossed => ReferencesHold')
    BY <1>1, <2>2 DEF RegistryInv
  <2>6. RegistryInv'
    BY <1>1, <2>1, <2>2, <2>3, <2>4, <2>5, WritesMove
  <2>7. r \notin overtaken => Promise!ChangeTunnel
    <3>1. SUFFICES ASSUME r \notin overtaken PROVE Promise!ChangeTunnel
      OBVIOUS
    <3>2. PICK b \in TunnelPatches : f.row = PatchedTunnel(tunnels[f.id], b)
      BY <1>1, <3>1 DEF PatchOf
    <3>3. f.row = Promise!PatchedTunnel(tunnels[f.id], b)
      BY <3>2, SameHelpers
    <3>4. /\ Promise!Referenced(clients, f.id) => (tunnels[f.id].enabled => f.row.enabled)
          /\ ~Promise!Taken(tunnels, f.row.iface, f.id)
          /\ tunnels' = Promise!Put(tunnels, f.id, f.row)
      BY <1>1, <1>3, <3>1, SameHelpers
    <3> QED BY <1>1, <2>1, <3>1, <3>3, <3>4 DEF Promise!ChangeTunnel
  <2> QED BY <2>6, <2>7 DEF Promised, Promise!Next
<1> QED BY <1>2, <1>3 DEF UpdateTunnel

(* DeleteUpstreamTunnel is DropTunnel of Catalogue. *)
LEMMA RemoveTunnelKeeps ==
  ASSUME RegistryInv, NEW r \in Requests, RemoveTunnel(r)
  PROVE  RegistryInv' /\ Promised(r)
<1> DEFINE f == form[r]
<1>1. /\ DOMAIN f = Fields /\ todo[r] = ToDeleteTunnel /\ (r \notin overtaken => ~Referenced(clients, f.id))
  BY TheLocals, Plans DEF RemoveTunnel, At, Staged, Stage
<1>2. /\ tunnels' = Remove(tunnels, f.id) /\ UNCHANGED form /\ todo' = [todo EXCEPT ![r] = ToApply]
      /\ UNCHANGED <<clients, clientSeq, tunnelSeq, pool>> /\ Overtakes(r)
  BY <1>1, Plans DEF RemoveTunnel, Continue, WritesTunnels, Commits
<1>3. /\ TablesTyped' /\ (ReferencesHold /\ ~Referenced(clients, f.id) => ReferencesHold')
      /\ f.id \notin DOMAIN tunnels => UNCHANGED tables
  BY <1>2, TunnelRemoved DEF RegistryInv
<1>4. f.id \in DOMAIN tunnels /\ r \notin overtaken => Promise!DropTunnel
  BY <1>1, <1>2, SameHelpers DEF Promise!DropTunnel
<1>5. Stage(ToApply, f, r \notin overtaken', clients', tunnels', pool')
  BY DEF Stage
<1>6. form' = [form EXCEPT ![r] = f]
  BY <1>2, KeepLocals DEF RegistryInv
<1>7. r \in overtaken \/ (~crossed => ReferencesHold')
  BY <1>1, <1>3 DEF RegistryInv
<1>8. RegistryInv'
  BY <1>1, <1>2, <1>3, <1>5, <1>6, <1>7, WritesMove
<1> QED BY <1>3, <1>4, <1>8 DEF Promised, Promise!Next

(* UpdateIngress is SetPool of Catalogue. *)
LEMMA UpdateIngressKeeps ==
  ASSUME RegistryInv, NEW r \in Requests, UpdateIngress(r)
  PROVE  RegistryInv' /\ Promised(r)
<1> DEFINE f == form[r]
<1>1. /\ DOMAIN f = Fields /\ f.body \in Settings
      /\ \/ todo[r] \in {ToUpdateIngress, ToImportNone}
         \/ todo[r] = ToImportSome /\ \A i \in DOMAIN f.imports : Brought(f.imports[i])
  BY TheLocals, Plans DEF UpdateIngress, At, Staged, Stage
<1>2. /\ pool' = f.body /\ UNCHANGED form /\ todo' = [todo EXCEPT ![r] = Tail(todo[r])]
      /\ UNCHANGED <<clients, tunnels, clientSeq, tunnelSeq>> /\ Overtakes(r)
  BY DEF UpdateIngress, Continue, Commits
<1>3. TablesTyped' /\ (ReferencesHold => ReferencesHold')
  BY <1>1, <1>2 DEF RegistryInv, TablesTyped, IdsBounded, ReferencesHold, Promise!ReferencesHold
<1>4. Stage(Tail(todo[r]), f, r \notin overtaken', clients', tunnels', pool')
  BY <1>1, Plans DEF Stage
<1>5. form' = [form EXCEPT ![r] = f]
  BY <1>2, KeepLocals DEF RegistryInv
<1>6. ~crossed => ReferencesHold'
  BY <1>3 DEF RegistryInv
<1>7. RegistryInv'
  BY <1>1, <1>2, <1>3, <1>4, <1>5, <1>6, WritesMove
<1>8. Promise!SetPool
  BY <1>1, <1>2 DEF Promise!SetPool
<1> QED BY <1>7, <1>8 DEF Promised, Promise!Next

-----------------------------------------------------------------------------
(* The other steps. *)

(* Every statement keeps the invariant and what Catalogue promises. *)
LEMMA StatementKeeps ==
  ASSUME RegistryInv, NEW r \in Requests, Statement(r)
  PROVE  RegistryInv' /\ Promised(r)
<1>1. CASE ApplyAfterMutation(r)
  <2>1. /\ UNCHANGED tables /\ UNCHANGED crossed /\ overtaken' = overtaken
        /\ UNCHANGED form /\ todo' = [todo EXCEPT ![r] = <<>>]
    BY <1>1, TheLocals, Plans DEF ApplyAfterMutation, At, Staged, Stage, Continue, history
  <2>2. Stage(<<>>, form[r], r \notin overtaken', clients, tunnels, pool)
    BY DEF Stage
  <2>3. form' = [form EXCEPT ![r] = form[r]] /\ DOMAIN form[r] = Fields
    BY <2>1, KeepLocals DEF RegistryInv
  <2>4. RegistryInv'
    BY <2>1, <2>2, <2>3, StaysMove
  <2> QED BY <2>1, <2>4 DEF Promised
<1>2. CASE \/ GetClient(r) \/ Resolve(r) \/ ReadIngress(r) \/ Allocate(r) \/ ReloadClient(r)
           \/ GetTunnel(r) \/ CountClients(r) \/ ReloadTunnel(r) \/ GetIngress(r)
  BY <1>2, GetClientKeeps, ResolveKeeps, ReadIngressKeeps, AllocateKeeps, ReloadKeeps, GetTunnelKeeps,
     CountClientsKeeps, GetIngressKeeps DEF Promised
<1>3. CASE \/ InsertClient(r) \/ UpdateClient(r) \/ RemoveClient(r) \/ ImportClient(r)
           \/ InsertTunnel(r) \/ UpdateTunnel(r) \/ RemoveTunnel(r) \/ UpdateIngress(r)
  BY <1>3, InsertClientKeeps, UpdateClientKeeps, RemoveClientKeeps, ImportClientKeeps, InsertTunnelKeeps,
     UpdateTunnelKeeps, RemoveTunnelKeeps, UpdateIngressKeeps
<1> QED BY <1>1, <1>2, <1>3 DEF Statement

(* The locals a handler starts with. *)
LEMMA FirstLocals ==
  ASSUME NEW id, NEW body
  PROVE  /\ DOMAIN With(id, body) = Fields /\ With(id, body).body = body /\ ~With(id, body).auto
         /\ DOMAIN NoForm = Fields
<1>1. DOMAIN NoForm = Fields /\ ~NoForm.auto
  BY DEF NoForm, Fields
<1>2. DOMAIN With(id, body) = Fields /\ With(id, body).body = body /\ With(id, body).auto = NoForm.auto
  BY <1>1 DEF With, Fields
<1> QED BY <1>1, <1>2

(* A request that is received starts a plan. *)
LEMMA ReceiveKeeps ==
  ASSUME RegistryInv, NEW r \in Requests, NEW t, NEW f, Receive(r, t, f), DOMAIN f = Fields,
         Stage(t, f, r \notin overtaken', clients, tunnels, pool)
  PROVE  RegistryInv'
<1>1. /\ UNCHANGED tables /\ UNCHANGED crossed /\ overtaken' = overtaken \ {r}
      /\ todo' = [todo EXCEPT ![r] = t] /\ form' = [form EXCEPT ![r] = f]
  BY DEF Receive
<1> QED BY <1>1, StaysMove

(* The requests and the plans they start. *)
LEMMA RequestKeeps ==
  ASSUME RegistryInv, NEW r \in Requests, Request(r)
  PROVE  RegistryInv'
<1> DEFINE fresh == r \notin overtaken'
<1>1. CASE CreateClient(r)
  <2>1. PICK b \in ClientForms : Receive(r, ToResolveNew, [With(0, b) EXCEPT !.row = NewClient(b)])
    BY <1>1 DEF CreateClient, ToResolveNew
  <2> DEFINE f == [With(0, b) EXCEPT !.row = NewClient(b)]
  <2>2. DOMAIN f = Fields /\ f.row = NewClient(b) /\ ~f.auto
    BY FirstLocals, WithRow
  <2> HIDE DEF f
  <2>3. Receive(r, ToResolveNew, f)
    BY <2>1 DEF f
  <2>4. Stage(ToResolveNew, f, fresh, clients, tunnels, pool)
    BY <2>2 DEF Stage
  <2> QED BY <2>2, <2>3, <2>4, ReceiveKeeps
<1>2. CASE PatchClient(r)
  <2>1. PICK c \in 1..clientSeq, b \in ClientPatches : Receive(r, ToGetPatched, With(c, b))
    BY <1>2 DEF PatchClient, ToGetPatched
  <2>2. Stage(ToGetPatched, With(c, b), fresh, clients, tunnels, pool)
    BY FirstLocals DEF Stage
  <2> QED BY <2>1, <2>2, FirstLocals, ReceiveKeeps
<1>3. CASE SetClientEnabled(r)
  <2>1. PICK c \in 1..clientSeq, en \in BOOLEAN : Receive(r, ToGetSwitched, With(c, Switch(en)))
    BY <1>3 DEF SetClientEnabled, ToGetSwitched, Switch
  <2>2. With(c, Switch(en)).body = Switch(en)
    BY FirstLocals
  <2>3. Stage(ToGetSwitched, With(c, Switch(en)), fresh, clients, tunnels, pool)
    BY <2>2 DEF Stage
  <2> QED BY <2>1, <2>3, FirstLocals, ReceiveKeeps
<1>4. CASE DeleteClient(r)
  <2>1. PICK c \in 1..clientSeq : Receive(r, ToDeleteClient, With(c, Absent))
    BY <1>4 DEF DeleteClient, ToDeleteClient
  <2>2. Stage(ToDeleteClient, With(c, Absent), fresh, clients, tunnels, pool)
    BY DEF Stage
  <2> QED BY <2>1, <2>2, FirstLocals, ReceiveKeeps
<1>5. CASE CreateUpstream(r)
  <2>1. PICK b \in TunnelForms : Receive(r, ToInsertTunnel, With(0, b))
    BY <1>5 DEF CreateUpstream, ToInsertTunnel
  <2>2. Stage(ToInsertTunnel, With(0, b), fresh, clients, tunnels, pool)
    BY FirstLocals DEF Stage
  <2> QED BY <2>1, <2>2, FirstLocals, ReceiveKeeps
<1>6. CASE PatchUpstream(r)
  <2>1. PICK t \in 1..tunnelSeq, b \in TunnelPatches : Receive(r, ToGetTunnel, With(t, b))
    BY <1>6 DEF PatchUpstream, ToGetTunnel
  <2>2. Stage(ToGetTunnel, With(t, b), fresh, clients, tunnels, pool)
    BY FirstLocals DEF Stage
  <2> QED BY <2>1, <2>2, FirstLocals, ReceiveKeeps
<1>7. CASE DeleteUpstream(r)
  <2>1. PICK t \in 1..tunnelSeq : Receive(r, ToCountDeleted, With(t, Absent))
    BY <1>7 DEF DeleteUpstream, ToCountDeleted
  <2>2. Stage(ToCountDeleted, With(t, Absent), fresh, clients, tunnels, pool)
    BY DEF Stage
  <2> QED BY <2>1, <2>2, FirstLocals, ReceiveKeeps
<1>8. CASE PutIngress(r)
  <2>1. PICK p \in Settings : Receive(r, ToGetIngress, With(0, p))
    BY <1>8 DEF PutIngress, ToGetIngress
  <2>2. Stage(ToGetIngress, With(0, p), fresh, clients, tunnels, pool)
    BY FirstLocals DEF Stage
  <2> QED BY <2>1, <2>2, FirstLocals, ReceiveKeeps
<1>9. CASE WgEasyImport(r)
  <2>1. PICK p \in Settings, cs \in Imports :
          LET kept == {i \in DOMAIN cs : Importable(cs[i])}
          IN  Receive(r, IF kept = {} THEN ToImportNone ELSE ToImportSome,
                      [With(0, p) EXCEPT !.imports = [i \in kept |-> cs[i]]])
    BY <1>9 DEF WgEasyImport, ToImportNone, ToImportSome
  <2> DEFINE kept == {i \in DOMAIN cs : Importable(cs[i])}
             f == [With(0, p) EXCEPT !.imports = [i \in kept |-> cs[i]]]
  <2>2. DOMAIN f = Fields /\ f.body = p /\ f.imports = [i \in kept |-> cs[i]]
    BY FirstLocals DEF Fields
  <2>3. \A i \in DOMAIN f.imports : Brought(f.imports[i])
    BY <2>2 DEF Brought
  <2> HIDE DEF f, kept
  <2>4. PICK t \in {ToImportNone, ToImportSome} : Receive(r, t, f)
    BY <2>1 DEF f, kept
  <2>5. Stage(t, f, fresh, clients, tunnels, pool)
    BY <2>2, <2>3, <2>4 DEF Stage
  <2> QED BY <2>2, <2>4, <2>5, ReceiveKeeps
<1> QED BY <1>1, <1>2, <1>3, <1>4, <1>5, <1>6, <1>7, <1>8, <1>9 DEF Request

(* A caller that hangs up ends the plan. *)
LEMMA HangUpKeeps ==
  ASSUME RegistryInv, NEW r \in Requests, HangUp(r)
  PROVE  RegistryInv'
<1>1. /\ UNCHANGED tables /\ UNCHANGED crossed /\ overtaken' = overtaken
      /\ UNCHANGED form /\ todo' = [todo EXCEPT ![r] = <<>>]
  BY DEF HangUp, Answer, history
<1>2. Stage(<<>>, form[r], r \notin overtaken', clients, tunnels, pool)
  BY DEF Stage
<1>3. form' = [form EXCEPT ![r] = form[r]] /\ DOMAIN form[r] = Fields
  BY <1>1, KeepLocals DEF RegistryInv
<1> QED BY <1>1, <1>2, <1>3, StaysMove

(* Where no request is in progress. *)
LEMMA NoneInProgress ==
  ASSUME TablesTyped, ReferencesHold \/ crossed, todo = [r \in Requests |-> <<>>],
         form = [r \in Requests |-> NoForm], overtaken = {}, crossed \in BOOLEAN
  PROVE  RegistryInv
<1>1. LocalsTyped
  BY FirstLocals DEF LocalsTyped
<1>2. \A r \in Requests : Staged(r)
  BY DEF Staged, Stage
<1> QED BY <1>1, <1>2 DEF RegistryInv, HistoryTyped

(* So does a restart, for all of them. *)
LEMMA RestartKeeps ==
  ASSUME RegistryInv, Restart
  PROVE  RegistryInv'
<1>1. /\ UNCHANGED <<clients, tunnels, clientSeq, tunnelSeq, pool, crossed>> /\ overtaken' = {}
      /\ todo' = [r \in Requests |-> <<>>] /\ form' = [r \in Requests |-> NoForm]
  BY DEF Restart, tables
<1>2. TablesTyped' /\ (ReferencesHold \/ crossed)' /\ (crossed \in BOOLEAN)'
  BY <1>1 DEF RegistryInv, TablesTyped, IdsBounded, HistoryTyped, ReferencesHold, Promise!ReferencesHold
<1>3. LocalsTyped'
  BY <1>1, FirstLocals DEF LocalsTyped
<1>4. \A r \in Requests : Staged(r)'
  BY <1>1 DEF Staged, Stage
<1> QED BY <1>1, <1>2, <1>3, <1>4 DEF RegistryInv, HistoryTyped

(* The first start. *)
LEMMA InitInv == Init => RegistryInv
<1>1. Init => TablesTyped /\ ReferencesHold
  BY DEF Init, TablesTyped, IdsBounded, NoRows, ReferencesHold, Promise!ReferencesHold
<1> QED BY <1>1, NoneInProgress DEF Init

(* Every step keeps the invariant. *)
LEMMA NextInv == RegistryInv /\ [Next]_vars => RegistryInv'
<1>1. RegistryInv /\ UNCHANGED vars => RegistryInv'
  BY DEF RegistryInv, TablesTyped, IdsBounded, LocalsTyped, HistoryTyped, Staged, ReferencesHold,
         Promise!ReferencesHold, vars, tables, history
<1> QED BY <1>1, StatementKeeps, RequestKeeps, HangUpKeeps, RestartKeeps DEF Next

(* docs/SPECIFICATION.md 7.2 holds while no request writes after another has     *)
(* changed a table under it, for any number of them and any bodies.              *)
THEOREM ReferencesSurvive == Spec => []ReferencesKept
<1>1. RegistryInv => ReferencesKept
  BY DEF RegistryInv, ReferencesKept
<1> QED BY <1>1, InitInv, NextInv, PTL DEF Spec

(* The handlers implement Catalogue: what they write is an atomic operation of   *)
(* it, except the writes of a request that was overtaken.                        *)
THEOREM RegistryImplements == Spec => KeepsPromise
<1>1. Init => Promise!Init
  BY DEF Init, Promise!Init, NoRows, Promise!NoRows
<1>2. RegistryInv /\ [Next]_vars => [Promise!Next \/ \E r \in overtaken : Statement(r)]_tables
  <2>1. ASSUME NEW r \in Requests, RegistryInv, Statement(r)
        PROVE  [Promise!Next \/ \E q \in overtaken : Statement(q)]_tables
    BY <2>1, StatementKeeps DEF Promised
  <2>2. ASSUME NEW r \in Requests, Request(r) PROVE UNCHANGED tables
    BY <2>2 DEF Request, CreateClient, PatchClient, SetClientEnabled, DeleteClient, CreateUpstream,
                PatchUpstream, DeleteUpstream, PutIngress, WgEasyImport, Receive
  <2>3. ASSUME NEW r \in Requests, HangUp(r) PROVE UNCHANGED tables
    BY <2>3 DEF HangUp
  <2>4. Restart => UNCHANGED tables
    BY DEF Restart
  <2>5. UNCHANGED vars => UNCHANGED tables
    BY DEF vars
  <2> QED BY <2>1, <2>2, <2>3, <2>4, <2>5 DEF Next
<1> QED BY <1>1, <1>2, InitInv, NextInv, PTL DEF Spec, KeepsPromise

-----------------------------------------------------------------------------
(* Addresses of new clients. *)

(* ipalloc.go:26 through the statements of CreateClient: a client is inserted with *)
(* the first free host that was found, and it is still free unless another request *)
(* has changed a table since.                                                     *)
THEOREM AllocatesSoundly ==
  ASSUME \A p \in Settings : Ordinary(p)
  PROVE  Spec => AllocationSound
<1> DEFINE Sound(r) == form[r].row.addr \in Usable(pool) \ (Addresses(clients) \cup {pool.server})
           Step == \A r \in Requests \ overtaken : InsertClient(r) /\ form[r].auto => Sound(r)
<1>1. RegistryInv /\ [Next]_vars => [Step]_vars
  <2>1. SUFFICES ASSUME RegistryInv, NEW r \in Requests \ overtaken, InsertClient(r), form[r].auto
                 PROVE  Sound(r)
    OBVIOUS
  <2>2. \E d, h : /\ Asked(d) /\ h \in Addrs /\ form[r].row = [d EXCEPT !.addr = h] /\ d.addr = Absent
                  /\ h \in NextPeer(pool, Addresses(clients))
    BY <2>1, TheLocals, Plans DEF InsertClient, At, Staged, Stage
  <2>3. PICK d, h : /\ Asked(d) /\ h \in Addrs /\ form[r].row = [d EXCEPT !.addr = h]
                    /\ h \in NextPeer(pool, Addresses(clients))
    BY <2>2
  <2>4. form[r].row.addr = h
    BY <2>3, AskedIsDraft, DraftWithAddress
  <2>5. pool \in Pools /\ Ordinary(pool)
    BY <2>1, SettingsArePools DEF RegistryInv, TablesTyped
  <2> QED BY <2>3, <2>4, <2>5, NextPeerSound
<1> QED BY <1>1, InitInv, NextInv, PTL DEF Spec, AllocationSound
-----------------------------------------------------------------------------
(* Nothing that was written stays unapplied. *)

(* A statement moves its own request alone. *)
LEMMA StatementMoves ==
  ASSUME LocalsTyped, NEW r \in Requests, Statement(r), NEW q \in Requests \ {r}
  PROVE  todo'[q] = todo[q] /\ form'[q] = form[q]
<1>1. (\E t : todo' = [todo EXCEPT ![r] = t]) \/ todo' = todo
  BY DEF Statement, GetClient, Resolve, ReadIngress, Allocate, InsertClient, ReloadClient, UpdateClient,
         RemoveClient, ImportClient, InsertTunnel, GetTunnel, CountClients, UpdateTunnel, ReloadTunnel,
         RemoveTunnel, GetIngress, UpdateIngress, ApplyAfterMutation, Reload, Continue, Answer
<1>2. (\E f : form' = [form EXCEPT ![r] = f]) \/ form' = form
  BY DEF Statement, GetClient, Resolve, ReadIngress, Allocate, InsertClient, ReloadClient, UpdateClient,
         RemoveClient, ImportClient, InsertTunnel, GetTunnel, CountClients, UpdateTunnel, ReloadTunnel,
         RemoveTunnel, GetIngress, UpdateIngress, ApplyAfterMutation, Reload, Fill
<1> QED BY <1>1, <1>2 DEF LocalsTyped

(* A statement that leaves the tables alone leaves every handler that will apply *)
(* as it is.                                                                     *)
LEMMA StillDue ==
  ASSUME RegistryInv, NEW r \in Requests, Statement(r), UNCHANGED tables, ~ApplyAfterMutation(r),
         NEW q \in Requests, Due(q)
  PROVE  Due(q)'
<1>1. clients' = clients /\ tunnels' = tunnels
  BY DEF tables
<1>2. CASE q # r
  BY <1>1, <1>2, StatementMoves DEF RegistryInv, Due
<1>3. CASE q = r
  <2>1. \/ ReloadClient(r) /\ form[r].id \in DOMAIN clients
        \/ ReloadTunnel(r) /\ form[r].id \in DOMAIN tunnels
    BY <1>3, Plans DEF Due, Statement, GetClient, Resolve, ReadIngress, Allocate, InsertClient, UpdateClient,
         RemoveClient, ImportClient, InsertTunnel, GetTunnel, CountClients, UpdateTunnel, ReloadClient,
         ReloadTunnel, Reload, RemoveTunnel, GetIngress, UpdateIngress, ApplyAfterMutation, At
  <2>2. todo' = [todo EXCEPT ![r] = Tail(todo[r])] /\ Tail(todo[r]) = ToApply
    BY <1>3, <2>1, Plans DEF Due, ReloadClient, ReloadTunnel, Reload, At, Continue
  <2> QED BY <1>3, <2>2 DEF Due, RegistryInv, LocalsTyped
<1> QED BY <1>2, <1>3


(* An import applies nothing. *)
LEMMA ImportsEnd ==
  /\ Last(ToImportNone) # "apply" /\ Last(ToImportSome) # "apply" /\ Last(ToImportClient) # "apply"
BY DEF Last, ToImportNone, ToImportSome, ToImportClient

(* A statement that changes a table is followed by an Apply, or it is none to apply. *)
LEMMA WriteDue ==
  ASSUME RegistryInv, ApplyDue, NEW r \in Requests, Statement(r), ~UNCHANGED tables
  PROVE  ApplyDue'
<1> DEFINE f == form[r]
<1>1. /\ DOMAIN f = Fields /\ Staged(r) /\ LocalsTyped
      /\ \A q \in Requests \ {r} : todo'[q] = todo[q] /\ form'[q] = form[q]
  BY TheLocals, StatementMoves DEF RegistryInv
<1>2. SUFFICES Due(r)' \/ ((unapplied' => unapplied) /\ left' = left
                             /\ \A q \in Requests : Due(q) => Due(q)')
  BY DEF ApplyDue
<1>3. CASE InsertClient(r)
  <2>1. /\ todo' = [todo EXCEPT ![r] = ToReloadClient]
        /\ form' = [form EXCEPT ![r] = [f EXCEPT !.id = clientSeq + 1]]
        /\ clientSeq + 1 \in DOMAIN clients'
    BY <1>1, <1>3, Plans DEF InsertClient, At, Staged, Stage, NewId, Fill, Continue, Add
  <2>2. todo'[r] = ToReloadClient /\ form'[r].id = clientSeq + 1
    BY <1>1, <2>1 DEF LocalsTyped, Fields
  <2> QED BY <2>1, <2>2 DEF Due
<1>4. CASE UpdateClient(r) \/ RemoveClient(r) \/ RemoveTunnel(r)
  <2>1. Tail(todo[r]) = ToApply
    BY <1>1, <1>4, Plans DEF UpdateClient, RemoveClient, RemoveTunnel, At, Staged, Stage
  <2>2. todo' = [todo EXCEPT ![r] = ToApply]
    BY <1>4, <2>1 DEF UpdateClient, RemoveClient, RemoveTunnel, Continue
  <2> QED BY <1>1, <2>2 DEF Due, LocalsTyped
<1>5. CASE InsertTunnel(r)
  <2>1. ~Reads
    BY DEF Reads
  <2>2. /\ todo' = [todo EXCEPT ![r] = ToReloadTunnel]
        /\ form' = [form EXCEPT ![r] = [f EXCEPT !.id = tunnelSeq + 1]]
        /\ tunnelSeq + 1 \in DOMAIN tunnels'
    <3>1. Tail(todo[r]) = ToReloadTunnel
      BY <1>1, <1>5, Plans DEF InsertTunnel, At, Staged, Stage
    <3>2. /\ tunnels' = Add(tunnels, tunnelSeq + 1, f.body)
          /\ form' = [form EXCEPT ![r] = [f EXCEPT !.id = tunnelSeq + 1]]
          /\ Continue(r)
      BY <1>5, <2>1 DEF InsertTunnel, NewId, Fill
    <3> QED BY <3>1, <3>2 DEF Continue, Add
  <2>3. todo'[r] = ToReloadTunnel /\ form'[r].id = tunnelSeq + 1
    BY <1>1, <2>2 DEF LocalsTyped, Fields
  <2> QED BY <2>2, <2>3 DEF Due
<1>6. CASE UpdateTunnel(r)
  <2>1. ~Reads
    BY DEF Reads
  <2>2. /\ todo' = [todo EXCEPT ![r] = ToReloadTunnel] /\ form' = form
        /\ tunnels' = Put(tunnels, f.id, f.row) /\ UNCHANGED <<clients, clientSeq, tunnelSeq, pool>>
    BY <1>1, <1>6, <2>1, Plans DEF UpdateTunnel, At, Staged, Stage, Continue, WritesTunnels
  <2>3. f.row \in TunnelRows
    BY <1>1, <1>6, Plans DEF UpdateTunnel, At, Staged, Stage
  <2>4. f.id \in DOMAIN tunnels
    BY <2>2, <2>3, TunnelPut DEF RegistryInv
  <2>5. f.id \in DOMAIN tunnels'
    BY <2>2, <2>4 DEF Put
  <2> QED BY <1>1, <2>2, <2>5 DEF Due, LocalsTyped
<1>7. CASE ImportClient(r)
  <2>1. todo[r] = ToImportClient
    BY <1>1, <1>7, Plans DEF ImportClient, At, Staged, Stage
  <2>2. (unapplied' => unapplied) /\ UNCHANGED <<left, tunnels>>
    <3>1. Commits(r) /\ UNCHANGED tunnels
      BY <1>7 DEF ImportClient, WritesClients
    <3> QED BY <2>1, <3>1, ImportsEnd DEF Commits
  <2>3. DOMAIN clients \subseteq DOMAIN clients'
    BY <1>7 DEF ImportClient, Add
  <2>4. ~Due(r)
    BY <2>1 DEF Due, ToImportClient, ToApply, ToReloadClient, ToReloadTunnel
  <2> QED BY <1>1, <2>2, <2>3, <2>4 DEF Due
<1>8. CASE UpdateIngress(r)
  <2>1. todo[r] \in {ToUpdateIngress, ToImportNone, ToImportSome}
    BY <1>1, <1>8, Plans DEF UpdateIngress, At, Staged, Stage
  <2>2. CASE todo[r] = ToUpdateIngress
    <3>1. todo' = [todo EXCEPT ![r] = ToApply]
      BY <1>8, <2>2, Plans DEF UpdateIngress, Continue
    <3> QED BY <1>1, <3>1 DEF Due, LocalsTyped
  <2>3. CASE todo[r] \in {ToImportNone, ToImportSome}
    <3>1. Commits(r) /\ UNCHANGED <<clients, tunnels>>
      BY <1>8 DEF UpdateIngress
    <3>2. (unapplied' => unapplied) /\ left' = left
      BY <2>3, <3>1, ImportsEnd DEF Commits
    <3>3. ~Due(r)
      BY <2>3 DEF Due, ToImportNone, ToImportSome, ToApply, ToReloadClient, ToReloadTunnel
    <3> QED BY <1>1, <3>1, <3>2, <3>3 DEF Due
  <2> QED BY <2>1, <2>2, <2>3
<1>9. CASE \/ GetClient(r) \/ Resolve(r) \/ ReadIngress(r) \/ Allocate(r) \/ ReloadClient(r)
           \/ GetTunnel(r) \/ CountClients(r) \/ ReloadTunnel(r) \/ GetIngress(r)
  <2>1. Reads
    BY <1>9 DEF GetClient, Resolve, ReadIngress, Allocate, ReloadClient, GetTunnel, CountClients,
                ReloadTunnel, GetIngress, Reload
  <2> QED BY <2>1 DEF Reads
<1>10. CASE ApplyAfterMutation(r)
  BY <1>10 DEF ApplyAfterMutation
<1> QED BY <1>3, <1>4, <1>5, <1>6, <1>7, <1>8, <1>9, <1>10 DEF Statement


(* Either way there is a handler that will apply what is unapplied. *)
LEMMA StatementDue ==
  ASSUME RegistryInv, ApplyDue, NEW r \in Requests, Statement(r)
  PROVE  ApplyDue'
<1>1. CASE ~UNCHANGED tables
  BY <1>1, WriteDue
<1>2. CASE ApplyAfterMutation(r)
  BY <1>2 DEF ApplyAfterMutation, ApplyDue
<1>3. CASE UNCHANGED tables /\ ~ApplyAfterMutation(r)
  <2>1. (unapplied' => unapplied) /\ left' = left
    <3>1. Reads \/ Commits(r)
      BY <1>3 DEF Statement, GetClient, Resolve, ReadIngress, Allocate, InsertClient, ReloadClient, UpdateClient,
         RemoveClient, ImportClient, InsertTunnel, GetTunnel, CountClients, UpdateTunnel, ReloadTunnel,
         RemoveTunnel, GetIngress, UpdateIngress, Reload, WritesClients, WritesTunnels
    <3>2. CASE Reads
      BY <3>2 DEF Reads
    <3>3. CASE Commits(r)
      BY <1>3, <3>3 DEF Commits
    <3> QED BY <3>1, <3>2, <3>3
  <2>2. \A q \in Requests : Due(q) => Due(q)'
    BY <1>3, StillDue
  <2> QED BY <2>1, <2>2 DEF ApplyDue
<1> QED BY <1>1, <1>2, <1>3

(* A request that comes finds its handler idle; one that is given up tells. *)
LEMMA OtherDue ==
  ASSUME RegistryInv, ApplyDue, NEW r \in Requests, Request(r) \/ HangUp(r)
  PROVE  ApplyDue'
<1>1. CASE Request(r)
  <2>1. PICK t, f : Receive(r, t, f)
    BY <1>1 DEF Request, CreateClient, PatchClient, SetClientEnabled, DeleteClient, CreateUpstream,
                PatchUpstream, DeleteUpstream, PutIngress, WgEasyImport
  <2>2. /\ todo[r] = <<>> /\ UNCHANGED <<clients, tunnels, unapplied, left>>
        /\ todo' = [todo EXCEPT ![r] = t] /\ form' = [form EXCEPT ![r] = f]
    BY <2>1 DEF Receive, tables
  <2>3. ~Due(r)
    BY <2>2 DEF Due, ToApply, ToReloadClient, ToReloadTunnel
  <2>4. \A q \in Requests \ {r} : todo'[q] = todo[q] /\ form'[q] = form[q]
    BY <2>2 DEF RegistryInv, LocalsTyped
  <2> QED BY <2>2, <2>3, <2>4 DEF ApplyDue, Due
<1>2. CASE HangUp(r)
  BY <1>2 DEF HangUp, ApplyDue
<1> QED BY <1>1, <1>2

(* README.md:232 for any number of requests: what a handler that applies has      *)
(* written is applied by the time no request is in progress, unless a caller hung *)
(* up.  Between the two, some handler is one statement from its Apply, or two.    *)
THEOREM ApplyComes == Spec => []ApplyFollows
<1>1. Init => ApplyDue
  BY DEF Init, ApplyDue
<1>2. RegistryInv /\ ApplyDue /\ [Next]_vars => ApplyDue'
  <2>1. Restart => ApplyDue'
    BY DEF Restart, ApplyDue
  <2>2. ApplyDue /\ UNCHANGED vars => ApplyDue'
    BY DEF vars, tables, ApplyDue, Due
  <2> QED BY <2>1, <2>2, StatementDue, OtherDue DEF Next
<1>3. ApplyDue => ApplyFollows
  <2>1. \A r \in Requests : Due(r) => todo[r] # <<>>
    BY DEF Due, ToApply, ToReloadClient, ToReloadTunnel
  <2> QED BY <2>1 DEF ApplyDue, ApplyFollows
<1> QED BY <1>1, <1>2, <1>3, InitInv, NextInv, PTL DEF Spec
-----------------------------------------------------------------------------
(* Types. *)

(* A plan consists of statements. *)
LEMMA PlansTyped ==
  ASSUME NEW t, NEW f, NEW b, NEW cs, NEW ts, NEW p, Stage(t, f, b, cs, ts, p)
  PROVE  t \in Seq(Statements)
<1> DEFINE S == Statements
<1>1. /\ {"resolve", "ingress", "allocate", "insertClient", "reloadClient", "apply"} \subseteq S
      /\ {"getClient", "updateClient", "deleteClient", "importClient", "insertTunnel"} \subseteq S
      /\ {"reloadTunnel", "getTunnel", "countClients", "updateTunnel", "deleteTunnel"} \subseteq S
      /\ {"getIngress", "updateIngress"} \subseteq S
  BY DEF Statements
<1> HIDE DEF S
<1>2. /\ <<>> \in Seq(S) /\ ToApply \in Seq(S) /\ ToReloadClient \in Seq(S) /\ ToInsertClient \in Seq(S)
      /\ ToAllocate \in Seq(S) /\ ToReadIngress \in Seq(S) /\ ToResolveNew \in Seq(S)
  BY <1>1 DEF ToApply, ToReloadClient, ToInsertClient, ToAllocate, ToReadIngress, ToResolveNew
<1>3. /\ ToUpdateClient \in Seq(S) /\ ToResolvePatch \in Seq(S) /\ ToGetPatched \in Seq(S)
      /\ ToGetSwitched \in Seq(S) /\ ToDeleteClient \in Seq(S)
  BY <1>1 DEF ToUpdateClient, ToResolvePatch, ToGetPatched, ToGetSwitched, ToDeleteClient
<1>4. /\ ToReloadTunnel \in Seq(S) /\ ToInsertTunnel \in Seq(S) /\ ToUpdateTunnel \in Seq(S)
      /\ ToCountPatched \in Seq(S) /\ ToGetTunnel \in Seq(S)
  BY <1>1 DEF ToReloadTunnel, ToInsertTunnel, ToUpdateTunnel, ToCountPatched, ToGetTunnel
<1>5. /\ ToDeleteTunnel \in Seq(S) /\ ToCountDeleted \in Seq(S) /\ ToUpdateIngress \in Seq(S)
      /\ ToGetIngress \in Seq(S) /\ ToImportNone \in Seq(S) /\ ToImportSome \in Seq(S)
      /\ ToImportClient \in Seq(S)
  BY <1>1 DEF ToDeleteTunnel, ToCountDeleted, ToUpdateIngress, ToGetIngress, ToImportNone,
              ToImportSome, ToImportClient
<1> QED BY <1>2, <1>3, <1>4, <1>5 DEF Stage, S

(* The bounds are no part of the code; neither are the two flags of ApplyFollows. *)
Counted == /\ {unapplied, left} \subseteq BOOLEAN
           /\ budget \in [requests : 0..MaxRequests, faults : 0..MaxFaults]

(* A bound that is spent stays a bound. *)
LEMMA Spent ==
  ASSUME NEW n \in Nat, NEW m \in Nat, NEW b \in [requests : 0..n, faults : 0..m]
  PROVE  /\ b.requests > 0 => [b EXCEPT !.requests = @ - 1] \in [requests : 0..n, faults : 0..m]
         /\ b.faults > 0 => [b EXCEPT !.faults = @ - 1] \in [requests : 0..n, faults : 0..m]
OBVIOUS

(* The flags and the bounds keep their types. *)
LEMMA NextCounted == Counted /\ [Next]_vars => Counted'
<1>1. MaxRequests \in Nat /\ MaxFaults \in Nat
  BY BoundsOK
<1> SUFFICES ASSUME Counted, [Next]_vars PROVE Counted'
  OBVIOUS
<1>2. ASSUME NEW r \in Requests, Statement(r) PROVE Counted'
  <2>1. Reads \/ Commits(r) \/ ApplyAfterMutation(r)
    BY <1>2 DEF Statement, GetClient, Resolve, ReadIngress, Allocate, InsertClient, ReloadClient, UpdateClient,
       RemoveClient, ImportClient, InsertTunnel, GetTunnel, CountClients, UpdateTunnel, ReloadTunnel,
       RemoveTunnel, GetIngress, UpdateIngress, Reload, WritesClients, WritesTunnels
  <2> QED BY <2>1 DEF Reads, Commits, ApplyAfterMutation, Counted
<1>3. ASSUME NEW r \in Requests, Request(r) PROVE Counted'
  <2>1. /\ UNCHANGED <<unapplied, left>> /\ budget.requests > 0
        /\ budget' = [budget EXCEPT !.requests = @ - 1]
    BY <1>3 DEF Request, CreateClient, PatchClient, SetClientEnabled, DeleteClient, CreateUpstream,
                PatchUpstream, DeleteUpstream, PutIngress, WgEasyImport, Receive
  <2> QED BY <1>1, <2>1, Spent DEF Counted
<1>4. ASSUME NEW r \in Requests, HangUp(r) PROVE Counted'
  <2>1. /\ unapplied' = unapplied /\ left' = (left \/ unapplied) /\ budget.faults > 0
        /\ budget' = [budget EXCEPT !.faults = @ - 1]
    BY <1>4 DEF HangUp
  <2> QED BY <1>1, <2>1, Spent DEF Counted
<1>5. Restart => Counted'
  BY <1>1, Spent DEF Restart, Counted
<1>6. UNCHANGED vars => Counted'
  BY DEF vars, Counted
<1> QED BY <1>2, <1>3, <1>4, <1>5, <1>6 DEF Next

(* Whatever the requests and their order, the controller can read every row that   *)
(* is written (a client has a tunnel exactly when it goes via one), and a handler  *)
(* runs no other statements than those of its plan.                               *)
THEOREM RegistryTyped == Spec => []TypeOK
<1>1. Init => Counted
  <2>1. Init => budget \in [requests : 0..MaxRequests, faults : 0..MaxFaults]
    BY BoundsOK DEF Init
  <2> QED BY <2>1 DEF Init, Counted
<1>2. RegistryInv /\ Counted => TypeOK
  <2>1. RegistryInv => todo \in [Requests -> Seq(Statements)]
    BY PlansTyped DEF RegistryInv, LocalsTyped, Staged
  <2> QED BY <2>1 DEF RegistryInv, Counted, TypeOK, TablesTyped, IdsBounded, Sorted, HistoryTyped
<1> QED BY <1>1, <1>2, NextCounted, InitInv, NextInv, PTL DEF Spec
=============================================================================
