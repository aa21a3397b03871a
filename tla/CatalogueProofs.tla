--------------------------- MODULE CatalogueProofs ---------------------------
(***************************************************************************)
(* A registry whose requests are atomic keeps every reference, for any      *)
(* bodies the requests may carry and any subnets that may be set.           *)
(***************************************************************************)
EXTENDS Catalogue, TLAPS
-----------------------------------------------------------------------------
(* The rows are needed to know that a change of one field leaves the others, the *)
(* ids to know that a new tunnel does not replace one that clients name.         *)
RowsTyped == /\ \A c \in DOMAIN clients : clients[c] \in ClientRows
             /\ \A t \in DOMAIN tunnels : tunnels[t] \in TunnelRows
             /\ pool \in Settings
IdsBounded == /\ clientSeq \in Nat /\ DOMAIN clients \subseteq 1..clientSeq
              /\ tunnelSeq \in Nat /\ DOMAIN tunnels \subseteq 1..tunnelSeq
CatalogueInv == IdsBounded /\ RowsTyped /\ ReferencesHold

(* Whether or not it can be used, what the allocator returns is an address.      *)
LEMMA PeerIsHost ==
  ASSUME NEW p \in Pools, NEW used
  PROVE  NextPeer(p, used) \subseteq Hosts
<1>1. /\ Space \in Nat /\ Space > 3
      /\ p.base \in 0..(Space - 1) /\ p.size \in 1..Space /\ p.base + p.size <= Space
  BY SpaceOK DEF Pools, Hosts
<1>2. FirstHost(p) \in Hosts /\ LastHost(p) \in Hosts
  BY <1>1 DEF FirstHost, LastHost, Wrap, Hosts
<1> QED BY <1>1, <1>2 DEF NextPeer, Hosts

(* A row that CreateClient or PatchClient may write.                             *)
Fits(row) == /\ row \in ClientRows
             /\ row.type = "via_upstream" =>
                  row.tunnel \in DOMAIN tunnels /\ tunnels[row.tunnel].enabled

(* What resolveUpstreamSpec accepts may be written. *)
LEMMA ResolvedFits ==
  ASSUME NEW row \in ClientRows, Acceptable(tunnels, row)
  PROVE  Fits(Resolved(row))
BY DEF Fits, Resolved, Acceptable, ClientRows, Types

(* A row whose address is still to be found, and what its changes leave alone.   *)
Drafts == [addr : Addrs \cup {Absent}, enabled : BOOLEAN, type : Types, tunnel : Ids \cup {Absent}]

(* The body of a POST laid over the defaults of a client. *)
LEMMA DraftOfBody ==
  ASSUME NEW d \in Drafts, NEW a \in Addrs \cup {Absent}, NEW ty \in Types,
         NEW t \in Ids \cup {Absent}
  PROVE  [d EXCEPT !.addr = a, !.type = ty, !.tunnel = t] \in Drafts
BY DEF Drafts

(* A direct client loses its tunnel. *)
LEMMA DraftFreed ==
  ASSUME NEW d \in Drafts
  PROVE  [d EXCEPT !.tunnel = Absent] \in Drafts
BY DEF Drafts

(* With an address a draft is a row, and its upstream is what it was. *)
LEMMA DraftPlaced ==
  ASSUME NEW d \in Drafts, NEW h \in Addrs
  PROVE  /\ [d EXCEPT !.addr = h] \in ClientRows
         /\ [d EXCEPT !.addr = h].type = d.type
         /\ [d EXCEPT !.addr = h].tunnel = d.tunnel
BY DEF Drafts, ClientRows

(* What CreateClient inserts names an enabled tunnel or none. *)
LEMMA NewClientFits ==
  ASSUME NEW b \in ClientForms, NEW h \in Addrs, Acceptable(tunnels, Resolved(NewClient(b)))
  PROVE  Fits([Resolved(NewClient(b)) EXCEPT !.addr = h])
<1> DEFINE new == NewClient(b)
           row == Resolved(new)
<1>1. b.addr \in Addrs \cup {Absent} /\ b.type \in Types /\ b.tunnel \in Ids \cup {Absent}
  BY FormsOK
<1>2. EnabledClient \in Drafts
  BY DEF EnabledClient, Drafts, Types
<1>3. new \in Drafts
  BY <1>1, <1>2, DraftOfBody DEF NewClient
<1> HIDE DEF new
<1>4. row \in Drafts
  BY <1>3, DraftFreed DEF Resolved
<1>5. row.type \in Types /\ (row.type = "direct" \/ (row.tunnel \in DOMAIN tunnels /\ tunnels[row.tunnel].enabled))
  BY <1>4 DEF Acceptable, Drafts, new
<1> HIDE DEF row
<1>6. /\ [row EXCEPT !.addr = h] \in ClientRows
      /\ [row EXCEPT !.addr = h].type = row.type
      /\ [row EXCEPT !.addr = h].tunnel = row.tunnel
  BY <1>4, DraftPlaced
<1>7. Fits([row EXCEPT !.addr = h])
  BY <1>5, <1>6 DEF Fits
<1> QED BY <1>7 DEF row, new

LEMMA DraftImported ==
  ASSUME NEW d \in Drafts, NEW h \in Addrs, NEW en \in BOOLEAN
  PROVE  /\ [d EXCEPT !.addr = h, !.enabled = en] \in ClientRows
         /\ [d EXCEPT !.addr = h, !.enabled = en].type = d.type
BY DEF Drafts, ClientRows

(* Nor does a client that an export brings have a tunnel to be wrong about.      *)
LEMMA ImportedFits ==
  ASSUME NEW c \in [addr : Addrs \cup {Absent}, enabled : BOOLEAN \cup {Absent}, key : BOOLEAN],
         Importable(c)
  PROVE  Fits(Imported(c))
<1>1. c.addr \in Addrs /\ Override(c.enabled, TRUE) \in BOOLEAN
  BY DEF Importable, Override
<1>2. EnabledClient \in Drafts /\ EnabledClient.type = "direct"
  BY DEF EnabledClient, Drafts, Types
<1> DEFINE row == [EnabledClient EXCEPT !.addr = c.addr, !.enabled = Override(c.enabled, TRUE)]
<1>3. row \in ClientRows /\ row.type = "direct"
  BY <1>1, <1>2, DraftImported
<1>4. Imported(c) = row
  BY DEF Imported
<1> HIDE DEF row
<1> QED BY <1>3, <1>4 DEF Fits

(* What PatchClient makes of a row is a row. *)
LEMMA PatchedTyped ==
  ASSUME NEW row \in ClientRows, NEW b \in ClientPatches
  PROVE  PatchedClient(row, b) \in ClientRows
<1>1. /\ b.addr \in Addrs \cup {Absent} /\ b.enabled \in BOOLEAN \cup {Absent}
      /\ b.type \in Types \cup {Absent} /\ b.tunnel \in Ids \cup {Absent}
  BY FormsOK
<1>2. row.addr \in Addrs /\ row.enabled \in BOOLEAN /\ row.type \in Types /\ row.tunnel \in Ids \cup {Absent}
  BY DEF ClientRows
<1>3. /\ Override(b.addr, row.addr) \in Addrs /\ Override(b.enabled, row.enabled) \in BOOLEAN
      /\ Override(b.type, row.type) \in Types /\ Override(b.tunnel, row.tunnel) \in Ids \cup {Absent}
  BY <1>1, <1>2 DEF Override
<1> QED BY <1>3 DEF PatchedClient, ClientRows

(* Writing a row that fits, in a table of clients that is otherwise kept.        *)
LEMMA ClientWritten ==
  ASSUME RowsTyped, ReferencesHold, NEW id, NEW row, Fits(row),
         UNCHANGED <<tunnels, pool>>,
         clients' = Add(clients, id, row) \/ clients' = Put(clients, id, row)
  PROVE  RowsTyped' /\ ReferencesHold'
<1>1. ASSUME NEW c \in DOMAIN clients'
      PROVE  Fits(clients'[c])
  <2>1. clients'[c] = row \/ (c \in DOMAIN clients /\ clients'[c] = clients[c])
    BY DEF Add, Put
  <2> QED BY <2>1 DEF RowsTyped, ReferencesHold, Fits
<1> QED BY <1>1 DEF RowsTyped, ReferencesHold, Fits

(* Each request of Catalogue keeps every reference.                              *)
LEMMA CatalogueStep ==
  ASSUME CatalogueInv, Next
  PROVE  CatalogueInv'
<1> USE DEF CatalogueInv
<1>1. CASE AddClient
  <2>1. PICK b \in ClientForms :
          /\ Acceptable(tunnels, Resolved(NewClient(b)))
          /\ \E h \in IF b.addr = Absent THEN NextPeer(pool, Addresses(clients)) ELSE {b.addr} :
               Insert([Resolved(NewClient(b)) EXCEPT !.addr = h])
    BY <1>1 DEF AddClient
  <2>2. PICK h \in IF b.addr = Absent THEN NextPeer(pool, Addresses(clients)) ELSE {b.addr} :
          Insert([Resolved(NewClient(b)) EXCEPT !.addr = h])
    BY <2>1
  <2>3. h \in Addrs
    <3>1. pool \in Pools
      BY SettingsArePools DEF RowsTyped
    <3>2. NextPeer(pool, Addresses(clients)) \subseteq Addrs
      BY <3>1, PeerIsHost DEF Addrs
    <3>3. b.addr \in Addrs \cup {Absent}
      BY FormsOK
    <3> QED BY <2>2, <3>2, <3>3
  <2> DEFINE row == [Resolved(NewClient(b)) EXCEPT !.addr = h]
  <2>4. Fits(row)
    BY <2>1, <2>3, NewClientFits
  <2> HIDE DEF row
  <2>5. /\ clients' = Add(clients, clientSeq + 1, row) /\ clientSeq' = clientSeq + 1
        /\ UNCHANGED <<tunnels, tunnelSeq, pool>>
    BY <2>2 DEF Insert, row
  <2>6. IdsBounded'
    BY <2>5 DEF IdsBounded, Add
  <2> QED BY <2>4, <2>5, <2>6, ClientWritten
<1>2. CASE ImportClient
  <2>1. PICK cs \in Imports : \E i \in DOMAIN cs : Importable(cs[i]) /\ Insert(Imported(cs[i]))
    BY <1>2 DEF ImportClient
  <2>2. PICK i \in DOMAIN cs : Importable(cs[i]) /\ Insert(Imported(cs[i]))
    BY <2>1
  <2> DEFINE rows == [addr : Addrs \cup {Absent}, enabled : BOOLEAN \cup {Absent}, key : BOOLEAN]
  <2>3. cs[i] \in rows
    BY FormsOK
  <2>4. Fits(Imported(cs[i]))
    BY <2>2, <2>3, ImportedFits
  <2>5. /\ clients' = Add(clients, clientSeq + 1, Imported(cs[i])) /\ clientSeq' = clientSeq + 1
        /\ UNCHANGED <<tunnels, tunnelSeq, pool>>
    BY <2>2 DEF Insert
  <2>6. IdsBounded'
    BY <2>5 DEF IdsBounded, Add
  <2> QED BY <2>4, <2>5, <2>6, ClientWritten
<1>3. CASE ChangeClient
  <2>1. PICK c \in DOMAIN clients, b \in ClientPatches :
          /\ Acceptable(tunnels, PatchedClient(clients[c], b))
          /\ clients' = Put(clients, c, Resolved(PatchedClient(clients[c], b)))
          /\ UNCHANGED <<tunnels, clientSeq, tunnelSeq, pool>>
    BY <1>3 DEF ChangeClient
  <2>2. Fits(Resolved(PatchedClient(clients[c], b)))
    BY <2>1, PatchedTyped, ResolvedFits DEF RowsTyped
  <2>3. IdsBounded'
    BY <2>1 DEF IdsBounded, Put
  <2> QED BY <2>1, <2>2, <2>3, ClientWritten
<1>4. CASE SwitchClient
  <2>1. PICK c \in DOMAIN clients, en \in BOOLEAN :
          /\ clients' = [clients EXCEPT ![c].enabled = en]
          /\ UNCHANGED <<tunnels, clientSeq, tunnelSeq, pool>>
    BY <1>4 DEF SwitchClient
  <2> DEFINE row == [clients[c] EXCEPT !.enabled = en]
  <2>2. clients[c] \in ClientRows /\ Fits(clients[c])
    BY DEF RowsTyped, ReferencesHold, Fits
  <2>3. ASSUME NEW old \in ClientRows
        PROVE  /\ [old EXCEPT !.enabled = en] \in ClientRows
               /\ [old EXCEPT !.enabled = en].type = old.type
               /\ [old EXCEPT !.enabled = en].tunnel = old.tunnel
    BY DEF ClientRows
  <2>4. Fits(row)
    BY <2>2, <2>3 DEF Fits
  <2> HIDE DEF row
  <2>5. clients' = Put(clients, c, row)
    BY <2>1 DEF Put, row
  <2>6. IdsBounded'
    BY <2>1 DEF IdsBounded
  <2> QED BY <2>1, <2>4, <2>5, <2>6, ClientWritten
<1>5. CASE DropClient
  BY <1>5 DEF DropClient, Remove, IdsBounded, RowsTyped, ReferencesHold
<1>6. CASE AddTunnel
  <2>1. PICK b \in TunnelForms :
          /\ tunnels' = Add(tunnels, tunnelSeq + 1, b) /\ tunnelSeq' = tunnelSeq + 1
          /\ UNCHANGED <<clients, clientSeq, pool>>
    BY <1>6 DEF AddTunnel
  <2>2. \A t \in DOMAIN tunnels : t # tunnelSeq + 1 /\ tunnels'[t] = tunnels[t]
    BY <2>1 DEF IdsBounded, Add
  <2>3. IdsBounded'
    BY <2>1 DEF IdsBounded, Add
  <2>4. RowsTyped'
    BY <2>1, FormsOK DEF RowsTyped, Add
  <2>5. ReferencesHold'
    BY <2>1, <2>2 DEF ReferencesHold, Add
  <2> QED BY <2>3, <2>4, <2>5
<1>7. CASE ChangeTunnel
  <2>1. PICK t \in DOMAIN tunnels, b \in TunnelPatches :
          LET row == PatchedTunnel(tunnels[t], b)
          IN  /\ Referenced(clients, t) => (tunnels[t].enabled => row.enabled)
              /\ tunnels' = Put(tunnels, t, row)
              /\ UNCHANGED <<clients, clientSeq, tunnelSeq, pool>>
    BY <1>7 DEF ChangeTunnel
  <2> DEFINE row == PatchedTunnel(tunnels[t], b)
  <2>2. row \in TunnelRows
    <3>1. b.iface \in Ifaces \cup {Absent} /\ b.enabled \in BOOLEAN \cup {Absent}
      BY FormsOK
    <3>2. tunnels[t].iface \in Ifaces /\ tunnels[t].enabled \in BOOLEAN
      BY DEF RowsTyped, TunnelRows
    <3>3. Override(b.iface, tunnels[t].iface) \in Ifaces /\ Override(b.enabled, tunnels[t].enabled) \in BOOLEAN
      BY <3>1, <3>2 DEF Override
    <3> QED BY <3>3 DEF PatchedTunnel, TunnelRows
  <2>3. IdsBounded'
    BY <2>1 DEF IdsBounded, Put
  <2> HIDE DEF row
  <2>4. tunnels' = Put(tunnels, t, row) /\ UNCHANGED <<clients, pool>>
    BY <2>1 DEF row
  <2>5. Referenced(clients, t) => (tunnels[t].enabled => row.enabled)
    BY <2>1 DEF row
  <2>6. RowsTyped'
    BY <2>2, <2>4 DEF RowsTyped, Put
  <2>7. ReferencesHold'
    BY <2>4, <2>5 DEF ReferencesHold, Put, Referenced
  <2> QED BY <2>3, <2>6, <2>7
<1>8. CASE DropTunnel
  BY <1>8 DEF DropTunnel, Remove, Referenced, IdsBounded, RowsTyped, ReferencesHold
<1>9. CASE SetPool
  BY <1>9 DEF SetPool, IdsBounded, RowsTyped, ReferencesHold
<1> QED BY <1>1, <1>2, <1>3, <1>4, <1>5, <1>6, <1>7, <1>8, <1>9 DEF Next

(* docs/SPECIFICATION.md 7.2 follows from handlers that are atomic: whatever      *)
(* breaks it in Registry comes of what another request does between the          *)
(* statements of a handler.                                                      *)
THEOREM CatalogueSafe == Spec => []ReferencesHold
<1>1. Init => CatalogueInv
  BY DEF Init, CatalogueInv, IdsBounded, RowsTyped, ReferencesHold, NoRows
<1>2. CatalogueInv /\ [Next]_vars => CatalogueInv'
  <2>1. CatalogueInv /\ UNCHANGED vars => CatalogueInv'
    BY DEF vars, CatalogueInv, IdsBounded, RowsTyped, ReferencesHold
  <2> QED BY <2>1, CatalogueStep
<1>3. CatalogueInv => ReferencesHold
  BY DEF CatalogueInv
<1> QED BY <1>1, <1>2, <1>3, PTL DEF Spec
=============================================================================
