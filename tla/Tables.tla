------------------------------- MODULE Tables -------------------------------
(***************************************************************************)
(* The rows of clients and upstream_tunnels, the bodies the API takes, and  *)
(* what internal/store and the checks of internal/api/handlers do to them.  *)
(* Keys, names, comments and configuration text are left out: no statement  *)
(* looks at them.                                                          *)
(*                                                                         *)
(* An operator marked "mutant" is no part of the model: it is the next     *)
(* definition with a bug in it, for checking that the properties notice.   *)
(***************************************************************************)
EXTENDS IpAlloc, Sequences, FiniteSets

CONSTANTS
  Ifaces,          \* upstream interface names
  Settings,        \* pools of PUT /settings/ingress, and of wg-easy exports
  ClientForms,     \* bodies of POST /clients
  ClientPatches,   \* bodies of PATCH /clients/{id}
  TunnelForms,     \* bodies of POST /upstreams
  TunnelPatches,   \* bodies of PATCH /upstreams/{id}
  Imports,         \* clients of wg-easy exports, under the ids they had there
  Absent           \* a field the body leaves out; the NULL of upstream_tunnel_id

Types == {"direct", "via_upstream"}
Ids == Nat \ {0}
ClientRows == [addr : Addrs, enabled : BOOLEAN, type : Types, tunnel : Ids \cup {Absent}]
TunnelRows == [iface : Ifaces, enabled : BOOLEAN]

ASSUME AbsentApart == /\ Absent \notin Addrs /\ Absent \notin BOOLEAN /\ Absent \notin Types
                      /\ Absent \notin Ifaces /\ Absent \notin Ids
ASSUME SettingsArePools == Settings \subseteq Pools
ASSUME FormsOK ==
  /\ ClientForms \subseteq [addr : Addrs \cup {Absent}, type : Types, tunnel : Ids \cup {Absent}]
  /\ ClientPatches \subseteq [addr : Addrs \cup {Absent}, enabled : BOOLEAN \cup {Absent},
                              type : Types \cup {Absent}, tunnel : Ids \cup {Absent}]
  /\ TunnelForms \subseteq TunnelRows
  /\ TunnelPatches \subseteq [iface : Ifaces \cup {Absent}, enabled : BOOLEAN \cup {Absent}]
  /\ \A cs \in Imports : \A i \in DOMAIN cs :
       cs[i] \in [addr : Addrs \cup {Absent}, enabled : BOOLEAN \cup {Absent}, key : BOOLEAN]

NoRows == [i \in {} |-> Absent]
Add(table, id, row) == [i \in DOMAIN table \cup {id} |-> IF i = id THEN row ELSE table[i]]
Put(table, id, row) == [i \in DOMAIN table |-> IF i = id THEN row ELSE table[i]]
Remove(table, id) == [i \in DOMAIN table \ {id} |-> table[i]]

(* AUTOINCREMENT: never the id of a row that was deleted. *)
NewId(table, seq) == seq + 1

Override(given, old) == IF given = Absent THEN old ELSE given

(* The row a POST asks for; its address may still be absent. *)
EnabledClient == [addr |-> Absent, enabled |-> TRUE, type |-> "direct", tunnel |-> Absent]
NewClient(b) == [EnabledClient EXCEPT !.addr = b.addr, !.type = b.type, !.tunnel = b.tunnel]

(* The row a PATCH makes of the one it read. *)
PatchedClient(c, b) ==
  LET ty == Override(b.type, c.type)
  IN  [addr |-> Override(b.addr, c.addr), enabled |-> Override(b.enabled, c.enabled), type |-> ty,
       tunnel |-> IF ty = "direct" THEN Absent ELSE Override(b.tunnel, c.tunnel)]

PatchedTunnel(t, b) == [iface |-> Override(b.iface, t.iface), enabled |-> Override(b.enabled, t.enabled)]

(* A client of a wg-easy export: without an address or a private key it is passed over. *)
Importable(c) == c.addr # Absent /\ c.key
Imported(c) == [EnabledClient EXCEPT !.addr = c.addr, !.enabled = Override(c.enabled, TRUE)]

(* resolveUpstreamSpec: what it accepts, and the tunnel it returns. *)
Acceptable(tunnels, row) == \/ row.type = "direct"
                            \/ row.tunnel \in DOMAIN tunnels /\ tunnels[row.tunnel].enabled
KeepTunnel(row) == row                                \* mutant
Resolved(row) == IF row.type = "direct" THEN [row EXCEPT !.tunnel = Absent] ELSE row

Addresses(clients) == {clients[c].addr : c \in DOMAIN clients}

(* CountClientsOnUpstreamTunnel(t) > 0 *)
Referenced(clients, t) == \E c \in DOMAIN clients : clients[c].tunnel = t

(* The UNIQUE constraint on interface_name. *)
Taken(tunnels, iface, id) == \E t \in DOMAIN tunnels \ {id} : tunnels[t].iface = iface
=============================================================================
