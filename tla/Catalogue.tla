----------------------------- MODULE Catalogue -----------------------------
(***************************************************************************)
(* What the registry of clients and upstreams promises: every request is    *)
(* one step that checks what it relies on and writes, or does nothing.      *)
(* Registry, where a handler is a sequence of statements, implements this   *)
(* but for requests that another one overtakes.                            *)
(***************************************************************************)
EXTENDS Tables

VARIABLES clients, tunnels, clientSeq, tunnelSeq, pool
vars == <<clients, tunnels, clientSeq, tunnelSeq, pool>>

Init == /\ clients = NoRows /\ tunnels = NoRows
        /\ clientSeq = 0 /\ tunnelSeq = 0 /\ pool \in Settings

Insert(row) == /\ clients' = Add(clients, clientSeq + 1, row)
               /\ clientSeq' = clientSeq + 1
               /\ UNCHANGED <<tunnels, tunnelSeq, pool>>

(* A client that asks for no address gets one that nobody has. *)
AddClient == \E b \in ClientForms :
  LET row == Resolved(NewClient(b))
  IN  /\ Acceptable(tunnels, row)
      /\ \E h \in IF b.addr = Absent THEN NextPeer(pool, Addresses(clients)) ELSE {b.addr} :
           Insert([row EXCEPT !.addr = h])

ImportClient == \E cs \in Imports : \E i \in DOMAIN cs : Importable(cs[i]) /\ Insert(Imported(cs[i]))

ChangeClient == \E c \in DOMAIN clients, b \in ClientPatches :
  /\ Acceptable(tunnels, PatchedClient(clients[c], b))
  /\ clients' = Put(clients, c, Resolved(PatchedClient(clients[c], b)))
  /\ UNCHANGED <<tunnels, clientSeq, tunnelSeq, pool>>

SwitchClient == \E c \in DOMAIN clients, en \in BOOLEAN :
  /\ clients' = [clients EXCEPT ![c].enabled = en]
  /\ UNCHANGED <<tunnels, clientSeq, tunnelSeq, pool>>

DropClient == \E c \in DOMAIN clients :
  /\ clients' = Remove(clients, c)
  /\ UNCHANGED <<tunnels, clientSeq, tunnelSeq, pool>>

AddTunnel == \E b \in TunnelForms :
  /\ ~Taken(tunnels, b.iface, 0)
  /\ tunnels' = Add(tunnels, tunnelSeq + 1, b)
  /\ tunnelSeq' = tunnelSeq + 1
  /\ UNCHANGED <<clients, clientSeq, pool>>

(* A tunnel some client names is neither switched off nor deleted. *)
ChangeTunnel == \E t \in DOMAIN tunnels, b \in TunnelPatches :
  LET row == PatchedTunnel(tunnels[t], b)
  IN  /\ Referenced(clients, t) => (tunnels[t].enabled => row.enabled)
      /\ ~Taken(tunnels, row.iface, t)
      /\ tunnels' = Put(tunnels, t, row)
      /\ UNCHANGED <<clients, clientSeq, tunnelSeq, pool>>

DropTunnel == \E t \in DOMAIN tunnels :
  /\ ~Referenced(clients, t)
  /\ tunnels' = Remove(tunnels, t)
  /\ UNCHANGED <<clients, clientSeq, tunnelSeq, pool>>

SetPool == /\ pool' \in Settings
           /\ UNCHANGED <<clients, tunnels, clientSeq, tunnelSeq>>

Next == \/ AddClient \/ ImportClient \/ ChangeClient \/ SwitchClient \/ DropClient
        \/ AddTunnel \/ ChangeTunnel \/ DropTunnel \/ SetPool

Spec == Init /\ [][Next]_vars
-----------------------------------------------------------------------------
(* docs/SPECIFICATION.md 7.2: a client that goes via an upstream names one that *)
(* exists and is enabled.                                                      *)
ReferencesHold ==
  \A c \in DOMAIN clients : clients[c].type = "via_upstream" =>
    clients[c].tunnel \in DOMAIN tunnels /\ tunnels[clients[c].tunnel].enabled
=============================================================================
