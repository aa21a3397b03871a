------------------------- MODULE RegistryRequirements -------------------------
(***************************************************************************)
(* What the registry of clients and upstreams must keep true.              *)
(***************************************************************************)
EXTENDS Registry

Statements == {"resolve", "ingress", "allocate", "insertClient", "reloadClient", "getClient",
               "updateClient", "deleteClient", "importClient", "insertTunnel", "reloadTunnel",
               "getTunnel", "countClients", "updateTunnel", "deleteTunnel", "getIngress",
               "updateIngress", "apply"}

(* The tables hold rows under ids their sequences have given out, and every   *)
(* client row stands for a configuration the network controller can read: it  *)
(* has a tunnel exactly when it goes via one.                                 *)
TypeOK ==
  /\ DOMAIN clients \subseteq 1..clientSeq /\ DOMAIN tunnels \subseteq 1..tunnelSeq
  /\ clientSeq \in Nat /\ tunnelSeq \in Nat
  /\ \A c \in DOMAIN clients : /\ clients[c] \in ClientRows
                               /\ clients[c].type = "direct" <=> clients[c].tunnel = Absent
  /\ \A t \in DOMAIN tunnels : tunnels[t] \in TunnelRows
  /\ pool \in Settings
  /\ todo \in [Requests -> Seq(Statements)]
  /\ {unapplied, left, crossed} \subseteq BOOLEAN /\ overtaken \subseteq Requests
  /\ budget \in [requests : 0..MaxRequests, faults : 0..MaxFaults]

(* A client that left its address to CreateClient gets a usable host of the     *)
(* tunnel subnet, which neither the server nor another client has, unless       *)
(* another request changed a table while it was being made (handlers.go:397).   *)
AllocationSound ==
  [][\A r \in Requests \ overtaken : InsertClient(r) /\ form[r].auto =>
       form[r].row.addr \in Usable(pool) \ (Addresses(clients) \cup {pool.server})]_vars

(* README.md:232: whatever a handler that applies has written, is applied when  *)
(* no request is in progress, unless its caller went away before that.          *)
ApplyFollows == (\A r \in Requests : todo[r] = <<>>) /\ unapplied => left

(* The statements of a handler amount to one atomic operation of Catalogue,     *)
(* however they interleave and wherever the caller hangs up or the process dies, *)
(* but for the writes of a request that another has overtaken since its first   *)
(* statement: nothing less than that loses an update or breaks a reference.     *)
Promise == INSTANCE Catalogue
           WITH clients <- clients, tunnels <- tunnels, clientSeq <- clientSeq,
                tunnelSeq <- tunnelSeq, pool <- pool
KeepsPromise == /\ Promise!Init
                /\ [][Promise!Next \/ \E r \in overtaken : Statement(r)]_tables

(* docs/SPECIFICATION.md 7.2: a client that goes via an upstream names one that *)
(* exists and is enabled.  resolveUpstreamSpec and CountClientsOnUpstreamTunnel *)
(* are there to keep it, at some statement before the write.                    *)
ReferencesHold == Promise!ReferencesHold

(* They do keep it as long as no request writes after it was overtaken.         *)
ReferencesKept == crossed \/ ReferencesHold
===============================================================================
