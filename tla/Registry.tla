------------------------------ MODULE Registry ------------------------------
(***************************************************************************)
(* The handlers of internal/api/handlers that change clients, upstream     *)
(* tunnels and the ingress, over internal/store.  SQLite runs one statement *)
(* at a time and no handler opens a transaction, so a step is one statement *)
(* of one request; between two of them any other request may run, the       *)
(* caller may hang up or the process may die.  An Apply is one step here:   *)
(* Netctl is about what it does.                                           *)
(*                                                                         *)
(* An operator marked "mutant" is no part of the model: it is the next     *)
(* definition with a bug in it, for checking that the properties notice.   *)
(***************************************************************************)
EXTENDS Tables

CONSTANTS
  Requests,        \* requests that may be in progress at once
  MaxRequests,     \* bound: requests received in all
  MaxFaults        \* bound: callers that hang up and restarts

ASSUME BoundsOK == {MaxRequests, MaxFaults} \subseteq Nat

VARIABLES
  clients, tunnels,       \* the two tables: id -> row
  clientSeq, tunnelSeq,   \* sqlite_sequence
  pool,                   \* the addresses of ingress_settings
  todo,                   \* request -> the statements its handler still has to run
  form,                   \* request -> its body and locals
  unapplied,              \* a handler that applies has changed a table since the last Apply
  left,                   \* a caller hung up while that was so
  overtaken,              \* requests in progress during which another has changed a table
  crossed,                \* such a request has changed a table itself
  budget

tables == <<clients, tunnels, clientSeq, tunnelSeq, pool>>
history == <<overtaken, crossed>>
vars == <<tables, todo, form, unapplied, left, history, budget>>

NoForm == [id |-> 0, body |-> Absent, row |-> Absent, pool |-> Absent, auto |-> FALSE,
           imports |-> NoRows]

Init ==
  /\ clients = NoRows /\ tunnels = NoRows
  /\ clientSeq = 0 /\ tunnelSeq = 0 /\ pool \in Settings
  /\ todo = [r \in Requests |-> <<>>] /\ form = [r \in Requests |-> NoForm]
  /\ unapplied = FALSE /\ left = FALSE
  /\ overtaken = {} /\ crossed = FALSE
  /\ budget = [requests |-> MaxRequests, faults |-> MaxFaults]
-----------------------------------------------------------------------------
(* Requests: the statements of a handler in their order. *)

Receive(r, steps, locals) ==
  /\ todo[r] = <<>> /\ budget.requests > 0
  /\ budget' = [budget EXCEPT !.requests = @ - 1]
  /\ todo' = [todo EXCEPT ![r] = steps]
  /\ form' = [form EXCEPT ![r] = locals]
  /\ overtaken' = overtaken \ {r}
  /\ UNCHANGED <<tables, unapplied, left, crossed>>

With(id, body) == [NoForm EXCEPT !.id = id, !.body = body]

CreateClient(r) == \E b \in ClientForms :
  Receive(r, <<"resolve", "ingress", "allocate", "insertClient", "reloadClient", "apply">>,
          [With(0, b) EXCEPT !.row = NewClient(b)])

PatchClient(r) == \E c \in 1..clientSeq, b \in ClientPatches :
  Receive(r, <<"getClient", "resolve", "updateClient", "apply">>, With(c, b))

SetClientEnabled(r) == \E c \in 1..clientSeq, en \in BOOLEAN :
  Receive(r, <<"getClient", "updateClient", "apply">>,
          With(c, [addr |-> Absent, enabled |-> en, type |-> Absent, tunnel |-> Absent]))

DeleteClient(r) == \E c \in 1..clientSeq :
  Receive(r, <<"deleteClient", "apply">>, With(c, Absent))

CreateUpstream(r) == \E b \in TunnelForms :
  Receive(r, <<"insertTunnel", "reloadTunnel", "apply">>, With(0, b))

PatchUpstream(r) == \E t \in 1..tunnelSeq, b \in TunnelPatches :
  Receive(r, <<"getTunnel", "countClients", "updateTunnel", "reloadTunnel", "apply">>, With(t, b))

DeleteUncounted(r) == \E t \in 1..tunnelSeq :         \* mutant
  Receive(r, <<"deleteTunnel", "apply">>, With(t, Absent))

DeleteUpstream(r) == \E t \in 1..tunnelSeq :
  Receive(r, <<"countClients", "deleteTunnel", "apply">>, With(t, Absent))

PutIngress(r) == \E p \in Settings :
  Receive(r, <<"getIngress", "updateIngress", "apply">>, With(0, p))

(* The importer does not apply. *)
WgEasyImport(r) == \E p \in Settings, cs \in Imports :
  LET kept == {i \in DOMAIN cs : Importable(cs[i])}
  IN  Receive(r, IF kept = {} THEN <<"updateIngress">> ELSE <<"updateIngress", "importClient">>,
              [With(0, p) EXCEPT !.imports = [i \in kept |-> cs[i]]])
-----------------------------------------------------------------------------
(* Bookkeeping of the statements. *)

Last(s) == s[Len(s)]
At(r, step) == todo[r] # <<>> /\ Head(todo[r]) = step
Continue(r) == todo' = [todo EXCEPT ![r] = Tail(@)]
Answer(r) == todo' = [todo EXCEPT ![r] = <<>>]
Fill(r, locals) == form' = [form EXCEPT ![r] = locals]
Reads == UNCHANGED <<tables, unapplied, left, history, budget>>

(* Whatever the others in progress have read may be out of date now. *)
Overtakes(r) == IF tables' = tables THEN UNCHANGED history
                ELSE /\ overtaken' = overtaken \cup {q \in Requests \ {r} : todo[q] # <<>>}
                     /\ crossed' = (crossed \/ r \in overtaken)

(* A change the handler means to apply. *)
Commits(r) == /\ unapplied' = (unapplied \/ (tables' # tables /\ Last(todo[r]) = "apply"))
              /\ Overtakes(r) /\ UNCHANGED <<left, budget>>

WritesClients(r) == UNCHANGED <<tunnels, tunnelSeq, pool>> /\ Commits(r)
WritesTunnels(r) == UNCHANGED <<clients, clientSeq, pool>> /\ Commits(r)

ReloadFails(r, step, table) ==                        \* mutant
  /\ At(r, step) /\ Reads /\ UNCHANGED form
  /\ Answer(r)

(* Gone meanwhile: the handler answers 500 and does not apply. *)
Reload(r, step, table) ==
  /\ At(r, step) /\ Reads /\ UNCHANGED form
  /\ IF form[r].id \in DOMAIN table THEN Continue(r) ELSE Answer(r)
-----------------------------------------------------------------------------
(* Statements on clients. *)

GetClient(r) ==
  /\ At(r, "getClient") /\ Reads
  /\ \/ /\ form[r].id \notin DOMAIN clients
        /\ Answer(r) /\ UNCHANGED form
     \/ /\ form[r].id \in DOMAIN clients
        /\ Fill(r, [form[r] EXCEPT !.row = PatchedClient(clients[form[r].id], form[r].body)])
        /\ Continue(r)

Resolve(r) ==
  /\ At(r, "resolve") /\ Reads
  /\ \/ /\ ~Acceptable(tunnels, form[r].row)
        /\ Answer(r) /\ UNCHANGED form
     \/ /\ Acceptable(tunnels, form[r].row)
        /\ Fill(r, [form[r] EXCEPT !.row = Resolved(@)])
        /\ Continue(r)

ReadIngress(r) ==
  /\ At(r, "ingress") /\ Reads
  /\ Fill(r, [form[r] EXCEPT !.pool = pool])
  /\ Continue(r)

(* ListClientAllowedIPs, and an address for a body without one. *)
Allocate(r) ==
  /\ At(r, "allocate") /\ Reads
  /\ LET found == NextPeer(form[r].pool, Addresses(clients))
     IN  \/ /\ form[r].row.addr # Absent
            /\ Continue(r) /\ UNCHANGED form
         \/ /\ form[r].row.addr = Absent /\ found = {}
            /\ Answer(r) /\ UNCHANGED form
         \/ /\ form[r].row.addr = Absent
            /\ \E h \in found : Fill(r, [form[r] EXCEPT !.row.addr = h, !.auto = TRUE])
            /\ Continue(r)

InsertClient(r) ==
  /\ At(r, "insertClient")
  /\ LET id == NewId(clients, clientSeq)
     IN  /\ clients' = Add(clients, id, form[r].row)
         /\ clientSeq' = id
         /\ Fill(r, [form[r] EXCEPT !.id = id])
  /\ Continue(r) /\ WritesClients(r)

ReloadClient(r) == Reload(r, "reloadClient", clients)

UpdateClient(r) ==
  /\ At(r, "updateClient")
  /\ clients' = Put(clients, form[r].id, form[r].row)
  /\ Continue(r) /\ UNCHANGED <<clientSeq, form>> /\ WritesClients(r)

RemoveClient(r) ==
  /\ At(r, "deleteClient")
  /\ clients' = Remove(clients, form[r].id)
  /\ Continue(r) /\ UNCHANGED <<clientSeq, form>> /\ WritesClients(r)

(* The clients of an export come in any order, as they are parsed from a Go map. *)
ImportClient(r) ==
  /\ At(r, "importClient")
  /\ \E i \in DOMAIN form[r].imports :
       LET id == NewId(clients, clientSeq)
           rest == Remove(form[r].imports, i)
       IN  /\ clients' = Add(clients, id, Imported(form[r].imports[i])) /\ clientSeq' = id
           /\ Fill(r, [form[r] EXCEPT !.imports = rest])
           /\ IF DOMAIN rest = {} THEN Answer(r) ELSE UNCHANGED todo
  /\ WritesClients(r)
-----------------------------------------------------------------------------
(* Statements on upstream tunnels. *)

InsertTunnel(r) ==
  /\ At(r, "insertTunnel")
  /\ \/ /\ Taken(tunnels, form[r].body.iface, 0)
        /\ Answer(r) /\ Reads /\ UNCHANGED form
     \/ /\ ~Taken(tunnels, form[r].body.iface, 0)
        /\ LET id == NewId(tunnels, tunnelSeq)
           IN  /\ tunnels' = Add(tunnels, id, form[r].body)
               /\ tunnelSeq' = id
               /\ Fill(r, [form[r] EXCEPT !.id = id])
        /\ Continue(r) /\ WritesTunnels(r)

GetTunnelUncounted(r) ==                              \* mutant
  /\ At(r, "getTunnel") /\ Reads /\ form[r].id \in DOMAIN tunnels
  /\ Fill(r, [form[r] EXCEPT !.row = PatchedTunnel(tunnels[form[r].id], form[r].body)])
  /\ todo' = [todo EXCEPT ![r] = Tail(Tail(@))]

(* Only a tunnel that is being switched off has its clients counted. *)
GetTunnel(r) ==
  /\ At(r, "getTunnel") /\ Reads
  /\ \/ /\ form[r].id \notin DOMAIN tunnels
        /\ Answer(r) /\ UNCHANGED form
     \/ /\ form[r].id \in DOMAIN tunnels
        /\ LET t == tunnels[form[r].id]
               row == PatchedTunnel(t, form[r].body)
               rest == Tail(todo[r])
           IN  /\ Fill(r, [form[r] EXCEPT !.row = row])
               /\ todo' = [todo EXCEPT ![r] = IF t.enabled /\ ~row.enabled THEN rest ELSE Tail(rest)]

CountClients(r) ==
  /\ At(r, "countClients") /\ Reads /\ UNCHANGED form
  /\ IF Referenced(clients, form[r].id) THEN Answer(r) ELSE Continue(r)

UpdateTunnel(r) ==
  /\ At(r, "updateTunnel") /\ UNCHANGED form
  /\ LET refused == form[r].id \in DOMAIN tunnels /\ Taken(tunnels, form[r].row.iface, form[r].id)
     IN  \/ refused /\ Answer(r) /\ Reads
         \/ /\ ~refused
            /\ tunnels' = Put(tunnels, form[r].id, form[r].row)
            /\ Continue(r) /\ UNCHANGED tunnelSeq /\ WritesTunnels(r)

ReloadTunnel(r) == Reload(r, "reloadTunnel", tunnels)

RemoveTunnel(r) ==
  /\ At(r, "deleteTunnel")
  /\ tunnels' = Remove(tunnels, form[r].id)
  /\ Continue(r) /\ UNCHANGED <<tunnelSeq, form>> /\ WritesTunnels(r)
-----------------------------------------------------------------------------
(* The ingress row, and the end of a request. *)

(* Read for the keys the body leaves out. *)
GetIngress(r) == At(r, "getIngress") /\ Reads /\ Continue(r) /\ UNCHANGED form

UpdateIngress(r) ==
  /\ At(r, "updateIngress")
  /\ pool' = form[r].body
  /\ UNCHANGED <<clients, tunnels, clientSeq, tunnelSeq, form>>
  /\ Continue(r) /\ Commits(r)

ApplyAfterMutation(r) ==
  /\ At(r, "apply") /\ Continue(r)
  /\ unapplied' = FALSE /\ left' = FALSE
  /\ UNCHANGED <<tables, form, history, budget>>

(* The caller hangs up: the next statement finds its context done, and so does an Apply. *)
HangUp(r) ==
  /\ todo[r] # <<>> /\ budget.faults > 0
  /\ budget' = [budget EXCEPT !.faults = @ - 1]
  /\ Answer(r)
  /\ left' = (left \/ unapplied)
  /\ UNCHANGED <<tables, form, unapplied, history>>

(* The process dies between two statements; the next one starts with an Apply. *)
Restart ==
  /\ budget.faults > 0
  /\ budget' = [budget EXCEPT !.faults = @ - 1]
  /\ todo' = [r \in Requests |-> <<>>] /\ form' = [r \in Requests |-> NoForm]
  /\ unapplied' = FALSE /\ left' = FALSE /\ overtaken' = {}
  /\ UNCHANGED <<tables, crossed>>
-----------------------------------------------------------------------------
Request(r) == \/ CreateClient(r) \/ PatchClient(r) \/ SetClientEnabled(r) \/ DeleteClient(r)
              \/ CreateUpstream(r) \/ PatchUpstream(r) \/ DeleteUpstream(r)
              \/ PutIngress(r) \/ WgEasyImport(r)
Statement(r) == \/ GetClient(r) \/ Resolve(r) \/ ReadIngress(r) \/ Allocate(r)
                \/ InsertClient(r) \/ ReloadClient(r) \/ UpdateClient(r) \/ RemoveClient(r)
                \/ ImportClient(r) \/ InsertTunnel(r) \/ GetTunnel(r) \/ CountClients(r)
                \/ UpdateTunnel(r) \/ ReloadTunnel(r) \/ RemoveTunnel(r)
                \/ GetIngress(r) \/ UpdateIngress(r) \/ ApplyAfterMutation(r)

Next == Restart \/ \E r \in Requests : Request(r) \/ Statement(r) \/ HangUp(r)

Spec == Init /\ [][Next]_vars
=============================================================================
