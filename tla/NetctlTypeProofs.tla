-------------------------- MODULE NetctlTypeProofs --------------------------
(***************************************************************************)
(* The state of the network controller keeps its types for every set of     *)
(* clients, upstreams, goroutines, databases and faults.                    *)
(*                                                                         *)
(* TypeOK alone is not inductive: `awg-quick up` of the ingress is typed    *)
(* only because the row read earlier names an interface.  The invariant is  *)
(* TypeOK /\ IngressKnown; each action has a lemma for the first and        *)
(* IngressOfJob covers the second.                                          *)
(***************************************************************************)
EXTENDS NetctlRequirements, TLAPS

(* The locals of a goroutine. *)

(* Assigning well-typed locals keeps job typed. *)
LEMMA LocalsType ==
  ASSUME TypeOK, NEW j \in Jobs, NEW l \in JobStates, Locals(j, l)
  PROVE  job' \in [Jobs -> JobStates]
BY DEF Locals, TypeOK

(* Moving to a step keeps pc typed. *)
LEMMA GotoType ==
  ASSUME TypeOK, NEW j \in Jobs, NEW s \in Steps, Goto(j, s)
  PROVE  pc' \in [Jobs -> Steps \cup {"idle"}]
BY DEF Goto, TypeOK

(* The locals an Apply starts with are well typed. *)
LEMMA FreshType == Fresh \in JobStates
<1>1. NoRows \in TunnelTables /\ NoRows \in ClientTables
  <2>1. NoRows \in [{} -> TunnelRows] /\ NoRows \in [{} -> ClientRows]
    BY DEF NoRows
  <2> QED BY <2>1 DEF TunnelTables, ClientTables
<1>2. EmptyPolicy \in PolicyStates
  BY DEF EmptyPolicy, PolicyStates
<1>3. [iface |-> NoIface, sane |-> FALSE] \in IngressRows
  BY DEF IngressRows
<1>4. <<>> \in Seq(NATRules) /\ <<>> \in Seq(Ifaces)
  OBVIOUS
<1> QED BY <1>1, <1>2, <1>3, <1>4 DEF Fresh, JobStates, JobType, LookupsDefined

(* The types of the fields, one by one. *)
LEMMA FieldTypes ==
  ASSUME NEW l \in JobStates
  PROVE  /\ l \in JobType
         /\ l.prefs \subseteq Nat /\ l.tables \subseteq Nat
         /\ l.natTodo \in Seq(NATRules) /\ l.nat \in Seq(NATRules) /\ l.paths \in Seq(Ifaces)
         /\ l.ingress \in IngressRows /\ l.peers \subseteq Clients
         /\ l.tunnels \in TunnelTables /\ l.clients \in ClientTables
         /\ l.ext \in {NoIface, Ext, BadExt} /\ l.next \in PolicyStates
         /\ l.tunnelsTodo \subseteq DOMAIN l.tunnels
         /\ l.clientsTodo \subseteq DOMAIN l.clients
BY DEF JobStates, JobType, LookupsDefined

(* The rows of a table that was read. *)
LEMMA TableTypes ==
  /\ \A f \in TunnelTables : DOMAIN f \subseteq Tunnels /\ \A t \in DOMAIN f : f[t] \in TunnelRows
  /\ \A f \in ClientTables : DOMAIN f \subseteq Clients /\ \A c \in DOMAIN f : f[c] \in ClientRows
BY DEF TunnelTables, ClientTables

(* Returning from Apply (controller.go:60) keeps what it assigns typed. *)
LEMMA ReturnType ==
  ASSUME TypeOK, NEW j \in Jobs, NEW err \in BOOLEAN, Return(j, err)
  PROVE  /\ lastErr' \in BOOLEAN /\ serving' \in BOOLEAN
         /\ pc' \in [Jobs -> Steps \cup {"idle"}]
         /\ job' \in [Jobs -> JobStates]
BY FreshType DEF TypeOK, Return, Goto

(* An early return of Apply keeps all types. *)
LEMMA AbortType ==
  ASSUME TypeOK, NEW j \in Jobs, Abort(j), budget' \in Nat
  PROVE  TypeOK'
BY ReturnType DEF TypeOK, Abort, kernel, files

(* A failing command leaves a legal budget. *)
LEMMA FailsType ==
  ASSUME TypeOK, NEW j \in Jobs, Fails(j)
  PROVE  budget' \in Nat
BY DEF TypeOK, Fails, Spend

(* The locals of any one goroutine. *)
LEMMA JobTyped == ASSUME TypeOK, NEW j \in Jobs PROVE job[j] \in JobStates
BY DEF TypeOK
(* The rollback. *)

LEMMA LoadPolicyType == ASSUME TypeOK, NEW j \in Jobs, LoadPolicy(j) PROVE TypeOK'
<1>0. job[j] \in JobStates
  BY JobTyped
<1> DEFINE prev == IF polFile = Torn THEN EmptyPolicy ELSE polFile
           P == {r.pref : r \in prev.rules}
           T == {r.table : r \in prev.routes}
<1>1. prev \in PolicyStates
  BY DEF TypeOK, EmptyPolicy, PolicyStates
<1>2. P \in SUBSET Nat /\ T \in SUBSET Nat
  BY <1>1 DEF PolicyStates, Rules, Routes
<1>3. \A S, U \in SUBSET Nat : [job[j] EXCEPT !.prefs = S, !.tables = U] \in JobStates
  BY <1>0 DEF JobStates, JobType, LookupsDefined
<1>4. job' \in [Jobs -> JobStates] /\ pc' \in [Jobs -> Steps \cup {"idle"}]
  BY <1>2, <1>3, LocalsType, GotoType DEF LoadPolicy, Steps
<1> QED BY <1>4 DEF LoadPolicy, TypeOK, kernel, files, Quietly

LEMMA UndoRuleType == ASSUME TypeOK, NEW j \in Jobs, UndoRule(j) PROVE TypeOK'
<1>0. job[j] \in JobStates
  BY JobTyped
<1>1. PICK p \in job[j].prefs :
        /\ \/ RuleDel(p) /\ UNCHANGED budget
           \/ Fails(j) /\ UNCHANGED rules
        /\ Locals(j, [job[j] EXCEPT !.prefs = @ \ {p}])
  BY DEF UndoRule
<1>2. [job[j] EXCEPT !.prefs = @ \ {p}] \in JobStates
  BY <1>0 DEF JobStates, JobType, LookupsDefined
<1>3. job' \in [Jobs -> JobStates]
  BY <1>1, <1>2, LocalsType
<1>4. rules' \subseteq Builtin \cup Rules /\ budget' \in Nat
  BY <1>1, FailsType DEF RuleDel, TypeOK
<1> QED BY <1>3, <1>4 DEF UndoRule, TypeOK, files, Quietly

LEMMA FlushTableType == ASSUME TypeOK, NEW j \in Jobs, FlushTable(j) PROVE TypeOK'
<1>0. job[j] \in JobStates
  BY JobTyped
<1>1. PICK t \in job[j].tables :
        /\ \/ routes' = {r \in routes : r.table # t} /\ UNCHANGED budget
           \/ Fails(j) /\ UNCHANGED routes
        /\ Locals(j, [job[j] EXCEPT !.tables = @ \ {t}])
  BY DEF FlushTable
<1>2. [job[j] EXCEPT !.tables = @ \ {t}] \in JobStates
  BY <1>0 DEF JobStates, JobType, LookupsDefined
<1>3. job' \in [Jobs -> JobStates]
  BY <1>1, <1>2, LocalsType
<1>4. routes' \subseteq Routes /\ budget' \in Nat
  BY <1>1, FailsType DEF TypeOK
<1> QED BY <1>3, <1>4 DEF FlushTable, TypeOK, files, Quietly

LEMMA LoadNATStateType == ASSUME TypeOK, NEW j \in Jobs, LoadNATState(j) PROVE TypeOK'
<1>0. job[j] \in JobStates
  BY JobTyped
<1> DEFINE todo == IF natFile = Torn THEN <<>> ELSE natFile
<1>1. todo \in Seq(NATRules)
  BY DEF TypeOK
<1>2. [job[j] EXCEPT !.natTodo = todo] \in JobStates
  BY <1>0, <1>1 DEF JobStates, JobType, LookupsDefined
<1>3. job' \in [Jobs -> JobStates] /\ pc' \in [Jobs -> Steps \cup {"idle"}]
  BY <1>2, LocalsType, GotoType DEF LoadNATState, Steps
<1> QED BY <1>3 DEF LoadNATState, TypeOK, kernel, files, Quietly

LEMMA UndoNATType == ASSUME TypeOK, NEW j \in Jobs, UndoNAT(j) PROVE TypeOK'
<1>0. job[j] \in JobStates
  BY JobTyped
<1> DEFINE todo == job[j].natTodo
<1>1. todo \in Seq(NATRules) /\ todo # <<>>
  BY FieldTypes DEF TypeOK, UndoNAT
<1>2. Head(todo) \in NATRules /\ Tail(todo) \in Seq(NATRules)
  BY <1>1
<1>3. [job[j] EXCEPT !.natTodo = Tail(todo)] \in JobStates
  BY <1>0, <1>2 DEF JobStates, JobType, LookupsDefined
<1>4. job' \in [Jobs -> JobStates]
  BY <1>3, LocalsType DEF UndoNAT
<1>5. nat' \in [NATRules -> Nat] /\ budget' \in Nat
  <2>1. CASE /\ UNCHANGED budget
             /\ nat' = [nat EXCEPT ![Head(todo)] = IF @ > 0 THEN @ - 1 ELSE 0]
    BY <2>1, <1>2 DEF TypeOK
  <2>2. CASE Fails(j) /\ UNCHANGED nat
    BY <2>2, FailsType DEF TypeOK
  <2> QED BY <2>1, <2>2 DEF UndoNAT
<1> QED BY <1>4, <1>5 DEF UndoNAT, TypeOK, files, Quietly

LEMMA LoadWGRuntimeType == ASSUME TypeOK, NEW j \in Jobs, LoadWGRuntime(j) PROVE TypeOK'
<1>0. job[j] \in JobStates
  BY JobTyped
<1>1. CASE Abort(j)
  BY <1>1, AbortType DEF LoadWGRuntime, TypeOK
<1>2. CASE wgFile # Torn /\ ~Abort(j)
  <2>0. wgFile \in Seq(Ifaces)
    BY <1>2 DEF TypeOK
  <2>1. [job[j] EXCEPT !.paths = wgFile] \in JobStates
    BY <1>0, <2>0 DEF JobStates, JobType, LookupsDefined
  <2>2. job' \in [Jobs -> JobStates] /\ pc' \in [Jobs -> Steps \cup {"idle"}]
    BY <1>2, <2>1, LocalsType, GotoType DEF LoadWGRuntime, Steps
  <2> QED BY <1>2, <2>2 DEF LoadWGRuntime, TypeOK, kernel, files, Quietly
<1> QED BY <1>1, <1>2 DEF LoadWGRuntime

LEMMA DownType == ASSUME TypeOK, NEW j \in Jobs, Down(j) PROVE TypeOK'
<1>0. job[j] \in JobStates
  BY JobTyped
<1> DEFINE paths == job[j].paths
           rest == SubSeq(paths, 1, Len(paths) - 1)
<1>1. paths \in Seq(Ifaces) /\ paths # <<>>
  BY FieldTypes DEF TypeOK, Down
<1>2. rest \in Seq(Ifaces)
  BY <1>1
<1>3. [job[j] EXCEPT !.paths = rest] \in JobStates
  BY <1>0, <1>2 DEF JobStates, JobType, LookupsDefined
<1>4. job' \in [Jobs -> JobStates]
  BY <1>3, LocalsType DEF Down
<1>5. links' \subseteq Ifaces /\ routes' \subseteq Routes /\ budget' \in Nat
  BY FailsType DEF Down, TypeOK
<1> QED BY <1>4, <1>5 DEF Down, TypeOK, files, Quietly
-----------------------------------------------------------------------------
(* syncWireGuard. *)

LEMMA ReadIngressType == ASSUME TypeOK, NEW j \in Jobs, ReadIngress(j) PROVE TypeOK'
<1>0. job[j] \in JobStates
  BY JobTyped
<1>1. CASE Abort(j)
  BY <1>1, AbortType DEF ReadIngress, TypeOK
<1>2. CASE ~Abort(j)
  <2>0. db.ingress \in IngressRows
    BY DEF TypeOK, DbType
  <2>1. [job[j] EXCEPT !.ingress = db.ingress] \in JobStates
    BY <1>0, <2>0 DEF JobStates, JobType, LookupsDefined
  <2>2. job' \in [Jobs -> JobStates] /\ pc' \in [Jobs -> Steps \cup {"idle"}]
    BY <1>2, <2>1, LocalsType, GotoType DEF ReadIngress, Steps
  <2> QED BY <1>2, <2>2 DEF ReadIngress, TypeOK, kernel, files, Quietly
<1> QED BY <1>1, <1>2

LEMMA HealType == ASSUME TypeOK, NEW j \in Jobs, Heal(j) PROVE TypeOK'
<1>1. CASE Abort(j)
  BY <1>1, AbortType DEF Heal, TypeOK
<1>2. CASE ~Abort(j)
  <2>0. [iface |-> job[j].ingress.iface, sane |-> TRUE] \in IngressRows
    BY JobTyped, FieldTypes DEF IngressRows
  <2>1. \A row \in IngressRows : [db EXCEPT !.ingress = row] \in DbType
    BY DEF TypeOK, DbType
  <2>2. db' \in DbType
    BY <1>2, <2>0, <2>1 DEF Heal
  <2>3. pc' \in [Jobs -> Steps \cup {"idle"}]
    BY <1>2, GotoType DEF TypeOK, Heal, Steps
  <2> QED BY <1>2, <2>2, <2>3 DEF Heal, TypeOK, kernel, files, Quietly
<1> QED BY <1>1, <1>2

LEMMA ReadPeersType == ASSUME TypeOK, NEW j \in Jobs, ReadPeers(j) PROVE TypeOK'
<1>0. job[j] \in JobStates
  BY JobTyped
<1>1. CASE Abort(j)
  BY <1>1, AbortType DEF TypeOK, ReadPeers
<1>2. CASE ~Abort(j)
  <2>1. Enabled(db.clients) \subseteq Clients
    BY TableTypes DEF TypeOK, DbType, Enabled
  <2>2. [job[j] EXCEPT !.peers = Enabled(db.clients)] \in JobStates
    BY <1>0, <2>1 DEF JobStates, JobType, LookupsDefined
  <2>3. job' \in [Jobs -> JobStates] /\ pc' \in [Jobs -> Steps \cup {"idle"}]
    BY <1>2, <2>2, LocalsType, GotoType DEF ReadPeers, Steps
  <2> QED BY <1>2, <2>3 DEF ReadPeers, TypeOK, kernel, files, Quietly
<1> QED BY <1>1, <1>2

LEMMA ReadTunnelsType == ASSUME TypeOK, NEW j \in Jobs, ReadTunnels(j) PROVE TypeOK'
<1>0. job[j] \in JobStates
  BY JobTyped
<1> DEFINE todo == {t \in Enabled(db.tunnels) : db.tunnels[t].conf # "empty"}
<1>1. CASE Abort(j)
  BY <1>1, AbortType DEF TypeOK, ReadTunnels
<1>2. CASE ~Abort(j)
  <2>1. db.tunnels \in TunnelTables /\ todo \subseteq DOMAIN db.tunnels /\ todo \subseteq Tunnels
    BY TableTypes DEF TypeOK, DbType, Enabled
  <2>2. [job[j] EXCEPT !.tunnels = db.tunnels, !.tunnelsTodo = todo] \in JobStates
    BY <1>0, <2>1 DEF JobStates, JobType, LookupsDefined
  <2>3. job' \in [Jobs -> JobStates] /\ pc' \in [Jobs -> Steps \cup {"idle"}]
    BY <1>2, <2>2, LocalsType, GotoType DEF ReadTunnels, Steps
  <2> QED BY <1>2, <2>3 DEF ReadTunnels, TypeOK, kernel, files, Quietly
<1> QED BY <1>1, <1>2


LEMMA UpIngressType ==
  ASSUME TypeOK, IngressKnown, NEW j \in Jobs, UpIngress(j) PROVE TypeOK'
<1>0. job[j] \in JobStates
  BY JobTyped
<1> DEFINE i == job[j].ingress.iface
<1>1. CASE Abort(j)
  BY <1>1, AbortType, FailsType DEF TypeOK, UpIngress
<1>2. CASE ~Abort(j)
  <2>1. i \in Ifaces
    BY <1>2, JobTyped, FieldTypes DEF UpIngress, IngressKnown, Syncing, IngressRows
  <2>5. <<i>> \in Seq(Ifaces)
    BY <2>1
  <2>6. ASSUME NEW s \in Seq(Ifaces) PROVE [job[j] EXCEPT !.paths = s] \in JobStates
    BY <1>0 DEF JobStates, JobType, LookupsDefined
  <2>2. [job[j] EXCEPT !.paths = <<i>>] \in JobStates
    BY <2>5, <2>6
  <2>3. job' \in [Jobs -> JobStates] /\ pc' \in [Jobs -> Steps \cup {"idle"}]
    BY <1>2, <2>2, LocalsType, GotoType DEF UpIngress, Steps
  <2>4. links' \subseteq Ifaces /\ peers' \subseteq Clients
    BY <1>2, <2>1, JobTyped, FieldTypes DEF TypeOK, UpIngress
  <2> QED BY <1>2, <2>3, <2>4 DEF UpIngress, TypeOK, files, Quietly
<1> QED BY <1>1, <1>2

LEMMA UpTunnelType == ASSUME TypeOK, NEW j \in Jobs, UpTunnel(j) PROVE TypeOK'
<1>0. job[j] \in JobStates
  BY JobTyped
<1>1. PICK t \in job[j].tunnelsTodo :
        \/ /\ UNCHANGED budget
           /\ links' = links \cup {job[j].tunnels[t].iface}
           /\ Locals(j, [job[j] EXCEPT !.tunnelsTodo = @ \ {t},
                                       !.paths = Append(@, job[j].tunnels[t].iface)])
        \/ /\ UNCHANGED budget \/ Fails(j)
           /\ UNCHANGED links
           /\ Locals(j, [job[j] EXCEPT !.tunnelsTodo = @ \ {t}, !.failed = TRUE])
  BY DEF UpTunnel
<1>2. job[j].tunnels[t].iface \in Ifaces
  BY JobTyped, FieldTypes, TableTypes DEF TunnelRows
<1>3. Append(job[j].paths, job[j].tunnels[t].iface) \in Seq(Ifaces)
  BY <1>2, JobTyped, FieldTypes
<1>4. \A s \in Seq(Ifaces) : [job[j] EXCEPT !.tunnelsTodo = @ \ {t}, !.paths = s] \in JobStates
  BY <1>0 DEF JobStates, JobType, LookupsDefined
<1>5. [job[j] EXCEPT !.tunnelsTodo = @ \ {t}, !.failed = TRUE] \in JobStates
  BY <1>0 DEF JobStates, JobType, LookupsDefined
<1>6. job' \in [Jobs -> JobStates]
  BY <1>1, <1>3, <1>4, <1>5, LocalsType
<1>7. links' \subseteq Ifaces /\ budget' \in Nat
  BY <1>1, <1>2, FailsType DEF TypeOK
<1> QED BY <1>6, <1>7 DEF UpTunnel, TypeOK, files, Quietly

LEMMA TruncateRuntimeType == ASSUME TypeOK, NEW j \in Jobs, TruncateRuntime(j) PROVE TypeOK'
BY GotoType DEF TypeOK, TruncateRuntime, Steps, kernel, Quietly

LEMMA WriteRuntimeType == ASSUME TypeOK, NEW j \in Jobs, WriteRuntime(j) PROVE TypeOK'
<1>1. job[j].paths \in Seq(Ifaces)
  BY JobTyped, FieldTypes
<1>2. CASE Return(j, TRUE)
  BY <1>1, <1>2, ReturnType DEF TypeOK, WriteRuntime, kernel
<1>3. CASE ~Return(j, TRUE)
  BY <1>1, <1>3, GotoType DEF TypeOK, WriteRuntime, Steps, kernel, Quietly
<1> QED BY <1>2, <1>3
-----------------------------------------------------------------------------
(* Policy routing and NAT. *)

LEMMA ListUpstreamTunnelsType ==
  ASSUME TypeOK, NEW j \in Jobs, ListUpstreamTunnels(j) PROVE TypeOK'
<1>0. job[j] \in JobStates
  BY JobTyped
<1>1. CASE Abort(j)
  BY <1>1, AbortType DEF TypeOK, ListUpstreamTunnels
<1>2. CASE ~Abort(j)
  <2>1. /\ db.tunnels \in TunnelTables
        /\ Enabled(db.tunnels) \subseteq DOMAIN db.tunnels /\ Enabled(db.tunnels) \subseteq Tunnels
    BY TableTypes DEF TypeOK, DbType, Enabled
  <2>2. [job[j] EXCEPT !.tunnels = db.tunnels, !.tunnelsTodo = Enabled(db.tunnels)] \in JobStates
    BY <1>0, <2>1 DEF JobStates, JobType, LookupsDefined
  <2>3. job' \in [Jobs -> JobStates] /\ pc' \in [Jobs -> Steps \cup {"idle"}]
    BY <1>2, <2>2, LocalsType, GotoType DEF ListUpstreamTunnels, Steps
  <2> QED BY <1>2, <2>3 DEF ListUpstreamTunnels, TypeOK, kernel, files, Quietly
<1> QED BY <1>1, <1>2

LEMMA ListClientsType == ASSUME TypeOK, NEW j \in Jobs, ListClients(j) PROVE TypeOK'
<1>0. job[j] \in JobStates
  BY JobTyped
<1>1. CASE Abort(j)
  BY <1>1, AbortType DEF TypeOK, ListClients
<1>2. CASE ~Abort(j)
  <2>1. /\ db.clients \in ClientTables
        /\ Enabled(db.clients) \subseteq DOMAIN db.clients /\ Enabled(db.clients) \subseteq Clients
    BY TableTypes DEF TypeOK, DbType, Enabled
  <2>2. [job[j] EXCEPT !.clients = db.clients, !.clientsTodo = Enabled(db.clients)] \in JobStates
    BY <1>0, <2>1 DEF JobStates, JobType, LookupsDefined
  <2>3. job' \in [Jobs -> JobStates] /\ pc' \in [Jobs -> Steps \cup {"idle"}]
    BY <1>2, <2>2, LocalsType, GotoType DEF ListClients, Steps
  <2> QED BY <1>2, <2>3 DEF ListClients, TypeOK, kernel, files, Quietly
<1> QED BY <1>1, <1>2

LEMMA GetSystemSettingsType == ASSUME TypeOK, NEW j \in Jobs, GetSystemSettings(j) PROVE TypeOK'
<1>0. job[j] \in JobStates
  BY JobTyped
<1>1. CASE Abort(j)
  BY <1>1, AbortType DEF TypeOK, GetSystemSettings
<1>2. CASE ~Abort(j)
  <2>1. db.policy \in {"block", "ignore"} /\ db.ext \in {NoIface, Ext, BadExt}
    BY DEF TypeOK, DbType
  <2>2. [job[j] EXCEPT !.policy = db.policy, !.ext = db.ext] \in JobStates
    BY <1>0, <2>1 DEF JobStates, JobType, LookupsDefined
  <2>3. job' \in [Jobs -> JobStates] /\ pc' \in [Jobs -> Steps \cup {"idle"}]
    BY <1>2, <2>2, LocalsType, GotoType DEF GetSystemSettings, Steps
  <2> QED BY <1>2, <2>3 DEF GetSystemSettings, TypeOK, kernel, files, Quietly
<1> QED BY <1>1, <1>2

LEMMA DetectExternalInterfaceType ==
  ASSUME TypeOK, NEW j \in Jobs, DetectExternalInterface(j) PROVE TypeOK'
<1>0. job[j] \in JobStates
  BY JobTyped
<1>1. [job[j] EXCEPT !.ext = Ext] \in JobStates
  BY <1>0 DEF JobStates, JobType, LookupsDefined
<1>2. job' \in [Jobs -> JobStates] /\ budget' \in Nat
  BY <1>1, LocalsType, FailsType DEF TypeOK, DetectExternalInterface
<1>3. pc' \in [Jobs -> Steps \cup {"idle"}]
  BY GotoType DEF TypeOK, DetectExternalInterface, Steps
<1> QED BY <1>2, <1>3 DEF DetectExternalInterface, TypeOK, kernel, files, Quietly

(* What AddRoute assigns to the locals of a goroutine. *)
LEMMA RoutedLocals ==
  ASSUME NEW l \in JobStates, NEW t, NEW q \in PolicyStates
  PROVE  [l EXCEPT !.tunnelsTodo = @ \ {t}, !.next = q] \in JobStates
BY DEF JobStates, JobType, LookupsDefined

LEMMA AddRouteType == ASSUME TypeOK, NEW j \in Jobs, AddRoute(j) PROVE TypeOK'
<1>1. CASE Abort(j)
  BY <1>1, AbortType, FailsType DEF TypeOK, AddRoute
<1>2. CASE ~Abort(j)
  <2> DEFINE r(t) == [table |-> RoutingTableID(t), dev |-> job[j].tunnels[t].iface]
  <2> DEFINE next(t) == [job[j].next EXCEPT !.routes = @ \cup {r(t)}]
  <2>1. PICK t \in job[j].tunnelsTodo :
          /\ routes' = {q \in routes : q.table # r(t).table} \cup {r(t)}
          /\ Locals(j, [job[j] EXCEPT !.tunnelsTodo = @ \ {t}, !.next = next(t)])
          /\ UNCHANGED <<db, rules, nat, links, peers, files, pc, budget>> /\ Quietly
    BY <1>2 DEF AddRoute
  <2>2. t \in Tunnels /\ job[j].tunnels[t].iface \in Ifaces
    BY JobTyped, FieldTypes, TableTypes DEF TunnelRows
  <2>3. r(t) \in Routes
    BY <2>2, IdsAreNat DEF Routes, RoutingTableID
  <2>4. next(t) \in PolicyStates
    BY <2>3, JobTyped, FieldTypes DEF PolicyStates
  <2>5. job' \in [Jobs -> JobStates]
    BY <2>1, <2>4, JobTyped, RoutedLocals, LocalsType
  <2>6. routes' \subseteq Routes
    BY <2>1, <2>3 DEF TypeOK
  <2> QED BY <2>1, <2>5, <2>6 DEF TypeOK, files, Quietly
<1> QED BY <1>1, <1>2

LEMMA SkipClientType == ASSUME TypeOK, NEW j \in Jobs, SkipClient(j) PROVE TypeOK'
<1>0. job[j] \in JobStates
  BY JobTyped
<1>1. PICK c \in job[j].clientsTodo : Locals(j, [job[j] EXCEPT !.clientsTodo = @ \ {c}])
  BY DEF SkipClient
<1>2. [job[j] EXCEPT !.clientsTodo = @ \ {c}] \in JobStates
  BY <1>0 DEF JobStates, JobType, LookupsDefined
<1>3. job' \in [Jobs -> JobStates]
  BY <1>1, <1>2, LocalsType
<1> QED BY <1>3 DEF SkipClient, TypeOK, kernel, files, Quietly

LEMMA RefuseOfflineType == ASSUME TypeOK, NEW j \in Jobs, RefuseOffline(j) PROVE TypeOK'
BY AbortType DEF RefuseOffline, TypeOK

LEMMA PlaceDirectType == ASSUME TypeOK, NEW j \in Jobs, PlaceDirect(j) PROVE TypeOK'
<1>0. job[j] \in JobStates
  BY JobTyped
<1> DEFINE r(c) == [from |-> job[j].clients[c].addr, out |-> job[j].ext]
           n(c) == IF r(c).out = NoIface THEN job[j].nat ELSE Append(job[j].nat, r(c))
<1>1. PICK c \in job[j].clientsTodo :
        /\ Usable(j, c)
        /\ Locals(j, [job[j] EXCEPT !.clientsTodo = @ \ {c}, !.nat = n(c)])
  BY DEF PlaceDirect
<1>2. job[j].nat \in Seq(NATRules)
  BY JobTyped, FieldTypes
<1>3. r(c).out # NoIface => r(c) \in NATRules
  BY <1>1, JobTyped, FieldTypes DEF Usable, NATRules, OutIfaces
<1>4. n(c) \in Seq(NATRules)
  BY <1>2, <1>3
<1>5. ASSUME NEW s \in Seq(NATRules)
      PROVE  [job[j] EXCEPT !.clientsTodo = @ \ {c}, !.nat = s] \in JobStates
  BY <1>0 DEF JobStates, JobType, LookupsDefined
<1>6. job' \in [Jobs -> JobStates]
  BY <1>1, <1>4, <1>5, LocalsType
<1> QED BY <1>6 DEF PlaceDirect, TypeOK, kernel, files, Quietly

LEMMA PlaceRoutedType == ASSUME TypeOK, NEW j \in Jobs, PlaceRouted(j) PROVE TypeOK'
<1>0. job[j] \in JobStates
  BY JobTyped
<1>1. CASE Abort(j)
  BY <1>1, AbortType, FailsType DEF TypeOK, PlaceRouted
<1>2. CASE ~Abort(j)
  <2> DEFINE r(c) == RuleFor(j, c)
             n(c) == [from |-> r(c).from, out |-> job[j].tunnels[TunnelOf(j, c)].iface]
             next(c) == [job[j].next EXCEPT !.rules = @ \cup {r(c)}]
  <2>1. PICK c \in job[j].clientsTodo :
          /\ Routed(j, c) /\ Available(j, c)
          /\ rules' = rules \cup {r(c)}
          /\ Locals(j, [job[j] EXCEPT !.clientsTodo = @ \ {c},
                                      !.next = next(c),
                                      !.nat = Append(@, n(c))])
          /\ UNCHANGED <<db, routes, nat, links, peers, files, pc, budget>> /\ Quietly
    BY <1>2 DEF PlaceRouted
  <2>2. c \in Clients /\ TunnelOf(j, c) \in DOMAIN job[j].tunnels
    BY <2>1, JobTyped, FieldTypes, TableTypes DEF Available, Enabled
  <2>3. TunnelOf(j, c) \in Tunnels /\ job[j].tunnels[TunnelOf(j, c)].iface \in Ifaces
    BY <2>2, JobTyped, FieldTypes, TableTypes DEF TunnelRows
  <2>4. r(c) \in Rules
    BY <2>1, <2>2, <2>3, IdsAreNat
       DEF RuleFor, Rules, Routed, Usable, RoutingTableID, RulePreference
  <2>5. n(c) \in NATRules
    BY <2>3, <2>4 DEF NATRules, OutIfaces, Rules
  <2>6. Append(job[j].nat, n(c)) \in Seq(NATRules)
    BY <2>5, JobTyped, FieldTypes
  <2>10. next(c) \in PolicyStates
    BY <2>4, JobTyped, FieldTypes DEF PolicyStates
  <2>7. ASSUME NEW q \in PolicyStates, NEW s \in Seq(NATRules)
        PROVE  [job[j] EXCEPT !.clientsTodo = @ \ {c}, !.next = q, !.nat = s] \in JobStates
    BY <1>0 DEF JobStates, JobType, LookupsDefined
  <2>8. job' \in [Jobs -> JobStates]
    BY <2>1, <2>6, <2>7, <2>10, LocalsType
  <2>9. rules' \subseteq Builtin \cup Rules
    BY <2>1, <2>4 DEF TypeOK
  <2> QED BY <2>1, <2>8, <2>9 DEF TypeOK, files, Quietly
<1> QED BY <1>1, <1>2

LEMMA AppendNATType == ASSUME TypeOK, NEW j \in Jobs, AppendNAT(j) PROVE TypeOK'
<1>0. job[j] \in JobStates
  BY JobTyped
<1> DEFINE r == job[j].nat[Len(job[j].natTodo) + 1]
<1>1. CASE Abort(j)
  BY <1>1, AbortType, FailsType DEF TypeOK, AppendNAT
<1>2. CASE ~Abort(j)
  <2>1. job[j].nat \in Seq(NATRules) /\ job[j].natTodo \in Seq(NATRules)
    BY JobTyped, FieldTypes
  <2>2. Len(job[j].natTodo) + 1 \in 1..Len(job[j].nat)
    BY <2>1 DEF AppendNAT
  <2>3. r \in NATRules
    BY <2>1, <2>2
  <2>4. Append(job[j].natTodo, r) \in Seq(NATRules)
    BY <2>1, <2>3
  <2>5. [job[j] EXCEPT !.natTodo = Append(@, r)] \in JobStates
    BY <1>0, <2>4 DEF JobStates, JobType, LookupsDefined
  <2>6. job' \in [Jobs -> JobStates]
    BY <1>2, <2>5, LocalsType DEF AppendNAT
  <2>7. nat' \in [NATRules -> Nat]
    BY <1>2, <2>3 DEF TypeOK, AppendNAT
  <2> QED BY <1>2, <2>6, <2>7 DEF AppendNAT, TypeOK, files, Quietly
<1> QED BY <1>1, <1>2

LEMMA WriteTypes ==
  ASSUME TypeOK, NEW j \in Jobs, TruncateNAT(j) \/ WriteNAT(j) \/ TruncatePolicy(j)
  PROVE  TypeOK'
<1>1. job[j].nat \in Seq(NATRules)
  BY JobTyped, FieldTypes
<1>2. CASE TruncateNAT(j)
  BY <1>2, GotoType DEF TypeOK, TruncateNAT, Steps, kernel, Quietly
<1>3. CASE WriteNAT(j)
  BY <1>1, <1>3, GotoType DEF TypeOK, WriteNAT, Steps, kernel, Quietly
<1>4. CASE TruncatePolicy(j)
  BY <1>4, GotoType DEF TypeOK, TruncatePolicy, Steps, kernel, Quietly
<1> QED BY <1>2, <1>3, <1>4

LEMMA WritePolicyType == ASSUME TypeOK, NEW j \in Jobs, WritePolicy(j) PROVE TypeOK'
<1>1. job[j].next \in PolicyStates
  BY JobTyped, FieldTypes
<1> QED BY <1>1, ReturnType DEF TypeOK, WritePolicy, kernel
-----------------------------------------------------------------------------
(* Requests and faults. *)

LEMMA RequestTypes ==
  ASSUME TypeOK, NEW j \in Jobs, Mutate(j) \/ SystemApply(j)
  PROVE  TypeOK'
<1>1. Begin(j) /\ db' \in DbType /\ budget' \in Nat
  BY DatabasesOK DEF TypeOK, Mutate, SystemApply
<1> QED BY <1>1, GotoType DEF TypeOK, Begin, Steps, kernel, files

LEMMA CancelType == ASSUME TypeOK, NEW j \in Jobs, Cancel(j) PROVE TypeOK'
<1>0. job[j] \in JobStates
  BY JobTyped
<1>1. [job[j] EXCEPT !.cancelled = TRUE] \in JobStates
  BY <1>0 DEF JobStates, JobType, LookupsDefined
<1>2. job' \in [Jobs -> JobStates]
  BY <1>1, LocalsType DEF Cancel
<1>3. budget' \in Nat
  BY DEF TypeOK, Cancel, Spend
<1> QED BY <1>2, <1>3 DEF Cancel, TypeOK, kernel, files, Quietly

LEMMA DiskFullType == ASSUME TypeOK, NEW j \in Jobs, DiskFull(j) PROVE TypeOK'
<1>1. budget' \in Nat
  BY DEF TypeOK, DiskFull, Spend
<1> QED BY <1>1, AbortType DEF DiskFull

LEMMA SilentMutateType == ASSUME TypeOK, SilentMutate PROVE TypeOK'
BY DatabasesOK DEF TypeOK, SilentMutate, kernel, files

LEMMA RestartTypes == ASSUME TypeOK, Reboot \/ Kill PROVE TypeOK'
<1>1. /\ pc' \in [Jobs -> Steps \cup {"idle"}] /\ job' \in [Jobs -> JobStates]
      /\ lastErr' \in BOOLEAN /\ serving' \in BOOLEAN /\ UNCHANGED <<db, files>>
  BY FreshType DEF Reboot, Kill, Restart, Steps
<1>2. budget' \in Nat
  BY DEF TypeOK, Reboot, Kill, Spend
<1>3. CASE Reboot
  BY <1>1, <1>2, <1>3 DEF TypeOK, Reboot, NoNAT, files
<1>4. CASE Kill
  BY <1>1, <1>2, <1>4 DEF TypeOK, Kill, kernel, files
<1> QED BY <1>3, <1>4
-----------------------------------------------------------------------------
(* What the interfaces of an Apply come from is known while it brings them up. *)

(* A step of one goroutine leaves the place and the locals of the others alone. *)
LEMMA OneJob ==
  ASSUME TypeOK, NEW j \in Jobs,
         ApplyStep(j) \/ Mutate(j) \/ SystemApply(j) \/ Cancel(j) \/ DiskFull(j),
         NEW i \in Jobs \ {j}
  PROVE  pc'[i] = pc[i] /\ job'[i] = job[i]
<1> USE DEF TypeOK, Goto, Locals, Abort, Return
<1>1. CASE Rollback(j)
  BY <1>1 DEF Rollback, LoadPolicy, UndoRule, FlushTable, LoadNATState, UndoNAT, LoadWGRuntime, Down
<1>2. CASE SyncWireGuard(j)
  BY <1>2 DEF SyncWireGuard, ReadIngress, Heal, ReadPeers, ReadTunnels, UpIngress, UpTunnel,
              TruncateRuntime, WriteRuntime
<1>3. CASE Route(j)
  BY <1>3 DEF Route, ListUpstreamTunnels, ListClients, GetSystemSettings, DetectExternalInterface,
              AddRoute, SkipClient, RefuseOffline, PlaceDirect, PlaceRouted
<1>4. CASE Persist(j)
  BY <1>4 DEF Persist, AppendNAT, TruncateNAT, WriteNAT, TruncatePolicy, WritePolicy
<1>5. CASE Mutate(j) \/ SystemApply(j) \/ Cancel(j) \/ DiskFull(j)
  BY <1>5 DEF Mutate, SystemApply, Begin, Cancel, DiskFull
<1> QED BY <1>1, <1>2, <1>3, <1>4, <1>5 DEF ApplyStep

(* Between ReadIngress and UpIngress the goroutine that steps knows its interface. *)
LEMMA IngressOfJob ==
  ASSUME TypeOK, IngressKnown, NEW j \in Jobs,
         ApplyStep(j) \/ Mutate(j) \/ SystemApply(j) \/ Cancel(j) \/ DiskFull(j), pc'[j] \in Syncing
  PROVE  job'[j].ingress.iface # NoIface
<1>0. DOMAIN pc = Jobs /\ DOMAIN job = Jobs /\ job[j] \in JobStates
  BY DEF TypeOK
<1>1. ~Rollback(j)
  BY <1>0 DEF Goto, Abort, Return, Syncing, Rollback, LoadPolicy, UndoRule, FlushTable,
              LoadNATState, UndoNAT, LoadWGRuntime, Down
<1>2. ~Route(j) /\ ~Persist(j)
  <2>1. ~(\/ ListUpstreamTunnels(j) \/ ListClients(j)
          \/ GetSystemSettings(j) \/ DetectExternalInterface(j))
    BY <1>0 DEF Goto, Abort, Return, Syncing, ListUpstreamTunnels, ListClients, GetSystemSettings,
                DetectExternalInterface
  <2>2. ~(AddRoute(j) \/ SkipClient(j) \/ RefuseOffline(j))
    BY <1>0 DEF Goto, Abort, Return, Syncing, AddRoute, SkipClient, RefuseOffline, Placing
  <2>3. ~(PlaceDirect(j) \/ PlaceRouted(j))
    BY <1>0 DEF Goto, Abort, Return, Syncing, PlaceDirect, PlaceRouted, Placing
  <2>4. ~Persist(j)
    BY <1>0 DEF Goto, Abort, Return, Syncing, Persist, AppendNAT, TruncateNAT, WriteNAT,
                TruncatePolicy, WritePolicy
  <2> QED BY <2>1, <2>2, <2>3, <2>4 DEF Route
<1>3. ~UpIngress(j) /\ ~UpTunnel(j) /\ ~TruncateRuntime(j) /\ ~WriteRuntime(j)
  BY <1>0 DEF Goto, Abort, Return, Syncing, UpIngress, UpTunnel, TruncateRuntime, WriteRuntime
<1>4. ~Mutate(j) /\ ~SystemApply(j) /\ ~DiskFull(j)
  BY <1>0 DEF Goto, Abort, Return, Syncing, Mutate, SystemApply, Begin, DiskFull
<1>5. ~Abort(j)
  BY <1>0 DEF Goto, Abort, Return, Syncing
<1>6. CASE ReadIngress(j)
  <2>1. [job[j] EXCEPT !.ingress = db.ingress].ingress = db.ingress
    BY <1>0 DEF JobStates, JobType
  <2> QED BY <1>0, <1>5, <1>6, <2>1 DEF ReadIngress, Locals
<1>7. CASE Heal(j)
  BY <1>0, <1>5, <1>7 DEF IngressKnown, Syncing, Heal
<1>8. CASE ReadPeers(j)
  <2>1. [job[j] EXCEPT !.peers = Enabled(db.clients)].ingress = job[j].ingress
    BY <1>0 DEF JobStates, JobType
  <2> QED BY <1>0, <1>5, <1>8, <2>1 DEF IngressKnown, Syncing, ReadPeers, Locals
<1>9. CASE ReadTunnels(j)
  <2> DEFINE todo == {t \in Enabled(db.tunnels) : db.tunnels[t].conf # "empty"}
  <2>1. ASSUME NEW f, NEW s
        PROVE  [job[j] EXCEPT !.tunnels = f, !.tunnelsTodo = s].ingress = job[j].ingress
    BY <1>0 DEF JobStates, JobType
  <2>2. /\ pc[j] \in Syncing
        /\ job' = [job EXCEPT ![j] = [job[j] EXCEPT !.tunnels = db.tunnels, !.tunnelsTodo = todo]]
    BY <1>5, <1>9 DEF Syncing, ReadTunnels, Locals
  <2> HIDE DEF todo
  <2> QED BY <1>0, <2>1, <2>2 DEF IngressKnown
<1>10. CASE Cancel(j)
  <2>1. [job[j] EXCEPT !.cancelled = TRUE].ingress = job[j].ingress
    BY <1>0 DEF JobStates, JobType
  <2> QED BY <1>0, <1>10, <2>1 DEF IngressKnown, Syncing, Cancel, Locals
<1> QED BY <1>1, <1>2, <1>3, <1>4, <1>6, <1>7, <1>8, <1>9, <1>10 DEF ApplyStep, SyncWireGuard

(* IngressKnown is kept by every step. *)
LEMMA IngressStep == TypeOK /\ IngressKnown /\ [Next]_vars => IngressKnown'
<1> SUFFICES ASSUME TypeOK, IngressKnown, [Next]_vars PROVE IngressKnown'
  OBVIOUS
<1>1. ASSUME NEW j \in Jobs,
             ApplyStep(j) \/ Mutate(j) \/ SystemApply(j) \/ Cancel(j) \/ DiskFull(j)
      PROVE  IngressKnown'
  <2> SUFFICES ASSUME NEW i \in Jobs, pc'[i] \in Syncing PROVE job'[i].ingress.iface # NoIface
    BY DEF IngressKnown, Syncing
  <2>1. CASE i = j
    BY <1>1, <2>1, IngressOfJob
  <2>2. CASE i # j
    <3>1. pc'[i] = pc[i] /\ job'[i] = job[i]
      BY <1>1, <2>2, OneJob
    <3> QED BY <3>1 DEF IngressKnown
  <2> QED BY <2>1, <2>2
<1>2. CASE Reboot \/ Kill
  BY <1>2 DEF Reboot, Kill, Restart, IngressKnown, Syncing
<1>3. CASE SilentMutate \/ UNCHANGED vars
  BY <1>3 DEF SilentMutate, vars, IngressKnown
<1> QED BY <1>1, <1>2, <1>3 DEF Next

(* The first state of the process is well typed. *)
LEMMA InitType == Init => TypeOK
<1> SUFFICES ASSUME Init PROVE TypeOK
  OBVIOUS
<1>1. EmptyPolicy \in PolicyStates
  BY DEF EmptyPolicy, PolicyStates
<1>2. pc \in [Jobs -> Steps \cup {"idle"}] /\ job \in [Jobs -> JobStates]
  BY FreshType DEF Init, Steps
<1>3. nat \in [NATRules -> Nat] /\ budget \in Nat /\ db \in DbType
  BY DatabasesOK, BoundsOK DEF Init, NoNAT
<1>4. <<>> \in Seq(NATRules) /\ <<>> \in Seq(Ifaces)
  OBVIOUS
<1> QED BY <1>1, <1>2, <1>3, <1>4 DEF Init, TypeOK

(* No step leaves a lookup undefined or a variable outside its type, for any *)
(* number of clients, upstreams and Applies at once and under every fault.    *)
LEMMA StepType == TypeOK /\ IngressKnown /\ [Next]_vars => TypeOK'
<1> SUFFICES ASSUME TypeOK, IngressKnown, [Next]_vars PROVE TypeOK'
  OBVIOUS
<1>1. ASSUME NEW j \in Jobs, Rollback(j) PROVE TypeOK'
  BY <1>1, LoadPolicyType, UndoRuleType, FlushTableType, LoadNATStateType, UndoNATType,
     LoadWGRuntimeType, DownType DEF Rollback
<1>2. ASSUME NEW j \in Jobs, SyncWireGuard(j) PROVE TypeOK'
  BY <1>2, ReadIngressType, HealType, ReadPeersType, ReadTunnelsType, UpIngressType,
     UpTunnelType, TruncateRuntimeType, WriteRuntimeType DEF SyncWireGuard
<1>3. ASSUME NEW j \in Jobs, Route(j) PROVE TypeOK'
  BY <1>3, ListUpstreamTunnelsType, ListClientsType, GetSystemSettingsType,
     DetectExternalInterfaceType, AddRouteType, SkipClientType, RefuseOfflineType,
     PlaceDirectType, PlaceRoutedType DEF Route
<1>4. ASSUME NEW j \in Jobs, Persist(j) PROVE TypeOK'
  BY <1>4, AppendNATType, WriteTypes, WritePolicyType DEF Persist
<1>5. CASE \E j \in Jobs : Mutate(j) \/ SystemApply(j) \/ ApplyStep(j) \/ Cancel(j) \/ DiskFull(j)
  BY <1>1, <1>2, <1>3, <1>4, <1>5, RequestTypes, CancelType, DiskFullType DEF ApplyStep
<1>6. CASE SilentMutate \/ Reboot \/ Kill
  BY <1>6, SilentMutateType, RestartTypes
<1>7. CASE UNCHANGED vars
  BY <1>7 DEF TypeOK, vars, kernel, files
<1> QED BY <1>5, <1>6, <1>7 DEF Next

(* Controller.Apply looks up no row it has not read and leaves every kernel   *)
(* table and state file in its format, whatever runs and fails around it.     *)
THEOREM TypeCorrect == Spec => []TypeOK
<1>1. Init => IngressKnown
  BY DEF Init, IngressKnown, Syncing
<1> QED BY <1>1, InitType, StepType, IngressStep, PTL DEF Spec
=============================================================================
