------------------------- MODULE NetctlRequirements -------------------------
(***************************************************************************)
(* What Controller.Apply owes the rest of the program, stated over the     *)
(* database and the kernel and not over the steps that get there.          *)
(***************************************************************************)
EXTENDS Netctl

Range1(f) == {f[x] : x \in DOMAIN f}

(* What a database asks of the kernel. *)
RoutedIn(d) == {c \in Enabled(d.clients) :
                  d.clients[c].addr \in Addrs /\ d.clients[c].via \in Enabled(d.tunnels)}
DirectIn(d) == {c \in Enabled(d.clients) :
                  d.clients[c].addr \in Addrs /\ d.clients[c].via = Direct}
OfflineIn(d) == {c \in Enabled(d.clients) : /\ d.clients[c].addr \in Addrs
                                            /\ d.clients[c].via # Direct
                                            /\ d.clients[c].via \notin Enabled(d.tunnels)}
WantRules(d) == {[pref |-> RulePreference(c), from |-> d.clients[c].addr,
                  table |-> RoutingTableID(d.clients[c].via)] : c \in RoutedIn(d)}
WantRoutes(d) == {[table |-> RoutingTableID(t), dev |-> d.tunnels[t].iface] :
                    t \in Enabled(d.tunnels)}
WantLinks(d) == {d.ingress.iface} \cup {d.tunnels[t].iface : t \in Enabled(d.tunnels)}
ExtOf(d) == IF d.ext = NoIface THEN Ext ELSE d.ext
RoutedNAT(d, r) == Cardinality({c \in RoutedIn(d) : /\ d.clients[c].addr = r.from
                                                    /\ d.tunnels[d.clients[c].via].iface = r.out})
DirectVia(d, e, r) == Cardinality({c \in DirectIn(d) : d.clients[c].addr = r.from /\ r.out = e})
DirectNAT(d, r) == DirectVia(d, ExtOf(d), r)

(* The kernel is what the database says, no more and no less. *)
Exact(d) ==
  /\ rules = Builtin \cup WantRules(d)
  /\ routes = WantRoutes(d)
  /\ \A r \in NATRules : nat[r] = RoutedNAT(d, r) + DirectNAT(d, r)
  /\ links = WantLinks(d)
  /\ peers = Enabled(d.clients)

(* At least what routes every client that has an upstream. *)
Installed(d) ==
  /\ WantRules(d) \subseteq rules
  /\ WantRoutes(d) \subseteq routes
  /\ \A r \in NATRules : nat[r] >= RoutedNAT(d, r)
  /\ WantLinks(d) \subseteq links
  /\ peers = Enabled(d.clients)

(* What the state files let the next rollback undo: nothing of a torn one.     *)
Count(s, x) == Cardinality({n \in DOMAIN s : s[n] = x})
LeftRules == IF polFile = Torn THEN {} ELSE polFile.rules
LeftNAT(r) == IF natFile = Torn THEN 0 ELSE Count(natFile, r)
LeftLinks == IF wgFile = Torn THEN {} ELSE Range1(wgFile)

(* The NAT file names the rules of every routed client of d and, through the  *)
(* uplink e, of every direct one, each as often as it was appended.           *)
NATRecorded(d, e) ==
  natFile # Torn /\ \A r \in NATRules : Count(natFile, r) = RoutedNAT(d, r) + DirectVia(d, e, r)

AllIdle == \A j \in Jobs : pc[j] = "idle"
Quiet == AllIdle /\ ~lastErr

PolicyStates == [rules : SUBSET Rules, routes : SUBSET Routes]
JobType ==
  [cancelled : BOOLEAN, failed : BOOLEAN,
   prefs : SUBSET Nat, tables : SUBSET Nat,
   natTodo : Seq(NATRules), paths : Seq(Ifaces),
   ingress : IngressRows, peers : SUBSET Clients,
   tunnels : TunnelTables,
   clients : ClientTables,
   policy : {"block", "ignore"}, ext : {NoIface, Ext, BadExt},
   tunnelsTodo : SUBSET Tunnels, clientsTodo : SUBSET Clients,
   next : PolicyStates, nat : Seq(NATRules)]

(* Apply looks up only ids it has read a row for.                            *)
LookupsDefined(l) == /\ l.tunnelsTodo \subseteq DOMAIN l.tunnels
                     /\ l.clientsTodo \subseteq DOMAIN l.clients
JobStates == {l \in JobType : LookupsDefined(l)}

(* The types of the state, with what keeps every lookup inside the rows read. *)
TypeOK ==
  /\ db \in DbType
  /\ rules \subseteq Builtin \cup Rules
  /\ routes \subseteq Routes
  /\ nat \in [NATRules -> Nat]
  /\ links \subseteq Ifaces /\ peers \subseteq Clients
  /\ polFile = Torn \/ polFile \in PolicyStates
  /\ natFile = Torn \/ natFile \in Seq(NATRules)
  /\ wgFile = Torn \/ wgFile \in Seq(Ifaces)
  /\ lastErr \in BOOLEAN /\ serving \in BOOLEAN
  /\ pc \in [Jobs -> Steps \cup {"idle"}]
  /\ job \in [Jobs -> JobStates]
  /\ budget \in Nat

(* Between reading the ingress row and bringing the interfaces up Apply holds  *)
(* a configured ingress: what makes TypeOK inductive.                         *)
Syncing == {"heal", "peers", "tunnels", "upIngress"}
IngressKnown == \A j \in Jobs : pc[j] \in Syncing => job[j].ingress.iface # NoIface

(* README.md:165 "the state is saved and atomically rolled back": once the   *)
(* rollback of an Apply has run its loops, nothing of an earlier Apply is     *)
(* left in the kernel for the rest of it to trip over.                       *)
RollbackIsComplete ==
  \A j \in Jobs :
    /\ pc[j] \in Steps \ {"load", "undo", "place", "writeNAT", "savedNAT", "writePolicy"}
         => rules \subseteq Builtin
    /\ pc[j] \in Steps \ {"load", "undo", "undoNAT", "place", "writeNAT", "savedNAT", "writePolicy"}
         => nat = NoNAT
    /\ pc[j] \in Syncing => links = {} /\ routes = {}

(* With no Apply under way and no last_error reported, the kernel carries     *)
(* exactly the database: nothing missing, stale or doubled (README.md:232).  *)
QuietMeansCurrent == Quiet => Exact(db)

(* The same under faults, where leftovers are possible: what the database    *)
(* routes through an upstream is there unless last_error says otherwise.      *)
QuietMeansInstalled == Quiet => Installed(db)

(* A rollback takes away what the state files name and nothing else          *)
(* (controller.go:75-90).  So whenever no Apply is under way, after a failed  *)
(* one as after a good one, the kernel holds no rule, no copy of a NAT rule   *)
(* (of routed or direct clients), no interface and, since `awg-quick down`    *)
(* takes a link's routes along, no route that they leave out.                *)
NothingForgotten ==
  AllIdle => /\ rules \ Builtin \subseteq LeftRules
             /\ \A r \in NATRules : nat[r] <= LeftNAT(r)
             /\ links \subseteq LeftLinks
             /\ \A q \in routes : q.dev \in links

(* Under faults a refused Apply may leave what no file names.  What one that   *)
(* succeeds has made itself is named by the files: before it reports success *)
(* every NAT rule of the database, those of direct clients through the uplink *)
(* it found (none, when `ip route get` was refused); and at rest the policy,  *)
(* the interfaces and the NAT rules, with the direct ones all or none.        *)
SuccessIsRecorded ==
  /\ \A j \in Jobs : pc[j] = "writePolicy" => NATRecorded(db, job[j].ext)
  /\ Quiet => /\ polFile = [rules |-> WantRules(db), routes |-> WantRoutes(db)]
              /\ \E e \in {ExtOf(db), NoIface} : NATRecorded(db, e)
              /\ wgFile # Torn /\ Range1(wgFile) = WantLinks(db)

(* internal/domain/system.go TunnelOfflineBlock: no Apply succeeds while a     *)
(* client of the database it applied names an unavailable upstream.          *)
BlockPolicyHeld == Quiet /\ db.policy = "block" => OfflineIn(db) = {}

(* internal/domain/upstream.go:25 "unique pref": the rollback deletes by       *)
(* preference alone, so a rule of the kernel is lost only where a client id,   *)
(* counted from 32000, is its preference: the main rule where there is a client *)
(* 766, the default rule where there is a 767, whatever fails or dies.         *)
BuiltinStays == \A r \in Builtin \ rules : \E c \in Clients : r.pref = 32000 + c

(* The two looks Apply takes at the tunnels and its one look at the clients    *)
(* are separate reads: whatever changes between them, no client is sent to a  *)
(* table that does not lead out through an interface that is up.             *)
RulesLeadSomewhere ==
  Quiet => \A r \in rules \ Builtin :
             \E q \in routes : q.table = r.table /\ q.dev \in links

(* Whatever goes wrong, every Apply that starts comes to its end ...          *)
EveryApplyReturns == \A j \in Jobs : pc[j] # "idle" ~> pc[j] = "idle"

(* ... and main opens the listener although the startup Apply failed.         *)
ServesEventually == <>[]serving

(* Where the databases are sound, the node gets over every restart: it is      *)
(* again and again at rest without an error, unless the restart tore the file  *)
(* without which Apply does not begin.                                       *)
KeepsConverging == []<>Quiet \/ <>[](wgFile = Torn)

(* cmd/awghop/main.go:52 "will be retried via /system/apply": once commits    *)
(* and faults have stopped, a request's Apply (the listener is up, so not the *)
(* one of the startup) that runs to its end puts the node right.             *)
RetryHeals == [][\A j \in Jobs : serving /\ budget = 0 /\ pc[j] # "idle" /\ pc'[j] = "idle"
                   /\ ~job[j].cancelled => ~lastErr']_vars
=============================================================================
