------------------------------- MODULE Netctl -------------------------------
(***************************************************************************)
(* Controller.Apply of internal/netctl: every request that changes the     *)
(* database, the startup and POST /system/apply rebuild the node's network  *)
(* state from the database.  One Apply is a long sequence of commands (ip,  *)
(* iptables, awg-quick), database reads and state-file writes, and nothing  *)
(* keeps two of them apart, so a step here is one command, one read or one   *)
(* half of a file write.                                                    *)
(*                                                                         *)
(* A client or tunnel is its database id; an absent row is an id outside    *)
(* the DOMAIN.  via = Direct is upstream_type = 'direct'.  An address is    *)
(* the /32 that PeerRuleSource makes of allowed_ips; values outside Addrs   *)
(* are those it rejects.                                                    *)
(*                                                                         *)
(* An operator marked "mutant" is no part of the model: it is the next     *)
(* definition with a bug in it, for checking that the properties notice.   *)
(***************************************************************************)
EXTENDS Integers, Sequences, FiniteSets

CONSTANTS
  Clients, Tunnels,   \* database ids
  Ifaces,             \* interface names awg-quick may be asked to create
  Ext,                \* the interface `ip route get 1.1.1.1` reports
  BadExt,             \* an override that iptables refuses as an interface name
  Addrs, NotV4,       \* /32 sources, and allowed_ips without one
  Jobs, Boot,         \* goroutines that may run Apply; Boot is the startup one
  Databases,          \* contents a request that also applies may commit
  SilentDatabases,    \* contents committed by requests that do not apply
  InitialDatabases,
  Builtin,            \* the rules the kernel makes: main and default
  Faults,             \* which of "reboot", "kill", "cancel", "refuse", "disk" happen
  Torn,               \* a state file truncated and not yet rewritten
  MaxEvents,          \* bound on commits and faults in a behaviour
  MaxCopies           \* bound on copies of a NAT rule for the operator to apply

Direct == 0
NoIface == ""

ClientRows == [enabled : BOOLEAN, via : Tunnels \cup {Direct}, addr : Addrs \cup {NotV4}]
TunnelRows == [enabled : BOOLEAN, iface : Ifaces, conf : {"empty", "bad", "good"}]
IngressRows == [iface : Ifaces \cup {NoIface}, sane : BOOLEAN]
ClientTables == UNION {[S -> ClientRows] : S \in SUBSET Clients}
TunnelTables == UNION {[S -> TunnelRows] : S \in SUBSET Tunnels}
DbType == [ingress : IngressRows,
           clients : ClientTables,
           tunnels : TunnelTables,
           policy : {"block", "ignore"},
           ext : {NoIface, Ext, BadExt}]

RoutingTableID(t) == 10000 + t
ShortPreference(c) == 32001 + c                       \* mutant

RulePreference(c) == 32000 + c

Rules == [pref : Nat, from : Addrs, table : Nat]
Routes == [table : Nat, dev : Ifaces]
OutIfaces == Ifaces \cup {Ext, BadExt}
NATRules == [from : Addrs, out : OutIfaces]

ASSUME IdsAreNat == Clients \subseteq Nat \ {0} /\ Tunnels \subseteq Nat \ {0}
ASSUME BootIsJob == Boot \in Jobs
ASSUME NamesApart == /\ Ext # BadExt
                     /\ NoIface \notin OutIfaces
                     /\ {Ext, BadExt} \cap Ifaces = {}
                     /\ NotV4 \notin Addrs
ASSUME DatabasesOK == Databases \cup SilentDatabases \cup InitialDatabases \subseteq DbType
ASSUME BuiltinOK == \A r \in Builtin : r.pref \in Nat
ASSUME TornIsNoContent == /\ Torn \notin Seq(NATRules) \cup Seq(Ifaces)
                          /\ Torn \notin [rules : SUBSET Rules, routes : SUBSET Routes]
ASSUME BoundsOK == MaxEvents \in Nat /\ MaxCopies \in Nat

VARIABLES
  db,                           \* SQLite
  rules, routes, nat,           \* kernel: ip rule, ip route, POSTROUTING counts
  links, peers,                 \* kernel: interfaces up, peers of the ingress one
  polFile, natFile, wgFile,     \* the three JSON state files
  lastErr, serving,             \* Controller.lastErr; HTTP listener is up
  pc, job,                      \* each goroutine's place and locals in Apply
  budget                        \* commits and faults still to come

kernel == <<rules, routes, nat, links, peers>>
files == <<polFile, natFile, wgFile>>
vars == <<db, kernel, files, lastErr, serving, pc, job, budget>>

EmptyPolicy == [rules |-> {}, routes |-> {}]
NoRows == [id \in {} |-> NoIface]
NoNAT == [r \in NATRules |-> 0]

Steps == {"load", "undo", "undoNAT", "down", "heal", "peers", "tunnels",
          "upIngress", "upTunnels", "writeRuntime", "listTunnels", "listClients",
          "settings", "detect", "place", "writeNAT", "savedNAT", "writePolicy"}

(* Locals of one Apply.  The *Todo fields are what a loop still has to do.  *)
Fresh == [cancelled |-> FALSE, failed |-> FALSE,
          prefs |-> {}, tables |-> {}, natTodo |-> <<>>, paths |-> <<>>,
          ingress |-> [iface |-> NoIface, sane |-> FALSE], peers |-> {},
          tunnels |-> NoRows, clients |-> NoRows, policy |-> "block", ext |-> NoIface,
          tunnelsTodo |-> {}, clientsTodo |-> {},
          next |-> EmptyPolicy, nat |-> <<>>]

Init ==
  /\ db \in InitialDatabases
  /\ rules = Builtin /\ routes = {} /\ nat = NoNAT /\ links = {} /\ peers = {}
  /\ polFile = EmptyPolicy /\ natFile = <<>> /\ wgFile = <<>>
  /\ lastErr = FALSE /\ serving = FALSE
  /\ pc = [j \in Jobs |-> IF j = Boot THEN "load" ELSE "idle"]
  /\ job = [j \in Jobs |-> Fresh]
  /\ budget = MaxEvents
-----------------------------------------------------------------------------
(* Bookkeeping shared by the steps. *)

Goto(j, l) == pc' = [pc EXCEPT ![j] = l]
First(S, x) == x \in S /\ \A y \in S : x <= y
Enabled(f) == {x \in DOMAIN f : f[x].enabled}
Spend(fault) == fault \in Faults /\ budget > 0 /\ budget' = budget - 1
Locals(j, l) == job' = [job EXCEPT ![j] = l]
Runs(j) == ~job[j].cancelled

(* A command or query of j fails: its context is done, or the tool refuses. *)
Fails(j) == \/ job[j].cancelled /\ UNCHANGED budget
            \/ ~job[j].cancelled /\ Spend("refuse")

ReturnServingOnSuccess(j, err) ==                     \* mutant
  /\ lastErr' = err
  /\ Goto(j, "idle")
  /\ job' = [job EXCEPT ![j] = Fresh]
  /\ serving' = (serving \/ (j = Boot /\ ~err))

(* Apply returns; at startup main then opens the listener. *)
Return(j, err) ==
  /\ lastErr' = err
  /\ Goto(j, "idle")
  /\ job' = [job EXCEPT ![j] = Fresh]
  /\ serving' = (serving \/ j = Boot)

AbortUnreported(j) == Return(j, FALSE) /\ UNCHANGED <<db, kernel, files>>   \* mutant

Abort(j) == Return(j, TRUE) /\ UNCHANGED <<db, kernel, files>>
Quietly == UNCHANGED <<lastErr, serving>>
-----------------------------------------------------------------------------
(* What makes an Apply start. *)

Begin(j) ==
  /\ serving /\ pc[j] = "idle"
  /\ Goto(j, "load")
  /\ UNCHANGED <<kernel, files, lastErr, serving, job>>

Mutate(j) ==
  /\ Begin(j)
  /\ budget > 0 /\ budget' = budget - 1
  /\ \E d \in Databases \ {db} : db' = d

(* The operator's applies are not budgeted, so leaked rules pile up: MaxCopies. *)
SystemApply(j) ==
  /\ \A r \in NATRules : nat[r] <= MaxCopies
  /\ Begin(j)
  /\ UNCHANGED <<db, budget>>

SilentMutate ==
  /\ serving /\ budget > 0 /\ budget' = budget - 1
  /\ \E d \in SilentDatabases \ {db} : db' = d
  /\ UNCHANGED <<kernel, files, lastErr, serving, pc, job>>
-----------------------------------------------------------------------------
(* Rolling the previous Apply back. *)

LoadRoutesOnly(j) ==                                  \* mutant
  /\ pc[j] = "load"
  /\ Locals(j, [job[j] EXCEPT !.tables = IF polFile = Torn THEN {} ELSE {r.table : r \in polFile.routes}])
  /\ Goto(j, "undo")
  /\ UNCHANGED <<db, kernel, files, budget>> /\ Quietly

LoadPolicy(j) ==
  /\ pc[j] = "load"
  /\ LET prev == IF polFile = Torn THEN EmptyPolicy ELSE polFile
     IN  Locals(j, [job[j] EXCEPT !.prefs = {r.pref : r \in prev.rules},
                                  !.tables = {r.table : r \in prev.routes}])
  /\ Goto(j, "undo")
  /\ UNCHANGED <<db, kernel, files, budget>> /\ Quietly

(* `ip rule del pref p` removes the oldest rule at p, the kernel's own first. *)
RuleDel(p) ==
  LET at == {r \in rules : r.pref = p}
      oldest == IF at \cap Builtin # {} THEN at \cap Builtin ELSE at
  IN  IF at = {} THEN rules' = rules ELSE \E r \in oldest : rules' = rules \ {r}

UndoRule(j) ==
  /\ pc[j] = "undo"
  /\ \E p \in job[j].prefs :
       /\ First(job[j].prefs, p)
       /\ \/ Runs(j) /\ RuleDel(p) /\ UNCHANGED budget
          \/ Fails(j) /\ UNCHANGED rules
       /\ Locals(j, [job[j] EXCEPT !.prefs = @ \ {p}])
  /\ UNCHANGED <<db, routes, nat, links, peers, files, pc>> /\ Quietly

FlushTable(j) ==
  /\ pc[j] = "undo" /\ job[j].prefs = {}
  /\ \E t \in job[j].tables :
       /\ First(job[j].tables, t)
       /\ \/ Runs(j) /\ routes' = {r \in routes : r.table # t} /\ UNCHANGED budget
          \/ Fails(j) /\ UNCHANGED routes
       /\ Locals(j, [job[j] EXCEPT !.tables = @ \ {t}])
  /\ UNCHANGED <<db, rules, nat, links, peers, files, pc>> /\ Quietly

LoadNATState(j) ==
  /\ pc[j] = "undo" /\ job[j].prefs = {} /\ job[j].tables = {}
  /\ Locals(j, [job[j] EXCEPT !.natTodo = IF natFile = Torn THEN <<>> ELSE natFile])
  /\ Goto(j, "undoNAT")
  /\ UNCHANGED <<db, kernel, files, budget>> /\ Quietly

(* `iptables -D` takes one copy of the rule away, or fails when there is none. *)
UndoNAT(j) ==
  /\ pc[j] = "undoNAT" /\ job[j].natTodo # <<>>
  /\ LET r == Head(job[j].natTodo)
     IN  \/ /\ Runs(j) /\ UNCHANGED budget
            /\ nat' = [nat EXCEPT ![r] = IF @ > 0 THEN @ - 1 ELSE 0]
         \/ Fails(j) /\ UNCHANGED nat
  /\ Locals(j, [job[j] EXCEPT !.natTodo = Tail(@)])
  /\ UNCHANGED <<db, rules, routes, links, peers, files, pc>> /\ Quietly

AwaitWGRuntime(j) ==                                  \* mutant
  /\ pc[j] = "undoNAT" /\ job[j].natTodo = <<>> /\ wgFile # Torn
  /\ Locals(j, [job[j] EXCEPT !.paths = wgFile])
  /\ Goto(j, "down")
  /\ UNCHANGED <<db, kernel, files, budget>> /\ Quietly

LoadWGRuntime(j) ==
  /\ pc[j] = "undoNAT" /\ job[j].natTodo = <<>>
  /\ UNCHANGED budget
  /\ \/ wgFile = Torn /\ Abort(j)
     \/ /\ wgFile # Torn
        /\ Locals(j, [job[j] EXCEPT !.paths = wgFile])
        /\ Goto(j, "down")
        /\ UNCHANGED <<db, kernel, files>> /\ Quietly

(* awg-quick down, last interface first; the link takes its routes along. *)
Down(j) ==
  /\ pc[j] = "down" /\ job[j].paths # <<>>
  /\ LET paths == job[j].paths
         i == paths[Len(paths)]
     IN  /\ \/ /\ Runs(j) /\ UNCHANGED budget
               /\ links' = links \ {i}
               /\ routes' = {r \in routes : r.dev # i}
            \/ Fails(j) /\ UNCHANGED <<links, routes>>
         /\ Locals(j, [job[j] EXCEPT !.paths = SubSeq(paths, 1, Len(paths) - 1)])
  /\ UNCHANGED <<db, rules, nat, peers, files, pc>> /\ Quietly
-----------------------------------------------------------------------------
(* syncWireGuard: interfaces from the database. *)

ReadIngress(j) ==
  /\ pc[j] = "down" /\ job[j].paths = <<>>
  /\ UNCHANGED budget
  /\ \/ (~Runs(j) \/ db.ingress.iface = NoIface) /\ Abort(j)
     \/ /\ Runs(j) /\ db.ingress.iface # NoIface
        /\ Locals(j, [job[j] EXCEPT !.ingress = db.ingress])
        /\ Goto(j, IF db.ingress.sane THEN "peers" ELSE "heal")
        /\ UNCHANGED <<db, kernel, files>> /\ Quietly

(* The row read before is written back whole, with the missing parameters. *)
Heal(j) ==
  /\ pc[j] = "heal" /\ UNCHANGED budget
  /\ \/ ~Runs(j) /\ Abort(j)
     \/ /\ Runs(j)
        /\ db' = [db EXCEPT !.ingress = [iface |-> job[j].ingress.iface, sane |-> TRUE]]
        /\ Goto(j, "peers")
        /\ UNCHANGED <<kernel, files, job>> /\ Quietly

ReadAllPeers(j) ==                                    \* mutant
  /\ pc[j] = "peers" /\ Runs(j)
  /\ Locals(j, [job[j] EXCEPT !.peers = DOMAIN db.clients])
  /\ Goto(j, "tunnels")
  /\ UNCHANGED <<db, kernel, files, budget>> /\ Quietly

ReadPeers(j) ==
  /\ pc[j] = "peers" /\ UNCHANGED budget
  /\ \/ ~Runs(j) /\ Abort(j)
     \/ /\ Runs(j)
        /\ Locals(j, [job[j] EXCEPT !.peers = Enabled(db.clients)])
        /\ Goto(j, "tunnels")
        /\ UNCHANGED <<db, kernel, files>> /\ Quietly

ReadTunnels(j) ==
  /\ pc[j] = "tunnels" /\ UNCHANGED budget
  /\ \/ ~Runs(j) /\ Abort(j)
     \/ /\ Runs(j)
        /\ Locals(j, [job[j] EXCEPT
             !.tunnels = db.tunnels,
             !.tunnelsTodo = {t \in Enabled(db.tunnels) : db.tunnels[t].conf # "empty"}])
        /\ Goto(j, "upIngress")
        /\ UNCHANGED <<db, kernel, files>> /\ Quietly

UpIngress(j) ==
  /\ pc[j] = "upIngress"
  /\ LET i == job[j].ingress.iface
     IN  \/ (Fails(j) \/ (Runs(j) /\ i \in links /\ UNCHANGED budget)) /\ Abort(j)
         \/ /\ Runs(j) /\ i \notin links /\ UNCHANGED budget
            /\ links' = links \cup {i}
            /\ peers' = job[j].peers
            /\ Locals(j, [job[j] EXCEPT !.paths = <<i>>])
            /\ Goto(j, "upTunnels")
            /\ UNCHANGED <<db, rules, routes, nat, files>> /\ Quietly

(* One upstream: its failure is remembered and the loop goes on. *)
UpTunnel(j) ==
  /\ pc[j] = "upTunnels"
  /\ \E t \in job[j].tunnelsTodo :
       LET row == job[j].tunnels[t]
           canUp == row.conf = "good" /\ row.iface \notin links
       IN  /\ First(job[j].tunnelsTodo, t)
           /\ \/ /\ row.iface # job[j].ingress.iface /\ canUp /\ Runs(j)
                 /\ UNCHANGED budget
                 /\ links' = links \cup {row.iface}
                 /\ Locals(j, [job[j] EXCEPT !.tunnelsTodo = @ \ {t},
                                             !.paths = Append(@, row.iface)])
              \/ /\ \/ (row.iface = job[j].ingress.iface \/ ~canUp) /\ UNCHANGED budget
                    \/ row.iface # job[j].ingress.iface /\ canUp /\ Fails(j)
                 /\ UNCHANGED links
                 /\ Locals(j, [job[j] EXCEPT !.tunnelsTodo = @ \ {t}, !.failed = TRUE])
  /\ UNCHANGED <<db, rules, routes, nat, peers, files, pc>> /\ Quietly

(* os.WriteFile truncates and then writes. *)
TruncateRuntime(j) ==
  /\ pc[j] = "upTunnels" /\ job[j].tunnelsTodo = {}
  /\ wgFile' = Torn
  /\ Goto(j, "writeRuntime")
  /\ UNCHANGED <<db, kernel, polFile, natFile, job, budget>> /\ Quietly

WriteRuntime(j) ==
  /\ pc[j] = "writeRuntime"
  /\ wgFile' = job[j].paths
  /\ \/ job[j].failed /\ Return(j, TRUE)
     \/ ~job[j].failed /\ Goto(j, "listTunnels") /\ UNCHANGED job /\ Quietly
  /\ UNCHANGED <<db, kernel, polFile, natFile, budget>>
-----------------------------------------------------------------------------
(* Policy routing and NAT, from a second look at the database. *)

ListUpstreamTunnels(j) ==
  /\ pc[j] = "listTunnels" /\ UNCHANGED budget
  /\ \/ ~Runs(j) /\ Abort(j)
     \/ /\ Runs(j)
        /\ Locals(j, [job[j] EXCEPT !.tunnels = db.tunnels, !.tunnelsTodo = Enabled(db.tunnels)])
        /\ Goto(j, "listClients")
        /\ UNCHANGED <<db, kernel, files>> /\ Quietly

ListClients(j) ==
  /\ pc[j] = "listClients" /\ UNCHANGED budget
  /\ \/ ~Runs(j) /\ Abort(j)
     \/ /\ Runs(j)
        /\ Locals(j, [job[j] EXCEPT !.clients = db.clients, !.clientsTodo = Enabled(db.clients)])
        /\ Goto(j, "settings")
        /\ UNCHANGED <<db, kernel, files>> /\ Quietly

GetSystemSettings(j) ==
  /\ pc[j] = "settings" /\ UNCHANGED budget
  /\ \/ ~Runs(j) /\ Abort(j)
     \/ /\ Runs(j)
        /\ Locals(j, [job[j] EXCEPT !.policy = db.policy, !.ext = db.ext])
        /\ Goto(j, "detect")
        /\ UNCHANGED <<db, kernel, files>> /\ Quietly

(* Without an override the kernel is asked; a failure is only logged. *)
DetectExternalInterface(j) ==
  /\ pc[j] = "detect"
  /\ \/ job[j].ext # NoIface /\ UNCHANGED <<job, budget>>
     \/ /\ job[j].ext = NoIface /\ Runs(j) /\ UNCHANGED budget
        /\ Locals(j, [job[j] EXCEPT !.ext = Ext])
     \/ job[j].ext = NoIface /\ Fails(j) /\ UNCHANGED job
  /\ Goto(j, "place")
  /\ UNCHANGED <<db, kernel, files>> /\ Quietly

(* `ip route replace default dev i table t` needs the link. *)
AddRoute(j) ==
  /\ pc[j] = "place"
  /\ \E t \in job[j].tunnelsTodo :
       LET i == job[j].tunnels[t].iface
           r == [table |-> RoutingTableID(t), dev |-> i]
       IN  /\ First(job[j].tunnelsTodo, t)
           /\ \/ (Fails(j) \/ (Runs(j) /\ i \notin links /\ UNCHANGED budget)) /\ Abort(j)
              \/ /\ Runs(j) /\ i \in links /\ UNCHANGED budget
                 /\ routes' = {q \in routes : q.table # r.table} \cup {r}
                 /\ Locals(j, [job[j] EXCEPT !.tunnelsTodo = @ \ {t}, !.next.routes = @ \cup {r}])
                 /\ UNCHANGED <<db, rules, nat, links, peers, files, pc>> /\ Quietly

Placing(j, c) ==
  /\ pc[j] = "place" /\ job[j].tunnelsTodo = {}
  /\ First(job[j].clientsTodo, c)

AlwaysUsable(j, c) == pc[j] = "place" /\ c \in Clients   \* mutant

Usable(j, c) == job[j].clients[c].addr \in Addrs
Routed(j, c) == Usable(j, c) /\ job[j].clients[c].via # Direct
TunnelOf(j, c) == job[j].clients[c].via
Present(j, c) == TunnelOf(j, c) \in DOMAIN job[j].tunnels   \* mutant

Available(j, c) == TunnelOf(j, c) \in Enabled(job[j].tunnels)

(* Clients that get nothing: no IPv4 source, or upstream offline and ignored. *)
SkipClient(j) == \E c \in job[j].clientsTodo :
  /\ Placing(j, c)
  /\ \/ ~Usable(j, c)
     \/ Routed(j, c) /\ ~Available(j, c) /\ job[j].policy = "ignore"
  /\ Locals(j, [job[j] EXCEPT !.clientsTodo = @ \ {c}])
  /\ UNCHANGED <<db, kernel, files, pc, budget>> /\ Quietly

PassOffline(j) == \E c \in job[j].clientsTodo :        \* mutant
  /\ Placing(j, c)
  /\ Routed(j, c) /\ ~Available(j, c) /\ job[j].policy = "block"
  /\ Locals(j, [job[j] EXCEPT !.clientsTodo = @ \ {c}])
  /\ UNCHANGED <<db, kernel, files, pc, budget>> /\ Quietly

RefuseOffline(j) == \E c \in job[j].clientsTodo :
  /\ Placing(j, c)
  /\ Routed(j, c) /\ ~Available(j, c) /\ job[j].policy = "block"
  /\ Abort(j) /\ UNCHANGED budget

PlaceDirect(j) == \E c \in job[j].clientsTodo :
  /\ Placing(j, c) /\ Usable(j, c) /\ ~Routed(j, c)
  /\ LET r == [from |-> job[j].clients[c].addr, out |-> job[j].ext]
     IN  Locals(j, [job[j] EXCEPT !.clientsTodo = @ \ {c},
                                  !.nat = IF r.out = NoIface THEN @ ELSE Append(@, r)])
  /\ UNCHANGED <<db, kernel, files, pc, budget>> /\ Quietly

RuleFor(j, c) == [pref |-> RulePreference(c), from |-> job[j].clients[c].addr,
                  table |-> RoutingTableID(TunnelOf(j, c))]

(* `ip rule add` answers EEXIST to a rule that is there already. *)
PlaceRouted(j) == \E c \in job[j].clientsTodo :
  LET r == RuleFor(j, c)
  IN  /\ Placing(j, c) /\ Routed(j, c) /\ Available(j, c)
      /\ \/ (Fails(j) \/ (Runs(j) /\ r \in rules /\ UNCHANGED budget)) /\ Abort(j)
         \/ /\ Runs(j) /\ r \notin rules /\ UNCHANGED budget
            /\ rules' = rules \cup {r}
            /\ LET n == [from |-> r.from, out |-> job[j].tunnels[TunnelOf(j, c)].iface]
               IN  Locals(j, [job[j] EXCEPT !.clientsTodo = @ \ {c},
                                            !.next.rules = @ \cup {r},
                                            !.nat = Append(@, n)])
            /\ UNCHANGED <<db, routes, nat, links, peers, files, pc>> /\ Quietly

(* natTodo, empty since the rollback, now counts the rules appended. *)
AppendNAT(j) ==
  /\ pc[j] = "place" /\ job[j].tunnelsTodo = {} /\ job[j].clientsTodo = {}
  /\ Len(job[j].natTodo) < Len(job[j].nat)
  /\ LET r == job[j].nat[Len(job[j].natTodo) + 1]
     IN  \/ (Fails(j) \/ (Runs(j) /\ r.out = BadExt /\ UNCHANGED budget)) /\ Abort(j)
         \/ /\ Runs(j) /\ r.out # BadExt /\ UNCHANGED budget
            /\ nat' = [nat EXCEPT ![r] = @ + 1]
            /\ Locals(j, [job[j] EXCEPT !.natTodo = Append(@, r)])
            /\ UNCHANGED <<db, rules, routes, links, peers, files, pc>> /\ Quietly

TruncateNAT(j) ==
  /\ pc[j] = "place" /\ job[j].tunnelsTodo = {} /\ job[j].clientsTodo = {}
  /\ Len(job[j].natTodo) = Len(job[j].nat)
  /\ natFile' = Torn
  /\ Goto(j, "writeNAT")
  /\ UNCHANGED <<db, kernel, polFile, wgFile, job, budget>> /\ Quietly

WriteRoutedNAT(j) ==                                  \* mutant
  /\ pc[j] = "writeNAT"
  /\ natFile' = SelectSeq(job[j].nat, LAMBDA r : r.out \in Ifaces)
  /\ Goto(j, "savedNAT")
  /\ UNCHANGED <<db, kernel, polFile, wgFile, job, budget>> /\ Quietly

WriteNAT(j) ==
  /\ pc[j] = "writeNAT"
  /\ natFile' = job[j].nat
  /\ Goto(j, "savedNAT")
  /\ UNCHANGED <<db, kernel, polFile, wgFile, job, budget>> /\ Quietly

TruncatePolicy(j) ==
  /\ pc[j] = "savedNAT"
  /\ polFile' = Torn
  /\ Goto(j, "writePolicy")
  /\ UNCHANGED <<db, kernel, natFile, wgFile, job, budget>> /\ Quietly

WritePolicy(j) ==
  /\ pc[j] = "writePolicy"
  /\ polFile' = job[j].next
  /\ Return(j, FALSE)
  /\ UNCHANGED <<db, kernel, natFile, wgFile, budget>>
-----------------------------------------------------------------------------
(* Faults. *)

(* The client hangs up, or the 60 seconds of the startup Apply are over. *)
Cancel(j) ==
  /\ pc[j] # "idle" /\ ~job[j].cancelled /\ Spend("cancel")
  /\ Locals(j, [job[j] EXCEPT !.cancelled = TRUE])
  /\ UNCHANGED <<db, kernel, files, pc>> /\ Quietly

(* The disk fills up during a write: the file stays truncated, Apply fails. *)
DiskFull(j) ==
  /\ pc[j] \in {"writeRuntime", "writeNAT", "writePolicy"}
  /\ Spend("disk") /\ Abort(j)

(* A new process: main runs Apply before it listens. *)
Restart ==
  /\ pc' = [j \in Jobs |-> IF j = Boot THEN "load" ELSE "idle"]
  /\ job' = [j \in Jobs |-> Fresh]
  /\ lastErr' = FALSE /\ serving' = FALSE
  /\ UNCHANGED <<db, files>>

(* The container is recreated: the network namespace is new, the volume stays. *)
Reboot ==
  /\ Spend("reboot") /\ Restart
  /\ rules' = Builtin /\ routes' = {} /\ nat' = NoNAT /\ links' = {} /\ peers' = {}

(* Only the process dies: the kernel keeps what was made. *)
Kill == Spend("kill") /\ Restart /\ UNCHANGED kernel
-----------------------------------------------------------------------------
Rollback(j) == \/ LoadPolicy(j) \/ UndoRule(j) \/ FlushTable(j)
               \/ LoadNATState(j) \/ UndoNAT(j) \/ LoadWGRuntime(j) \/ Down(j)
SyncWireGuard(j) == \/ ReadIngress(j) \/ Heal(j) \/ ReadPeers(j) \/ ReadTunnels(j)
                    \/ UpIngress(j) \/ UpTunnel(j) \/ TruncateRuntime(j) \/ WriteRuntime(j)
Route(j) == \/ ListUpstreamTunnels(j) \/ ListClients(j) \/ GetSystemSettings(j)
            \/ DetectExternalInterface(j) \/ AddRoute(j) \/ SkipClient(j)
            \/ RefuseOffline(j) \/ PlaceDirect(j) \/ PlaceRouted(j)
Persist(j) == \/ AppendNAT(j) \/ TruncateNAT(j) \/ WriteNAT(j)
              \/ TruncatePolicy(j) \/ WritePolicy(j)
ApplyStep(j) == Rollback(j) \/ SyncWireGuard(j) \/ Route(j) \/ Persist(j)

Next ==
  \/ \E j \in Jobs : Mutate(j) \/ SystemApply(j) \/ ApplyStep(j) \/ Cancel(j) \/ DiskFull(j)
  \/ SilentMutate \/ Reboot \/ Kill

Spec == Init /\ [][Next]_vars

(* A goroutine inside Apply takes no lock that another one holds across steps *)
(* and the commands it runs are taken to return; requests, the operator and   *)
(* the faults are under no obligation.                                        *)
FairSpec == Spec /\ \A j \in Jobs : WF_vars(ApplyStep(j))
=============================================================================
