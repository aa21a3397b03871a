-------------------------- MODULE NetctlApplyProofs --------------------------
(***************************************************************************)
(* An Apply that reports success has done what it is for, for every set of   *)
(* clients, upstreams, databases and faults, as long as Applies do not meet. *)
(*                                                                         *)
(* The invariant, Progress, says at every place in Apply what is behind it:  *)
(* the interfaces, routes, rules and NAT rules that its loops have asked for *)
(* so far are there, and in what it is about to save.  Current says that     *)
(* what it has read is what the database holds.                            *)
(***************************************************************************)
EXTENDS NetctlTypeProofs, FiniteSetTheorems
-----------------------------------------------------------------------------
(* How often an element occurs in a sequence.  *)

(* The places of a sequence are finitely many, so counts are numbers. *)
LEMMA CountNat ==
  ASSUME NEW S, NEW s \in Seq(S), NEW x
  PROVE  IsFiniteSet({n \in DOMAIN s : s[n] = x}) /\ Count(s, x) \in Nat
<1>1. DOMAIN s = 1..Len(s) /\ Len(s) \in Nat
  OBVIOUS
<1>2. IsFiniteSet(1..Len(s))
  BY <1>1, FS_Interval
<1>3. IsFiniteSet({n \in DOMAIN s : s[n] = x})
  BY <1>1, <1>2, FS_Subset
<1> QED BY <1>3, FS_CardinalityType DEF Count

(* Nothing occurs in the empty sequence ...                                   *)
LEMMA CountEmpty == \A x : Count(<<>>, x) = 0
<1> SUFFICES ASSUME NEW x PROVE Count(<<>>, x) = 0
  OBVIOUS
<1>1. {n \in DOMAIN <<>> : <<>>[n] = x} = {}
  OBVIOUS
<1> QED BY <1>1, FS_EmptySet DEF Count

(* ... appending adds one occurrence of what is appended ...                  *)
LEMMA CountAppend ==
  ASSUME NEW S, NEW s \in Seq(S), NEW y \in S, NEW x
  PROVE  Count(Append(s, y), x) = IF y = x THEN Count(s, x) + 1 ELSE Count(s, x)
<1> DEFINE P == {n \in DOMAIN s : s[n] = x}
           t == Append(s, y)
           Q == {n \in DOMAIN t : t[n] = x}
<1>1. /\ DOMAIN s = 1..Len(s) /\ Len(s) \in Nat
      /\ DOMAIN t = 1..(Len(s) + 1)
      /\ \A n \in 1..Len(s) : t[n] = s[n]
      /\ t[Len(s) + 1] = y
  OBVIOUS
<1>2. IsFiniteSet(P)
  BY CountNat
<1>3. CASE y = x
  <2>1. Q = P \cup {Len(s) + 1} /\ Len(s) + 1 \notin P
    BY <1>1, <1>3
  <2>2. Cardinality(P \cup {Len(s) + 1}) = Cardinality(P) + 1
    BY <1>2, <2>1, FS_AddElement
  <2> QED BY <1>3, <2>1, <2>2 DEF Count
<1>4. CASE y # x
  <2>1. Q = P
    BY <1>1, <1>4
  <2> QED BY <1>4, <2>1 DEF Count
<1> QED BY <1>3, <1>4

(* ... and going on to the tail, as the undo loop of iptables -D does, takes one *)
(* of the head away.                                                          *)
LEMMA CountTail ==
  ASSUME NEW S, NEW s \in Seq(S), s # <<>>, NEW x
  PROVE  Count(s, x) = IF Head(s) = x THEN Count(Tail(s), x) + 1 ELSE Count(Tail(s), x)
<1> DEFINE t == Tail(s)
           P == {n \in DOMAIN s : s[n] = x}
           Q == {n \in DOMAIN t : t[n] = x}
           R == P \ {1}
           f == [n \in Q |-> n + 1]
<1>1. /\ DOMAIN s = 1..Len(s) /\ Len(s) \in Nat /\ Len(s) > 0
      /\ DOMAIN t = 1..(Len(s) - 1)
      /\ \A n \in 1..(Len(s) - 1) : t[n] = s[n + 1]
      /\ Head(s) = s[1] /\ t \in Seq(S)
  OBVIOUS
<1>2. IsFiniteSet(P) /\ IsFiniteSet(Q)
  BY <1>1, CountNat
<1>3. ExistsBijection(Q, R)
  <2>1. f \in [Q -> R]
    BY <1>1
  <2>2. \A a, b \in Q : f[a] = f[b] => a = b
    BY <1>1
  <2>3. \A r \in R : \E q \in Q : f[q] = r
    <3> SUFFICES ASSUME NEW r \in R PROVE r - 1 \in Q /\ f[r - 1] = r
      OBVIOUS
    <3> QED BY <1>1
  <2> HIDE DEF f, Q, R
  <2> QED BY <2>1, <2>2, <2>3 DEF ExistsBijection, Bijection, Injection, Surjection, IsInjective
<1>4. Cardinality(R) = Cardinality(Q)
  BY <1>2, <1>3, FS_Bijection
<1>5. Cardinality(R) = IF 1 \in P THEN Cardinality(P) - 1 ELSE Cardinality(P)
  BY <1>2, FS_RemoveElement
<1>6. Cardinality(P) \in Nat /\ Cardinality(Q) \in Nat
  <2> HIDE DEF P, Q
  <2> QED BY <1>2, FS_CardinalityType
<1>7. 1 \in P <=> Head(s) = x
  BY <1>1
<1>8. Count(s, x) = Cardinality(P) /\ Count(Tail(s), x) = Cardinality(Q)
  BY DEF Count
<1> HIDE DEF P, Q, R, t
<1> QED BY <1>4, <1>5, <1>6, <1>7, <1>8
-----------------------------------------------------------------------------
(* The one goroutine that applies, and where it is. *)
me == job[Boot]
at == pc[Boot]

(* Upstreams that syncWireGuard tries to bring up. *)
Configured(ts) == {t \in Enabled(ts) : ts[t].conf # "empty"}

(* What Apply makes for an upstream, and for a client that goes through one. *)
RouteOf(l, t) == [table |-> RoutingTableID(t), dev |-> l.tunnels[t].iface]
RuleOf(l, c) == [pref |-> RulePreference(c), from |-> l.clients[c].addr,
                 table |-> RoutingTableID(l.clients[c].via)]
NATOf(l, c) == [from |-> l.clients[c].addr, out |-> l.tunnels[l.clients[c].via].iface]

(* Locals that a step leaves alone. *)
SameReads == /\ me'.ingress = me.ingress /\ me'.peers = me.peers /\ me'.tunnels = me.tunnels
             /\ me'.clients = me.clients /\ me'.policy = me.policy /\ me'.ext = me.ext
SamePlan == me'.next = me.next /\ me'.nat = me.nat
SameTodo == me'.tunnelsTodo = me.tunnelsTodo /\ me'.clientsTodo = me.clientsTodo
SameUndo == me'.natTodo = me.natTodo /\ me'.paths = me.paths
SameFlags == me'.cancelled = me.cancelled /\ me'.failed = me.failed

(* An Apply gives up: it reports an error and touches nothing more.           *)
Aborts == /\ at' = "idle" /\ me' = Fresh /\ lastErr'
          /\ UNCHANGED <<db, kernel, files>>

(* The type of the locals of the one goroutine, in the two forms the steps need. *)
LEMMA MyType ==
  ASSUME TypeOK
  PROVE  me \in JobStates /\ me \in JobType /\ Boot \in DOMAIN job /\ Boot \in DOMAIN pc
BY BootIsJob, FieldTypes DEF TypeOK, me

(* What each step of that goroutine does, one lemma per action: where it is before *)
(* and after, which locals and which part of the kernel it changes, and when it *)
(* may give up.  Everything below rests on these and not on the actions.      *)
(* An error of a read, of an interface or of ip ends Apply (controller.go:113-230). *)
LEMMA AbortEffect == ASSUME TypeOK, Abort(Boot) PROVE Aborts
BY MyType DEF Abort, Return, Goto, Aborts, me, at

(* loadState: a policy file that does not parse counts as empty.              *)
LEMMA LoadPolicyEffect ==
  ASSUME TypeOK, LoadPolicy(Boot)
  PROVE  /\ at = "load" /\ at' = "undo"
         /\ SameReads /\ SamePlan /\ SameTodo /\ SameUndo /\ SameFlags
         /\ me'.prefs = {r.pref : r \in (IF polFile = Torn THEN EmptyPolicy ELSE polFile).rules}
         /\ UNCHANGED <<db, kernel, files>>
BY MyType, AbortEffect
   DEF LoadPolicy, Goto, Locals, JobType, me, at, SameReads, SamePlan, SameTodo, SameUndo,
      SameFlags

(* undo, a preference: an error of `ip rule del` is ignored.                  *)
LEMMA UndoRuleEffect ==
  ASSUME TypeOK, UndoRule(Boot)
  PROVE  /\ at = "undo" /\ at' = "undo"
         /\ SameReads /\ SamePlan /\ SameTodo /\ SameUndo /\ SameFlags
         /\ \E p \in me.prefs : /\ me'.prefs = me.prefs \ {p}
                                /\ (Runs(Boot) /\ RuleDel(p)) \/ (Fails(Boot) /\ UNCHANGED rules)
         /\ UNCHANGED <<db, routes, nat, links, peers, files>>
<1>0. /\ at = "undo" /\ at' = "undo"
      /\ UNCHANGED <<db, routes, nat, links, peers, files>>
  BY MyType DEF UndoRule, at
<1>1. PICK p \in me.prefs :
        /\ me' = [me EXCEPT !.prefs = @ \ {p}]
        /\ (Runs(Boot) /\ RuleDel(p)) \/ (Fails(Boot) /\ UNCHANGED rules)
  BY MyType DEF UndoRule, Locals, me
<1>2. /\ me'.prefs = me.prefs \ {p}
      /\ SameReads /\ SamePlan /\ SameTodo /\ SameUndo /\ SameFlags
  BY <1>1, MyType DEF JobType, SameReads, SamePlan, SameTodo, SameUndo, SameFlags
<1> QED BY <1>0, <1>1, <1>2

(* undo, a table.                                                             *)
LEMMA FlushTableEffect ==
  ASSUME TypeOK, FlushTable(Boot)
  PROVE  /\ at = "undo" /\ at' = "undo"
         /\ SameReads /\ SamePlan /\ SameTodo /\ SameUndo /\ SameFlags
         /\ me'.prefs = me.prefs
         /\ routes' \subseteq routes
         /\ UNCHANGED <<db, rules, nat, links, peers, files>>
<1>0. /\ at = "undo" /\ at' = "undo"
      /\ routes' \subseteq routes
      /\ UNCHANGED <<db, rules, nat, links, peers, files>>
  BY MyType DEF FlushTable, at
<1>1. PICK t \in me.tables : me' = [me EXCEPT !.tables = @ \ {t}]
  BY MyType DEF FlushTable, Locals, me
<1>2. /\ me'.prefs = me.prefs
      /\ SameReads /\ SamePlan /\ SameTodo /\ SameUndo /\ SameFlags
  BY <1>1, MyType DEF JobType, SameReads, SamePlan, SameTodo, SameUndo, SameFlags
<1> QED BY <1>0, <1>1, <1>2

(* loadNATState.                                                              *)
LEMMA LoadNATStateEffect ==
  ASSUME TypeOK, LoadNATState(Boot)
  PROVE  /\ at = "undo" /\ at' = "undoNAT"
         /\ SameReads /\ SamePlan /\ SameTodo /\ SameFlags
         /\ me.prefs = {}
         /\ me'.natTodo = IF natFile = Torn THEN <<>> ELSE natFile
         /\ UNCHANGED <<db, kernel, files>>
BY MyType, AbortEffect
   DEF LoadNATState, Goto, Locals, JobType, me, at, SameReads, SamePlan, SameTodo, SameUndo,
      SameFlags

(* undoNAT: one `iptables -D`, whose error is ignored.                        *)
LEMMA UndoNATEffect ==
  ASSUME TypeOK, UndoNAT(Boot)
  PROVE  /\ at = "undoNAT" /\ at' = "undoNAT"
         /\ SameReads /\ SamePlan /\ SameTodo /\ SameFlags
         /\ me.natTodo # <<>> /\ me'.natTodo = Tail(me.natTodo)
         /\ \/ /\ Runs(Boot)
               /\ nat' = [nat EXCEPT ![Head(me.natTodo)] = IF @ > 0 THEN @ - 1 ELSE 0]
            \/ Fails(Boot) /\ UNCHANGED nat
         /\ UNCHANGED <<db, rules, routes, links, peers, files>>
BY MyType, AbortEffect
   DEF UndoNAT, Goto, Locals, JobType, me, at, SameReads, SamePlan, SameTodo, SameUndo, SameFlags

(* teardownWireGuard gives up on a runtime file that does not parse.          *)
LEMMA LoadWGRuntimeEffect ==
  ASSUME TypeOK, LoadWGRuntime(Boot)
  PROVE  /\ at = "undoNAT" /\ me.natTodo = <<>>
         /\ \/ wgFile = Torn /\ Aborts
            \/ /\ wgFile # Torn /\ at' = "down"
               /\ SameReads /\ SamePlan /\ SameTodo /\ SameFlags
               /\ me'.natTodo = me.natTodo /\ me'.paths = wgFile
               /\ UNCHANGED <<db, kernel, files>>
BY MyType, AbortEffect
   DEF LoadWGRuntime, Goto, Locals, JobType, me, at, SameReads, SamePlan, SameTodo, SameUndo,
      SameFlags

(* One `awg-quick down`, whose error is ignored.                              *)
LEMMA DownEffect ==
  ASSUME TypeOK, Down(Boot)
  PROVE  /\ at = "down" /\ at' = "down"
         /\ SameReads /\ SamePlan /\ SameTodo /\ SameFlags
         /\ me'.natTodo = me.natTodo
         /\ me.paths # <<>> /\ me'.paths = SubSeq(me.paths, 1, Len(me.paths) - 1)
         /\ \/ /\ Runs(Boot)
               /\ links' = links \ {me.paths[Len(me.paths)]}
               /\ routes' = {r \in routes : r.dev # me.paths[Len(me.paths)]}
            \/ Fails(Boot) /\ UNCHANGED <<links, routes>>
         /\ UNCHANGED <<db, rules, nat, peers, files>>
BY MyType, AbortEffect
   DEF Down, Goto, Locals, JobType, me, at, SameReads, SamePlan, SameTodo, SameUndo, SameFlags

(* syncWireGuard gives up without an ingress.                                 *)
LEMMA ReadIngressEffect ==
  ASSUME TypeOK, ReadIngress(Boot)
  PROVE  /\ at = "down" /\ me.paths = <<>>
         /\ \/ (~Runs(Boot) \/ db.ingress.iface = NoIface) /\ Aborts
            \/ /\ Runs(Boot) /\ at' \in {"peers", "heal"}
               /\ me'.ingress = db.ingress
               /\ SamePlan /\ SameTodo /\ SameUndo /\ SameFlags
               /\ UNCHANGED <<db, kernel, files>>
BY MyType, AbortEffect
   DEF ReadIngress, Goto, Locals, JobType, me, at, SameReads, SamePlan, SameTodo, SameUndo,
      SameFlags

(* The completed row is stored.                                               *)
LEMMA HealEffect ==
  ASSUME TypeOK, Heal(Boot)
  PROVE  /\ at = "heal"
         /\ \/ ~Runs(Boot) /\ Aborts
            \/ /\ Runs(Boot) /\ at' = "peers" /\ me' = me
               /\ db' = [db EXCEPT !.ingress = [iface |-> me.ingress.iface, sane |-> TRUE]]
               /\ UNCHANGED <<kernel, files>>
BY MyType, AbortEffect
   DEF Heal, Goto, Locals, JobType, me, at, SameReads, SamePlan, SameTodo, SameUndo, SameFlags

(* The enabled clients become the peers.                                      *)
LEMMA ReadPeersEffect ==
  ASSUME TypeOK, ReadPeers(Boot)
  PROVE  /\ at = "peers"
         /\ \/ ~Runs(Boot) /\ Aborts
            \/ /\ Runs(Boot) /\ at' = "tunnels"
               /\ me'.peers = Enabled(db.clients)
               /\ me'.ingress = me.ingress
               /\ SamePlan /\ SameTodo /\ SameUndo /\ SameFlags
               /\ UNCHANGED <<db, kernel, files>>
BY MyType, AbortEffect
   DEF ReadPeers, Goto, Locals, JobType, me, at, SameReads, SamePlan, SameTodo, SameUndo,
      SameFlags

(* The enabled upstreams that have a configuration are to be brought up.      *)
LEMMA ReadTunnelsEffect ==
  ASSUME TypeOK, ReadTunnels(Boot)
  PROVE  /\ at = "tunnels"
         /\ \/ ~Runs(Boot) /\ Aborts
            \/ /\ Runs(Boot) /\ at' = "upIngress"
               /\ me'.tunnels = db.tunnels
               /\ me'.tunnelsTodo = Configured(db.tunnels)
               /\ me'.ingress = me.ingress /\ me'.peers = me.peers
               /\ SamePlan /\ SameUndo /\ SameFlags
               /\ UNCHANGED <<db, kernel, files>>
<1>1. /\ at = "tunnels"
      /\ \/ ~Runs(Boot) /\ Aborts
         \/ /\ Runs(Boot) /\ at' = "upIngress"
            /\ me' = [me EXCEPT !.tunnels = db.tunnels,
                       !.tunnelsTodo = Configured(db.tunnels)]
            /\ UNCHANGED <<db, kernel, files>>
  BY MyType, AbortEffect DEF ReadTunnels, Goto, Locals, me, at, Configured
<1>2. ASSUME NEW v, NEW w, me' = [me EXCEPT !.tunnels = v, !.tunnelsTodo = w]
      PROVE  /\ me'.tunnels = v /\ me'.tunnelsTodo = w
             /\ me'.ingress = me.ingress /\ me'.peers = me.peers
             /\ SamePlan /\ SameUndo /\ SameFlags
  BY <1>2, MyType DEF JobType, SameReads, SamePlan, SameTodo, SameUndo, SameFlags
<1> QED BY <1>1, <1>2

(* The ingress interface comes up, or Apply gives up.                         *)
LEMMA UpIngressEffect ==
  ASSUME TypeOK, UpIngress(Boot)
  PROVE  /\ at = "upIngress"
         /\ \/ (Fails(Boot) \/ me.ingress.iface \in links) /\ Aborts
            \/ /\ Runs(Boot) /\ at' = "upTunnels" /\ me.ingress.iface \notin links
               /\ links' = links \cup {me.ingress.iface} /\ peers' = me.peers
               /\ me'.paths = <<me.ingress.iface>>
               /\ SameReads /\ SamePlan /\ SameTodo /\ SameFlags /\ me'.natTodo = me.natTodo
               /\ UNCHANGED <<db, rules, routes, nat, files>>
BY MyType, AbortEffect
   DEF UpIngress, Goto, Locals, JobType, me, at, SameReads, SamePlan, SameTodo, SameUndo,
      SameFlags

(* An upstream comes up, or its failure is remembered.                        *)
LEMMA UpTunnelEffect ==
  ASSUME TypeOK, UpTunnel(Boot)
  PROVE  /\ at = "upTunnels" /\ at' = "upTunnels"
         /\ SameReads /\ SamePlan
         /\ me'.clientsTodo = me.clientsTodo /\ me'.natTodo = me.natTodo
         /\ me'.cancelled = me.cancelled
         /\ \E t \in me.tunnelsTodo :
                 /\ me'.tunnelsTodo = me.tunnelsTodo \ {t}
                 /\ \/ /\ links' = links \cup {me.tunnels[t].iface}
                       /\ me'.paths = Append(me.paths, me.tunnels[t].iface)
                       /\ me'.failed = me.failed
                    \/ me'.failed /\ me'.paths = me.paths /\ UNCHANGED links
         /\ UNCHANGED <<db, rules, routes, nat, peers, files>>
<1>0. /\ at = "upTunnels" /\ at' = "upTunnels"
      /\ UNCHANGED <<db, rules, routes, nat, peers, files>>
  BY MyType DEF UpTunnel, at
<1>1. PICK t \in me.tunnelsTodo :
        \/ /\ links' = links \cup {me.tunnels[t].iface}
           /\ me' = [me EXCEPT !.tunnelsTodo = @ \ {t},
                               !.paths = Append(@, me.tunnels[t].iface)]
        \/ /\ UNCHANGED links
           /\ me' = [me EXCEPT !.tunnelsTodo = @ \ {t}, !.failed = TRUE]
  BY MyType DEF UpTunnel, Locals, me
<1>2. ASSUME NEW v, NEW w, me' = [me EXCEPT !.tunnelsTodo = v, !.paths = w]
      PROVE  /\ me'.tunnelsTodo = v /\ me'.paths = w /\ me'.failed = me.failed
             /\ SameReads /\ SamePlan
             /\ me'.clientsTodo = me.clientsTodo /\ me'.natTodo = me.natTodo
             /\ me'.cancelled = me.cancelled
  BY <1>2, MyType DEF JobType, SameReads, SamePlan
<1>5. ASSUME NEW v, me' = [me EXCEPT !.tunnelsTodo = v, !.failed = TRUE]
      PROVE  /\ me'.tunnelsTodo = v /\ me'.paths = me.paths /\ me'.failed
             /\ SameReads /\ SamePlan
             /\ me'.clientsTodo = me.clientsTodo /\ me'.natTodo = me.natTodo
             /\ me'.cancelled = me.cancelled
  BY <1>5, MyType DEF JobType, SameReads, SamePlan
<1>3. CASE me' = [me EXCEPT !.tunnelsTodo = @ \ {t}, !.failed = TRUE] /\ UNCHANGED links
  <2>1. /\ me'.tunnelsTodo = me.tunnelsTodo \ {t} /\ me'.paths = me.paths /\ me'.failed
        /\ SameReads /\ SamePlan
        /\ me'.clientsTodo = me.clientsTodo /\ me'.natTodo = me.natTodo
        /\ me'.cancelled = me.cancelled
    BY <1>5, <1>3
  <2> QED BY <1>0, <1>3, <2>1
<1>4. CASE /\ me' = [me EXCEPT !.tunnelsTodo = @ \ {t}, !.paths = Append(@, me.tunnels[t].iface)]
           /\ links' = links \cup {me.tunnels[t].iface}
  <2>1. /\ me'.tunnelsTodo = me.tunnelsTodo \ {t}
        /\ me'.paths = Append(me.paths, me.tunnels[t].iface)
        /\ me'.failed = me.failed
        /\ SameReads /\ SamePlan
        /\ me'.clientsTodo = me.clientsTodo /\ me'.natTodo = me.natTodo
        /\ me'.cancelled = me.cancelled
    BY <1>2, <1>4
  <2> QED BY <1>0, <1>4, <2>1
<1> QED BY <1>1, <1>3, <1>4

(* saveWGRuntime, the truncation ...                                          *)
LEMMA TruncateRuntimeEffect ==
  ASSUME TypeOK, TruncateRuntime(Boot)
  PROVE  /\ at = "upTunnels" /\ at' = "writeRuntime" /\ me.tunnelsTodo = {}
         /\ me' = me /\ wgFile' = Torn
         /\ UNCHANGED <<db, kernel, polFile, natFile>>
BY MyType, AbortEffect DEF TruncateRuntime, Goto, Locals, JobType, me, at

(* ... and the write, after which the failures of upstreams end Apply.        *)
LEMMA WriteRuntimeEffect ==
  ASSUME TypeOK, WriteRuntime(Boot)
  PROVE  /\ at = "writeRuntime" /\ wgFile' = me.paths
         /\ \/ me.failed /\ at' = "idle" /\ me' = Fresh /\ lastErr'
            \/ ~me.failed /\ at' = "listTunnels" /\ me' = me
         /\ UNCHANGED <<db, kernel, polFile, natFile>>
BY MyType, AbortEffect DEF WriteRuntime, Goto, Locals, JobType, me, at, Return

(* The second look at the upstreams.                                          *)
LEMMA ListUpstreamTunnelsEffect ==
  ASSUME TypeOK, ListUpstreamTunnels(Boot)
  PROVE  /\ at = "listTunnels"
         /\ \/ ~Runs(Boot) /\ Aborts
            \/ /\ Runs(Boot) /\ at' = "listClients"
               /\ me'.tunnels = db.tunnels
               /\ me'.tunnelsTodo = Enabled(db.tunnels)
               /\ me'.ingress = me.ingress /\ me'.peers = me.peers
               /\ SamePlan /\ SameUndo /\ SameFlags
               /\ UNCHANGED <<db, kernel, files>>
<1>1. /\ at = "listTunnels"
      /\ \/ ~Runs(Boot) /\ Aborts
         \/ /\ Runs(Boot) /\ at' = "listClients"
            /\ me' = [me EXCEPT !.tunnels = db.tunnels, !.tunnelsTodo = Enabled(db.tunnels)]
            /\ UNCHANGED <<db, kernel, files>>
  BY MyType, AbortEffect DEF ListUpstreamTunnels, Goto, Locals, me, at
<1>2. ASSUME NEW v, NEW w, me' = [me EXCEPT !.tunnels = v, !.tunnelsTodo = w]
      PROVE  /\ me'.tunnels = v /\ me'.tunnelsTodo = w
             /\ me'.ingress = me.ingress /\ me'.peers = me.peers
             /\ SamePlan /\ SameUndo /\ SameFlags
  BY <1>2, MyType DEF JobType, SameReads, SamePlan, SameTodo, SameUndo, SameFlags
<1> QED BY <1>1, <1>2

(* The look at the clients.                                                   *)
LEMMA ListClientsEffect ==
  ASSUME TypeOK, ListClients(Boot)
  PROVE  /\ at = "listClients"
         /\ \/ ~Runs(Boot) /\ Aborts
            \/ /\ Runs(Boot) /\ at' = "settings"
               /\ me'.clients = db.clients
               /\ me'.clientsTodo = Enabled(db.clients)
               /\ me'.ingress = me.ingress /\ me'.peers = me.peers /\ me'.tunnels = me.tunnels
               /\ me'.tunnelsTodo = me.tunnelsTodo
               /\ SamePlan /\ SameUndo /\ SameFlags
               /\ UNCHANGED <<db, kernel, files>>
<1>1. /\ at = "listClients"
      /\ \/ ~Runs(Boot) /\ Aborts
         \/ /\ Runs(Boot) /\ at' = "settings"
            /\ me' = [me EXCEPT !.clients = db.clients, !.clientsTodo = Enabled(db.clients)]
            /\ UNCHANGED <<db, kernel, files>>
  BY MyType, AbortEffect DEF ListClients, Goto, Locals, me, at
<1>2. ASSUME NEW v, NEW w, me' = [me EXCEPT !.clients = v, !.clientsTodo = w]
      PROVE  /\ me'.clients = v /\ me'.clientsTodo = w
             /\ me'.ingress = me.ingress /\ me'.peers = me.peers /\ me'.tunnels = me.tunnels
             /\ me'.tunnelsTodo = me.tunnelsTodo
             /\ SamePlan /\ SameUndo /\ SameFlags
  BY <1>2, MyType DEF JobType, SameReads, SamePlan, SameTodo, SameUndo, SameFlags
<1> QED BY <1>1, <1>2

(* The look at the settings.                                                  *)
LEMMA GetSystemSettingsEffect ==
  ASSUME TypeOK, GetSystemSettings(Boot)
  PROVE  /\ at = "settings"
         /\ \/ ~Runs(Boot) /\ Aborts
            \/ /\ Runs(Boot) /\ at' = "detect"
               /\ me'.policy = db.policy /\ me'.ext = db.ext
               /\ me'.ingress = me.ingress /\ me'.peers = me.peers /\ me'.tunnels = me.tunnels
               /\ me'.clients = me.clients
               /\ SamePlan /\ SameTodo /\ SameUndo /\ SameFlags
               /\ UNCHANGED <<db, kernel, files>>
<1>1. /\ at = "settings"
      /\ \/ ~Runs(Boot) /\ Aborts
         \/ /\ Runs(Boot) /\ at' = "detect"
            /\ me' = [me EXCEPT !.policy = db.policy, !.ext = db.ext]
            /\ UNCHANGED <<db, kernel, files>>
  BY MyType, AbortEffect DEF GetSystemSettings, Goto, Locals, me, at
<1>2. ASSUME NEW v, NEW w, me' = [me EXCEPT !.policy = v, !.ext = w]
      PROVE  /\ me'.policy = v /\ me'.ext = w
             /\ me'.ingress = me.ingress /\ me'.peers = me.peers /\ me'.tunnels = me.tunnels
             /\ me'.clients = me.clients /\ SameTodo
             /\ SamePlan /\ SameUndo /\ SameFlags
  BY <1>2, MyType DEF JobType, SameReads, SamePlan, SameTodo, SameUndo, SameFlags
<1> QED BY <1>1, <1>2

(* The uplink: overridden, detected, or unknown when `ip route get` fails.    *)
LEMMA DetectExternalInterfaceEffect ==
  ASSUME TypeOK, DetectExternalInterface(Boot)
  PROVE  /\ at = "detect" /\ at' = "place"
         /\ me'.ingress = me.ingress /\ me'.peers = me.peers
         /\ me'.tunnels = me.tunnels /\ me'.clients = me.clients /\ me'.policy = me.policy
         /\ SamePlan /\ SameTodo /\ SameUndo /\ SameFlags
         /\ me'.ext = ExtOf(me) \/ (Fails(Boot) /\ me'.ext = me.ext)
         /\ UNCHANGED <<db, kernel, files>>
<1>1. /\ at = "detect" /\ at' = "place"
      /\ \/ me.ext # NoIface /\ me' = me
         \/ me.ext = NoIface /\ me' = [me EXCEPT !.ext = Ext]
         \/ Fails(Boot) /\ me' = me
      /\ UNCHANGED <<db, kernel, files>>
  BY MyType DEF DetectExternalInterface, Goto, Locals, me, at
<1>2. ASSUME NEW v, me' = [me EXCEPT !.ext = v]
      PROVE  /\ me'.ext = v
             /\ me'.ingress = me.ingress /\ me'.peers = me.peers /\ me'.tunnels = me.tunnels
             /\ me'.clients = me.clients /\ me'.policy = me.policy
             /\ SamePlan /\ SameTodo /\ SameUndo /\ SameFlags
  BY <1>2, MyType DEF JobType, SameReads, SamePlan, SameTodo, SameUndo, SameFlags
<1>3. CASE me' = [me EXCEPT !.ext = Ext] /\ me.ext = NoIface
  BY <1>1, <1>2, <1>3 DEF ExtOf
<1>4. CASE me' = me /\ (me.ext # NoIface \/ Fails(Boot))
  BY <1>1, <1>4 DEF ExtOf, SameReads, SamePlan, SameTodo, SameUndo, SameFlags
<1> QED BY <1>1, <1>3, <1>4

(* One route, or Apply gives up.                                              *)
LEMMA AddRouteEffect ==
  ASSUME TypeOK, AddRoute(Boot)
  PROVE  /\ at = "place"
         /\ \E t \in me.tunnelsTodo :
              \/ (Fails(Boot) \/ me.tunnels[t].iface \notin links) /\ Aborts
              \/ /\ Runs(Boot) /\ at' = "place" /\ me.tunnels[t].iface \in links
                 /\ routes' = {q \in routes : q.table # RoutingTableID(t)} \cup {RouteOf(me, t)}
                 /\ me'.tunnelsTodo = me.tunnelsTodo \ {t} /\ me'.clientsTodo = me.clientsTodo
                 /\ me'.next.routes = me.next.routes \cup {RouteOf(me, t)}
                 /\ me'.next.rules = me.next.rules /\ me'.nat = me.nat
                 /\ SameReads /\ SameUndo /\ SameFlags
                 /\ UNCHANGED <<db, rules, nat, links, peers, files>>
<1>1. at = "place"
  BY DEF AddRoute, at
<1> DEFINE next(t) == [job[Boot].next EXCEPT !.routes = @ \cup {RouteOf(me, t)}]
<1>2. PICK t \in job[Boot].tunnelsTodo :
        \/ (Fails(Boot) \/ job[Boot].tunnels[t].iface \notin links) /\ Abort(Boot)
        \/ /\ Runs(Boot) /\ job[Boot].tunnels[t].iface \in links
           /\ routes' = {q \in routes : q.table # RoutingTableID(t)} \cup {RouteOf(me, t)}
           /\ Locals(Boot, [job[Boot] EXCEPT !.tunnelsTodo = @ \ {t}, !.next = next(t)])
           /\ UNCHANGED <<db, rules, nat, links, peers, files, pc>>
  BY DEF AddRoute, RouteOf, me
<1>3. ASSUME NEW v, NEW q \in PolicyStates, me' = [me EXCEPT !.tunnelsTodo = v, !.next = q]
      PROVE  /\ me'.tunnelsTodo = v /\ me'.next = q
             /\ me'.clientsTodo = me.clientsTodo /\ me'.nat = me.nat
             /\ SameReads /\ SameUndo /\ SameFlags
  BY <1>3, MyType DEF JobType, SameReads, SameUndo, SameFlags
<1>4. /\ me.next \in PolicyStates
      /\ RouteOf(me, t) \in Routes
  <2>1. t \in Tunnels /\ me.tunnels[t] \in TunnelRows
    BY MyType, FieldTypes, TableTypes DEF me
  <2> QED BY <2>1, MyType, FieldTypes, IdsAreNat DEF RouteOf, Routes, TunnelRows, RoutingTableID
<1>5. ASSUME NEW r \in Routes, NEW q, q = [me.next EXCEPT !.routes = @ \cup {r}]
      PROVE  q \in PolicyStates /\ q.routes = me.next.routes \cup {r} /\ q.rules = me.next.rules
  BY <1>4, <1>5 DEF PolicyStates
<1>6. CASE (Fails(Boot) \/ job[Boot].tunnels[t].iface \notin links) /\ Abort(Boot)
  BY <1>1, <1>6, AbortEffect DEF me
<1>7. CASE /\ Runs(Boot) /\ job[Boot].tunnels[t].iface \in links
           /\ routes' = {q \in routes : q.table # RoutingTableID(t)} \cup {RouteOf(me, t)}
           /\ Locals(Boot, [job[Boot] EXCEPT !.tunnelsTodo = @ \ {t}, !.next = next(t)])
           /\ UNCHANGED <<db, rules, nat, links, peers, files, pc>>
  <2>1. /\ next(t) \in PolicyStates
        /\ next(t).routes = me.next.routes \cup {RouteOf(me, t)} /\ next(t).rules = me.next.rules
    BY <1>4, <1>5 DEF me
  <2> HIDE DEF next
  <2>2. me' = [me EXCEPT !.tunnelsTodo = me.tunnelsTodo \ {t}, !.next = next(t)]
    BY <1>7, MyType DEF Locals, me
  <2>3. /\ me'.tunnelsTodo = me.tunnelsTodo \ {t} /\ me'.next = next(t)
        /\ me'.clientsTodo = me.clientsTodo /\ me'.nat = me.nat
        /\ SameReads /\ SameUndo /\ SameFlags
    BY <2>1, <2>2, <1>3
  <2>4. at' = "place" /\ t \in me.tunnelsTodo /\ me.tunnels[t].iface \in links
    BY <1>1, <1>2, <1>7 DEF at, me
  <2> QED BY <1>1, <1>7, <2>1, <2>3, <2>4
<1> QED BY <1>2, <1>6, <1>7

(* A client that is passed over.                                              *)
LEMMA SkipClientEffect ==
  ASSUME TypeOK, SkipClient(Boot)
  PROVE  /\ at = "place" /\ at' = "place" /\ me.tunnelsTodo = {}
         /\ SameReads /\ SamePlan /\ SameUndo /\ SameFlags /\ me'.tunnelsTodo = me.tunnelsTodo
         /\ UNCHANGED <<db, kernel, files>>
         /\ \E c \in me.clientsTodo :
              /\ me'.clientsTodo = me.clientsTodo \ {c}
              /\ \/ me.clients[c].addr \notin Addrs
                 \/ /\ me.clients[c].via # Direct /\ me.clients[c].via \notin Enabled(me.tunnels)
                    /\ me.policy = "ignore"
<1>1. at = "place" /\ at' = "place" /\ UNCHANGED <<db, kernel, files>>
  BY MyType DEF SkipClient, Placing, at
<1>2. PICK c \in me.clientsTodo :
        /\ me.tunnelsTodo = {}
        /\ me' = [me EXCEPT !.clientsTodo = @ \ {c}]
        /\ \/ me.clients[c].addr \notin Addrs
           \/ /\ me.clients[c].via # Direct /\ me.clients[c].via \notin Enabled(me.tunnels)
              /\ me.policy = "ignore"
  BY MyType DEF SkipClient, Placing, Usable, Routed, Available, TunnelOf, Locals, me
<1>3. ASSUME NEW v, me' = [me EXCEPT !.clientsTodo = v]
      PROVE  /\ me'.clientsTodo = v /\ me'.tunnelsTodo = me.tunnelsTodo
             /\ SameReads /\ SamePlan /\ SameUndo /\ SameFlags
  BY <1>3, MyType DEF JobType, SameReads, SamePlan, SameUndo, SameFlags
<1> QED BY <1>1, <1>2, <1>3

(* A client that has Apply refused.                                           *)
LEMMA RefuseOfflineEffect ==
  ASSUME TypeOK, RefuseOffline(Boot)
  PROVE  /\ at = "place" /\ Aborts /\ me.policy = "block"
         /\ \E c \in me.clientsTodo :
              /\ me.clients[c].addr \in Addrs
              /\ me.clients[c].via # Direct /\ me.clients[c].via \notin Enabled(me.tunnels)
<1>1. at = "place" /\ Aborts
  BY AbortEffect DEF RefuseOffline, Placing, at
<1> QED BY <1>1 DEF RefuseOffline, Usable, Routed, Available, TunnelOf, me

(* A direct client: a NAT rule for the uplink if that is known.               *)
LEMMA PlaceDirectEffect ==
  ASSUME TypeOK, PlaceDirect(Boot)
  PROVE  /\ at = "place" /\ at' = "place" /\ me.tunnelsTodo = {}
         /\ SameReads /\ SameUndo /\ SameFlags
         /\ me'.next = me.next /\ me'.tunnelsTodo = me.tunnelsTodo
         /\ UNCHANGED <<db, kernel, files>>
         /\ \E c \in me.clientsTodo :
              /\ me'.clientsTodo = me.clientsTodo \ {c}
              /\ me.clients[c].addr \in Addrs /\ me.clients[c].via = Direct
              /\ me'.nat = IF me.ext = NoIface THEN me.nat
                           ELSE Append(me.nat, [from |-> me.clients[c].addr, out |-> me.ext])
<1>1. at = "place" /\ at' = "place" /\ UNCHANGED <<db, kernel, files>>
  BY MyType DEF PlaceDirect, Placing, at
<1>2. PICK c \in me.clientsTodo :
        /\ me.tunnelsTodo = {}
        /\ me.clients[c].addr \in Addrs /\ me.clients[c].via = Direct
        /\ me' = [me EXCEPT !.clientsTodo = @ \ {c},
                            !.nat = IF me.ext = NoIface THEN @
                                    ELSE Append(@, [from |-> me.clients[c].addr, out |-> me.ext])]
  BY MyType DEF PlaceDirect, Placing, Usable, Routed, TunnelOf, Locals, me
<1>3. ASSUME NEW v, NEW w, me' = [me EXCEPT !.clientsTodo = v, !.nat = w]
      PROVE  /\ me'.clientsTodo = v /\ me'.nat = w
             /\ me'.next = me.next /\ me'.tunnelsTodo = me.tunnelsTodo
             /\ SameReads /\ SameUndo /\ SameFlags
  BY <1>3, MyType DEF JobType, SameReads, SameUndo, SameFlags
<1>4. /\ me'.clientsTodo = me.clientsTodo \ {c}
      /\ me'.nat = IF me.ext = NoIface THEN me.nat
                   ELSE Append(me.nat, [from |-> me.clients[c].addr, out |-> me.ext])
      /\ me'.next = me.next /\ me'.tunnelsTodo = me.tunnelsTodo
      /\ SameReads /\ SameUndo /\ SameFlags
  BY <1>2, <1>3
<1> QED BY <1>1, <1>2, <1>4

(* A client of an upstream: an ip rule at once and a NAT rule for later.      *)
LEMMA PlaceRoutedEffect ==
  ASSUME TypeOK, PlaceRouted(Boot)
  PROVE  /\ at = "place" /\ me.tunnelsTodo = {}
         /\ \E c \in me.clientsTodo :
              /\ me.clients[c].addr \in Addrs
              /\ me.clients[c].via # Direct /\ me.clients[c].via \in Enabled(me.tunnels)
              /\ \/ (Fails(Boot) \/ RuleOf(me, c) \in rules) /\ Aborts
                 \/ /\ Runs(Boot) /\ at' = "place" /\ RuleOf(me, c) \notin rules
                    /\ rules' = rules \cup {RuleOf(me, c)}
                    /\ me'.clientsTodo = me.clientsTodo \ {c} /\ me'.tunnelsTodo = me.tunnelsTodo
                    /\ me'.next.rules = me.next.rules \cup {RuleOf(me, c)}
                    /\ me'.next.routes = me.next.routes
                    /\ me'.nat = Append(me.nat, NATOf(me, c))
                    /\ SameReads /\ SameUndo /\ SameFlags
                    /\ UNCHANGED <<db, routes, nat, links, peers, files>>
<1> DEFINE next(c) == [job[Boot].next EXCEPT !.rules = @ \cup {RuleOf(me, c)}]
<1>1. PICK c \in job[Boot].clientsTodo :
        /\ at = "place" /\ me.tunnelsTodo = {}
        /\ me.clients[c].addr \in Addrs
        /\ me.clients[c].via # Direct /\ me.clients[c].via \in Enabled(me.tunnels)
        /\ \/ (Fails(Boot) \/ RuleOf(me, c) \in rules) /\ Abort(Boot)
           \/ /\ Runs(Boot) /\ RuleOf(me, c) \notin rules
              /\ rules' = rules \cup {RuleOf(me, c)}
              /\ Locals(Boot, [job[Boot] EXCEPT !.clientsTodo = @ \ {c}, !.next = next(c),
                                                !.nat = Append(@, NATOf(me, c))])
              /\ UNCHANGED <<db, routes, nat, links, peers, files, pc>>
  BY DEF PlaceRouted, Placing, Usable, Routed, Available, TunnelOf, RuleFor, RuleOf, NATOf,
     me, at
<1>3. ASSUME NEW v, NEW q \in PolicyStates, NEW w,
             me' = [me EXCEPT !.clientsTodo = v, !.next = q, !.nat = w]
      PROVE  /\ me'.clientsTodo = v /\ me'.next = q /\ me'.nat = w
             /\ me'.tunnelsTodo = me.tunnelsTodo
             /\ SameReads /\ SameUndo /\ SameFlags
  BY <1>3, MyType DEF JobType, SameReads, SameUndo, SameFlags
<1>4. /\ me.next \in PolicyStates
      /\ RuleOf(me, c) \in Rules
  <2>1. /\ c \in Clients /\ me.clients[c] \in ClientRows
        /\ me.clients[c].via \in Tunnels
    BY <1>1, MyType, FieldTypes, TableTypes DEF Enabled, me
  <2> QED BY <1>1, <2>1, MyType, FieldTypes, IdsAreNat
          DEF RuleOf, Rules, RoutingTableID, RulePreference
<1>5. ASSUME NEW r \in Rules, NEW q, q = [me.next EXCEPT !.rules = @ \cup {r}]
      PROVE  q \in PolicyStates /\ q.rules = me.next.rules \cup {r} /\ q.routes = me.next.routes
  BY <1>4, <1>5 DEF PolicyStates
<1>6. CASE (Fails(Boot) \/ RuleOf(me, c) \in rules) /\ Abort(Boot)
  BY <1>1, <1>6, AbortEffect DEF me
<1>7. CASE /\ Runs(Boot) /\ RuleOf(me, c) \notin rules
           /\ rules' = rules \cup {RuleOf(me, c)}
           /\ Locals(Boot, [job[Boot] EXCEPT !.clientsTodo = @ \ {c}, !.next = next(c),
                                             !.nat = Append(@, NATOf(me, c))])
           /\ UNCHANGED <<db, routes, nat, links, peers, files, pc>>
  <2>1. /\ next(c) \in PolicyStates
        /\ next(c).rules = me.next.rules \cup {RuleOf(me, c)} /\ next(c).routes = me.next.routes
    BY <1>4, <1>5 DEF me
  <2> HIDE DEF next
  <2>2. me' = [me EXCEPT !.clientsTodo = me.clientsTodo \ {c}, !.next = next(c),
                         !.nat = Append(me.nat, NATOf(me, c))]
    BY <1>7, MyType DEF Locals, me
  <2>3. /\ me'.clientsTodo = me.clientsTodo \ {c} /\ me'.next = next(c)
        /\ me'.nat = Append(me.nat, NATOf(me, c))
        /\ me'.tunnelsTodo = me.tunnelsTodo
        /\ SameReads /\ SameUndo /\ SameFlags
    BY <2>1, <2>2, <1>3
  <2>4. at' = "place" /\ c \in me.clientsTodo
    BY <1>1, <1>7 DEF at, me
  <2> QED BY <1>1, <1>7, <2>1, <2>3, <2>4
<1> QED BY <1>1, <1>6, <1>7

(* One `iptables -A`.                                                         *)
LEMMA AppendNATEffect ==
  ASSUME TypeOK, AppendNAT(Boot)
  PROVE  LET r == me.nat[Len(me.natTodo) + 1]
         IN  /\ at = "place" /\ me.tunnelsTodo = {} /\ me.clientsTodo = {}
             /\ Len(me.natTodo) < Len(me.nat)
             /\ \/ (Fails(Boot) \/ r.out = BadExt) /\ Aborts
                \/ /\ Runs(Boot) /\ at' = "place" /\ r.out # BadExt
                   /\ nat' = [nat EXCEPT ![r] = @ + 1]
                   /\ me'.natTodo = Append(me.natTodo, r) /\ me'.paths = me.paths
                   /\ SameReads /\ SamePlan /\ SameTodo /\ SameFlags
                   /\ UNCHANGED <<db, rules, routes, links, peers, files>>
<1> DEFINE r == me.nat[Len(me.natTodo) + 1]
<1>1. /\ at = "place" /\ me.tunnelsTodo = {} /\ me.clientsTodo = {}
      /\ Len(me.natTodo) < Len(me.nat)
      /\ \/ (Fails(Boot) \/ r.out = BadExt) /\ Abort(Boot)
         \/ /\ Runs(Boot) /\ at' = "place" /\ r.out # BadExt
            /\ nat' = [nat EXCEPT ![r] = @ + 1]
            /\ me' = [me EXCEPT !.natTodo = Append(@, r)]
            /\ UNCHANGED <<db, rules, routes, links, peers, files>>
  BY MyType DEF AppendNAT, Locals, me, at
<1>2. ASSUME NEW v, me' = [me EXCEPT !.natTodo = v]
      PROVE  /\ me'.natTodo = v /\ me'.paths = me.paths
             /\ SameReads /\ SamePlan /\ SameTodo /\ SameFlags
  BY <1>2, MyType DEF JobType, SameReads, SamePlan, SameTodo, SameFlags
<1>3. CASE (Fails(Boot) \/ r.out = BadExt) /\ Abort(Boot)
  BY <1>1, <1>3, AbortEffect
<1>4. CASE /\ Runs(Boot) /\ at' = "place" /\ r.out # BadExt
           /\ nat' = [nat EXCEPT ![r] = @ + 1]
           /\ me' = [me EXCEPT !.natTodo = Append(@, r)]
           /\ UNCHANGED <<db, rules, routes, links, peers, files>>
  <2>1. /\ me'.natTodo = Append(me.natTodo, r) /\ me'.paths = me.paths
        /\ SameReads /\ SamePlan /\ SameTodo /\ SameFlags
    BY <1>4, <1>2
  <2> QED BY <1>1, <1>4, <2>1
<1> QED BY <1>1, <1>3, <1>4

(* The two state files, truncated and written; with the second Apply succeeds. *)
LEMMA SavingEffects ==
  ASSUME TypeOK
  PROVE  /\ TruncateNAT(Boot) =>
              /\ at = "place" /\ at' = "writeNAT" /\ me' = me
              /\ me.tunnelsTodo = {} /\ me.clientsTodo = {} /\ Len(me.natTodo) = Len(me.nat)
              /\ UNCHANGED <<db, kernel, polFile, wgFile>> /\ natFile' = Torn
         /\ WriteNAT(Boot) =>
              /\ at = "writeNAT" /\ at' = "savedNAT" /\ me' = me
              /\ UNCHANGED <<db, kernel, polFile, wgFile>> /\ natFile' = me.nat
         /\ TruncatePolicy(Boot) =>
              /\ at = "savedNAT" /\ at' = "writePolicy" /\ me' = me
              /\ UNCHANGED <<db, kernel, natFile, wgFile>> /\ polFile' = Torn
         /\ WritePolicy(Boot) =>
              /\ at = "writePolicy" /\ at' = "idle" /\ me' = Fresh /\ ~lastErr'
              /\ UNCHANGED <<db, kernel, natFile, wgFile>> /\ polFile' = me.next
<1>1. TruncateNAT(Boot) =>
        /\ at = "place" /\ at' = "writeNAT" /\ me' = me
        /\ me.tunnelsTodo = {} /\ me.clientsTodo = {} /\ Len(me.natTodo) = Len(me.nat)
        /\ UNCHANGED <<db, kernel, polFile, wgFile>> /\ natFile' = Torn
  BY MyType DEF TruncateNAT, Goto, me, at
<1>2. WriteNAT(Boot) =>
        /\ at = "writeNAT" /\ at' = "savedNAT" /\ me' = me
        /\ UNCHANGED <<db, kernel, polFile, wgFile>> /\ natFile' = me.nat
  BY MyType DEF WriteNAT, Goto, me, at
<1>3. TruncatePolicy(Boot) =>
        /\ at = "savedNAT" /\ at' = "writePolicy" /\ me' = me
        /\ UNCHANGED <<db, kernel, natFile, wgFile>> /\ polFile' = Torn
  BY MyType DEF TruncatePolicy, Goto, me, at
<1>4. WritePolicy(Boot) =>
        /\ at = "writePolicy" /\ at' = "idle" /\ me' = Fresh /\ ~lastErr'
        /\ UNCHANGED <<db, kernel, natFile, wgFile>> /\ polFile' = me.next
  BY MyType DEF WritePolicy, Return, Goto, me, at
<1> QED BY <1>1, <1>2, <1>3, <1>4

(* A request starts an Apply ...                                              *)
LEMMA BeginEffect ==
  ASSUME TypeOK, Mutate(Boot) \/ SystemApply(Boot)
  PROVE  /\ at = "idle" /\ at' = "load" /\ me' = me
         /\ db' \in Databases \cup {db} /\ UNCHANGED <<kernel, files>>
BY MyType DEF Mutate, SystemApply, Begin, Goto, me, at

(* ... its caller hangs up ...                                                *)
LEMMA CancelEffect ==
  ASSUME TypeOK, Cancel(Boot)
  PROVE  /\ "cancel" \in Faults /\ at # "idle" /\ at' = at
         /\ SameReads /\ SamePlan /\ SameTodo /\ SameUndo
         /\ me'.prefs = me.prefs /\ me'.failed = me.failed
         /\ UNCHANGED <<db, kernel, files>>
<1>1. me' = [me EXCEPT !.cancelled = TRUE]
  BY MyType DEF Cancel, Locals, me
<1>2. /\ SameReads /\ SamePlan /\ SameTodo /\ SameUndo
      /\ me'.prefs = me.prefs /\ me'.failed = me.failed
  BY <1>1, MyType DEF JobType, SameReads, SamePlan, SameTodo, SameUndo
<1> QED BY <1>2 DEF Cancel, Spend, at

(* ... or the disk is full; a restart empties the locals, and the kernel too if the *)
(* whole container is new; a request may commit beside all that.              *)
LEMMA DiskFullEffect ==
  ASSUME TypeOK, DiskFull(Boot)
  PROVE  "disk" \in Faults /\ Aborts
BY AbortEffect DEF DiskFull, Spend

(* A restart.                                                                 *)
LEMMA RestartEffect ==
  ASSUME TypeOK, Reboot \/ Kill
  PROVE  /\ at' = "load" /\ me' = Fresh /\ UNCHANGED <<db, files>>
         /\ \/ /\ rules' = Builtin /\ routes' = {} /\ nat' = NoNAT
               /\ links' = {} /\ peers' = {}
            \/ "kill" \in Faults /\ UNCHANGED kernel
BY BootIsJob DEF Reboot, Kill, Restart, Spend, me, at

(* A commit without an Apply.                                                 *)
LEMMA SilentEffect ==
  ASSUME TypeOK, SilentMutate
  PROVE  /\ at' = at /\ me' = me /\ db' \in SilentDatabases
         /\ UNCHANGED <<kernel, files, lastErr>>
BY DEF SilentMutate, me, at
-----------------------------------------------------------------------------
(* How far one Apply has come. *)

(* Where in Apply, by what is behind it: the ingress is up; the runtime file is *)
(* written and the tables are read; the uplink is known and things are placed. *)
Raising == {"upTunnels", "writeRuntime"}
Listing == {"listTunnels", "listClients", "settings", "detect"}
Routing == {"place", "writeNAT", "savedNAT", "writePolicy"}
Raised == Raising \cup Listing \cup Routing

(* What the part of the loops that is behind l has asked for. *)
RoutesOf(l) == {RouteOf(l, t) : t \in Enabled(l.tunnels) \ l.tunnelsTodo}
RulesOf(l) == {RuleOf(l, c) : c \in RoutedIn(l) \ l.clientsTodo}
ViaTunnel(l, r) == {c \in RoutedIn(l) \ l.clientsTodo : NATOf(l, c) = r}
ViaExt(l, r) == {c \in DirectIn(l) \ l.clientsTodo : l.clients[c].addr = r.from /\ l.ext = r.out}

(* Until the interfaces go up nothing has failed; then, unless an upstream has *)
(* failed, the list for the runtime file holds the ingress and the upstreams that *)
(* are behind, and what is in the list is up.                                 *)
LinksRaised ==
  /\ at \notin Raised => ~me.failed
  /\ at = "upIngress" => me.tunnelsTodo = Configured(me.tunnels)
  /\ at \in Raising =>
       /\ me.tunnelsTodo \subseteq Configured(me.tunnels)
       /\ ~me.failed => Range1(me.paths) = {me.ingress.iface} \cup
            {me.tunnels[t].iface : t \in Configured(me.tunnels) \ me.tunnelsTodo}
  /\ at = "writeRuntime" => me.tunnelsTodo = {}
  /\ at \in Raised => peers = me.peers /\ Range1(me.paths) \subseteq links
  /\ at \in Listing \cup Routing => wgFile = me.paths

(* Before "place" the plan and the list of appended NAT rules are empty, and the *)
(* loops have everything before them.                                         *)
NothingPlaced ==
  /\ at \notin Routing => me.next = EmptyPolicy /\ me.nat = <<>>
  /\ at \notin Routing \cup {"undoNAT"} => me.natTodo = <<>>
  /\ at \in {"listClients", "settings", "detect"} => me.tunnelsTodo = Enabled(me.tunnels)
  /\ at \in {"settings", "detect"} => me.clientsTodo = Enabled(me.clients)

(* The routes planned are those of the upstreams behind, are in the kernel and go *)
(* through interfaces that are up.                                            *)
RoutesPlaced ==
  at \in Routing => /\ me.tunnelsTodo \subseteq Enabled(me.tunnels)
                    /\ me.next.routes = RoutesOf(me)
                    /\ me.next.routes \subseteq routes
                    /\ \A q \in me.next.routes : q.dev \in links

(* The rules planned are those of the clients behind and are in the kernel; under the *)
(* block policy no client behind was offline; clients come after upstreams.   *)
RulesPlaced ==
  at \in Routing => /\ me.clientsTodo \subseteq Enabled(me.clients)
                    /\ me.tunnelsTodo # {} => me.clientsTodo = Enabled(me.clients)
                    /\ me.next.rules = RulesOf(me)
                    /\ me.next.rules \subseteq rules
                    /\ me.policy = "block" => OfflineIn(me) \subseteq me.clientsTodo

(* The NAT rules planned count the clients behind, those of an upstream by its *)
(* interface and the direct ones by the uplink.                               *)
NATPlanned ==
  at \in Routing => /\ IsFiniteSet(Enabled(me.clients) \ me.clientsTodo)
                    /\ \A r \in NATRules : Count(me.nat, r) =
                         Cardinality(ViaTunnel(me, r)) + Cardinality(ViaExt(me, r))

(* What has been appended is a prefix of the plan and is in the kernel, and the saved *)
(* file is the plan.                                                          *)
NATPlaced ==
  /\ at \in Routing => /\ Len(me.natTodo) <= Len(me.nat)
                       /\ \A n \in 1..Len(me.natTodo) : me.natTodo[n] = me.nat[n]
                       /\ \A r \in NATRules : nat[r] >= Count(me.natTodo, r)
  /\ at \in {"savedNAT", "writePolicy"} => natFile = me.nat

(* Nothing is saved before everything is placed.                              *)
AllPlaced == at \in Routing \ {"place"} =>
               me.tunnelsTodo = {} /\ me.clientsTodo = {} /\ Len(me.natTodo) = Len(me.nat)

(* The invariant of one Apply: what is behind it has been done.               *)
Progress == /\ LinksRaised /\ NothingPlaced /\ RoutesPlaced
            /\ RulesPlaced /\ NATPlanned /\ NATPlaced /\ AllPlaced

(* An Apply that has not brought anything up yet is behind nothing. *)
LEMMA EarlyProgress ==
  ASSUME at' \notin Raised \cup {"upIngress"}, ~me'.failed,
         me'.next = EmptyPolicy, me'.nat = <<>>,
         at' # "undoNAT" => me'.natTodo = <<>>
  PROVE  Progress'
BY DEF Progress, LinksRaised, NothingPlaced, RoutesPlaced, RulesPlaced, NATPlanned, NATPlaced,
       AllPlaced, Raised, Raising, Listing, Routing

(* Nor is a goroutine that is at rest or has just begun ...                   *)
LEMMA FreshProgress ==
  ASSUME at' \in {"idle", "load"}, me' = Fresh
  PROVE  Progress'
BY EarlyProgress DEF Fresh, Raised, Raising, Listing, Routing

(* ... so an Apply may give up anywhere.                                      *)
LEMMA AbortProgress == ASSUME Aborts PROVE Progress'
BY FreshProgress DEF Aborts

(* What is behind depends on what was read and on what is still to do alone.  *)
LEMMA SamePlaced ==
  ASSUME NEW l, NEW m, m.tunnels = l.tunnels, m.clients = l.clients, m.ext = l.ext,
         m.tunnelsTodo = l.tunnelsTodo, m.clientsTodo = l.clientsTodo
  PROVE  /\ RoutesOf(m) = RoutesOf(l) /\ RulesOf(m) = RulesOf(l) /\ OfflineIn(m) = OfflineIn(l)
         /\ \A r : ViaTunnel(m, r) = ViaTunnel(l, r) /\ ViaExt(m, r) = ViaExt(l, r)
BY DEF RoutesOf, RulesOf, ViaTunnel, ViaExt, OfflineIn, RoutedIn, DirectIn, RouteOf, RuleOf,
   NATOf, Enabled

(* A step that leaves the kernel, the files and the locals alone.             *)
LEMMA SteadyProgress ==
  ASSUME Progress, at' = at, SameReads, SamePlan, SameTodo, SameUndo, me'.failed = me.failed,
         UNCHANGED <<kernel, files>>
  PROVE  Progress'
<1>1. UNCHANGED <<rules, routes, nat, links, peers, polFile, natFile, wgFile>>
  BY DEF kernel, files
<1>2. /\ RoutesOf(me') = RoutesOf(me) /\ RulesOf(me') = RulesOf(me)
      /\ OfflineIn(me') = OfflineIn(me)
      /\ \A r : ViaTunnel(me', r) = ViaTunnel(me, r) /\ ViaExt(me', r) = ViaExt(me, r)
  BY SamePlaced DEF SameReads, SameTodo
<1>3. LinksRaised'
  BY <1>1 DEF Progress, LinksRaised, SameReads, SamePlan, SameTodo, SameUndo
<1>4. NothingPlaced'
  BY <1>1 DEF Progress, NothingPlaced, SameReads, SamePlan, SameTodo, SameUndo
<1>5. RoutesPlaced'
  BY <1>1, <1>2 DEF Progress, RoutesPlaced, SameReads, SamePlan, SameTodo, SameUndo
<1>6. RulesPlaced'
  BY <1>1, <1>2 DEF Progress, RulesPlaced, SameReads, SamePlan, SameTodo, SameUndo
<1>7. NATPlanned'
  BY <1>1, <1>2 DEF Progress, NATPlanned, SameReads, SamePlan, SameTodo, SameUndo
<1>8. NATPlaced'
  BY <1>1 DEF Progress, NATPlaced, SameReads, SamePlan, SameTodo, SameUndo
<1>9. AllPlaced'
  BY <1>1 DEF Progress, AllPlaced, SameReads, SamePlan, SameTodo, SameUndo
<1> QED BY <1>3, <1>4, <1>5, <1>6, <1>7, <1>8, <1>9 DEF Progress

(* The rollback is behind nothing, whatever it finds and whatever fails.      *)
LEMMA RollbackProgress ==
  ASSUME TypeOK, Progress, Rollback(Boot)
  PROVE  Progress'
<1>0. /\ at \notin Raised \cup {"upIngress"} => ~me.failed /\ me.next = EmptyPolicy /\ me.nat = <<>>
      /\ at \notin Raised \cup {"upIngress", "undoNAT"} => me.natTodo = <<>>
  BY DEF Progress, LinksRaised, NothingPlaced, Raised, Raising, Listing, Routing
<1>1. CASE LoadPolicy(Boot)
  BY <1>0, <1>1, LoadPolicyEffect, EarlyProgress
     DEF SamePlan, SameUndo, SameFlags, Raised, Raising, Listing, Routing
<1>2. CASE UndoRule(Boot)
  BY <1>0, <1>2, UndoRuleEffect, EarlyProgress
     DEF SamePlan, SameUndo, SameFlags, Raised, Raising, Listing, Routing
<1>3. CASE FlushTable(Boot)
  BY <1>0, <1>3, FlushTableEffect, EarlyProgress
     DEF SamePlan, SameUndo, SameFlags, Raised, Raising, Listing, Routing
<1>4. CASE LoadNATState(Boot)
  BY <1>0, <1>4, LoadNATStateEffect, EarlyProgress
     DEF SamePlan, SameFlags, Raised, Raising, Listing, Routing
<1>5. CASE UndoNAT(Boot)
  BY <1>0, <1>5, UndoNATEffect, EarlyProgress
     DEF SamePlan, SameFlags, Raised, Raising, Listing, Routing
<1>6. CASE LoadWGRuntime(Boot)
  BY <1>0, <1>6, LoadWGRuntimeEffect, AbortProgress, EarlyProgress
     DEF SamePlan, SameFlags, Raised, Raising, Listing, Routing
<1>7. CASE Down(Boot)
  BY <1>0, <1>7, DownEffect, EarlyProgress
     DEF SamePlan, SameFlags, Raised, Raising, Listing, Routing
<1> QED BY <1>1, <1>2, <1>3, <1>4, <1>5, <1>6, <1>7 DEF Rollback

(* The interfaces in the list for the runtime file, with one appended ...     *)
LEMMA RangeAppend ==
  ASSUME NEW S, NEW s \in Seq(S), NEW x \in S
  PROVE  Range1(Append(s, x)) = Range1(s) \cup {x}
<1> DEFINE t == Append(s, x)
<1>1. /\ DOMAIN s = 1..Len(s) /\ Len(s) \in Nat
      /\ DOMAIN t = 1..(Len(s) + 1)
      /\ \A n \in 1..Len(s) : t[n] = s[n]
      /\ t[Len(s) + 1] = x
  OBVIOUS
<1> HIDE DEF t
<1>2. {t[n] : n \in 1..(Len(s) + 1)} = {s[n] : n \in 1..Len(s)} \cup {x}
  <2>1. ASSUME NEW n \in 1..(Len(s) + 1) PROVE n \in 1..Len(s) \/ n = Len(s) + 1
    BY <1>1
  <2>2. 1..Len(s) \subseteq 1..(Len(s) + 1) /\ Len(s) + 1 \in 1..(Len(s) + 1)
    BY <1>1
  <2> QED BY <1>1, <2>1, <2>2
<1> QED BY <1>1, <1>2 DEF Range1, t

(* ... and in a list of one.                                                  *)
LEMMA RangeOne == \A x : Range1(<<x>>) = {x}
BY DEF Range1

(* An upstream is behind once its interface is up or it has failed.           *)
LEMMA UpTunnelProgress ==
  ASSUME TypeOK, Progress, UpTunnel(Boot)
  PROVE  Progress'
<1>1. PICK t \in me.tunnelsTodo :
        /\ me'.tunnelsTodo = me.tunnelsTodo \ {t}
        /\ \/ /\ links' = links \cup {me.tunnels[t].iface}
              /\ me'.paths = Append(me.paths, me.tunnels[t].iface)
              /\ me'.failed = me.failed
           \/ me'.failed /\ me'.paths = me.paths /\ UNCHANGED links
  BY UpTunnelEffect
<1>2. /\ at = "upTunnels" /\ at' = "upTunnels" /\ SameReads /\ SamePlan
      /\ me'.natTodo = me.natTodo /\ peers' = peers
  BY UpTunnelEffect
<1>3. /\ me.tunnelsTodo \subseteq Configured(me.tunnels)
      /\ ~me.failed => Range1(me.paths) = {me.ingress.iface} \cup
           {me.tunnels[u].iface : u \in Configured(me.tunnels) \ me.tunnelsTodo}
      /\ peers = me.peers /\ Range1(me.paths) \subseteq links
      /\ me.next = EmptyPolicy /\ me.nat = <<>> /\ me.natTodo = <<>>
  BY <1>2 DEF Progress, LinksRaised, NothingPlaced, Raised, Raising, Routing
<1>4. me.tunnels[t].iface \in Ifaces /\ me.paths \in Seq(Ifaces)
  BY MyType, FieldTypes, TableTypes DEF TunnelRows
<1>5. Range1(Append(me.paths, me.tunnels[t].iface)) = Range1(me.paths) \cup {me.tunnels[t].iface}
  BY <1>4, RangeAppend
<1>6. LinksRaised'
  <2>1. Range1(me'.paths) \subseteq links'
    BY <1>1, <1>3, <1>5
  <2>2. ~me'.failed => Range1(me'.paths) = {me'.ingress.iface} \cup
          {me'.tunnels[u].iface : u \in Configured(me'.tunnels) \ me'.tunnelsTodo}
    <3> SUFFICES ASSUME ~me'.failed
                 PROVE  Range1(me'.paths) = {me'.ingress.iface} \cup
                   {me'.tunnels[u].iface : u \in Configured(me'.tunnels) \ me'.tunnelsTodo}
      OBVIOUS
    <3>1. ~me.failed /\ Range1(me'.paths) = Range1(me.paths) \cup {me.tunnels[t].iface}
      BY <1>1, <1>5
    <3>2. t \in Configured(me.tunnels)
      BY <1>3
    <3> QED BY <1>1, <1>2, <1>3, <3>1, <3>2 DEF SameReads
  <2> QED BY <1>1, <1>2, <1>3, <2>1, <2>2
             DEF LinksRaised, SameReads, Raised, Raising, Listing, Routing
<1>7. NothingPlaced'
  BY <1>2, <1>3 DEF NothingPlaced, SamePlan, Routing
<1> QED BY <1>2, <1>6, <1>7
           DEF Progress, RoutesPlaced, RulesPlaced, NATPlanned, NATPlaced, AllPlaced, Routing

(* syncWireGuard as a whole.                                                  *)
LEMMA SyncProgress ==
  ASSUME TypeOK, Progress, SyncWireGuard(Boot)
  PROVE  Progress'
<1> USE DEF Raised, Raising, Listing, Routing
<1>0. /\ at \notin Raised \cup {"upIngress"} => ~me.failed /\ me.next = EmptyPolicy /\ me.nat = <<>>
      /\ at \notin Raised \cup {"upIngress", "undoNAT"} => me.natTodo = <<>>
  BY DEF Progress, LinksRaised, NothingPlaced
<1>1. CASE ReadIngress(Boot)
  BY <1>0, <1>1, ReadIngressEffect, AbortProgress, EarlyProgress
     DEF SamePlan, SameUndo, SameFlags
<1>2. CASE Heal(Boot)
  BY <1>0, <1>2, HealEffect, AbortProgress, EarlyProgress
<1>3. CASE ReadPeers(Boot)
  BY <1>0, <1>3, ReadPeersEffect, AbortProgress, EarlyProgress DEF SamePlan, SameUndo, SameFlags
<1>4. CASE ReadTunnels(Boot) /\ ~Aborts
  <2>1. /\ at = "tunnels" /\ at' = "upIngress"
        /\ me'.tunnels = db.tunnels /\ me'.tunnelsTodo = Configured(db.tunnels)
        /\ SamePlan /\ SameUndo /\ SameFlags
    BY <1>4, ReadTunnelsEffect
  <2> QED BY <1>0, <2>1 DEF Progress, LinksRaised, NothingPlaced, RoutesPlaced, RulesPlaced,
                            NATPlanned, NATPlaced, AllPlaced, SamePlan, SameUndo, SameFlags
<1>5. CASE UpIngress(Boot) /\ ~Aborts
  <2>1. /\ at = "upIngress" /\ at' = "upTunnels"
        /\ links' = links \cup {me.ingress.iface} /\ peers' = me.peers
        /\ me'.paths = <<me.ingress.iface>>
        /\ SameReads /\ SamePlan /\ SameTodo /\ SameFlags /\ me'.natTodo = me.natTodo
    BY <1>5, UpIngressEffect
  <2>2. /\ me.tunnelsTodo = Configured(me.tunnels) /\ ~me.failed
        /\ me.next = EmptyPolicy /\ me.nat = <<>> /\ me.natTodo = <<>>
    BY <2>1 DEF Progress, LinksRaised, NothingPlaced
  <2>3. Range1(me'.paths) = {me.ingress.iface}
    BY <2>1, RangeOne
  <2> QED BY <2>1, <2>2, <2>3
             DEF Progress, LinksRaised, NothingPlaced, RoutesPlaced, RulesPlaced,
             NATPlanned, NATPlaced, AllPlaced, SameReads, SamePlan, SameTodo, SameFlags
<1>6. CASE UpTunnel(Boot)
  BY <1>6, UpTunnelProgress
<1>7. CASE TruncateRuntime(Boot)
  <2>1. /\ at = "upTunnels" /\ at' = "writeRuntime" /\ me.tunnelsTodo = {} /\ me' = me
        /\ UNCHANGED kernel
    BY <1>7, TruncateRuntimeEffect
  <2> QED BY <2>1 DEF Progress, LinksRaised, NothingPlaced, RoutesPlaced, RulesPlaced,
                      NATPlanned, NATPlaced, AllPlaced, kernel
<1>8. CASE WriteRuntime(Boot)
  <2>1. /\ at = "writeRuntime" /\ wgFile' = me.paths /\ UNCHANGED kernel
        /\ (at' = "idle" /\ me' = Fresh) \/ (at' = "listTunnels" /\ me' = me)
    BY <1>8, WriteRuntimeEffect
  <2>2. CASE at' = "idle" /\ me' = Fresh
    BY <2>2, FreshProgress
  <2>3. CASE at' = "listTunnels" /\ me' = me
    BY <2>1, <2>3 DEF Progress, LinksRaised, NothingPlaced, RoutesPlaced, RulesPlaced,
                      NATPlanned, NATPlaced, AllPlaced, kernel
  <2> QED BY <2>1, <2>2, <2>3
<1> QED BY <1>1, <1>2, <1>3, <1>4, <1>5, <1>6, <1>7, <1>8, AbortProgress DEF SyncWireGuard

(* Each of the three reads sets its loop up anew.                             *)
LEMMA ListingProgress ==
  ASSUME TypeOK, Progress, ~Aborts,
         ListUpstreamTunnels(Boot) \/ ListClients(Boot) \/ GetSystemSettings(Boot)
  PROVE  Progress'
<1> USE DEF Raised, Raising, Listing, Routing
<1>1. /\ at \in Listing /\ at' \in Listing \ {"listTunnels"}
      /\ at' \in {"listClients", "settings", "detect"} => me'.tunnelsTodo = Enabled(me'.tunnels)
      /\ at' \in {"settings", "detect"} => me'.clientsTodo = Enabled(me'.clients)
      /\ me'.peers = me.peers /\ SamePlan /\ SameUndo /\ SameFlags
      /\ UNCHANGED <<kernel, files>>
  <2>1. CASE ListUpstreamTunnels(Boot)
    BY <2>1, ListUpstreamTunnelsEffect
  <2>2. CASE ListClients(Boot)
    BY <2>2, ListClientsEffect DEF Progress, NothingPlaced
  <2>3. CASE GetSystemSettings(Boot)
    BY <2>3, GetSystemSettingsEffect DEF Progress, NothingPlaced, SameTodo
  <2> QED BY <2>1, <2>2, <2>3
<1>2. LinksRaised' /\ NothingPlaced'
  BY <1>1 DEF Progress, LinksRaised, NothingPlaced, SamePlan, SameUndo, SameFlags, kernel, files
<1> QED BY <1>1, <1>2 DEF Progress, RoutesPlaced, RulesPlaced, NATPlanned, NATPlaced, AllPlaced

(* With the uplink known the loops start with nothing behind them.            *)
LEMMA DetectProgress ==
  ASSUME TypeOK, Progress, DetectExternalInterface(Boot)
  PROVE  Progress'
<1> USE DEF Raised, Raising, Listing, Routing
<1>1. /\ at = "detect" /\ at' = "place"
      /\ me'.ingress = me.ingress /\ me'.peers = me.peers
      /\ me'.tunnels = me.tunnels /\ me'.clients = me.clients
      /\ SamePlan /\ SameTodo /\ SameUndo /\ SameFlags
      /\ UNCHANGED <<kernel, files>>
  BY DetectExternalInterfaceEffect
<1>2. /\ me'.tunnelsTodo = Enabled(me'.tunnels) /\ me'.clientsTodo = Enabled(me'.clients)
      /\ me'.next.rules = {} /\ me'.next.routes = {} /\ me'.nat = <<>> /\ me'.natTodo = <<>>
  BY <1>1 DEF Progress, NothingPlaced, SamePlan, SameTodo, SameUndo, EmptyPolicy
<1>3. /\ RoutesOf(me') = {} /\ RulesOf(me') = {} /\ OfflineIn(me') \subseteq me'.clientsTodo
      /\ \A r : ViaTunnel(me', r) = {} /\ ViaExt(me', r) = {}
  BY <1>2 DEF RoutesOf, RulesOf, ViaTunnel, ViaExt, RoutedIn, DirectIn, OfflineIn
<1>4. LinksRaised' /\ NothingPlaced'
  BY <1>1 DEF Progress, LinksRaised, NothingPlaced, SamePlan, SameUndo, SameFlags, kernel, files
<1>5. RoutesPlaced' /\ RulesPlaced'
  BY <1>2, <1>3 DEF RoutesPlaced, RulesPlaced
<1>6. NATPlanned'
  <2>1. Enabled(me'.clients) \ me'.clientsTodo = {}
    BY <1>2
  <2>2. \A r : Count(me'.nat, r) = 0
    BY <1>2, CountEmpty
  <2>3. \A r : Cardinality(ViaTunnel(me', r)) = 0 /\ Cardinality(ViaExt(me', r)) = 0
    BY <1>3, FS_EmptySet
  <2> QED BY <2>1, <2>2, <2>3, FS_EmptySet DEF NATPlanned
<1>7. NATPlaced'
  <2>1. \A r \in NATRules : nat'[r] \in Nat
    BY <1>1 DEF TypeOK, kernel
  <2>2. \A r : Count(me'.natTodo, r) = 0
    BY <1>2, CountEmpty
  <2>3. Len(me'.natTodo) = 0 /\ Len(me'.nat) = 0
    BY <1>2
  <2> QED BY <1>1, <2>1, <2>2, <2>3 DEF NATPlaced
<1>8. AllPlaced'
  BY <1>1 DEF AllPlaced
<1> QED BY <1>4, <1>5, <1>6, <1>7, <1>8 DEF Progress

(* An upstream more is behind: `ip route replace` drops the route of no other table. *)
LEMMA AddRouteProgress ==
  ASSUME TypeOK, Progress, AddRoute(Boot)
  PROVE  Progress'
<1> USE DEF Raised, Raising, Listing, Routing
<1>0. at = "place"
  BY AddRouteEffect
<1>1. CASE Aborts
  BY <1>1, AbortProgress
<1>2. CASE ~Aborts
  <2>1. PICK t \in me.tunnelsTodo :
          /\ at' = "place" /\ me.tunnels[t].iface \in links
          /\ routes' = {q \in routes : q.table # RoutingTableID(t)} \cup {RouteOf(me, t)}
          /\ me'.tunnelsTodo = me.tunnelsTodo \ {t} /\ me'.clientsTodo = me.clientsTodo
          /\ me'.next.routes = me.next.routes \cup {RouteOf(me, t)}
          /\ me'.next.rules = me.next.rules /\ me'.nat = me.nat
          /\ SameReads /\ SameUndo /\ SameFlags
          /\ UNCHANGED <<rules, nat, links, peers, files>>
    BY <1>2, AddRouteEffect
  <2>2. /\ me.tunnelsTodo \subseteq Enabled(me.tunnels) /\ me.clientsTodo = Enabled(me.clients)
        /\ me.next.routes = RoutesOf(me) /\ me.next.routes \subseteq routes
        /\ \A q \in me.next.routes : q.dev \in links
    BY <1>0, <2>1 DEF Progress, RoutesPlaced, RulesPlaced
  <2>3. RoutesOf(me') = RoutesOf(me) \cup {RouteOf(me, t)}
    <3>1. Enabled(me'.tunnels) \ me'.tunnelsTodo = (Enabled(me.tunnels) \ me.tunnelsTodo) \cup {t}
      BY <2>1, <2>2 DEF SameReads
    <3>2. \A u : RouteOf(me', u) = RouteOf(me, u)
      BY <2>1 DEF SameReads, RouteOf
    <3> QED BY <3>1, <3>2 DEF RoutesOf
  <2>4. me.next.routes \subseteq routes'
    <3>0. t \in Tunnels
      BY MyType, FieldTypes, TableTypes
    <3>1. \A u \in Tunnels : u # t => RoutingTableID(u) # RoutingTableID(t)
      BY <3>0, IdsAreNat DEF RoutingTableID
    <3>2. \A q \in me.next.routes : q.table # RoutingTableID(t)
      <4>1. \A u \in Enabled(me.tunnels) \ me.tunnelsTodo : u # t /\ u \in Tunnels
        BY <2>1, MyType, FieldTypes, TableTypes DEF Enabled
      <4> QED BY <2>2, <3>1, <4>1 DEF RoutesOf, RouteOf
    <3> QED BY <2>1, <2>2, <3>2
  <2>5. RoutesPlaced'
    BY <2>1, <2>2, <2>3, <2>4 DEF RoutesPlaced, SameReads, RouteOf
  <2>6. /\ RulesOf(me') = RulesOf(me) /\ OfflineIn(me') = OfflineIn(me)
        /\ \A r : ViaTunnel(me', r) = ViaTunnel(me, r) /\ ViaExt(me', r) = ViaExt(me, r)
    BY <2>1 DEF SameReads, RulesOf, OfflineIn, ViaTunnel, ViaExt, RoutedIn, DirectIn, RuleOf,
       NATOf
  <2>7. RulesPlaced'
    BY <1>0, <2>1, <2>2, <2>6 DEF Progress, RulesPlaced, SameReads
  <2>8. NATPlanned' /\ NATPlaced'
    BY <1>0, <2>1, <2>6 DEF Progress, NATPlanned, NATPlaced, SameReads, SameUndo
  <2>9. LinksRaised' /\ NothingPlaced' /\ AllPlaced'
    BY <1>0, <2>1 DEF Progress, LinksRaised, NothingPlaced, AllPlaced, SameReads, SameUndo,
       SameFlags, files
  <2> QED BY <2>5, <2>7, <2>8, <2>9 DEF Progress
<1> QED BY <1>1, <1>2

(* One client more has been gone through. *)
OneClientOn(l, m, c) ==
  /\ c \in l.clientsTodo /\ c \in Enabled(l.clients)
  /\ m.clients = l.clients /\ m.tunnels = l.tunnels /\ m.ext = l.ext
  /\ m.clientsTodo = l.clientsTodo \ {c}

(* What that adds to the rules and to the users of each NAT rule.             *)
LEMMA OneClientOnPlaced ==
  ASSUME NEW l, NEW m, NEW c, OneClientOn(l, m, c)
  PROVE  /\ RulesOf(m) = IF c \in RoutedIn(l) THEN RulesOf(l) \cup {RuleOf(l, c)} ELSE RulesOf(l)
         /\ OfflineIn(m) = OfflineIn(l)
         /\ \A r : /\ ViaTunnel(m, r) = IF c \in RoutedIn(l) /\ NATOf(l, c) = r
                                        THEN ViaTunnel(l, r) \cup {c} ELSE ViaTunnel(l, r)
                   /\ ViaExt(m, r) = IF c \in DirectIn(l) /\ l.clients[c].addr = r.from /\ l.ext = r.out
                                     THEN ViaExt(l, r) \cup {c} ELSE ViaExt(l, r)
<1>1. RoutedIn(m) = RoutedIn(l) /\ DirectIn(m) = DirectIn(l) /\ OfflineIn(m) = OfflineIn(l)
  BY DEF OneClientOn, RoutedIn, DirectIn, OfflineIn
<1>2. \A x : RuleOf(m, x) = RuleOf(l, x) /\ NATOf(m, x) = NATOf(l, x)
  BY DEF OneClientOn, RuleOf, NATOf
<1>3. RoutedIn(m) \ m.clientsTodo = IF c \in RoutedIn(l) THEN (RoutedIn(l) \ l.clientsTodo) \cup {c}
                                    ELSE RoutedIn(l) \ l.clientsTodo
  BY <1>1 DEF OneClientOn
<1>4. DirectIn(m) \ m.clientsTodo = IF c \in DirectIn(l) THEN (DirectIn(l) \ l.clientsTodo) \cup {c}
                                    ELSE DirectIn(l) \ l.clientsTodo
  BY <1>1 DEF OneClientOn
<1>5. RulesOf(m) = IF c \in RoutedIn(l) THEN RulesOf(l) \cup {RuleOf(l, c)} ELSE RulesOf(l)
  BY <1>2, <1>3 DEF RulesOf
<1>6. ASSUME NEW r
      PROVE  ViaTunnel(m, r) = IF c \in RoutedIn(l) /\ NATOf(l, c) = r
                               THEN ViaTunnel(l, r) \cup {c} ELSE ViaTunnel(l, r)
  BY <1>2, <1>3 DEF ViaTunnel
<1>7. ASSUME NEW r
      PROVE  ViaExt(m, r) = IF c \in DirectIn(l) /\ l.clients[c].addr = r.from /\ l.ext = r.out
                            THEN ViaExt(l, r) \cup {c} ELSE ViaExt(l, r)
  BY <1>4 DEF ViaExt, OneClientOn
<1> QED BY <1>1, <1>5, <1>6, <1>7

(* The clients gone through are finitely many, and so are those of any NAT rule. *)
LEMMA PlacedFinite ==
  ASSUME NEW l, IsFiniteSet(Enabled(l.clients) \ l.clientsTodo), NEW r
  PROVE  /\ IsFiniteSet(ViaTunnel(l, r)) /\ Cardinality(ViaTunnel(l, r)) \in Nat
         /\ IsFiniteSet(ViaExt(l, r)) /\ Cardinality(ViaExt(l, r)) \in Nat
<1>1. ViaTunnel(l, r) \subseteq Enabled(l.clients) \ l.clientsTodo
  BY DEF ViaTunnel, RoutedIn
<1>2. ViaExt(l, r) \subseteq Enabled(l.clients) \ l.clientsTodo
  BY DEF ViaExt, DirectIn
<1> QED BY <1>1, <1>2, FS_Subset, FS_CardinalityType

(* Finitely many clients stay finitely many with one more behind.             *)
LEMMA OneClientOnFinite ==
  ASSUME NEW l, NEW m, NEW c, OneClientOn(l, m, c),
         IsFiniteSet(Enabled(l.clients) \ l.clientsTodo)
  PROVE  IsFiniteSet(Enabled(m.clients) \ m.clientsTodo)
<1>1. Enabled(m.clients) \ m.clientsTodo = (Enabled(l.clients) \ l.clientsTodo) \cup {c}
  BY DEF OneClientOn
<1> QED BY <1>1, FS_AddElement

(* So it adds one to the count of its own NAT rule and nothing to the others. *)
LEMMA OneClientOnNAT ==
  ASSUME NEW l, NEW m, NEW c, OneClientOn(l, m, c),
         IsFiniteSet(Enabled(l.clients) \ l.clientsTodo)
  PROVE  /\ \A r : Cardinality(ViaTunnel(m, r)) =
                    IF c \in RoutedIn(l) /\ NATOf(l, c) = r
                    THEN Cardinality(ViaTunnel(l, r)) + 1 ELSE Cardinality(ViaTunnel(l, r))
         /\ \A r : Cardinality(ViaExt(m, r)) =
                    IF c \in DirectIn(l) /\ l.clients[c].addr = r.from /\ l.ext = r.out
                    THEN Cardinality(ViaExt(l, r)) + 1 ELSE Cardinality(ViaExt(l, r))
<1>3. ASSUME NEW r
      PROVE  /\ Cardinality(ViaTunnel(l, r) \cup {c}) = Cardinality(ViaTunnel(l, r)) + 1
             /\ Cardinality(ViaExt(l, r) \cup {c}) = Cardinality(ViaExt(l, r)) + 1
  <2>1. c \notin ViaTunnel(l, r) /\ c \notin ViaExt(l, r)
    BY DEF OneClientOn, ViaTunnel, ViaExt
  <2> QED BY <2>1, PlacedFinite, FS_AddElement
<1>4. ASSUME NEW r
      PROVE  /\ ViaTunnel(m, r) = IF c \in RoutedIn(l) /\ NATOf(l, c) = r
                                  THEN ViaTunnel(l, r) \cup {c} ELSE ViaTunnel(l, r)
             /\ ViaExt(m, r) = IF c \in DirectIn(l) /\ l.clients[c].addr = r.from /\ l.ext = r.out
                               THEN ViaExt(l, r) \cup {c} ELSE ViaExt(l, r)
  BY OneClientOnPlaced
<1> QED BY <1>3, <1>4

(* What the three ways of going through a client have in common. *)
LEMMA ClientProgress ==
  ASSUME TypeOK, Progress, at = "place", at' = "place",
         me.tunnelsTodo = {}, me'.tunnelsTodo = {},
         SameReads, SameUndo, SameFlags, UNCHANGED <<routes, nat, links, peers, files>>,
         me'.next.routes = me.next.routes,
         NEW c \in me.clientsTodo, me'.clientsTodo = me.clientsTodo \ {c}
  PROVE  /\ OneClientOn(me, me', c)
         /\ LinksRaised' /\ NothingPlaced' /\ RoutesPlaced' /\ AllPlaced'
         /\ Len(me.natTodo) <= Len(me'.nat)
            /\ (\A n \in 1..Len(me.natTodo) : me.natTodo[n] = me'.nat[n]) => NATPlaced'
         /\ me.policy = "block" => OfflineIn(me) \subseteq me.clientsTodo
         /\ me.next.rules = RulesOf(me) /\ me.next.rules \subseteq rules
         /\ IsFiniteSet(Enabled(me.clients) \ me.clientsTodo)
<1> USE DEF Raised, Raising, Listing, Routing
<1>1. OneClientOn(me, me', c)
  BY DEF OneClientOn, Progress, RulesPlaced, SameReads
<1>2. LinksRaised' /\ NothingPlaced' /\ AllPlaced'
  BY DEF Progress, LinksRaised, NothingPlaced, AllPlaced, SameReads, SameUndo, SameFlags, files
<1>3. RoutesPlaced'
  <2>1. RoutesOf(me') = RoutesOf(me)
    BY DEF RoutesOf, RouteOf, SameReads
  <2> QED BY <2>1 DEF Progress, RoutesPlaced, SameReads
<1>4. /\ Len(me.natTodo) <= Len(me'.nat)
      /\ \A n \in 1..Len(me.natTodo) : me.natTodo[n] = me'.nat[n]
      => NATPlaced'
  BY DEF Progress, NATPlaced, SameUndo
<1>5. /\ me.policy = "block" => OfflineIn(me) \subseteq me.clientsTodo
      /\ me.next.rules = RulesOf(me) /\ me.next.rules \subseteq rules
      /\ IsFiniteSet(Enabled(me.clients) \ me.clientsTodo)
  BY DEF Progress, RulesPlaced, NATPlanned
<1> QED BY <1>1, <1>2, <1>3, <1>4, <1>5

(* A client that is passed over adds nothing, and is not offline under block. *)
LEMMA SkipClientProgress ==
  ASSUME TypeOK, Progress, SkipClient(Boot)
  PROVE  Progress'
<1> USE DEF Raised, Raising, Listing, Routing
<1>1. /\ at = "place" /\ at' = "place" /\ me.tunnelsTodo = {} /\ me'.tunnelsTodo = {}
      /\ SameReads /\ SamePlan /\ SameUndo /\ SameFlags /\ UNCHANGED <<kernel, files>>
  BY SkipClientEffect
<1>2. PICK c \in me.clientsTodo :
        /\ me'.clientsTodo = me.clientsTodo \ {c}
        /\ \/ me.clients[c].addr \notin Addrs
           \/ /\ me.clients[c].via # Direct /\ me.clients[c].via \notin Enabled(me.tunnels)
              /\ me.policy = "ignore"
  BY SkipClientEffect
<1>3. c \notin RoutedIn(me) /\ c \notin DirectIn(me) /\ (me.policy = "block" => c \notin OfflineIn(me))
  BY <1>2 DEF RoutedIn, DirectIn, OfflineIn
<1>4. /\ OneClientOn(me, me', c)
      /\ LinksRaised' /\ NothingPlaced' /\ RoutesPlaced' /\ AllPlaced'
      /\ Len(me.natTodo) <= Len(me'.nat)
         /\ (\A n \in 1..Len(me.natTodo) : me.natTodo[n] = me'.nat[n]) => NATPlaced'
      /\ me.policy = "block" => OfflineIn(me) \subseteq me.clientsTodo
      /\ me.next.rules = RulesOf(me) /\ me.next.rules \subseteq rules
      /\ IsFiniteSet(Enabled(me.clients) \ me.clientsTodo)
  BY <1>1, <1>2, ClientProgress DEF SamePlan, kernel
<1>5. RulesPlaced'
  <2>1. RulesOf(me') = RulesOf(me) /\ OfflineIn(me') = OfflineIn(me)
    BY <1>3, <1>4, OneClientOnPlaced
  <2> QED BY <1>1, <1>2, <1>3, <1>4, <2>1 DEF RulesPlaced, Progress, SamePlan, SameReads, kernel
<1>6. NATPlanned'
  <2>1. IsFiniteSet(Enabled(me'.clients) \ me'.clientsTodo)
    BY <1>4, OneClientOnFinite
  <2>2. ASSUME NEW r
        PROVE  /\ Cardinality(ViaTunnel(me', r)) = Cardinality(ViaTunnel(me, r))
               /\ Cardinality(ViaExt(me', r)) = Cardinality(ViaExt(me, r))
    <3>1. OneClientOn(me, me', c) /\ IsFiniteSet(Enabled(me.clients) \ me.clientsTodo)
      BY <1>4
    <3>2. /\ \A g : Cardinality(ViaTunnel(me', g)) =
                       IF c \in RoutedIn(me) /\ NATOf(me, c) = g
                       THEN Cardinality(ViaTunnel(me, g)) + 1 ELSE Cardinality(ViaTunnel(me, g))
          /\ \A g : Cardinality(ViaExt(me', g)) =
                       IF c \in DirectIn(me) /\ me.clients[c].addr = g.from /\ me.ext = g.out
                       THEN Cardinality(ViaExt(me, g)) + 1 ELSE Cardinality(ViaExt(me, g))
      BY <3>1, OneClientOnNAT
    <3> QED BY <1>3, <3>2
  <2> QED BY <1>1, <2>1, <2>2 DEF NATPlanned, Progress, SamePlan
<1>7. NATPlaced'
  BY <1>1, <1>4 DEF Progress, NATPlaced, SamePlan
<1> QED BY <1>4, <1>5, <1>6, <1>7 DEF Progress

(* A plan that grows keeps its prefix.                                        *)
LEMMA PrefixAppend ==
  ASSUME NEW S, NEW s \in Seq(S), NEW y \in S, NEW t \in Seq(S),
         Len(t) <= Len(s), \A n \in 1..Len(t) : t[n] = s[n]
  PROVE  Len(t) <= Len(Append(s, y)) /\ \A n \in 1..Len(t) : t[n] = Append(s, y)[n]
OBVIOUS

(* A direct client adds its NAT rule to the plan, as the count asks, or has none *)
(* because the uplink is unknown.                                             *)
LEMMA PlaceDirectProgress ==
  ASSUME TypeOK, Progress, PlaceDirect(Boot)
  PROVE  Progress'
<1> USE DEF Raised, Raising, Listing, Routing
<1>1. /\ at = "place" /\ at' = "place" /\ me.tunnelsTodo = {} /\ me'.tunnelsTodo = {}
      /\ SameReads /\ SameUndo /\ SameFlags /\ UNCHANGED <<kernel, files>> /\ me'.next = me.next
  BY PlaceDirectEffect
<1>2. PICK c \in me.clientsTodo :
        /\ me'.clientsTodo = me.clientsTodo \ {c}
        /\ me.clients[c].addr \in Addrs /\ me.clients[c].via = Direct
        /\ me'.nat = IF me.ext = NoIface THEN me.nat
                     ELSE Append(me.nat, [from |-> me.clients[c].addr, out |-> me.ext])
  BY PlaceDirectEffect
<1> DEFINE q == [from |-> me.clients[c].addr, out |-> me.ext]
<1>4. /\ OneClientOn(me, me', c)
      /\ LinksRaised' /\ NothingPlaced' /\ RoutesPlaced' /\ AllPlaced'
      /\ Len(me.natTodo) <= Len(me'.nat)
         /\ (\A n \in 1..Len(me.natTodo) : me.natTodo[n] = me'.nat[n]) => NATPlaced'
      /\ me.policy = "block" => OfflineIn(me) \subseteq me.clientsTodo
      /\ me.next.rules = RulesOf(me) /\ me.next.rules \subseteq rules
      /\ IsFiniteSet(Enabled(me.clients) \ me.clientsTodo)
  BY <1>1, <1>2, ClientProgress DEF kernel
<1>3. c \notin RoutedIn(me) /\ c \in DirectIn(me) /\ c \notin OfflineIn(me)
  <2>1. Direct \notin Enabled(me.tunnels)
    BY MyType, FieldTypes, TableTypes, IdsAreNat DEF Direct, Enabled
  <2> QED BY <1>2, <1>4, <2>1 DEF RoutedIn, DirectIn, OfflineIn, OneClientOn
<1>5. RulesPlaced'
  <2>1. RulesOf(me') = RulesOf(me) /\ OfflineIn(me') = OfflineIn(me)
    BY <1>3, <1>4, OneClientOnPlaced
  <2> QED BY <1>1, <1>2, <1>3, <1>4, <2>1 DEF RulesPlaced, Progress, SameReads, kernel
<1>6. me.nat \in Seq(NATRules) /\ me.natTodo \in Seq(NATRules)
      /\ (me.ext # NoIface => q \in NATRules)
  BY <1>2, MyType, FieldTypes DEF NATRules, OutIfaces
<1>7. NATPlanned'
  <2>1. IsFiniteSet(Enabled(me'.clients) \ me'.clientsTodo)
    BY <1>4, OneClientOnFinite
  <2>2. ASSUME NEW r \in NATRules
        PROVE  Count(me'.nat, r) = Cardinality(ViaTunnel(me', r)) + Cardinality(ViaExt(me', r))
    <3>1. /\ Cardinality(ViaTunnel(me', r)) = Cardinality(ViaTunnel(me, r))
          /\ Cardinality(ViaExt(me', r)) = IF me.clients[c].addr = r.from /\ me.ext = r.out
               THEN Cardinality(ViaExt(me, r)) + 1 ELSE Cardinality(ViaExt(me, r))
      <4>1. OneClientOn(me, me', c) /\ IsFiniteSet(Enabled(me.clients) \ me.clientsTodo)
        BY <1>4
      <4>2. /\ \A g : Cardinality(ViaTunnel(me', g)) =
                         IF c \in RoutedIn(me) /\ NATOf(me, c) = g
                         THEN Cardinality(ViaTunnel(me, g)) + 1 ELSE Cardinality(ViaTunnel(me, g))
            /\ \A g : Cardinality(ViaExt(me', g)) =
                         IF c \in DirectIn(me) /\ me.clients[c].addr = g.from /\ me.ext = g.out
                         THEN Cardinality(ViaExt(me, g)) + 1 ELSE Cardinality(ViaExt(me, g))
        BY <4>1, OneClientOnNAT
      <4> HIDE DEF q
      <4> QED BY <1>3, <4>2
    <3>2. Count(me.nat, r) = Cardinality(ViaTunnel(me, r)) + Cardinality(ViaExt(me, r))
      BY <1>1 DEF Progress, NATPlanned
    <3>3. /\ Cardinality(ViaTunnel(me, r)) \in Nat /\ Cardinality(ViaExt(me, r)) \in Nat
      BY <1>4, PlacedFinite
    <3>4. CASE me.ext = NoIface
      <4>1. me.ext # r.out
        BY <3>4, NamesApart DEF NATRules
      <4> QED BY <1>2, <3>1, <3>2, <3>4, <4>1
    <3>5. CASE me.ext # NoIface
      <4>1. q = r <=> me.clients[c].addr = r.from /\ me.ext = r.out
        BY DEF NATRules
      <4>2. Count(me'.nat, r) = IF q = r THEN Count(me.nat, r) + 1 ELSE Count(me.nat, r)
        BY <1>2, <1>6, <3>5, CountAppend
      <4> HIDE DEF q
      <4> QED BY <3>1, <3>2, <3>3, <4>1, <4>2
    <3> QED BY <3>4, <3>5
  <2> QED BY <2>1, <2>2 DEF NATPlanned
<1>8. NATPlaced'
  <2>1. Len(me.natTodo) <= Len(me.nat) /\ \A n \in 1..Len(me.natTodo) : me.natTodo[n] = me.nat[n]
    BY <1>1 DEF Progress, NATPlaced
  <2>2. CASE me.ext = NoIface
    BY <1>2, <1>4, <2>1, <2>2
  <2>3. CASE me.ext # NoIface
    BY <1>2, <1>4, <1>6, <2>1, <2>3, PrefixAppend
  <2> QED BY <2>2, <2>3
<1> QED BY <1>4, <1>5, <1>7, <1>8 DEF Progress

(* A client of an upstream adds its ip rule and its NAT rule.                 *)
LEMMA PlaceRoutedProgress ==
  ASSUME TypeOK, Progress, PlaceRouted(Boot)
  PROVE  Progress'
<1> USE DEF Raised, Raising, Listing, Routing
<1>1. CASE Aborts
  BY <1>1, AbortProgress
<1>2. CASE ~Aborts
  <2>0. at = "place" /\ me.tunnelsTodo = {}
    BY PlaceRoutedEffect
  <2>1. PICK c \in me.clientsTodo :
          /\ me.clients[c].addr \in Addrs
          /\ me.clients[c].via # Direct /\ me.clients[c].via \in Enabled(me.tunnels)
          /\ at' = "place"
          /\ rules' = rules \cup {RuleOf(me, c)}
          /\ me'.clientsTodo = me.clientsTodo \ {c} /\ me'.tunnelsTodo = me.tunnelsTodo
          /\ me'.next.rules = me.next.rules \cup {RuleOf(me, c)}
          /\ me'.next.routes = me.next.routes
          /\ me'.nat = Append(me.nat, NATOf(me, c))
          /\ SameReads /\ SameUndo /\ SameFlags
          /\ UNCHANGED <<db, routes, nat, links, peers, files>>
    BY <1>2, PlaceRoutedEffect
  <2>2. /\ OneClientOn(me, me', c)
        /\ LinksRaised' /\ NothingPlaced' /\ RoutesPlaced' /\ AllPlaced'
        /\ Len(me.natTodo) <= Len(me'.nat)
           /\ (\A n \in 1..Len(me.natTodo) : me.natTodo[n] = me'.nat[n]) => NATPlaced'
        /\ me.policy = "block" => OfflineIn(me) \subseteq me.clientsTodo
        /\ me.next.rules = RulesOf(me) /\ me.next.rules \subseteq rules
        /\ IsFiniteSet(Enabled(me.clients) \ me.clientsTodo)
    BY <2>0, <2>1, ClientProgress
  <2>3. c \in RoutedIn(me) /\ c \notin DirectIn(me) /\ c \notin OfflineIn(me)
    BY <2>1, <2>2 DEF RoutedIn, DirectIn, OfflineIn, OneClientOn
  <2>4. RulesPlaced'
    <3>1. RulesOf(me') = RulesOf(me) \cup {RuleOf(me, c)} /\ OfflineIn(me') = OfflineIn(me)
      BY <2>2, <2>3, OneClientOnPlaced
    <3> QED BY <2>0, <2>1, <2>2, <2>3, <3>1 DEF RulesPlaced, Progress, SameReads
  <2>5. me.nat \in Seq(NATRules) /\ me.natTodo \in Seq(NATRules) /\ NATOf(me, c) \in NATRules
    <3>1. me.clients[c].via \in DOMAIN me.tunnels
      BY <2>1 DEF Enabled
    <3> QED BY <2>1, <3>1, MyType, FieldTypes, TableTypes
               DEF NATRules, OutIfaces, NATOf, TunnelRows
  <2>6. NATPlanned'
    <3>1. IsFiniteSet(Enabled(me'.clients) \ me'.clientsTodo)
      BY <2>2, OneClientOnFinite
    <3>2. ASSUME NEW r \in NATRules
          PROVE  Count(me'.nat, r) = Cardinality(ViaTunnel(me', r)) + Cardinality(ViaExt(me', r))
      <4>1. /\ Cardinality(ViaExt(me', r)) = Cardinality(ViaExt(me, r))
            /\ Cardinality(ViaTunnel(me', r)) = IF NATOf(me, c) = r
                 THEN Cardinality(ViaTunnel(me, r)) + 1 ELSE Cardinality(ViaTunnel(me, r))
        <5>1. OneClientOn(me, me', c) /\ IsFiniteSet(Enabled(me.clients) \ me.clientsTodo)
          BY <2>2
        <5>2. /\ \A g : Cardinality(ViaTunnel(me', g)) =
                           IF c \in RoutedIn(me) /\ NATOf(me, c) = g
                           THEN Cardinality(ViaTunnel(me, g)) + 1 ELSE Cardinality(ViaTunnel(me, g))
              /\ \A g : Cardinality(ViaExt(me', g)) =
                           IF c \in DirectIn(me) /\ me.clients[c].addr = g.from /\ me.ext = g.out
                           THEN Cardinality(ViaExt(me, g)) + 1 ELSE Cardinality(ViaExt(me, g))
          BY <5>1, OneClientOnNAT
        <5> QED BY <2>3, <5>2
      <4>2. Count(me.nat, r) = Cardinality(ViaTunnel(me, r)) + Cardinality(ViaExt(me, r))
        BY <2>0 DEF Progress, NATPlanned
      <4>3. /\ Cardinality(ViaTunnel(me, r)) \in Nat /\ Cardinality(ViaExt(me, r)) \in Nat
        BY <2>2, PlacedFinite
      <4>4. Count(me'.nat, r) = IF NATOf(me, c) = r THEN Count(me.nat, r) + 1 ELSE Count(me.nat, r)
        BY <2>1, <2>5, CountAppend
      <4> QED BY <4>1, <4>2, <4>3, <4>4
    <3> QED BY <3>1, <3>2 DEF NATPlanned
  <2>7. NATPlaced'
    <3>1. Len(me.natTodo) <= Len(me.nat) /\ \A n \in 1..Len(me.natTodo) : me.natTodo[n] = me.nat[n]
      BY <2>0 DEF Progress, NATPlaced
    <3>2. Len(me.natTodo) <= Len(Append(me.nat, NATOf(me, c)))
          /\ \A n \in 1..Len(me.natTodo) : me.natTodo[n] = Append(me.nat, NATOf(me, c))[n]
      BY <2>5, <3>1, PrefixAppend
    <3>3. Len(me.natTodo) <= Len(me'.nat)
          /\ \A n \in 1..Len(me.natTodo) : me.natTodo[n] = me'.nat[n]
      BY <2>1, <3>2
    <3> QED BY <2>2, <3>3
  <2> QED BY <2>2, <2>4, <2>6, <2>7 DEF Progress
<1> QED BY <1>1, <1>2

(* The next NAT rule of the plan is in the kernel once more.                  *)
LEMMA AppendNATProgress ==
  ASSUME TypeOK, Progress, AppendNAT(Boot)
  PROVE  Progress'
<1> USE DEF Raised, Raising, Listing, Routing
<1> DEFINE r == me.nat[Len(me.natTodo) + 1]
<1>1. CASE Aborts
  BY <1>1, AbortProgress
<1>2. CASE ~Aborts
  <2>1. /\ at = "place" /\ at' = "place" /\ me.tunnelsTodo = {} /\ me.clientsTodo = {}
        /\ Len(me.natTodo) < Len(me.nat)
        /\ nat' = [nat EXCEPT ![r] = @ + 1]
        /\ me'.natTodo = Append(me.natTodo, r) /\ me'.paths = me.paths
        /\ SameReads /\ SamePlan /\ SameTodo /\ SameFlags
        /\ UNCHANGED <<db, rules, routes, links, peers, files>>
    BY <1>2, AppendNATEffect
  <2>2. /\ RoutesOf(me') = RoutesOf(me) /\ RulesOf(me') = RulesOf(me)
        /\ OfflineIn(me') = OfflineIn(me)
        /\ \A q : ViaTunnel(me', q) = ViaTunnel(me, q) /\ ViaExt(me', q) = ViaExt(me, q)
    BY <2>1, SamePlaced DEF SameReads, SameTodo
  <2>3. LinksRaised' /\ NothingPlaced' /\ AllPlaced'
    BY <2>1 DEF Progress, LinksRaised, NothingPlaced, AllPlaced, SameReads, SameFlags,
       SameTodo, files
  <2>4. RoutesPlaced' /\ RulesPlaced'
    BY <2>1, <2>2 DEF Progress, RoutesPlaced, RulesPlaced, SameReads, SameTodo, SamePlan
  <2>5. NATPlanned'
    BY <2>1, <2>2 DEF Progress, NATPlanned, SameReads, SameTodo, SamePlan
  <2>6. /\ me.nat \in Seq(NATRules) /\ me.natTodo \in Seq(NATRules)
        /\ nat \in [NATRules -> Nat]
    BY MyType, FieldTypes DEF TypeOK
  <2>7. r \in NATRules
    BY <2>1, <2>6
  <2>8. /\ Len(me.natTodo) <= Len(me.nat)
        /\ \A n \in 1..Len(me.natTodo) : me.natTodo[n] = me.nat[n]
        /\ \A q \in NATRules : nat[q] >= Count(me.natTodo, q)
    BY <2>1 DEF Progress, NATPlaced
  <2>9. /\ Len(me'.natTodo) <= Len(me'.nat)
        /\ \A n \in 1..Len(me'.natTodo) : me'.natTodo[n] = me'.nat[n]
    BY <2>1, <2>6, <2>7, <2>8 DEF SamePlan
  <2>10. \A q \in NATRules : nat'[q] >= Count(me'.natTodo, q)
    <3> SUFFICES ASSUME NEW q \in NATRules PROVE nat'[q] >= Count(me'.natTodo, q)
      OBVIOUS
    <3>1. Count(me'.natTodo, q) = IF r = q THEN Count(me.natTodo, q) + 1 ELSE Count(me.natTodo, q)
      BY <2>1, <2>6, <2>7, CountAppend
    <3>2. Count(me.natTodo, q) \in Nat
      BY <2>6, CountNat
    <3>3. nat'[q] = IF r = q THEN nat[q] + 1 ELSE nat[q]
      BY <2>1, <2>6, <2>7
    <3> HIDE DEF r
    <3> QED BY <2>6, <2>8, <3>1, <3>2, <3>3
  <2>11. NATPlaced'
    BY <2>1, <2>9, <2>10 DEF NATPlaced
  <2> QED BY <2>3, <2>4, <2>5, <2>11 DEF Progress
<1> QED BY <1>1, <1>2

(* Saving starts when everything is placed and changes nothing in the kernel. *)
LEMMA SavingProgress ==
  ASSUME TypeOK, Progress,
         TruncateNAT(Boot) \/ WriteNAT(Boot) \/ TruncatePolicy(Boot) \/ WritePolicy(Boot)
  PROVE  Progress'
<1> USE DEF Raised, Raising, Listing, Routing
<1>1. CASE WritePolicy(Boot)
  BY <1>1, SavingEffects, FreshProgress
<1>2. CASE ~WritePolicy(Boot)
  <2>1. /\ at \in Routing /\ at' \in Routing \ {"place"} /\ me' = me
        /\ at = "place" => me.tunnelsTodo = {} /\ me.clientsTodo = {} /\ Len(me.natTodo) = Len(me.nat)
        /\ at' \in {"savedNAT", "writePolicy"} => natFile' = me.nat
        /\ UNCHANGED <<kernel, wgFile>>
    <3>1. CASE TruncateNAT(Boot)
      BY <3>1, SavingEffects
    <3>2. CASE WriteNAT(Boot)
      BY <3>2, SavingEffects
    <3>3. CASE TruncatePolicy(Boot)
      BY <3>3, SavingEffects DEF Progress, NATPlaced
    <3> QED BY <1>2, <3>1, <3>2, <3>3
  <2>2. UNCHANGED <<rules, routes, nat, links, peers>>
    BY <2>1 DEF kernel
  <2>3. LinksRaised' /\ NothingPlaced'
    BY <2>1, <2>2 DEF Progress, LinksRaised, NothingPlaced
  <2>4. RoutesPlaced' /\ RulesPlaced' /\ NATPlanned'
    BY <2>1, <2>2 DEF Progress, RoutesPlaced, RulesPlaced, NATPlanned
  <2>5. NATPlaced' /\ AllPlaced'
    BY <2>1, <2>2 DEF Progress, NATPlaced, AllPlaced
  <2> QED BY <2>3, <2>4, <2>5 DEF Progress
<1> QED BY <1>1, <1>2

(* Requests come one after the other and none is served during the startup   *)
(* Apply: then one goroutine at a time is in Apply, and one is enough.       *)
Alone == Jobs = {Boot}

(* The steps there are when one goroutine applies.                            *)
LEMMA AloneNext ==
  ASSUME Alone, [Next]_vars
  PROVE  \/ Rollback(Boot) \/ SyncWireGuard(Boot) \/ Route(Boot) \/ Persist(Boot)
         \/ Mutate(Boot) \/ SystemApply(Boot) \/ Cancel(Boot) \/ DiskFull(Boot)
         \/ SilentMutate \/ Reboot \/ Kill \/ UNCHANGED vars
BY DEF Alone, Next, ApplyStep

(* So no step whatever, fault or restart breaks the invariant ...             *)
LEMMA ProgressStep ==
  ASSUME Alone, TypeOK, Progress, [Next]_vars
  PROVE  Progress'
<1>1. CASE Rollback(Boot)
  BY <1>1, RollbackProgress
<1>2. CASE SyncWireGuard(Boot)
  BY <1>2, SyncProgress
<1>3. CASE Route(Boot)
  <2>1. CASE Aborts
    BY <2>1, AbortProgress
  <2>2. CASE ~Aborts
    BY <1>3, <2>2, ListingProgress, DetectProgress, AddRouteProgress, SkipClientProgress,
       RefuseOfflineEffect, PlaceDirectProgress, PlaceRoutedProgress DEF Route
  <2> QED BY <2>1, <2>2
<1>4. CASE Persist(Boot)
  BY <1>4, AppendNATProgress, SavingProgress DEF Persist
<1>5. CASE Mutate(Boot) \/ SystemApply(Boot)
  <2>1. at = "idle" /\ at' = "load" /\ me' = me
    BY <1>5, BeginEffect
  <2>2. ~me.failed /\ me.next = EmptyPolicy /\ me.nat = <<>> /\ me.natTodo = <<>>
    BY <2>1 DEF Progress, LinksRaised, NothingPlaced, Raised, Raising, Listing, Routing
  <2> QED BY <2>1, <2>2, EarlyProgress DEF Raised, Raising, Listing, Routing
<1>6. CASE Cancel(Boot)
  BY <1>6, CancelEffect, SteadyProgress
<1>7. CASE DiskFull(Boot)
  BY <1>7, DiskFullEffect, AbortProgress
<1>8. CASE SilentMutate
  <2>1. at' = at /\ me' = me /\ UNCHANGED <<kernel, files>>
    BY <1>8, SilentEffect
  <2> QED BY <2>1, SteadyProgress DEF SameReads, SamePlan, SameTodo, SameUndo
<1>9. CASE Reboot \/ Kill
  BY <1>9, RestartEffect, FreshProgress
<1>10. CASE UNCHANGED vars
  <2>1. at' = at /\ me' = me /\ UNCHANGED <<kernel, files>>
    BY <1>10 DEF vars, at, me, kernel, files
  <2> QED BY <2>1, SteadyProgress DEF SameReads, SamePlan, SameTodo, SameUndo
<1> QED BY <1>1, <1>2, <1>3, <1>4, <1>5, <1>6, <1>7, <1>8, <1>9, <1>10, AloneNext

(* ... which holds when the process starts.                                   *)
LEMMA InitProgress == Init => Progress
<1> SUFFICES ASSUME Init PROVE Progress
  OBVIOUS
<1>1. at = "load" /\ me = Fresh
  BY BootIsJob DEF Init, at, me
<1> QED BY <1>1 DEF Fresh, Progress, LinksRaised, NothingPlaced, RoutesPlaced, RulesPlaced,
       NATPlanned, NATPlaced, AllPlaced, Raised, Raising, Listing, Routing

(* What Apply has read is what the database holds. *)
Current ==
  /\ at \in Syncing \cup Raised => me.ingress.iface = db.ingress.iface
  /\ at \in {"tunnels", "upIngress"} \cup Raised => me.peers = Enabled(db.clients)
  /\ at \in {"upIngress"} \cup Raised => me.tunnels = db.tunnels
  /\ at \in Listing \cup Routing =>
       Range1(me.paths) = {db.ingress.iface} \cup {db.tunnels[t].iface : t \in Configured(db.tunnels)}
  /\ at \in {"settings", "detect"} \cup Routing => me.clients = db.clients
  /\ at \in {"detect"} \cup Routing => me.policy = db.policy
  /\ at = "detect" => me.ext = db.ext
  /\ at \in Routing => me.ext \in {ExtOf(db), NoIface}

(* An Apply that has read nothing yet.                                        *)
LEMMA EarlyCurrent == ASSUME at' \notin Syncing \cup Raised PROVE Current'
BY DEF Current, Syncing, Raised, Raising, Listing, Routing

(* A step that reads nothing and commits nothing.                             *)
LEMMA SteadyCurrent ==
  ASSUME Current, at' = at \/ {at, at'} \subseteq Routing, UNCHANGED db,
         me'.ingress = me.ingress, me'.peers = me.peers, me'.tunnels = me.tunnels,
         me'.clients = me.clients, me'.policy = me.policy, me'.ext = me.ext, me'.paths = me.paths
  PROVE  Current'
BY DEF Current, ExtOf, Syncing, Raised, Raising, Listing, Routing

(* Healing changes the ingress row but for its interface.                     *)
LEMMA SyncCurrent ==
  ASSUME TypeOK, Progress, Current, SyncWireGuard(Boot)
  PROVE  Current'
<1> USE DEF Syncing, Raised, Raising, Listing, Routing
<1>0. CASE Aborts
  BY <1>0, EarlyCurrent DEF Aborts
<1>1. CASE ReadIngress(Boot) /\ ~Aborts
  BY <1>1, ReadIngressEffect DEF Current
<1>2. CASE Heal(Boot) /\ ~Aborts
  <2>1. /\ at = "heal" /\ at' = "peers" /\ me' = me
        /\ db' = [db EXCEPT !.ingress = [iface |-> me.ingress.iface, sane |-> TRUE]]
    BY <1>2, HealEffect
  <2>2. db'.ingress.iface = me.ingress.iface
    BY <2>1 DEF TypeOK, DbType
  <2> QED BY <2>1, <2>2 DEF Current
<1>3. CASE ReadPeers(Boot) /\ ~Aborts
  BY <1>3, ReadPeersEffect DEF Current
<1>4. CASE ReadTunnels(Boot) /\ ~Aborts
  BY <1>4, ReadTunnelsEffect DEF Current
<1>5. CASE UpIngress(Boot) /\ ~Aborts
  BY <1>5, UpIngressEffect DEF Current, SameReads
<1>6. CASE UpTunnel(Boot)
  BY <1>6, UpTunnelEffect DEF Current, SameReads
<1>7. CASE TruncateRuntime(Boot)
  BY <1>7, TruncateRuntimeEffect DEF Current
<1>8. CASE WriteRuntime(Boot)
  <2>1. /\ at = "writeRuntime" /\ UNCHANGED db
        /\ at' = "idle" \/ (~me.failed /\ at' = "listTunnels" /\ me' = me)
    BY <1>8, WriteRuntimeEffect DEF kernel
  <2>2. ~me.failed => Range1(me.paths) = {me.ingress.iface} \cup
                                           {me.tunnels[t].iface : t \in Configured(me.tunnels)}
    BY <2>1 DEF Progress, LinksRaised
  <2> QED BY <2>1, <2>2 DEF Current
<1> QED BY <1>0, <1>1, <1>2, <1>3, <1>4, <1>5, <1>6, <1>7, <1>8 DEF SyncWireGuard

(* The second look at the tables sees what the first one saw.                 *)
LEMMA RouteCurrent ==
  ASSUME TypeOK, Current, Route(Boot)
  PROVE  Current'
<1> USE DEF Syncing, Raised, Raising, Listing, Routing
<1>0. CASE Aborts
  BY <1>0, EarlyCurrent DEF Aborts
<1>1. CASE ListUpstreamTunnels(Boot) /\ ~Aborts
  BY <1>1, ListUpstreamTunnelsEffect DEF Current, SameUndo
<1>2. CASE ListClients(Boot) /\ ~Aborts
  BY <1>2, ListClientsEffect DEF Current, SameUndo
<1>3. CASE GetSystemSettings(Boot) /\ ~Aborts
  BY <1>3, GetSystemSettingsEffect DEF Current, SameUndo
<1>4. CASE DetectExternalInterface(Boot)
  <2>1. /\ at = "detect" /\ at' = "place"
        /\ me'.ingress = me.ingress /\ me'.peers = me.peers
        /\ me'.tunnels = me.tunnels /\ me'.clients = me.clients /\ me'.policy = me.policy
        /\ SameUndo /\ UNCHANGED db
    BY <1>4, DetectExternalInterfaceEffect
  <2>2. me'.ext \in {ExtOf(db), NoIface}
    BY <1>4, <2>1, DetectExternalInterfaceEffect DEF Current, ExtOf
  <2>3. ExtOf(db)' = ExtOf(db)
    BY <2>1 DEF ExtOf
  <2> QED BY <2>1, <2>2, <2>3 DEF Current, SameUndo
<1>5. CASE AddRoute(Boot) /\ ~Aborts
  BY <1>5, AddRouteEffect, SteadyCurrent DEF SameReads, SameUndo
<1>6. CASE SkipClient(Boot)
  BY <1>6, SkipClientEffect, SteadyCurrent DEF SameReads, SameUndo
<1>7. CASE RefuseOffline(Boot)
  BY <1>7, <1>0, RefuseOfflineEffect
<1>8. CASE PlaceDirect(Boot)
  BY <1>8, PlaceDirectEffect, SteadyCurrent DEF SameReads, SameUndo
<1>9. CASE PlaceRouted(Boot) /\ ~Aborts
  BY <1>9, PlaceRoutedEffect, SteadyCurrent DEF SameReads, SameUndo
<1> QED BY <1>0, <1>1, <1>2, <1>3, <1>4, <1>5, <1>6, <1>7, <1>8, <1>9 DEF Route

(* Only requests that apply commit to the database.  *)
NoSilence == SilentDatabases = {}

(* When nobody commits beside an Apply, what it has read stays true ...       *)
LEMMA CurrentStep ==
  ASSUME Alone, NoSilence, TypeOK, Progress, Current, [Next]_vars
  PROVE  Current'
<1> USE DEF Syncing, Raised, Raising, Listing, Routing
<1>0. CASE Aborts
  BY <1>0, EarlyCurrent DEF Aborts
<1>1. CASE Rollback(Boot) /\ ~Aborts
  BY <1>1, LoadPolicyEffect, UndoRuleEffect, FlushTableEffect, LoadNATStateEffect,
     UndoNATEffect, LoadWGRuntimeEffect, DownEffect, EarlyCurrent DEF Rollback
<1>2. CASE SyncWireGuard(Boot)
  BY <1>2, SyncCurrent
<1>3. CASE Route(Boot)
  BY <1>3, RouteCurrent
<1>4. CASE Persist(Boot) /\ ~Aborts
  <2>1. CASE AppendNAT(Boot)
    BY <1>4, <2>1, AppendNATEffect, SteadyCurrent DEF SameReads
  <2>2. CASE TruncateNAT(Boot) \/ WriteNAT(Boot) \/ TruncatePolicy(Boot)
    BY <2>2, SavingEffects, SteadyCurrent
  <2>3. CASE WritePolicy(Boot)
    BY <2>3, SavingEffects, EarlyCurrent
  <2> QED BY <1>4, <2>1, <2>2, <2>3 DEF Persist
<1>5. CASE Mutate(Boot) \/ SystemApply(Boot)
  BY <1>5, BeginEffect, EarlyCurrent
<1>6. CASE Cancel(Boot)
  BY <1>6, CancelEffect, SteadyCurrent DEF SameReads, SameUndo
<1>7. CASE DiskFull(Boot)
  BY <1>0, <1>7, DiskFullEffect
<1>8. CASE SilentMutate
  BY <1>8, SilentEffect DEF NoSilence
<1>9. CASE Reboot \/ Kill
  BY <1>9, RestartEffect, EarlyCurrent
<1>10. CASE UNCHANGED vars
  <2>1. at' = at /\ me' = me /\ UNCHANGED db
    BY <1>10 DEF vars, at, me
  <2> QED BY <2>1, SteadyCurrent
<1> QED BY <1>0, <1>1, <1>2, <1>3, <1>4, <1>5, <1>6, <1>7, <1>8, <1>9, <1>10, AloneNext

(* ... and at the start nothing has been read.                                *)
LEMMA InitCurrent == Init => Current
<1> SUFFICES ASSUME Init PROVE Current
  OBVIOUS
<1>1. at = "load"
  BY BootIsJob DEF Init, at
<1> QED BY <1>1 DEF Current, Syncing, Raised, Raising, Listing, Routing

(* An Apply ends without an error in one way only, by saving the policy; a    *)
(* node at rest without an error came there so, or was there before.         *)
LEMMA QuietOnlyBySaving ==
  ASSUME Alone, TypeOK, [Next]_vars, at' = "idle", ~lastErr'
  PROVE  \/ WritePolicy(Boot)
         \/ at = "idle" /\ ~lastErr /\ (SilentMutate \/ UNCHANGED vars)
<1>0. ~Aborts
  BY DEF Aborts
<1>1. CASE Rollback(Boot)
  BY <1>0, <1>1, LoadPolicyEffect, UndoRuleEffect, FlushTableEffect, LoadNATStateEffect,
     UndoNATEffect, LoadWGRuntimeEffect, DownEffect DEF Rollback
<1>2. CASE SyncWireGuard(Boot)
  BY <1>0, <1>2, ReadIngressEffect, HealEffect, ReadPeersEffect, ReadTunnelsEffect,
     UpIngressEffect, UpTunnelEffect, TruncateRuntimeEffect, WriteRuntimeEffect DEF
     SyncWireGuard
<1>3. CASE Route(Boot)
  BY <1>0, <1>3, ListUpstreamTunnelsEffect, ListClientsEffect, GetSystemSettingsEffect,
     DetectExternalInterfaceEffect, AddRouteEffect, SkipClientEffect, RefuseOfflineEffect,
     PlaceDirectEffect, PlaceRoutedEffect DEF Route
<1>4. CASE Persist(Boot)
  BY <1>0, <1>4, AppendNATEffect, SavingEffects DEF Persist
<1>5. CASE Mutate(Boot) \/ SystemApply(Boot) \/ Cancel(Boot) \/ DiskFull(Boot) \/ Reboot \/ Kill
  BY <1>0, <1>5, BeginEffect, CancelEffect, DiskFullEffect, RestartEffect
<1>6. CASE SilentMutate \/ UNCHANGED vars
  BY <1>6, SilentEffect DEF vars, at
<1> QED BY <1>1, <1>2, <1>3, <1>4, <1>5, <1>6, AloneNext

(* No request enables an upstream whose configuration is empty. *)
Configurable(d) == \A t \in Enabled(d.tunnels) : d.tunnels[t].conf # "empty"
AllConfigured == \A d \in Databases \cup InitialDatabases : Configurable(d)

(* What holds of the node whenever no Apply is under way and none has failed. *)
Served == Installed(db) /\ (db.policy = "block" => OfflineIn(db) = {})
(* The files say how to undo it.  An enabled upstream with an empty configuration *)
(* is not brought up, so its interface, left behind by a refused `awg-quick down`, *)
(* can carry a route without being in the runtime file.                       *)
Recorded == /\ polFile = [rules |-> WantRules(db), routes |-> WantRoutes(db)]
            /\ \E e \in {ExtOf(db), NoIface} : NATRecorded(db, e)
            /\ wgFile # Torn
            /\ Configurable(db) => Range1(wgFile) = WantLinks(db)

(* A prefix of full length is the whole.                                      *)
LEMMA SamePrefix ==
  ASSUME NEW S, NEW s \in Seq(S), NEW t \in Seq(S), Len(s) = Len(t),
         \A n \in 1..Len(s) : s[n] = t[n]
  PROVE  s = t
OBVIOUS

(* At the end of Apply everything has been placed, and for the rows of db. *)
LEMMA PlacedWanted ==
  ASSUME TypeOK, Progress, Current, at = "writePolicy"
  PROVE  /\ me.tunnelsTodo = {} /\ me.clientsTodo = {} /\ me.natTodo = me.nat
         /\ RoutesOf(me) = WantRoutes(db) /\ RulesOf(me) = WantRules(db)
         /\ OfflineIn(me) = OfflineIn(db) /\ me.policy = db.policy
         /\ \A r \in NATRules : /\ Cardinality(ViaTunnel(me, r)) = RoutedNAT(db, r)
                                /\ Cardinality(ViaExt(me, r)) = DirectVia(db, me.ext, r)
         /\ \A r : /\ Cardinality(ViaTunnel(me, r)) \in Nat
                   /\ Cardinality(ViaExt(me, r)) \in Nat
<1> USE DEF Raised, Raising, Listing, Routing
<1>1. me.tunnelsTodo = {} /\ me.clientsTodo = {} /\ Len(me.natTodo) = Len(me.nat)
  BY DEF Progress, AllPlaced
<1>2. me.natTodo = me.nat
  <2>1. me.nat \in Seq(NATRules) /\ me.natTodo \in Seq(NATRules)
    BY MyType, FieldTypes
  <2>2. \A n \in 1..Len(me.natTodo) : me.natTodo[n] = me.nat[n]
    BY DEF Progress, NATPlaced
  <2> QED BY <1>1, <2>1, <2>2, SamePrefix
<1>3. me.tunnels = db.tunnels /\ me.clients = db.clients /\ me.policy = db.policy
  BY DEF Current
<1>4. RoutesOf(me) = WantRoutes(db)
  BY <1>1, <1>3 DEF RoutesOf, RouteOf, WantRoutes
<1>5. RoutedIn(me) = RoutedIn(db) /\ OfflineIn(me) = OfflineIn(db)
  BY <1>3 DEF RoutedIn, OfflineIn
<1>6. RulesOf(me) = WantRules(db)
  BY <1>1, <1>3, <1>5 DEF RulesOf, RuleOf, WantRules
<1>7. ASSUME NEW r \in NATRules
      PROVE  Cardinality(ViaTunnel(me, r)) = RoutedNAT(db, r)
  <2>1. \A c : NATOf(me, c) = r <=> /\ db.clients[c].addr = r.from
                                    /\ db.tunnels[db.clients[c].via].iface = r.out
    BY <1>3 DEF NATOf, NATRules
  <2>2. ViaTunnel(me, r) = {c \in RoutedIn(db) : /\ db.clients[c].addr = r.from
                                                  /\ db.tunnels[db.clients[c].via].iface = r.out}
    BY <1>1, <1>5, <2>1 DEF ViaTunnel
  <2> QED BY <2>2 DEF RoutedNAT
<1>8. ASSUME NEW r
      PROVE  /\ Cardinality(ViaTunnel(me, r)) \in Nat
             /\ Cardinality(ViaExt(me, r)) \in Nat
  <2>1. IsFiniteSet(Enabled(me.clients) \ me.clientsTodo)
    BY DEF Progress, NATPlanned
  <2> QED BY <2>1, PlacedFinite
<1>9. ASSUME NEW r \in NATRules
      PROVE  Cardinality(ViaExt(me, r)) = DirectVia(db, me.ext, r)
  <2>1. ViaExt(me, r) = {c \in DirectIn(db) : db.clients[c].addr = r.from /\ r.out = me.ext}
    BY <1>1, <1>3 DEF ViaExt, DirectIn
  <2> QED BY <2>1 DEF DirectVia
<1> QED BY <1>1, <1>2, <1>3, <1>4, <1>5, <1>6, <1>7, <1>8, <1>9

(* By then the NAT file counts every client, a direct one by the uplink found. *)
LEMMA NATSaved ==
  ASSUME TypeOK, Progress, Current, at = "writePolicy"
  PROVE  NATRecorded(db, me.ext)
<1> USE DEF Routing
<1>1. natFile = me.nat /\ natFile # Torn
  BY MyType, FieldTypes, TornIsNoContent DEF Progress, NATPlaced
<1>2. ASSUME NEW r \in NATRules
      PROVE  Count(me.nat, r) = RoutedNAT(db, r) + DirectVia(db, me.ext, r)
  BY PlacedWanted DEF Progress, NATPlanned
<1> QED BY <1>1, <1>2 DEF NATRecorded

(* An Apply that succeeds has installed the database and recorded it.         *)
LEMMA WritePolicyServes ==
  ASSUME TypeOK, Progress, Current, WritePolicy(Boot)
  PROVE  Served' /\ Recorded'
<1> USE DEF Raised, Raising, Listing, Routing
<1>1. /\ at = "writePolicy"
      /\ UNCHANGED <<db, rules, routes, nat, links, peers, natFile, wgFile>> /\ polFile' = me.next
  BY SavingEffects DEF kernel
<1>2. /\ me.tunnelsTodo = {} /\ me.clientsTodo = {} /\ me.natTodo = me.nat
      /\ RoutesOf(me) = WantRoutes(db) /\ RulesOf(me) = WantRules(db)
      /\ OfflineIn(me) = OfflineIn(db) /\ me.policy = db.policy
      /\ \A r \in NATRules : Cardinality(ViaTunnel(me, r)) = RoutedNAT(db, r)
      /\ \A r : /\ Cardinality(ViaTunnel(me, r)) \in Nat
                /\ Cardinality(ViaExt(me, r)) \in Nat
  BY <1>1, PlacedWanted
<1>3. me.next = [rules |-> WantRules(db), routes |-> WantRoutes(db)]
  <2>1. me.next.rules = WantRules(db) /\ me.next.routes = WantRoutes(db)
    BY <1>1, <1>2 DEF Progress, RoutesPlaced, RulesPlaced
  <2>2. me.next \in PolicyStates
    BY MyType, FieldTypes
  <2> QED BY <2>1, <2>2 DEF PolicyStates
<1>4. /\ WantRules(db) \subseteq rules /\ WantRoutes(db) \subseteq routes
      /\ \A q \in WantRoutes(db) : q.dev \in links
  BY <1>1, <1>2 DEF Progress, RoutesPlaced, RulesPlaced
<1>5. ASSUME NEW r \in NATRules
      PROVE  nat[r] >= RoutedNAT(db, r)
  <2>1. Count(me.nat, r) = RoutedNAT(db, r) + Cardinality(ViaExt(me, r))
    BY <1>1, <1>2 DEF Progress, NATPlanned
  <2>2. nat[r] >= Count(me.nat, r)
    BY <1>1, <1>2 DEF Progress, NATPlaced
  <2>3. RoutedNAT(db, r) \in Nat /\ Cardinality(ViaExt(me, r)) \in Nat /\ nat[r] \in Nat
    BY <1>2 DEF TypeOK
  <2> QED BY <2>1, <2>2, <2>3
<1>6. /\ peers = Enabled(db.clients)
      /\ wgFile = me.paths /\ natFile = me.nat
      /\ Range1(me.paths) \subseteq links
      /\ Range1(me.paths) = {db.ingress.iface} \cup {db.tunnels[t].iface : t \in Configured(db.tunnels)}
  BY <1>1 DEF Progress, LinksRaised, NATPlaced, Current
<1>7. WantLinks(db) \subseteq links
  <2>1. ASSUME NEW t \in Enabled(db.tunnels) PROVE db.tunnels[t].iface \in links
    <3>1. [table |-> RoutingTableID(t), dev |-> db.tunnels[t].iface] \in WantRoutes(db)
      BY DEF WantRoutes
    <3> QED BY <1>4, <3>1
  <2>2. db.ingress.iface \in links
    BY <1>6
  <2> QED BY <2>1, <2>2 DEF WantLinks
<1>8. Installed(db)
  BY <1>4, <1>5, <1>6, <1>7 DEF Installed
<1>9. Served'
  <2>1. db.policy = "block" => OfflineIn(db) = {}
    BY <1>1, <1>2 DEF Progress, RulesPlaced
  <2> QED BY <1>1, <1>8, <2>1 DEF Served, Installed
<1>10. wgFile # Torn /\ \E e \in {ExtOf(db), NoIface} : NATRecorded(db, e)
  BY <1>1, <1>6, NATSaved, MyType, FieldTypes, TornIsNoContent DEF Current
<1>11. Configurable(db) => Range1(wgFile) = WantLinks(db)
  <2>1. Configurable(db) => Configured(db.tunnels) = Enabled(db.tunnels)
    BY DEF Configurable, Configured
  <2> QED BY <1>6, <2>1 DEF WantLinks
<1>12. Recorded'
  BY <1>1, <1>3, <1>6, <1>10, <1>11 DEF Recorded, NATRecorded, ExtOf
<1> QED BY <1>9, <1>12

(* What AppliedInstalled and the theorems after it say of a node at rest.     *)
QuietMeansServed == at = "idle" /\ ~lastErr => Served /\ Recorded

(* At rest without an error the node has just saved the policy, or was so before. *)
LEMMA QuietStep ==
  ASSUME Alone, NoSilence, TypeOK, Progress, Current, QuietMeansServed, [Next]_vars
  PROVE  QuietMeansServed'
<1> SUFFICES ASSUME at' = "idle", ~lastErr' PROVE Served' /\ Recorded'
  BY DEF QuietMeansServed
<1>1. CASE WritePolicy(Boot)
  BY <1>1, WritePolicyServes
<1>2. CASE at = "idle" /\ ~lastErr /\ UNCHANGED vars
  BY <1>2 DEF QuietMeansServed, vars, kernel, files, Served, Recorded, NATRecorded, Installed
<1>3. ~SilentMutate
  BY SilentEffect DEF NoSilence
<1> QED BY <1>1, <1>2, <1>3, QuietOnlyBySaving

(* The database is one that was committed, but for the ingress row that Apply heals. *)
AllDatabases == Databases \cup SilentDatabases \cup InitialDatabases
Holds(d) == db.clients = d.clients /\ db.tunnels = d.tunnels /\ db.policy = d.policy /\ db.ext = d.ext
Committed == \E d \in AllDatabases : Holds(d)

(* Apply itself changes nothing in the database but the ingress row.          *)
LEMMA OnlyHealKeeps ==
  ASSUME Alone, TypeOK, [Next]_vars
  PROVE  \/ db' \in Databases \cup SilentDatabases
         \/ /\ db'.clients = db.clients /\ db'.tunnels = db.tunnels
            /\ db'.policy = db.policy /\ db'.ext = db.ext
<1>1. CASE Rollback(Boot)
  BY <1>1, LoadPolicyEffect, UndoRuleEffect, FlushTableEffect, LoadNATStateEffect,
     UndoNATEffect, LoadWGRuntimeEffect, DownEffect DEF Rollback, Aborts
<1>2. CASE SyncWireGuard(Boot) /\ ~Heal(Boot)
  BY <1>2, ReadIngressEffect, ReadPeersEffect, ReadTunnelsEffect, UpIngressEffect,
     UpTunnelEffect, TruncateRuntimeEffect, WriteRuntimeEffect DEF SyncWireGuard, Aborts
<1>3. CASE Heal(Boot)
  BY <1>3, HealEffect DEF Aborts, TypeOK, DbType
<1>4. CASE Route(Boot)
  BY <1>4, ListUpstreamTunnelsEffect, ListClientsEffect, GetSystemSettingsEffect,
     DetectExternalInterfaceEffect, AddRouteEffect, SkipClientEffect, RefuseOfflineEffect,
     PlaceDirectEffect, PlaceRoutedEffect DEF Route, Aborts
<1>5. CASE Persist(Boot)
  BY <1>5, AppendNATEffect, SavingEffects DEF Persist, Aborts
<1>6. CASE Mutate(Boot) \/ SystemApply(Boot) \/ SilentMutate
  BY <1>6, BeginEffect, SilentEffect
<1>7. CASE Cancel(Boot) \/ DiskFull(Boot) \/ Reboot \/ Kill
  BY <1>7, CancelEffect, DiskFullEffect, RestartEffect DEF Aborts
<1>8. CASE UNCHANGED vars
  BY <1>8 DEF vars
<1> QED BY <1>1, <1>2, <1>3, <1>4, <1>5, <1>6, <1>7, <1>8, AloneNext

(* So what requests ask for is what was committed.                            *)
LEMMA CommittedStep ==
  ASSUME Alone, TypeOK, Committed, [Next]_vars
  PROVE  Committed'
<1>1. CASE db' \in Databases \cup SilentDatabases
  BY <1>1 DEF Committed, AllDatabases, Holds
<1>2. CASE /\ db'.clients = db.clients /\ db'.tunnels = db.tunnels
           /\ db'.policy = db.policy /\ db'.ext = db.ext
  BY <1>2 DEF Committed, Holds
<1> QED BY <1>1, <1>2, OnlyHealKeeps

(* All of it holds in every behaviour of one goroutine without silent commits. *)
LEMMA AppliedInvariant ==
  ASSUME Alone, NoSilence
  PROVE  Spec => [](Progress /\ Current /\ QuietMeansServed /\ Committed)
<1>1. Init => Progress /\ Current /\ QuietMeansServed /\ Committed
  <2> SUFFICES ASSUME Init PROVE QuietMeansServed /\ Committed
    BY InitProgress, InitCurrent
  <2>1. at = "load"
    BY BootIsJob DEF Init, at
  <2> QED BY <2>1 DEF QuietMeansServed, Init, Committed, AllDatabases, Holds
<1>2. TypeOK /\ Progress /\ Current /\ QuietMeansServed /\ Committed /\ [Next]_vars
        => (Progress /\ Current /\ QuietMeansServed /\ Committed)'
  BY ProgressStep, CurrentStep, QuietStep, CommittedStep
<1> QED BY <1>1, <1>2, TypeCorrect, PTL DEF Spec

(* Quiet, for the one goroutine there is.                                     *)
LEMMA QuietIsIdle == ASSUME Alone, Quiet PROVE at = "idle" /\ ~lastErr
BY BootIsJob DEF Quiet, AllIdle, at

(* After any faults, in any order, a refused command, a full disk, a cancelled request *)
(* or a restart at any step of earlier Applies: one Apply that reports success has *)
(* installed every rule, route, interface and peer of the database and the NAT rules *)
(* of the clients that go through an upstream (README.md:232), provided that Applies *)
(* do not meet and nobody commits beside them.  A direct client has its NAT rule only *)
(* where the uplink was found: a refused `ip route get` is logged and passed over. *)
THEOREM AppliedInstalled == Alone /\ NoSilence => (Spec => []QuietMeansInstalled)
<1> SUFFICES ASSUME Alone, NoSilence PROVE Spec => []QuietMeansInstalled
  OBVIOUS
<1>1. QuietMeansServed => QuietMeansInstalled
  BY QuietIsIdle DEF QuietMeansServed, QuietMeansInstalled, Served
<1> QED BY <1>1, AppliedInvariant, PTL

(* domain.TunnelOfflineBlock: nor has it succeeded, under the block policy, with a *)
(* client in the database whose upstream is not available (controller.go:184-190). *)
THEOREM AppliedBlocks == Alone /\ NoSilence => (Spec => []BlockPolicyHeld)
<1> SUFFICES ASSUME Alone, NoSilence PROVE Spec => []BlockPolicyHeld
  OBVIOUS
<1>1. QuietMeansServed => BlockPolicyHeld
  BY QuietIsIdle DEF QuietMeansServed, BlockPolicyHeld, Served
<1> QED BY <1>1, AppliedInvariant, PTL

(* What that Apply has made is in the three state files, whatever happened to them *)
(* before: every NAT rule, of routed and of direct clients, before the policy is *)
(* written, and policy, interfaces and NAT rules at rest, if no upstream is enabled *)
(* with an empty configuration.  What an earlier Apply that was refused has left in *)
(* the kernel is in no file.                                                  *)
THEOREM AppliedRecorded == Alone /\ NoSilence /\ AllConfigured => (Spec => []SuccessIsRecorded)
<1> SUFFICES ASSUME Alone, NoSilence, AllConfigured PROVE Spec => []SuccessIsRecorded
  OBVIOUS
<1>1. Committed => Configurable(db)
  BY DEF Committed, AllConfigured, AllDatabases, NoSilence, Holds, Configurable
<1>2. ASSUME TypeOK, Progress, Current, QuietMeansServed, Committed
      PROVE  SuccessIsRecorded
  <2>1. \A j \in Jobs : pc[j] = "writePolicy" => NATRecorded(db, job[j].ext)
    BY <1>2, NATSaved DEF Alone, at, me
  <2>2. Quiet => Recorded
    BY <1>2, QuietIsIdle DEF QuietMeansServed
  <2> QED BY <1>1, <1>2, <2>1, <2>2 DEF SuccessIsRecorded, Recorded
<1> QED BY <1>2, AppliedInvariant, TypeCorrect, PTL
=============================================================================
