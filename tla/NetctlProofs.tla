---------------------------- MODULE NetctlProofs ----------------------------
(***************************************************************************)
(* What Apply takes away and what it leaves, for every set of clients,      *)
(* upstreams, databases and faults.                                         *)
(*                                                                         *)
(* Two invariants.  PrefsAreOurs, for any number of goroutines: a           *)
(* preference that Apply holds, in policy_state.json, in the list it is     *)
(* deleting or in the policy it is building, is one that RulePreference     *)
(* computed, so the rules the kernel makes survive.  Clean, for Applies     *)
(* that do not meet: every rule, NAT rule, route and interface of the       *)
(* program that is in the kernel is one that a saved file, or what Apply    *)
(* still has to undo or to save, names, so the roll-back takes it away.     *)
(***************************************************************************)
EXTENDS NetctlApplyProofs
-----------------------------------------------------------------------------
(* The preferences Apply deletes are its own. *)

OwnPrefs == {RulePreference(c) : c \in Clients}
OursOnly(l) == /\ l.prefs \subseteq OwnPrefs
               /\ \A r \in l.next.rules : r.pref \in OwnPrefs
PrefsAreOurs ==
  /\ polFile # Torn => \A r \in polFile.rules : r.pref \in OwnPrefs
  /\ \A j \in Jobs : OursOnly(job[j])

(* An Apply that has just begun holds no preference at all. *)
LEMMA FreshOurs == OursOnly(Fresh)
BY DEF OursOnly, Fresh, EmptyPolicy

(* Rolling back only deletes from what policy_state.json named. *)
LEMMA RollbackOurs ==
  ASSUME TypeOK, PrefsAreOurs, NEW j \in Jobs, Rollback(j)
  PROVE  OursOnly(job'[j])
<1>0. DOMAIN job = Jobs /\ job[j] \in JobStates /\ OursOnly(job[j])
  BY DEF TypeOK, PrefsAreOurs
<1>1. CASE LoadPolicy(j)
  <2> DEFINE prev == IF polFile = Torn THEN EmptyPolicy ELSE polFile
             P == {r.pref : r \in prev.rules}
             T == {r.table : r \in prev.routes}
  <2>1. P \subseteq OwnPrefs
    BY DEF PrefsAreOurs, EmptyPolicy
  <2>2. ASSUME NEW S \in SUBSET OwnPrefs, NEW U
        PROVE OursOnly([job[j] EXCEPT !.prefs = S, !.tables = U])
    BY <1>0 DEF JobStates, JobType, OursOnly
  <2>3. job' = [job EXCEPT ![j] = [job[j] EXCEPT !.prefs = P, !.tables = T]]
    BY <1>1 DEF LoadPolicy, Locals
  <2> HIDE DEF P, T
  <2> QED BY <1>0, <2>1, <2>2, <2>3
<1>2. CASE UndoRule(j)
  <2>1. ASSUME NEW p PROVE OursOnly([job[j] EXCEPT !.prefs = @ \ {p}])
    BY <1>0 DEF JobStates, JobType, OursOnly
  <2> QED BY <1>0, <1>2, <2>1 DEF UndoRule, Locals
<1>3. CASE FlushTable(j)
  BY <1>0, <1>3 DEF FlushTable, JobStates, JobType, OursOnly, Locals
<1>4. CASE LoadNATState(j)
  BY <1>0, <1>4 DEF LoadNATState, JobStates, JobType, OursOnly, Locals
<1>5. CASE UndoNAT(j)
  BY <1>0, <1>5 DEF UndoNAT, JobStates, JobType, OursOnly, Locals
<1>6. CASE LoadWGRuntime(j)
  BY <1>0, <1>6, FreshOurs
     DEF LoadWGRuntime, JobStates, JobType, OursOnly, Locals, Abort, Return
<1>7. CASE Down(j)
  BY <1>0, <1>7 DEF Down, JobStates, JobType, OursOnly, Locals
<1> QED BY <1>1, <1>2, <1>3, <1>4, <1>5, <1>6, <1>7 DEF Rollback

(* Bringing interfaces up touches no preference. *)
LEMMA SyncOurs ==
  ASSUME TypeOK, PrefsAreOurs, NEW j \in Jobs, SyncWireGuard(j)
  PROVE  OursOnly(job'[j])
<1>0. DOMAIN job = Jobs /\ job[j] \in JobStates /\ OursOnly(job[j])
  BY DEF TypeOK, PrefsAreOurs
<1> USE DEF Locals, Abort, Return
<1>1. CASE ReadIngress(j)
  BY <1>0, <1>1, FreshOurs DEF ReadIngress, JobStates, JobType, OursOnly
<1>2. CASE Heal(j)
  BY <1>0, <1>2, FreshOurs DEF Heal
<1>3. CASE ReadPeers(j)
  BY <1>0, <1>3, FreshOurs DEF ReadPeers, JobStates, JobType, OursOnly
<1>4. CASE ReadTunnels(j)
  <2> DEFINE todo == {t \in Enabled(db.tunnels) : db.tunnels[t].conf # "empty"}
  <2>1. \/ job'[j] = Fresh
        \/ job' = [job EXCEPT ![j] = [job[j] EXCEPT !.tunnels = db.tunnels, !.tunnelsTodo = todo]]
    BY <1>0, <1>4 DEF ReadTunnels
  <2>2. ASSUME NEW v, NEW w PROVE OursOnly([job[j] EXCEPT !.tunnels = v, !.tunnelsTodo = w])
    BY <1>0 DEF JobStates, JobType, OursOnly
  <2>3. OursOnly([job[j] EXCEPT !.tunnels = db.tunnels, !.tunnelsTodo = todo])
    BY <2>2
  <2> HIDE DEF todo
  <2> QED BY <1>0, <2>1, <2>3, FreshOurs
<1>5. CASE UpIngress(j)
  BY <1>0, <1>5, FreshOurs DEF UpIngress, JobStates, JobType, OursOnly
<1>6. CASE UpTunnel(j)
  <2>1. PICK t \in job[j].tunnelsTodo :
          \/ job' = [job EXCEPT ![j] = [job[j] EXCEPT !.tunnelsTodo = @ \ {t},
                                          !.paths = Append(@, job[j].tunnels[t].iface)]]
          \/ job' = [job EXCEPT ![j] = [job[j] EXCEPT !.tunnelsTodo = @ \ {t}, !.failed = TRUE]]
    BY <1>6 DEF UpTunnel
  <2>2. ASSUME NEW v, NEW w PROVE OursOnly([job[j] EXCEPT !.tunnelsTodo = v, !.paths = w])
    BY <1>0 DEF JobStates, JobType, OursOnly
  <2>3. ASSUME NEW v PROVE OursOnly([job[j] EXCEPT !.tunnelsTodo = v, !.failed = TRUE])
    BY <1>0 DEF JobStates, JobType, OursOnly
  <2>4. /\ OursOnly([job[j] EXCEPT !.tunnelsTodo = @ \ {t},
                                    !.paths = Append(@, job[j].tunnels[t].iface)])
        /\ OursOnly([job[j] EXCEPT !.tunnelsTodo = @ \ {t}, !.failed = TRUE])
    BY <2>2, <2>3
  <2> QED BY <1>0, <2>1, <2>4
<1>7. CASE TruncateRuntime(j) \/ WriteRuntime(j)
  BY <1>0, <1>7, FreshOurs DEF TruncateRuntime, WriteRuntime
<1> QED BY <1>1, <1>2, <1>3, <1>4, <1>5, <1>6, <1>7 DEF SyncWireGuard

(* Routing adds preferences that RulePreference computed (controller.go:172). *)
LEMMA RouteOurs ==
  ASSUME TypeOK, PrefsAreOurs, NEW j \in Jobs, Route(j)
  PROVE  OursOnly(job'[j])
<1>0. DOMAIN job = Jobs /\ job[j] \in JobStates /\ OursOnly(job[j])
  BY DEF TypeOK, PrefsAreOurs
<1> USE DEF Locals, Abort, Return
<1>1. CASE ListUpstreamTunnels(j)
  BY <1>0, <1>1, FreshOurs DEF ListUpstreamTunnels, JobStates, JobType, OursOnly
<1>2. CASE ListClients(j)
  BY <1>0, <1>2, FreshOurs DEF ListClients, JobStates, JobType, OursOnly
<1>3. CASE GetSystemSettings(j)
  BY <1>0, <1>3, FreshOurs DEF GetSystemSettings, JobStates, JobType, OursOnly
<1>4. CASE DetectExternalInterface(j)
  BY <1>0, <1>4 DEF DetectExternalInterface, JobStates, JobType, OursOnly
<1>5. CASE AddRoute(j) /\ ~Abort(j)
  <2> DEFINE r(t) == [table |-> RoutingTableID(t), dev |-> job[j].tunnels[t].iface]
             next(t) == [job[j].next EXCEPT !.routes = @ \cup {r(t)}]
  <2> HIDE DEF Abort, Return, Locals
  <2>1. PICK t \in job[j].tunnelsTodo :
          Locals(j, [job[j] EXCEPT !.tunnelsTodo = @ \ {t}, !.next = next(t)])
    BY <1>5 DEF AddRoute
  <2>2. next(t).rules = job[j].next.rules
    BY <1>0, FieldTypes DEF PolicyStates
  <2>3. ASSUME NEW v, NEW q, q.rules = job[j].next.rules
        PROVE  OursOnly([job[j] EXCEPT !.tunnelsTodo = v, !.next = q])
    BY <1>0, <2>3 DEF JobStates, JobType, OursOnly
  <2> HIDE DEF next
  <2>4. OursOnly([job[j] EXCEPT !.tunnelsTodo = @ \ {t}, !.next = next(t)])
    BY <2>2, <2>3
  <2> QED BY <1>0, <2>1, <2>4 DEF Locals
<1>6. CASE SkipClient(j)
  BY <1>0, <1>6 DEF SkipClient, JobStates, JobType, OursOnly
<1>7. CASE RefuseOffline(j)
  BY <1>0, <1>7, FreshOurs DEF RefuseOffline
<1>8. CASE PlaceDirect(j)
  BY <1>0, <1>8 DEF PlaceDirect, JobStates, JobType, OursOnly
<1>11. CASE AddRoute(j) /\ Abort(j)
  BY <1>0, <1>11, FreshOurs
<1>9. CASE PlaceRouted(j) /\ ~Abort(j)
  <2> DEFINE r(c) == RuleFor(j, c)
             n(c) == [from |-> r(c).from, out |-> job[j].tunnels[TunnelOf(j, c)].iface]
  <2>1. PICK c \in job[j].clientsTodo :
          job' = [job EXCEPT ![j] = [job[j] EXCEPT !.clientsTodo = @ \ {c},
                                                   !.next.rules = @ \cup {r(c)},
                                                   !.nat = Append(@, n(c))]]
    BY <1>9 DEF PlaceRouted
  <2>2. r(c).pref \in OwnPrefs
    BY <1>0, FieldTypes, TableTypes DEF OwnPrefs, RuleFor
  <2>3. ASSUME NEW v, NEW q, q.pref \in OwnPrefs, NEW s
        PROVE  OursOnly([job[j] EXCEPT !.clientsTodo = v, !.next.rules = @ \cup {q}, !.nat = s])
    BY <1>0, <2>3 DEF JobStates, JobType, PolicyStates, OursOnly
  <2> QED BY <1>0, <2>1, <2>2, <2>3
<1>10. CASE PlaceRouted(j) /\ Abort(j)
  BY <1>0, <1>10, FreshOurs
<1> QED BY <1>1, <1>2, <1>3, <1>4, <1>5, <1>6, <1>7, <1>8, <1>9, <1>10, <1>11 DEF Route

(* Nor do NAT, the state files, requests or faults bring in another one. *)
LEMMA OtherOurs ==
  ASSUME TypeOK, PrefsAreOurs, NEW j \in Jobs,
         Persist(j) \/ Mutate(j) \/ SystemApply(j) \/ Cancel(j) \/ DiskFull(j)
  PROVE  OursOnly(job'[j])
<1>0. DOMAIN job = Jobs /\ job[j] \in JobStates /\ OursOnly(job[j])
  BY DEF TypeOK, PrefsAreOurs
<1> USE DEF Locals, Abort, Return
<1>1. CASE AppendNAT(j)
  BY <1>0, <1>1, FreshOurs DEF AppendNAT, JobStates, JobType, OursOnly
<1>2. CASE TruncateNAT(j) \/ WriteNAT(j) \/ TruncatePolicy(j) \/ WritePolicy(j) \/ DiskFull(j)
  BY <1>0, <1>2, FreshOurs DEF TruncateNAT, WriteNAT, TruncatePolicy, WritePolicy, DiskFull
<1>3. CASE Mutate(j) \/ SystemApply(j)
  BY <1>0, <1>3 DEF Mutate, SystemApply, Begin
<1>4. CASE Cancel(j)
  BY <1>0, <1>4 DEF Cancel, JobStates, JobType, OursOnly
<1> QED BY <1>1, <1>2, <1>3, <1>4 DEF Persist

(* Only saveState writes policy_state.json. *)
LEMMA PolicyFileKept ==
  ASSUME [Next]_vars, ~ \E j \in Jobs : WritePolicy(j) \/ TruncatePolicy(j)
  PROVE  UNCHANGED polFile
<1> USE DEF files, Abort, Return
<1>1. ASSUME NEW j \in Jobs, Rollback(j) PROVE UNCHANGED polFile
  BY <1>1 DEF Rollback, LoadPolicy, UndoRule, FlushTable, LoadNATState, UndoNAT, LoadWGRuntime,
     Down
<1>2. ASSUME NEW j \in Jobs, SyncWireGuard(j) PROVE UNCHANGED polFile
  BY <1>2 DEF SyncWireGuard, ReadIngress, Heal, ReadPeers, ReadTunnels, UpIngress, UpTunnel,
              TruncateRuntime, WriteRuntime
<1>3. ASSUME NEW j \in Jobs, Route(j) PROVE UNCHANGED polFile
  BY <1>3
     DEF Route, ListUpstreamTunnels, ListClients, GetSystemSettings, DetectExternalInterface,
              AddRoute, SkipClient, RefuseOffline, PlaceDirect, PlaceRouted
<1>4. ASSUME NEW j \in Jobs, Persist(j) PROVE UNCHANGED polFile
  BY <1>4 DEF Persist, AppendNAT, TruncateNAT, WriteNAT
<1>5. ASSUME NEW j \in Jobs, Mutate(j) \/ SystemApply(j) \/ Cancel(j) \/ DiskFull(j)
      PROVE  UNCHANGED polFile
  BY <1>5 DEF Mutate, SystemApply, Begin, Cancel, DiskFull
<1>6. CASE SilentMutate \/ Reboot \/ Kill \/ UNCHANGED vars
  BY <1>6 DEF SilentMutate, Reboot, Kill, Restart, vars
<1> QED BY <1>1, <1>2, <1>3, <1>4, <1>5, <1>6 DEF Next, ApplyStep

(* So no step ever puts a foreign preference where an Apply would delete it. *)
LEMMA PrefsStep == TypeOK /\ PrefsAreOurs /\ [Next]_vars => PrefsAreOurs'
<1> SUFFICES ASSUME TypeOK, PrefsAreOurs, [Next]_vars PROVE PrefsAreOurs'
  OBVIOUS
<1>1. ASSUME NEW j \in Jobs,
             ApplyStep(j) \/ Mutate(j) \/ SystemApply(j) \/ Cancel(j) \/ DiskFull(j)
      PROVE  \A i \in Jobs : OursOnly(job'[i])
  <2> SUFFICES ASSUME NEW i \in Jobs PROVE OursOnly(job'[i])
    OBVIOUS
  <2>1. CASE i = j
    BY <1>1, <2>1, RollbackOurs, SyncOurs, RouteOurs, OtherOurs DEF ApplyStep
  <2>2. CASE i # j
    <3>1. job'[i] = job[i]
      BY <1>1, <2>2, OneJob
    <3> QED BY <3>1 DEF PrefsAreOurs
  <2> QED BY <2>1, <2>2
<1>2. ASSUME SilentMutate \/ Reboot \/ Kill \/ UNCHANGED vars
      PROVE  \A i \in Jobs : OursOnly(job'[i])
  BY <1>2, FreshOurs DEF PrefsAreOurs, SilentMutate, Reboot, Kill, Restart, vars
<1>3. polFile' # Torn => \A r \in polFile'.rules : r.pref \in OwnPrefs
  <2>1. CASE \E j \in Jobs : WritePolicy(j)
    BY <2>1 DEF WritePolicy, PrefsAreOurs, OursOnly
  <2>2. CASE \E j \in Jobs : TruncatePolicy(j)
    BY <2>2 DEF TruncatePolicy
  <2>3. CASE UNCHANGED polFile
    BY <2>3 DEF PrefsAreOurs
  <2> QED BY <2>1, <2>2, <2>3, PolicyFileKept
<1> QED BY <1>1, <1>2, <1>3 DEF PrefsAreOurs, Next

(* Rules leave the kernel by `ip rule del` at a recorded preference alone.     *)
LEMMA RulesLeave ==
  ASSUME [Next]_vars, ~Reboot
  PROVE  rules \subseteq rules' \/ \E j \in Jobs : \E p \in job[j].prefs : RuleDel(p)
<1> USE DEF kernel, Abort, Return
<1>1. ASSUME NEW j \in Jobs, UndoRule(j)
      PROVE  rules \subseteq rules' \/ \E p \in job[j].prefs : RuleDel(p)
  BY <1>1 DEF UndoRule
<1>2. ASSUME NEW j \in Jobs, Rollback(j), ~UndoRule(j) PROVE rules \subseteq rules'
  BY <1>2 DEF Rollback, LoadPolicy, FlushTable, LoadNATState, UndoNAT, LoadWGRuntime, Down
<1>3. ASSUME NEW j \in Jobs, SyncWireGuard(j) PROVE rules \subseteq rules'
  BY <1>3 DEF SyncWireGuard, ReadIngress, Heal, ReadPeers, ReadTunnels, UpIngress, UpTunnel,
              TruncateRuntime, WriteRuntime
<1>4. ASSUME NEW j \in Jobs, Route(j) PROVE rules \subseteq rules'
  BY <1>4
     DEF Route, ListUpstreamTunnels, ListClients, GetSystemSettings, DetectExternalInterface,
              AddRoute, SkipClient, RefuseOffline, PlaceDirect, PlaceRouted
<1>5. ASSUME NEW j \in Jobs, Persist(j) PROVE rules \subseteq rules'
  BY <1>5 DEF Persist, AppendNAT, TruncateNAT, WriteNAT, TruncatePolicy, WritePolicy
<1>6. ASSUME NEW j \in Jobs, Mutate(j) \/ SystemApply(j) \/ Cancel(j) \/ DiskFull(j)
      PROVE  rules \subseteq rules'
  BY <1>6 DEF Mutate, SystemApply, Begin, Cancel, DiskFull
<1>7. CASE SilentMutate \/ Kill \/ UNCHANGED vars
  BY <1>7 DEF SilentMutate, Kill, Restart, vars
<1> QED BY <1>1, <1>2, <1>3, <1>4, <1>5, <1>6, <1>7 DEF Next, ApplyStep

BuiltinApart == \A r \in Builtin : r.pref \notin OwnPrefs

(* No step deletes a rule of the kernel but at the preference of a client. *)
LEMMA BuiltinStep ==
  TypeOK /\ PrefsAreOurs /\ BuiltinStays /\ [Next]_vars => BuiltinStays'
<1> SUFFICES ASSUME TypeOK, PrefsAreOurs, BuiltinStays, [Next]_vars PROVE BuiltinStays'
  OBVIOUS
<1>1. CASE Reboot
  BY <1>1 DEF Reboot, BuiltinStays
<1>2. CASE rules \subseteq rules'
  BY <1>2 DEF BuiltinStays
<1>3. ASSUME NEW j \in Jobs, NEW p \in job[j].prefs, RuleDel(p) PROVE BuiltinStays'
  <2>1. p \in OwnPrefs
    BY DEF PrefsAreOurs, OursOnly
  <2>2. \E c \in Clients : p = 32000 + c
    BY <2>1 DEF OwnPrefs, RulePreference
  <2>3. \A r \in rules \ rules' : r.pref = p
    BY <1>3 DEF RuleDel
  <2> QED BY <2>2, <2>3 DEF BuiltinStays
<1> QED BY <1>1, <1>2, <1>3, RulesLeave

(* Whatever an Apply is about to delete, or wrote down to be deleted later, is *)
(* one of its own preferences.                                               *)
LEMMA PrefsOurs == Spec => []PrefsAreOurs
<1>1. Init => PrefsAreOurs
  BY FreshOurs DEF Init, PrefsAreOurs, EmptyPolicy
<1> QED BY <1>1, PrefsStep, TypeCorrect, PTL DEF Spec

(* A client id that reaches the preference of a rule of the kernel is the only *)
(* way to lose that rule: whatever overlaps, fails or dies, no rollback deletes *)
(* at a preference that domain.RulePreference did not compute.                 *)
THEOREM BuiltinSafe == Spec => []BuiltinStays
<1>1. Init => BuiltinStays
  BY DEF Init, BuiltinStays
<1> QED BY <1>1, PrefsOurs, BuiltinStep, TypeCorrect, PTL DEF Spec

(* Where no client shares a preference with the kernel, its rules are all there. *)
LEMMA BuiltinThere ==
  ASSUME BuiltinApart, BuiltinStays
  PROVE  Builtin \subseteq rules
BY DEF BuiltinApart, BuiltinStays, OwnPrefs, RulePreference
-----------------------------------------------------------------------------
(* No command is refused, no request is cancelled, no write fails and the process does *)
(* not die alone; containers may be recreated at any step, in the middle of a write too. *)
RebootOnly == Faults \subseteq {"reboot"}

(* Up to the end of the loop over the recorded preferences.                   *)
AtRest == {"idle", "load", "undo"}
(* A preference names at most one rule of ours, so one `ip rule del` removes it. *)
OnePref == \A q, r \in rules \ Builtin : q.pref = r.pref => q = r

(* The rules of ours are recorded, then have a preference still to be deleted, then *)
(* are gone, and later are those of the plan.                                 *)
CleanRules ==
  /\ at \in {"idle", "load"} => rules \ Builtin \subseteq LeftRules
  /\ at = "undo" => \A r \in rules \ Builtin : r.pref \in me.prefs
  /\ at \in AtRest => OnePref
  /\ at \in Routing => rules \ Builtin \subseteq me.next.rules
  /\ at \notin AtRest \cup Routing => rules \subseteq Builtin

(* The copies of a NAT rule are at most those recorded, then those still to be undone, *)
(* then none, and later at most those appended.                               *)
CleanNAT ==
  /\ at \in AtRest => \A r \in NATRules : nat[r] <= LeftNAT(r)
  /\ at \in {"undoNAT"} \cup Routing => \A r \in NATRules : nat[r] <= Count(me.natTodo, r)
  /\ at \notin AtRest \cup {"undoNAT"} \cup Routing => nat = NoNAT

(* The interfaces are those recorded, then those still to be taken down, then none, *)
(* and later those in the list for the runtime file.                          *)
CleanLinks ==
  /\ at \in AtRest \cup {"undoNAT"} => links \subseteq LeftLinks
  /\ at \in {"down"} \cup Raised => links \subseteq Range1(me.paths)
  /\ at \in Syncing => links = {}

(* No route but those of the plan, from the moment that interfaces go up.     *)
CleanRoutes ==
  /\ at \in Raising \cup Listing => routes = {}
  /\ at \in Routing => routes \subseteq me.next.routes

(* A route goes through an interface that is up.                              *)
RoutesHaveLinks == \A q \in routes : q.dev \in links

(* Nothing is in the kernel that the Apply under way, or the next, does not know of. *)
Clean == /\ ~me.cancelled
         /\ CleanRules /\ CleanNAT /\ CleanLinks /\ CleanRoutes /\ RoutesHaveLinks

(* What the hypothesis excludes.                                              *)
LEMMA NoFault ==
  ASSUME RebootOnly, ~me.cancelled
  PROVE  Runs(Boot) /\ ~Fails(Boot) /\ ~Cancel(Boot) /\ ~DiskFull(Boot) /\ ~Kill
BY DEF RebootOnly, Runs, Fails, Cancel, DiskFull, Kill, Spend, me

(* A recorded count is never negative.                                        *)
LEMMA CountBound == ASSUME TypeOK PROVE \A r \in NATRules : 0 <= LeftNAT(r)
<1>1. CASE natFile = Torn
  BY <1>1 DEF LeftNAT
<1>2. CASE natFile # Torn
  <2>1. natFile \in Seq(NATRules)
    BY <1>2 DEF TypeOK
  <2>2. \A r : Count(natFile, r) \in Nat
    BY <2>1, CountNat
  <2> QED BY <1>2, <2>2 DEF LeftNAT
<1> QED BY <1>1, <1>2

(* An Apply may give up when nothing but interfaces is there, and those are recorded. *)
LEMMA AbortClean ==
  ASSUME TypeOK, Aborts, rules \subseteq Builtin, nat = NoNAT, links \subseteq LeftLinks,
         RoutesHaveLinks
  PROVE  Clean'
<1> USE DEF AtRest, Syncing, Raised, Raising, Listing, Routing
<1>1. /\ at' = "idle" /\ ~me'.cancelled
      /\ UNCHANGED <<rules, routes, nat, links, polFile, natFile, wgFile>>
  BY DEF Aborts, Fresh, kernel, files
<1>2. CleanRules'
  BY <1>1 DEF CleanRules, OnePref
<1>3. CleanNAT'
  <2>1. \A r \in NATRules : nat[r] = 0
    BY DEF NoNAT
  <2>2. \A r \in NATRules : LeftNAT(r)' = LeftNAT(r)
    BY <1>1 DEF LeftNAT
  <2>3. \A r \in NATRules : nat'[r] <= LeftNAT(r)'
    BY <1>1, <2>1, <2>2, CountBound
  <2> QED BY <1>1, <2>3 DEF CleanNAT
<1>4. CleanLinks' /\ CleanRoutes' /\ RoutesHaveLinks'
  BY <1>1 DEF CleanLinks, CleanRoutes, RoutesHaveLinks, LeftLinks
<1> QED BY <1>1, <1>2, <1>3, <1>4 DEF Clean

(* A preference of ours is never one of the kernel's, so that `ip rule del` removes *)
(* the one rule of ours that has it.                                          *)
LEMMA DeleteOurs ==
  ASSUME BuiltinApart, OnePref, NEW p \in OwnPrefs, RuleDel(p)
  PROVE  /\ rules' \subseteq rules
         /\ \A r \in rules' \ Builtin : r.pref # p
<1>1. \A r \in rules \cap Builtin : r.pref # p
  BY DEF BuiltinApart
<1>2. CASE {r \in rules : r.pref = p} = {}
  BY <1>2 DEF RuleDel
<1>3. CASE {r \in rules : r.pref = p} # {}
  <2>1. {r \in rules : r.pref = p} \cap Builtin = {}
    BY <1>1
  <2>2. PICK r \in {q \in rules : q.pref = p} : rules' = rules \ {r}
    BY <1>3, <2>1 DEF RuleDel
  <2>3. ASSUME NEW q \in rules' \ Builtin PROVE q.pref # p
    <3>1. q \in rules \ Builtin /\ q # r /\ r \in rules \ Builtin /\ r.pref = p
      BY <1>1, <2>2
    <3> QED BY <3>1 DEF OnePref
  <2> QED BY <2>2, <2>3
<1> QED BY <1>2, <1>3

(* The loop over the preferences takes every rule back ...                    *)
LEMMA RulesBack ==
  ASSUME BuiltinApart, RebootOnly, TypeOK, PrefsAreOurs, Clean,
         LoadPolicy(Boot) \/ UndoRule(Boot) \/ FlushTable(Boot) \/ LoadNATState(Boot)
  PROVE  Clean'
<1> USE DEF AtRest, Syncing, Raised, Raising, Listing, Routing
<1>0. ~Fails(Boot) /\ ~me.cancelled
  BY NoFault DEF Clean
<1>1. CASE LoadPolicy(Boot)
  <2>1. /\ at = "load" /\ at' = "undo" /\ ~me'.cancelled
        /\ me'.prefs = {r.pref : r \in (IF polFile = Torn THEN EmptyPolicy ELSE polFile).rules}
        /\ UNCHANGED <<rules, routes, nat, links, polFile, natFile, wgFile>>
    BY <1>0, <1>1, LoadPolicyEffect DEF SameFlags, kernel, files
  <2>2. CleanRules'
    BY <2>1 DEF Clean, CleanRules, LeftRules, OnePref
  <2> QED BY <2>1, <2>2
             DEF Clean, CleanNAT, CleanLinks, CleanRoutes, RoutesHaveLinks, LeftNAT, LeftLinks
<1>2. CASE UndoRule(Boot)
  <2>1. /\ at = "undo" /\ at' = "undo" /\ ~me'.cancelled
        /\ UNCHANGED <<routes, nat, links, polFile, natFile, wgFile>>
    BY <1>0, <1>2, UndoRuleEffect DEF SameFlags, files
  <2>2. PICK p \in me.prefs : me'.prefs = me.prefs \ {p} /\ RuleDel(p)
    BY <1>0, <1>2, UndoRuleEffect
  <2>3. p \in OwnPrefs
    BY BootIsJob DEF PrefsAreOurs, OursOnly, me
  <2>4. OnePref
    BY <2>1 DEF Clean, CleanRules
  <2>5. rules' \subseteq rules /\ \A r \in rules' \ Builtin : r.pref # p
    BY <2>2, <2>3, <2>4, DeleteOurs
  <2>6. CleanRules'
    BY <2>1, <2>2, <2>5 DEF Clean, CleanRules, OnePref
  <2> QED BY <2>1, <2>6
             DEF Clean, CleanNAT, CleanLinks, CleanRoutes, RoutesHaveLinks, LeftNAT, LeftLinks
<1>3. CASE FlushTable(Boot)
  <2>1. /\ at = "undo" /\ at' = "undo" /\ ~me'.cancelled /\ me'.prefs = me.prefs
        /\ routes' \subseteq routes
        /\ UNCHANGED <<rules, nat, links, polFile, natFile, wgFile>>
    BY <1>0, <1>3, FlushTableEffect DEF SameFlags, files
  <2> QED BY <2>1 DEF Clean, CleanRules, OnePref, CleanNAT, CleanLinks, CleanRoutes,
             RoutesHaveLinks, LeftNAT, LeftLinks
<1>4. CASE LoadNATState(Boot)
  <2>1. /\ at = "undo" /\ at' = "undoNAT" /\ ~me'.cancelled /\ me.prefs = {}
        /\ me'.natTodo = IF natFile = Torn THEN <<>> ELSE natFile
        /\ UNCHANGED <<rules, routes, nat, links, polFile, natFile, wgFile>>
    BY <1>0, <1>4, LoadNATStateEffect DEF SameFlags, kernel, files
  <2>2. \A r \in NATRules : Count(me'.natTodo, r) = LeftNAT(r)
    BY <2>1, CountEmpty DEF LeftNAT
  <2>3. CleanNAT'
    BY <2>1, <2>2 DEF Clean, CleanNAT
  <2>4. CleanRules'
    BY <2>1 DEF Clean, CleanRules
  <2> QED BY <2>1, <2>3, <2>4 DEF Clean, CleanLinks, CleanRoutes, RoutesHaveLinks, LeftLinks
<1> QED BY <1>1, <1>2, <1>3, <1>4

(* ... the loop over the NAT rules takes one copy back for each that was recorded ... *)
LEMMA NATBack ==
  ASSUME RebootOnly, TypeOK, Clean, UndoNAT(Boot)
  PROVE  Clean'
<1> USE DEF AtRest, Syncing, Raised, Raising, Listing, Routing
<1> DEFINE h == Head(me.natTodo)
<1>0. ~Fails(Boot) /\ ~me.cancelled
  BY NoFault DEF Clean
<1>1. /\ at = "undoNAT" /\ at' = "undoNAT" /\ ~me'.cancelled
      /\ me.natTodo # <<>> /\ me'.natTodo = Tail(me.natTodo)
      /\ nat' = [nat EXCEPT ![h] = IF @ > 0 THEN @ - 1 ELSE 0]
      /\ UNCHANGED <<rules, routes, links, polFile, natFile, wgFile>>
  BY <1>0, UndoNATEffect DEF SameFlags, files
<1>2. /\ me.natTodo \in Seq(NATRules) /\ nat \in [NATRules -> Nat]
  BY MyType, FieldTypes DEF TypeOK
<1>3. h \in NATRules /\ Tail(me.natTodo) \in Seq(NATRules)
  BY <1>1, <1>2
<1>4. ASSUME NEW r \in NATRules PROVE nat'[r] <= Count(me'.natTodo, r)
  <2>1. nat[r] <= Count(me.natTodo, r)
    BY <1>1 DEF Clean, CleanNAT
  <2>2. Count(me.natTodo, r) = IF h = r THEN Count(Tail(me.natTodo), r) + 1 ELSE Count(Tail(me.natTodo), r)
    BY <1>1, <1>2, CountTail
  <2>3. Count(Tail(me.natTodo), r) \in Nat
    BY <1>3, CountNat
  <2>4. nat'[r] = IF h = r THEN (IF nat[r] > 0 THEN nat[r] - 1 ELSE 0) ELSE nat[r]
    BY <1>1, <1>2, <1>3
  <2> HIDE DEF h
  <2> QED BY <1>1, <1>2, <2>1, <2>2, <2>3, <2>4
<1>5. CleanNAT'
  BY <1>1, <1>4 DEF CleanNAT
<1> QED BY <1>1, <1>5 DEF Clean, CleanRules, CleanLinks, CleanRoutes, RoutesHaveLinks, LeftLinks

(* ... so that none is left at its end ...                                    *)
LEMMA AllUndone ==
  ASSUME TypeOK, \A r \in NATRules : nat[r] <= 0
  PROVE  nat = NoNAT
<1>1. nat \in [NATRules -> Nat]
  BY DEF TypeOK
<1>2. \A r \in NATRules : nat[r] = 0
  BY <1>1
<1> QED BY <1>1, <1>2 DEF NoNAT

(* ... and the loop over the interfaces takes those down, with their routes.  *)
LEMMA LinksBack ==
  ASSUME RebootOnly, TypeOK, Progress, Clean, LoadWGRuntime(Boot) \/ Down(Boot)
  PROVE  Clean'
<1> USE DEF AtRest, Syncing, Raised, Raising, Listing, Routing
<1>0. ~Fails(Boot) /\ ~me.cancelled
  BY NoFault DEF Clean
<1>1. CASE LoadWGRuntime(Boot)
  <2>1. at = "undoNAT" /\ me.natTodo = <<>>
    BY <1>1, LoadWGRuntimeEffect
  <2>2. nat = NoNAT
    BY <2>1, CountEmpty, AllUndone DEF Clean, CleanNAT
  <2>3. rules \subseteq Builtin /\ links \subseteq LeftLinks /\ RoutesHaveLinks
    BY <2>1 DEF Clean, CleanRules, CleanLinks
  <2>4. CASE Aborts
    BY <2>2, <2>3, <2>4, AbortClean
  <2>5. CASE ~Aborts
    <3>1. /\ wgFile # Torn /\ at' = "down" /\ ~me'.cancelled /\ me'.paths = wgFile
          /\ UNCHANGED <<rules, routes, nat, links, polFile, natFile, wgFile>>
      BY <1>0, <1>1, <2>5, LoadWGRuntimeEffect DEF SameFlags, kernel, files
    <3> QED BY <2>2, <2>3, <3>1 DEF Clean, CleanRules, CleanNAT, CleanLinks, CleanRoutes,
                                    RoutesHaveLinks, LeftLinks
  <2> QED BY <2>4, <2>5
<1>2. CASE Down(Boot)
  <2> DEFINE last == me.paths[Len(me.paths)]
  <2>1. /\ at = "down" /\ at' = "down" /\ ~me'.cancelled
        /\ me.paths # <<>> /\ me'.paths = SubSeq(me.paths, 1, Len(me.paths) - 1)
        /\ links' = links \ {last}
        /\ routes' = {r \in routes : r.dev # last}
        /\ UNCHANGED <<rules, nat, polFile, natFile, wgFile>>
    BY <1>0, <1>2, DownEffect DEF SameFlags, files
  <2>2. Range1(me.paths) \subseteq Range1(me'.paths) \cup {last}
    <3>1. me.paths \in Seq(Ifaces) /\ me.paths # <<>>
      BY <2>1, MyType, FieldTypes
    <3>2. /\ DOMAIN me.paths = 1..Len(me.paths) /\ DOMAIN me'.paths = 1..(Len(me.paths) - 1)
          /\ Len(me.paths) \in Nat
          /\ \A n \in 1..(Len(me.paths) - 1) : me'.paths[n] = me.paths[n]
      BY <2>1, <3>1
    <3>3. ASSUME NEW n \in DOMAIN me.paths PROVE me.paths[n] \in Range1(me'.paths) \cup {last}
      BY <3>2 DEF Range1
    <3> QED BY <3>3 DEF Range1
  <2>3. CleanLinks'
    BY <2>1, <2>2 DEF Clean, CleanLinks
  <2>4. RoutesHaveLinks'
    BY <2>1 DEF Clean, RoutesHaveLinks
  <2> QED BY <2>1, <2>3, <2>4 DEF Clean, CleanRules, CleanNAT, CleanRoutes
<1> QED BY <1>1, <1>2

(* While interfaces go up nothing else is in the kernel; they are recorded as soon as *)
(* all have been tried, also when one of them has failed.                     *)
LEMMA SyncClean ==
  ASSUME RebootOnly, TypeOK, Progress, Clean, SyncWireGuard(Boot)
  PROVE  Clean'
<1> USE DEF AtRest, Syncing, Raised, Raising, Listing, Routing
<1>0. ~Fails(Boot) /\ Runs(Boot) /\ ~me.cancelled
  BY NoFault DEF Clean
<1>1. CASE at \in {"down"} \cup Syncing /\ (at = "down" => me.paths = <<>>)
  <2>1. rules \subseteq Builtin /\ nat = NoNAT /\ links = {} /\ routes = {}
    <3>1. links = {}
      <4>1. Range1(<<>>) = {}
        BY DEF Range1
      <4> QED BY <1>1, <4>1 DEF Clean, CleanLinks
    <3> QED BY <1>1, <3>1 DEF Clean, CleanRules, CleanNAT, RoutesHaveLinks
  <2>2. CASE Aborts
    BY <2>1, <2>2, AbortClean DEF Clean
  <2>3. CASE /\ at' \in Syncing /\ ~me'.cancelled /\ UNCHANGED <<rules, routes, nat, links>>
    BY <2>1, <2>3 DEF Clean, CleanRules, CleanNAT, CleanLinks, CleanRoutes, RoutesHaveLinks
  <2>4. CASE UpIngress(Boot) /\ ~Aborts
    <3>1. /\ at' = "upTunnels" /\ ~me'.cancelled /\ links' = links \cup {me.ingress.iface}
          /\ me'.paths = <<me.ingress.iface>> /\ UNCHANGED <<rules, routes, nat>>
      BY <1>0, <2>4, UpIngressEffect DEF SameFlags
    <3>2. Range1(me'.paths) = {me.ingress.iface}
      BY <3>1, RangeOne
    <3> QED BY <2>1, <3>1, <3>2
               DEF Clean, CleanRules, CleanNAT, CleanLinks, CleanRoutes, RoutesHaveLinks
  <2>5. ReadIngress(Boot) \/ Heal(Boot) \/ ReadPeers(Boot) \/ ReadTunnels(Boot) \/ UpIngress(Boot)
    BY <1>1, UpTunnelEffect, TruncateRuntimeEffect, WriteRuntimeEffect DEF SyncWireGuard
  <2> QED BY <1>0, <2>2, <2>3, <2>4, <2>5, ReadIngressEffect, HealEffect, ReadPeersEffect,
             ReadTunnelsEffect
          DEF SameFlags, kernel
<1>2. CASE at \in Raising
  <2>1. rules \subseteq Builtin /\ nat = NoNAT /\ routes = {} /\ links \subseteq Range1(me.paths)
    BY <1>2 DEF Clean, CleanRules, CleanNAT, CleanLinks, CleanRoutes
  <2>2. CASE UpTunnel(Boot)
    <3>1. /\ at' = "upTunnels" /\ ~me'.cancelled /\ UNCHANGED <<rules, routes, nat>>
      BY <1>0, <2>2, UpTunnelEffect
    <3>2. links' \subseteq Range1(me'.paths)
      <4>1. PICK t \in me.tunnelsTodo :
              \/ /\ links' = links \cup {me.tunnels[t].iface}
                 /\ me'.paths = Append(me.paths, me.tunnels[t].iface)
              \/ me'.paths = me.paths /\ UNCHANGED links
        BY <2>2, UpTunnelEffect
      <4>2. me.tunnels[t].iface \in Ifaces /\ me.paths \in Seq(Ifaces)
        BY MyType, FieldTypes, TableTypes DEF TunnelRows
      <4>3. Range1(Append(me.paths, me.tunnels[t].iface)) = Range1(me.paths) \cup {me.tunnels[t].iface}
        BY <4>2, RangeAppend
      <4> QED BY <2>1, <4>1, <4>3
    <3> QED BY <2>1, <3>1, <3>2
               DEF Clean, CleanRules, CleanNAT, CleanLinks, CleanRoutes, RoutesHaveLinks
  <2>3. CASE TruncateRuntime(Boot)
    <3>1. /\ at' = "writeRuntime" /\ me' = me /\ UNCHANGED <<rules, routes, nat, links>>
      BY <2>3, TruncateRuntimeEffect DEF kernel
    <3> QED BY <1>0, <2>1, <3>1
               DEF Clean, CleanRules, CleanNAT, CleanLinks, CleanRoutes, RoutesHaveLinks
  <2>4. CASE WriteRuntime(Boot)
    <3>1. /\ wgFile' = me.paths /\ UNCHANGED <<rules, routes, nat, links, natFile>>
          /\ (at' = "idle" /\ me' = Fresh) \/ (at' = "listTunnels" /\ me' = me)
      BY <2>4, WriteRuntimeEffect DEF kernel
    <3>2. CASE at' = "listTunnels" /\ me' = me
      BY <1>0, <2>1, <3>1, <3>2
         DEF Clean, CleanRules, CleanNAT, CleanLinks, CleanRoutes, RoutesHaveLinks
    <3>3. CASE at' = "idle" /\ me' = Fresh
      <4>1. wgFile' # Torn
        BY <3>1, MyType, FieldTypes, TornIsNoContent
      <4>2. LeftLinks' = Range1(me.paths)
        BY <3>1, <4>1 DEF LeftLinks
      <4>3. \A r \in NATRules : nat'[r] <= LeftNAT(r)'
        BY <2>1, <3>1, CountBound DEF NoNAT, LeftNAT
      <4>4. CleanRules' /\ CleanNAT'
        BY <2>1, <3>1, <3>3, <4>3 DEF CleanRules, CleanNAT, OnePref
      <4>5. CleanLinks' /\ CleanRoutes' /\ RoutesHaveLinks'
        BY <2>1, <3>1, <3>3, <4>2 DEF CleanLinks, CleanRoutes, RoutesHaveLinks
      <4> QED BY <3>3, <4>4, <4>5 DEF Clean, Fresh
    <3> QED BY <3>1, <3>2, <3>3
  <2> QED BY <1>2, <2>2, <2>3, <2>4, ReadIngressEffect, HealEffect, ReadPeersEffect,
             ReadTunnelsEffect, UpIngressEffect DEF SyncWireGuard
<1> QED BY <1>1, <1>2, ReadIngressEffect, HealEffect, ReadPeersEffect, ReadTunnelsEffect,
           UpIngressEffect, UpTunnelEffect, TruncateRuntimeEffect, WriteRuntimeEffect DEF
           SyncWireGuard

(* What commits that do not apply may have left in the place of d. *)
After(d) == {d} \cup SilentDatabases

(* Apply never stops half way with rules installed: no override that iptables rejects, *)
(* and no client whose upstream is offline under the block policy, whichever mixture of *)
(* commits its three reads of upstreams, clients and settings see.            *)
NeverRefused ==
  \A d \in AllDatabases : \A e \in After(d) : \A f \in After(e) :
    /\ f.ext # BadExt
    /\ f.policy = "block" => OfflineIn([tunnels |-> d.tunnels, clients |-> e.clients]) = {}

(* What that makes of the locals.                                             *)
Unrefused == me.ext # BadExt /\ (me.policy = "block" => OfflineIn(me) = {})
(* Upstreams, clients and settings are read in this order, each from what was committed *)
(* by then.                                                                   *)
Trail ==
  /\ at = "listClients" => \E d \in AllDatabases : \E e \in After(d) :
       me.tunnels = d.tunnels /\ Holds(e)
  /\ at = "settings" => \E d \in AllDatabases : \E e \in After(d) : \E f \in After(e) :
       me.tunnels = d.tunnels /\ me.clients = e.clients /\ Holds(f)
  /\ at \in {"detect"} \cup Routing => Unrefused

(* Whether a client is offline is a question of upstreams and clients alone.  *)
LEMMA SameOffline ==
  ASSUME NEW l, NEW m, l.tunnels = m.tunnels, l.clients = m.clients
  PROVE  OfflineIn(l) = OfflineIn(m)
BY DEF OfflineIn

(* An Apply that has not listed anything.                                     *)
LEMMA EarlyTrail ==
  ASSUME at' \notin {"listClients", "settings", "detect"} \cup Routing
  PROVE  Trail'
BY DEF Trail, Routing

(* A step after the reads.                                                    *)
LEMMA SteadyTrail ==
  ASSUME Trail, at \in Routing, at' \in Routing, SameReads
  PROVE  Trail'
<1>1. OfflineIn(me') = OfflineIn(me)
  BY SameOffline DEF SameReads
<1> QED BY <1>1 DEF Trail, Unrefused, SameReads, Routing

(* Each read sees what the last one saw, or what was committed in between.    *)
LEMMA ListingTrail ==
  ASSUME NeverRefused, TypeOK, Committed, Trail, ~Aborts,
         ListUpstreamTunnels(Boot) \/ ListClients(Boot) \/ GetSystemSettings(Boot)
  PROVE  Trail'
<1> USE DEF Routing
<1>1. CASE ListUpstreamTunnels(Boot)
  <2>1. at' = "listClients" /\ me'.tunnels = db.tunnels /\ UNCHANGED db
    BY <1>1, ListUpstreamTunnelsEffect
  <2>2. PICK d \in AllDatabases : Holds(d)
    BY DEF Committed
  <2>3. d \in After(d) /\ me'.tunnels = d.tunnels /\ Holds(d)'
    BY <2>1, <2>2 DEF After, Holds
  <2> QED BY <2>1, <2>3 DEF Trail
<1>2. CASE ListClients(Boot)
  <2>1. at = "listClients" /\ at' = "settings" /\ UNCHANGED db
        /\ me'.clients = db.clients /\ me'.tunnels = me.tunnels
    BY <1>2, ListClientsEffect
  <2>2. PICK d \in AllDatabases : \E e \in After(d) : me.tunnels = d.tunnels /\ Holds(e)
    BY <2>1 DEF Trail
  <2> PICK e \in After(d) : me.tunnels = d.tunnels /\ Holds(e)
    BY <2>2
  <2>3. e \in After(e) /\ me'.tunnels = d.tunnels /\ me'.clients = e.clients /\ Holds(e)'
    BY <2>1, <2>2 DEF After, Holds
  <2> QED BY <2>1, <2>3 DEF Trail
<1>3. CASE GetSystemSettings(Boot)
  <2>1. at = "settings" /\ at' = "detect" /\ me'.policy = db.policy /\ me'.ext = db.ext
        /\ me'.clients = me.clients /\ me'.tunnels = me.tunnels
    BY <1>3, GetSystemSettingsEffect
  <2>0. PICK d \in AllDatabases : \E e \in After(d) : \E f \in After(e) :
          me.tunnels = d.tunnels /\ me.clients = e.clients /\ Holds(f)
    BY <2>1 DEF Trail
  <2> PICK e \in After(d) : \E f \in After(e) :
          me.tunnels = d.tunnels /\ me.clients = e.clients /\ Holds(f)
    BY <2>0
  <2>2. PICK f \in After(e) : me.tunnels = d.tunnels /\ me.clients = e.clients /\ Holds(f)
    OBVIOUS
  <2> DEFINE l == [tunnels |-> d.tunnels, clients |-> e.clients]
  <2>3. f.ext # BadExt /\ (f.policy = "block" => OfflineIn(l) = {})
    BY DEF NeverRefused
  <2>4. OfflineIn(me') = OfflineIn(l)
    <3>1. l.tunnels = d.tunnels /\ l.clients = e.clients
      OBVIOUS
    <3> HIDE DEF l
    <3> QED BY <2>1, <2>2, <3>1, SameOffline
  <2>5. Unrefused'
    BY <2>1, <2>2, <2>3, <2>4 DEF Unrefused, Holds
  <2> QED BY <2>1, <2>5 DEF Trail
<1> QED BY <1>1, <1>2, <1>3

(* So no commit beside an Apply has it refuse half way.                       *)
LEMMA TrailStep ==
  ASSUME Alone, NeverRefused, TypeOK, Committed, Trail, [Next]_vars
  PROVE  Trail'
<1> USE DEF Routing
<1>0. CASE Aborts
  BY <1>0, EarlyTrail DEF Aborts
<1>1. CASE Rollback(Boot) /\ ~Aborts
  BY <1>1, LoadPolicyEffect, UndoRuleEffect, FlushTableEffect, LoadNATStateEffect,
     UndoNATEffect, LoadWGRuntimeEffect, DownEffect, EarlyTrail DEF Rollback
<1>2. CASE SyncWireGuard(Boot) /\ ~Aborts
  BY <1>2, ReadIngressEffect, HealEffect, ReadPeersEffect, ReadTunnelsEffect, UpIngressEffect,
     UpTunnelEffect, TruncateRuntimeEffect, WriteRuntimeEffect, EarlyTrail DEF SyncWireGuard
<1>3. CASE Route(Boot) /\ ~Aborts
  <2>1. CASE DetectExternalInterface(Boot)
    <3>1. /\ at = "detect" /\ at' = "place"
          /\ me'.tunnels = me.tunnels /\ me'.clients = me.clients /\ me'.policy = me.policy
          /\ me'.ext = ExtOf(me) \/ me'.ext = me.ext
      BY <2>1, DetectExternalInterfaceEffect
    <3>2. me'.ext # BadExt
      BY <3>1, NamesApart DEF Trail, Unrefused, ExtOf
    <3>3. OfflineIn(me') = OfflineIn(me)
      BY <3>1, SameOffline
    <3> QED BY <3>1, <3>2, <3>3 DEF Trail, Unrefused
  <2>2. CASE AddRoute(Boot) \/ SkipClient(Boot) \/ PlaceDirect(Boot) \/ PlaceRouted(Boot)
    BY <1>3, <2>2, AddRouteEffect, SkipClientEffect, PlaceDirectEffect, PlaceRoutedEffect,
       SteadyTrail
  <2> QED BY <1>3, <2>1, <2>2, ListingTrail, RefuseOfflineEffect DEF Route
<1>4. CASE Persist(Boot) /\ ~Aborts
  <2>1. CASE AppendNAT(Boot)
    BY <1>4, <2>1, AppendNATEffect, SteadyTrail
  <2>2. CASE TruncateNAT(Boot) \/ WriteNAT(Boot) \/ TruncatePolicy(Boot)
    BY <2>2, SavingEffects, SteadyTrail DEF SameReads
  <2>3. CASE WritePolicy(Boot)
    BY <2>3, SavingEffects, EarlyTrail
  <2> QED BY <1>4, <2>1, <2>2, <2>3 DEF Persist
<1>5. CASE Mutate(Boot) \/ SystemApply(Boot) \/ Reboot \/ Kill
  BY <1>5, BeginEffect, RestartEffect, EarlyTrail
<1>6. CASE Cancel(Boot) \/ UNCHANGED vars
  <2>1. at' = at /\ SameReads /\ UNCHANGED db
    BY <1>6, CancelEffect DEF vars, at, me, SameReads
  <2>2. OfflineIn(me') = OfflineIn(me)
    BY <2>1, SameOffline DEF SameReads
  <2> QED BY <2>1, <2>2 DEF Trail, Unrefused, SameReads, Holds
<1>7. CASE DiskFull(Boot)
  BY <1>0, <1>7, DiskFullEffect
<1>8. CASE SilentMutate
  <2>1. at' = at /\ me' = me /\ db' \in SilentDatabases
    BY <1>8, SilentEffect
  <2>2. PICK e \in SilentDatabases : db' = e
    BY <2>1
  <2>3. Holds(e)' /\ \A d : e \in After(d)
    BY <2>2 DEF Holds, After
  <2> QED BY <2>1, <2>3 DEF Trail, Unrefused
<1> QED BY <1>0, <1>1, <1>2, <1>3, <1>4, <1>5, <1>6, <1>7, <1>8, AloneNext

(* Reading changes nothing in the kernel.                                     *)
LEMMA ListingClean ==
  ASSUME RebootOnly, TypeOK, Progress, Clean,
         ListUpstreamTunnels(Boot) \/ ListClients(Boot) \/ GetSystemSettings(Boot)
           \/ DetectExternalInterface(Boot)
  PROVE  Clean'
<1> USE DEF AtRest, Syncing, Raised, Raising, Listing, Routing
<1>0. Runs(Boot) /\ ~me.cancelled
  BY NoFault DEF Clean
<1>1. /\ at \in Listing /\ at' \in Listing \cup {"place"}
      /\ SamePlan /\ SameUndo /\ SameFlags /\ UNCHANGED <<kernel, files>>
  BY <1>0, ListUpstreamTunnelsEffect, ListClientsEffect, GetSystemSettingsEffect,
     DetectExternalInterfaceEffect
<1>2. UNCHANGED <<rules, routes, nat, links>> /\ ~me'.cancelled /\ me'.paths = me.paths
  BY <1>0, <1>1 DEF kernel, SameFlags, SameUndo
<1>3. me'.natTodo = <<>>
  BY <1>1 DEF Progress, NothingPlaced, SameUndo
<1>4. \A r \in NATRules : nat'[r] <= Count(me'.natTodo, r)
  BY <1>1, <1>2, <1>3, CountEmpty DEF Clean, CleanNAT, NoNAT
<1>5. CleanRules' /\ CleanRoutes' /\ RoutesHaveLinks'
  BY <1>1, <1>2 DEF Clean, CleanRules, CleanRoutes, RoutesHaveLinks
<1>6. CleanNAT' /\ CleanLinks'
  BY <1>1, <1>2, <1>4 DEF Clean, CleanNAT, CleanLinks
<1> QED BY <1>2, <1>5, <1>6 DEF Clean

(* While routes are installed no client has been placed, so an Apply that stops there, at *)
(* an upstream whose interface is not up, leaves no rule and no NAT rule behind. *)
LEMMA AddRouteClean ==
  ASSUME RebootOnly, TypeOK, Progress, Clean, AddRoute(Boot)
  PROVE  Clean'
<1> USE DEF AtRest, Syncing, Raised, Raising, Listing, Routing
<1>0. Runs(Boot) /\ ~me.cancelled /\ at = "place"
  BY NoFault, AddRouteEffect DEF Clean
<1>1. CASE Aborts
  <2>1. me.tunnelsTodo # {}
    BY AddRouteEffect
  <2>2. me.clientsTodo = Enabled(me.clients) /\ me.next.rules = RulesOf(me)
    BY <1>0, <2>1 DEF Progress, RulesPlaced
  <2>3. rules \subseteq Builtin
    <3>1. RulesOf(me) = {}
      BY <2>2 DEF RulesOf, RoutedIn
    <3> QED BY <1>0, <2>2, <3>1 DEF Clean, CleanRules
  <2>4. nat = NoNAT
    <3>1. \A r : ViaTunnel(me, r) = {} /\ ViaExt(me, r) = {}
      BY <2>2 DEF ViaTunnel, ViaExt, RoutedIn, DirectIn
    <3>2. \A r \in NATRules : Count(me.nat, r) = 0
      BY <1>0, <3>1, FS_EmptySet DEF Progress, NATPlanned
    <3>3. me.nat \in Seq(NATRules) /\ me.natTodo \in Seq(NATRules)
      BY MyType, FieldTypes
    <3>4. me.nat = <<>>
      <4> SUFFICES ASSUME me.nat # <<>> PROVE FALSE
        OBVIOUS
      <4>1. Head(me.nat) \in NATRules /\ Tail(me.nat) \in Seq(NATRules)
        BY <3>3
      <4>2. Count(me.nat, Head(me.nat)) = Count(Tail(me.nat), Head(me.nat)) + 1
        BY <3>3, CountTail
      <4>3. Count(Tail(me.nat), Head(me.nat)) \in Nat
        BY <4>1, CountNat
      <4> QED BY <3>2, <4>1, <4>2, <4>3
    <3>5. me.natTodo = <<>>
      BY <1>0, <3>3, <3>4 DEF Progress, NATPlaced
    <3>6. \A r \in NATRules : nat[r] <= 0
      BY <1>0, <3>5, CountEmpty DEF Clean, CleanNAT
    <3> QED BY <3>6, AllUndone
  <2>5. links \subseteq LeftLinks /\ RoutesHaveLinks
    <3>1. wgFile = me.paths
      BY <1>0 DEF Progress, LinksRaised
    <3>2. wgFile # Torn
      BY <3>1, MyType, FieldTypes, TornIsNoContent
    <3> QED BY <1>0, <3>1, <3>2 DEF Clean, CleanLinks, LeftLinks
  <2> QED BY <1>1, <2>3, <2>4, <2>5, AbortClean
<1>2. CASE ~Aborts
  <2>1. PICK t \in me.tunnelsTodo :
          /\ at' = "place" /\ me.tunnels[t].iface \in links
          /\ routes' = {q \in routes : q.table # RoutingTableID(t)} \cup {RouteOf(me, t)}
          /\ me'.next.routes = me.next.routes \cup {RouteOf(me, t)}
          /\ me'.next.rules = me.next.rules
          /\ SameUndo /\ SameFlags
          /\ UNCHANGED <<rules, nat, links>>
    BY <1>2, AddRouteEffect
  <2>2. CleanRoutes'
    BY <1>0, <2>1 DEF Clean, CleanRoutes
  <2>3. RoutesHaveLinks'
    BY <1>0, <2>1 DEF Clean, RoutesHaveLinks, RouteOf
  <2>4. CleanRules' /\ CleanNAT' /\ CleanLinks'
    BY <1>0, <2>1 DEF Clean, CleanRules, CleanNAT, CleanLinks, SameUndo
  <2> QED BY <1>0, <2>1, <2>2, <2>3, <2>4 DEF Clean, SameFlags
<1> QED BY <1>1, <1>2

(* Client ids are distinct, and so are the preferences of their rules. *)
LEMMA PrefOfClient ==
  ASSUME TypeOK, NEW c \in Clients
  PROVE  /\ RuleOf(me, c).pref \in OwnPrefs
         /\ \A b \in Clients : RuleOf(me, b).pref = RuleOf(me, c).pref => b = c
<1>1. \A b \in Clients : b \in Int
  BY IdsAreNat
<1> QED BY <1>1 DEF RuleOf, RulePreference, OwnPrefs

(* Every rule is added once, and no client stops Apply.                       *)
LEMMA ClientClean ==
  ASSUME BuiltinApart, RebootOnly, TypeOK, Progress, Clean, Trail,
         SkipClient(Boot) \/ RefuseOffline(Boot) \/ PlaceDirect(Boot) \/ PlaceRouted(Boot)
  PROVE  Clean'
<1> USE DEF AtRest, Syncing, Raised, Raising, Listing, Routing
<1>0. Runs(Boot) /\ ~Fails(Boot) /\ ~me.cancelled
  BY NoFault DEF Clean
<1>1. CASE SkipClient(Boot) \/ PlaceDirect(Boot)
  <2>1. /\ at = "place" /\ at' = "place" /\ me'.next = me.next
        /\ SameUndo /\ SameFlags /\ UNCHANGED <<rules, routes, nat, links>>
    BY <1>1, SkipClientEffect, PlaceDirectEffect DEF kernel, SamePlan
  <2>2. CleanRules' /\ CleanNAT' /\ CleanLinks'
    BY <2>1 DEF Clean, CleanRules, CleanNAT, CleanLinks, SameUndo
  <2>3. CleanRoutes' /\ RoutesHaveLinks'
    BY <2>1 DEF Clean, CleanRoutes, RoutesHaveLinks
  <2> QED BY <1>0, <2>1, <2>2, <2>3 DEF Clean, SameFlags
<1>2. CASE RefuseOffline(Boot)
  <2>1. PICK c \in me.clientsTodo :
          /\ me.clients[c].addr \in Addrs
          /\ me.clients[c].via # Direct /\ me.clients[c].via \notin Enabled(me.tunnels)
    BY <1>2, RefuseOfflineEffect
  <2>2. at = "place" /\ me.policy = "block"
    BY <1>2, RefuseOfflineEffect
  <2>3. c \in Enabled(me.clients)
    BY <2>1, <2>2 DEF Progress, RulesPlaced
  <2>4. c \in OfflineIn(me)
    BY <2>1, <2>3 DEF OfflineIn
  <2> QED BY <2>2, <2>4 DEF Trail, Unrefused
<1>3. CASE PlaceRouted(Boot)
  <2>1. PICK c \in me.clientsTodo :
          \/ RuleOf(me, c) \in rules /\ Aborts
          \/ /\ at' = "place"
             /\ rules' = rules \cup {RuleOf(me, c)}
             /\ me'.next.rules = me.next.rules \cup {RuleOf(me, c)}
             /\ me'.next.routes = me.next.routes
             /\ SameUndo /\ SameFlags
             /\ UNCHANGED <<routes, nat, links>>
    BY <1>0, <1>3, PlaceRoutedEffect
  <2>2. at = "place"
    BY <1>3, PlaceRoutedEffect
  <2>3. RuleOf(me, c) \notin rules
    <3>1. c \in Clients
      BY MyType, FieldTypes, TableTypes
    <3>2. RuleOf(me, c) \notin Builtin
      BY <3>1, PrefOfClient DEF BuiltinApart
    <3>3. RuleOf(me, c) \notin RulesOf(me)
      <4>1. \A b \in RoutedIn(me) \ me.clientsTodo : b # c /\ b \in Clients
        BY <2>2, MyType, FieldTypes, TableTypes DEF RoutedIn, Enabled
      <4> QED BY <3>1, <4>1, PrefOfClient DEF RulesOf
    <3>4. rules \ Builtin \subseteq RulesOf(me)
      BY <2>2 DEF Clean, CleanRules, Progress, RulesPlaced
    <3> QED BY <3>2, <3>3, <3>4
  <2>4. CleanRules' /\ CleanNAT' /\ CleanLinks'
    BY <2>1, <2>2, <2>3 DEF Clean, CleanRules, CleanNAT, CleanLinks, SameUndo
  <2>5. CleanRoutes' /\ RoutesHaveLinks'
    BY <2>1, <2>2, <2>3 DEF Clean, CleanRoutes, RoutesHaveLinks
  <2> QED BY <1>0, <2>1, <2>3, <2>4, <2>5 DEF Clean, SameFlags
<1> QED BY <1>1, <1>2, <1>3

(* iptables takes every NAT rule of the plan.                                 *)
LEMMA NATAccepted ==
  ASSUME TypeOK, Progress, Trail, at = "place", NEW n \in 1..Len(me.nat)
  PROVE  me.nat[n].out # BadExt
<1> USE DEF Routing
<1> DEFINE r == me.nat[n]
<1>1. me.nat \in Seq(NATRules) /\ r \in NATRules
  BY MyType, FieldTypes
<1>2. Cardinality(ViaTunnel(me, r)) + Cardinality(ViaExt(me, r)) # 0
  <2>1. n \in {k \in DOMAIN me.nat : me.nat[k] = r}
    BY <1>1
  <2>2. IsFiniteSet({k \in DOMAIN me.nat : me.nat[k] = r})
    BY <1>1, CountNat
  <2>3. Count(me.nat, r) # 0
    BY <2>1, <2>2, FS_EmptySet DEF Count
  <2>4. Count(me.nat, r) = Cardinality(ViaTunnel(me, r)) + Cardinality(ViaExt(me, r))
    BY <1>1 DEF Progress, NATPlanned
  <2> QED BY <2>3, <2>4
<1>3. ViaTunnel(me, r) # {} \/ ViaExt(me, r) # {}
  <2> SUFFICES ASSUME ViaTunnel(me, r) = {}, ViaExt(me, r) = {} PROVE FALSE
    OBVIOUS
  <2> HIDE DEF r
  <2> QED BY <1>2, FS_EmptySet
<1>4. CASE ViaTunnel(me, r) # {}
  <2>1. PICK c \in RoutedIn(me) : NATOf(me, c) = r
    BY <1>4 DEF ViaTunnel
  <2>2. me.clients[c].via \in Enabled(me.tunnels)
    BY <2>1 DEF RoutedIn
  <2>3. me.tunnels[me.clients[c].via].iface \in Ifaces
    BY <2>2, MyType, FieldTypes, TableTypes DEF TunnelRows, Enabled
  <2>4. r.out \in Ifaces
    BY <2>1, <2>3 DEF NATOf
  <2> QED BY <2>4, NamesApart
<1>5. CASE ViaExt(me, r) # {}
  BY <1>5 DEF ViaExt, Trail, Unrefused
<1> QED BY <1>3, <1>4, <1>5

(* A NAT rule appended is one more to undo.                                   *)
LEMMA AppendNATClean ==
  ASSUME RebootOnly, TypeOK, Progress, Clean, Trail, AppendNAT(Boot)
  PROVE  Clean'
<1> USE DEF AtRest, Syncing, Raised, Raising, Listing, Routing
<1> DEFINE r == me.nat[Len(me.natTodo) + 1]
<1>0. Runs(Boot) /\ ~Fails(Boot) /\ ~me.cancelled
  BY NoFault DEF Clean
<1>1. at = "place" /\ Len(me.natTodo) < Len(me.nat)
  BY AppendNATEffect
<1>2. /\ me.nat \in Seq(NATRules) /\ me.natTodo \in Seq(NATRules)
      /\ nat \in [NATRules -> Nat]
  BY MyType, FieldTypes DEF TypeOK
<1>3. Len(me.natTodo) + 1 \in 1..Len(me.nat) /\ r \in NATRules
  BY <1>1, <1>2
<1>4. r.out # BadExt
  BY <1>1, <1>3, NATAccepted
<1>5. /\ at' = "place"
      /\ nat' = [nat EXCEPT ![r] = @ + 1]
      /\ me'.natTodo = Append(me.natTodo, r) /\ me'.paths = me.paths
      /\ SamePlan /\ SameFlags /\ UNCHANGED <<rules, routes, links>>
  BY <1>0, <1>4, AppendNATEffect
<1>6. ASSUME NEW q \in NATRules PROVE nat'[q] <= Count(me'.natTodo, q)
  <2>1. Count(me'.natTodo, q) = IF r = q THEN Count(me.natTodo, q) + 1 ELSE Count(me.natTodo, q)
    BY <1>2, <1>3, <1>5, CountAppend
  <2>2. Count(me.natTodo, q) \in Nat
    BY <1>2, CountNat
  <2>3. nat'[q] = IF r = q THEN nat[q] + 1 ELSE nat[q]
    BY <1>2, <1>3, <1>5
  <2>4. nat[q] <= Count(me.natTodo, q)
    BY <1>1 DEF Clean, CleanNAT
  <2> HIDE DEF r
  <2> QED BY <1>2, <2>1, <2>2, <2>3, <2>4
<1>7. CleanRules' /\ CleanNAT' /\ CleanLinks'
  BY <1>1, <1>5, <1>6 DEF Clean, CleanRules, CleanNAT, CleanLinks, SamePlan
<1>8. CleanRoutes' /\ RoutesHaveLinks'
  BY <1>1, <1>5 DEF Clean, CleanRoutes, RoutesHaveLinks, SamePlan
<1> QED BY <1>0, <1>5, <1>7, <1>8 DEF Clean, SameFlags

(* What is then in the kernel is what is saved.                               *)
LEMMA SavingClean ==
  ASSUME RebootOnly, TypeOK, Progress, Clean,
         TruncateNAT(Boot) \/ WriteNAT(Boot) \/ TruncatePolicy(Boot) \/ WritePolicy(Boot)
  PROVE  Clean'
<1> USE DEF AtRest, Syncing, Raised, Raising, Listing, Routing
<1>1. CASE ~WritePolicy(Boot)
  <2>1. at \in Routing /\ at' \in Routing /\ me' = me /\ UNCHANGED kernel
    BY <1>1, SavingEffects
  <2>2. UNCHANGED <<rules, routes, nat, links>>
    BY <2>1 DEF kernel
  <2>3. CleanRules' /\ CleanNAT' /\ CleanLinks'
    BY <2>1, <2>2 DEF Clean, CleanRules, CleanNAT, CleanLinks
  <2>4. CleanRoutes' /\ RoutesHaveLinks'
    BY <2>1, <2>2 DEF Clean, CleanRoutes, RoutesHaveLinks
  <2> QED BY <2>1, <2>3, <2>4 DEF Clean
<1>2. CASE WritePolicy(Boot)
  <2>1. /\ at = "writePolicy" /\ at' = "idle" /\ me' = Fresh /\ polFile' = me.next
        /\ UNCHANGED <<rules, routes, nat, links, natFile, wgFile>>
    BY <1>2, SavingEffects DEF kernel
  <2>2. me.next \in PolicyStates /\ me.nat \in Seq(NATRules) /\ me.paths \in Seq(Ifaces)
        /\ me.natTodo \in Seq(NATRules)
    BY MyType, FieldTypes
  <2>3. natFile = me.nat /\ wgFile = me.paths
    BY <2>1 DEF Progress, NATPlaced, LinksRaised
  <2>4. polFile' # Torn /\ natFile # Torn /\ wgFile # Torn
    BY <2>1, <2>2, <2>3, TornIsNoContent DEF PolicyStates
  <2>5. rules \ Builtin \subseteq RulesOf(me) /\ RulesOf(me) = me.next.rules
    BY <2>1 DEF Clean, CleanRules, Progress, RulesPlaced
  <2>6. OnePref
    <3>1. \A c \in RoutedIn(me) : c \in Clients
      BY MyType, FieldTypes, TableTypes DEF RoutedIn, Enabled
    <3>2. \A q, r \in RulesOf(me) : q.pref = r.pref => q = r
      BY <3>1, PrefOfClient DEF RulesOf
    <3> QED BY <2>5, <3>2 DEF OnePref
  <2>7. CleanRules'
    BY <2>1, <2>4, <2>5, <2>6 DEF CleanRules, LeftRules, OnePref
  <2>8. CleanNAT'
    <3>1. me.natTodo = me.nat
      <4>1. Len(me.natTodo) = Len(me.nat) /\ \A n \in 1..Len(me.natTodo) : me.natTodo[n] = me.nat[n]
        BY <2>1 DEF Progress, AllPlaced, NATPlaced
      <4> QED BY <2>2, <4>1, SamePrefix
    <3>2. \A r \in NATRules : nat[r] <= Count(natFile, r)
      BY <2>1, <2>3, <3>1 DEF Clean, CleanNAT
    <3>3. \A r \in NATRules : nat'[r] <= LeftNAT(r)'
      BY <2>1, <2>4, <3>2 DEF LeftNAT
    <3> QED BY <2>1, <3>3 DEF CleanNAT
  <2>9. CleanLinks'
    BY <2>1, <2>3, <2>4 DEF Clean, CleanLinks, LeftLinks
  <2>10. CleanRoutes' /\ RoutesHaveLinks'
    BY <2>1 DEF Clean, CleanRoutes, RoutesHaveLinks
  <2> QED BY <2>1, <2>7, <2>8, <2>9, <2>10 DEF Clean, Fresh
<1> QED BY <1>1, <1>2

(* A step that leaves kernel, files and locals alone.                         *)
LEMMA RestClean ==
  ASSUME TypeOK, Clean, at' = at, me' = me, UNCHANGED <<kernel, files>>
  PROVE  Clean'
<1>1. UNCHANGED <<rules, routes, nat, links, polFile, natFile, wgFile>>
  BY DEF kernel, files
<1>2. CleanRules'
  BY <1>1 DEF Clean, CleanRules, LeftRules, OnePref
<1>3. CleanNAT'
  BY <1>1 DEF Clean, CleanNAT, LeftNAT
<1>4. CleanLinks' /\ CleanRoutes' /\ RoutesHaveLinks'
  BY <1>1 DEF Clean, CleanLinks, LeftLinks, CleanRoutes, RoutesHaveLinks
<1> QED BY <1>2, <1>3, <1>4 DEF Clean

(* A rollback starts from what the files record, after a restart from an empty kernel, *)
(* also where the restart tore one of the files.                              *)
LEMMA StartClean ==
  ASSUME RebootOnly, TypeOK, Clean, Mutate(Boot) \/ SystemApply(Boot) \/ Reboot
  PROVE  Clean'
<1> USE DEF AtRest, Syncing, Raised, Raising, Listing, Routing
<1>1. CASE Mutate(Boot) \/ SystemApply(Boot)
  <2>1. at = "idle" /\ at' = "load" /\ me' = me /\ UNCHANGED <<kernel, files>>
    BY <1>1, BeginEffect
  <2>2. UNCHANGED <<rules, routes, nat, links, polFile, natFile, wgFile>>
    BY <2>1 DEF kernel, files
  <2>3. CleanRules'
    BY <2>1, <2>2 DEF Clean, CleanRules, LeftRules, OnePref
  <2>4. CleanNAT'
    BY <2>1, <2>2 DEF Clean, CleanNAT, LeftNAT
  <2>5. CleanLinks' /\ CleanRoutes' /\ RoutesHaveLinks'
    BY <2>1, <2>2 DEF Clean, CleanLinks, LeftLinks, CleanRoutes, RoutesHaveLinks
  <2> QED BY <2>1, <2>3, <2>4, <2>5 DEF Clean
<1>2. CASE Reboot
  <2>1. /\ at' = "load" /\ me' = Fresh /\ UNCHANGED <<db, files>>
        /\ rules' = Builtin /\ routes' = {} /\ nat' = NoNAT /\ links' = {}
    BY <1>2, RestartEffect DEF RebootOnly, Reboot
  <2>2. \A r \in NATRules : nat'[r] <= LeftNAT(r)'
    <3>1. \A r \in NATRules : LeftNAT(r)' = LeftNAT(r)
      BY <2>1 DEF LeftNAT, files
    <3> QED BY <2>1, <3>1, CountBound DEF NoNAT
  <2>3. CleanRules' /\ CleanNAT'
    BY <2>1, <2>2 DEF CleanRules, CleanNAT, OnePref
  <2>4. CleanLinks' /\ CleanRoutes' /\ RoutesHaveLinks'
    BY <2>1 DEF CleanLinks, CleanRoutes, RoutesHaveLinks
  <2> QED BY <2>1, <2>3, <2>4 DEF Clean, Fresh
<1> QED BY <1>1, <1>2

(* So the invariant survives every step there is under the hypotheses ...     *)
LEMMA CleanStep ==
  ASSUME Alone, RebootOnly, BuiltinApart, TypeOK, PrefsAreOurs, Progress, Trail, Clean, [Next]_vars
  PROVE  Clean'
<1>0. ~Cancel(Boot) /\ ~DiskFull(Boot) /\ ~Kill
  BY NoFault DEF Clean
<1>1. CASE Rollback(Boot)
  BY <1>1, RulesBack, NATBack, LinksBack DEF Rollback
<1>2. CASE SyncWireGuard(Boot)
  BY <1>2, SyncClean
<1>3. CASE Route(Boot)
  BY <1>3, ListingClean, AddRouteClean, ClientClean DEF Route
<1>4. CASE Persist(Boot)
  BY <1>4, AppendNATClean, SavingClean DEF Persist
<1>5. CASE Mutate(Boot) \/ SystemApply(Boot) \/ Reboot
  BY <1>5, StartClean
<1>6. CASE SilentMutate \/ UNCHANGED vars
  BY <1>6, SilentEffect, RestClean DEF vars, at, me
<1> QED BY <1>0, <1>1, <1>2, <1>3, <1>4, <1>5, <1>6, AloneNext

(* ... and holds in every behaviour.                                          *)
LEMMA CleanInvariant ==
  ASSUME Alone, RebootOnly, BuiltinApart, NeverRefused
  PROVE  Spec => [](Progress /\ Committed /\ Trail /\ Clean)
<1>1. ASSUME Init PROVE Progress /\ Committed /\ Trail /\ Clean
  <2> USE <1>1
  <2>1. at = "load" /\ me = Fresh
    BY BootIsJob DEF Init, at, me
  <2>2. Committed
    BY DEF Init, Committed, AllDatabases, Holds
  <2>3. Trail
    BY <2>1 DEF Trail, Routing
  <2>4. CleanRules /\ CleanLinks /\ CleanRoutes /\ RoutesHaveLinks
    BY <2>1 DEF Init, CleanRules, CleanLinks, CleanRoutes, RoutesHaveLinks, OnePref,
                AtRest, Syncing, Raised, Raising, Listing, Routing
  <2>5. CleanNAT
    <3>1. \A r \in NATRules : nat[r] = 0
      BY DEF Init, NoNAT
    <3>2. \A r \in NATRules : LeftNAT(r) >= 0
      <4>1. natFile = Torn \/ natFile = <<>>
        BY DEF Init
      <4> QED BY <4>1, CountEmpty DEF LeftNAT
    <3> QED BY <2>1, <3>1, <3>2 DEF CleanNAT, AtRest, Routing
  <2> QED BY <2>1, <2>2, <2>3, <2>4, <2>5, InitProgress DEF Clean, Fresh
<1>2. TypeOK /\ PrefsAreOurs /\ Progress /\ Committed /\ Trail /\ Clean /\ [Next]_vars
        => (Progress /\ Committed /\ Trail /\ Clean)'
  BY ProgressStep, CommittedStep, TrailStep, CleanStep
<1>3. Spec => []PrefsAreOurs
  BY PrefsOurs
<1> QED BY <1>1, <1>2, <1>3, TypeCorrect, PTL DEF Spec

(* README.md:165 "atomically rolled back": when the rollback is over no rule, no NAT *)
(* rule, no interface and no route of an earlier Apply is left, whatever was committed *)
(* between its reads and wherever containers were recreated.                  *)
THEOREM RollbackComplete ==
  Alone /\ RebootOnly /\ BuiltinApart /\ NeverRefused => (Spec => []RollbackIsComplete)
<1> SUFFICES ASSUME Alone, RebootOnly, BuiltinApart, NeverRefused PROVE Spec => []RollbackIsComplete
  OBVIOUS
<1>1. Clean => RollbackIsComplete
  BY DEF Alone, at, Clean, CleanRules, CleanNAT, CleanLinks, RoutesHaveLinks,
     RollbackIsComplete, AtRest, Routing, Steps
<1> QED BY <1>1, CleanInvariant, PTL

(* The rollback needs the state files to be complete (controller.go:75-90): when no *)
(* command is refused, whatever an Apply has left in the kernel, rules, copies of NAT *)
(* rules of routed and direct clients, interfaces and their routes, is named there, *)
(* also after an Apply that failed and after restarts that tore a file.       *)
THEOREM NothingIsForgotten ==
  Alone /\ RebootOnly /\ BuiltinApart /\ NeverRefused => (Spec => []NothingForgotten)
<1> SUFFICES ASSUME Alone, RebootOnly, BuiltinApart, NeverRefused PROVE Spec => []NothingForgotten
  OBVIOUS
<1>1. AllIdle => at = "idle"
  BY BootIsJob DEF AllIdle, at
<1>2. Clean => NothingForgotten
  BY <1>1 DEF Clean, CleanRules, CleanNAT, CleanLinks, RoutesHaveLinks, NothingForgotten, AtRest
<1> QED BY <1>2, CleanInvariant, PTL

(* Every rule of ours sends its packets somewhere.                            *)
Leads == \A r \in rules \ Builtin : \E q \in routes : q.table = r.table /\ q.dev \in links
QuietLeads == at = "idle" /\ ~lastErr => Leads

(* The table of every rule has its route and the route its interface, because Apply *)
(* places a client only behind an upstream that its second look found enabled. *)
LEMMA WritePolicyLeads ==
  ASSUME TypeOK, Progress, Clean, WritePolicy(Boot)
  PROVE  Leads'
<1> USE DEF Routing
<1>1. at = "writePolicy" /\ UNCHANGED <<rules, routes, links>>
  BY SavingEffects DEF kernel
<1>2. /\ me.tunnelsTodo = {} /\ me.next.routes = RoutesOf(me) /\ me.next.routes \subseteq routes
      /\ \A q \in me.next.routes : q.dev \in links
      /\ rules \ Builtin \subseteq RulesOf(me)
  BY <1>1 DEF Progress, AllPlaced, RoutesPlaced, RulesPlaced, Clean, CleanRules
<1>3. ASSUME NEW r \in rules \ Builtin
      PROVE  \E q \in routes : q.table = r.table /\ q.dev \in links
  <2>1. PICK c \in RoutedIn(me) : r = RuleOf(me, c)
    BY <1>2 DEF RulesOf
  <2> DEFINE q == RouteOf(me, me.clients[c].via)
  <2>2. q \in RoutesOf(me)
    BY <1>2, <2>1 DEF RoutedIn, RoutesOf
  <2>3. q.table = r.table
    BY <2>1 DEF RouteOf, RuleOf
  <2> QED BY <1>2, <2>2, <2>3
<1> QED BY <1>1, <1>3 DEF Leads

(* At rest nothing of that is touched.                                        *)
LEMMA LeadsStep ==
  ASSUME Alone, TypeOK, Progress, Clean, QuietLeads, [Next]_vars
  PROVE  QuietLeads'
<1> SUFFICES ASSUME at' = "idle", ~lastErr' PROVE Leads'
  BY DEF QuietLeads
<1>1. CASE WritePolicy(Boot)
  BY <1>1, WritePolicyLeads
<1>2. CASE at = "idle" /\ ~lastErr /\ (SilentMutate \/ UNCHANGED vars)
  <2>1. UNCHANGED <<rules, routes, links>>
    BY <1>2, SilentEffect DEF vars, kernel
  <2> QED BY <1>2, <2>1 DEF QuietLeads, Leads
<1> QED BY <1>1, <1>2, QuietOnlyBySaving

(* Upstreams, clients and settings may be committed between the reads of an Apply, also *)
(* without an Apply of their own: one that succeeds still leaves no rule that leads into *)
(* an empty table.                                                            *)
THEOREM RulesLead ==
  Alone /\ RebootOnly /\ BuiltinApart /\ NeverRefused => (Spec => []RulesLeadSomewhere)
<1> SUFFICES ASSUME Alone, RebootOnly, BuiltinApart, NeverRefused PROVE Spec => []RulesLeadSomewhere
  OBVIOUS
<1>1. Init => QuietLeads
  BY BootIsJob DEF Init, at, QuietLeads
<1>2. TypeOK /\ Progress /\ Clean /\ QuietLeads /\ [Next]_vars => QuietLeads'
  BY LeadsStep
<1>3. QuietLeads => RulesLeadSomewhere
  BY QuietIsIdle DEF QuietLeads, Leads, RulesLeadSomewhere
<1> QED BY <1>1, <1>2, <1>3, CleanInvariant, TypeCorrect, PTL DEF Spec

(* The uplink of the direct clients is the one the settings ask for. *)
ExtCurrent == at \in Routing => me.ext = ExtOf(db)

(* Nobody commits between the read of the settings and the placing.           *)
LEMMA ExtStep ==
  ASSUME Alone, RebootOnly, NoSilence, TypeOK, Current, Clean, ExtCurrent, [Next]_vars
  PROVE  ExtCurrent'
<1> USE DEF Routing
<1>0. ~Fails(Boot) /\ ~DiskFull(Boot)
  BY NoFault DEF Clean
<1>1. CASE at' \notin Routing
  BY <1>1 DEF ExtCurrent
<1>2. CASE at \in Routing /\ me'.ext = me.ext /\ db' = db
  BY <1>2 DEF ExtCurrent
<1>3. CASE DetectExternalInterface(Boot)
  <2>1. at = "detect" /\ me'.ext = ExtOf(me) /\ db' = db
    BY <1>0, <1>3, DetectExternalInterfaceEffect
  <2> QED BY <2>1 DEF Current, ExtCurrent, ExtOf
<1>4. CASE Rollback(Boot) \/ SyncWireGuard(Boot)
  BY <1>1, <1>4, LoadPolicyEffect, UndoRuleEffect, FlushTableEffect, LoadNATStateEffect,
     UndoNATEffect, LoadWGRuntimeEffect, DownEffect, ReadIngressEffect, HealEffect,
     ReadPeersEffect,
     ReadTunnelsEffect, UpIngressEffect, UpTunnelEffect, TruncateRuntimeEffect,
     WriteRuntimeEffect DEF Rollback, SyncWireGuard, Aborts
<1>5. CASE Route(Boot) \/ Persist(Boot)
  BY <1>1, <1>2, <1>3, <1>5, ListUpstreamTunnelsEffect, ListClientsEffect,
     GetSystemSettingsEffect, AddRouteEffect, SkipClientEffect, RefuseOfflineEffect,
     PlaceDirectEffect, PlaceRoutedEffect,
     AppendNATEffect, SavingEffects DEF Route, Persist, SameReads, Aborts
<1>6. CASE Mutate(Boot) \/ SystemApply(Boot) \/ Reboot \/ Kill
  BY <1>1, <1>6, BeginEffect, RestartEffect
<1>7. CASE Cancel(Boot)
  BY <1>7, NoFault DEF Clean
<1>8. CASE SilentMutate
  BY <1>8, SilentEffect DEF NoSilence
<1>9. CASE UNCHANGED vars
  BY <1>9 DEF vars, at, me, ExtCurrent
<1> QED BY <1>0, <1>3, <1>4, <1>5, <1>6, <1>7, <1>8, <1>9, AloneNext

(* An Apply that succeeds from a clean kernel leaves exactly the database in it. *)
LEMMA WritePolicyExact ==
  ASSUME BuiltinApart, TypeOK, Progress, Current, Clean, ExtCurrent, BuiltinStays,
         WritePolicy(Boot)
  PROVE  Exact(db)'
<1> USE DEF Raised, Raising, Listing, Routing
<1>1. at = "writePolicy" /\ UNCHANGED <<db, rules, routes, nat, links, peers>>
  BY SavingEffects DEF kernel
<1>2. /\ me.tunnelsTodo = {} /\ me.clientsTodo = {} /\ me.natTodo = me.nat
      /\ RoutesOf(me) = WantRoutes(db) /\ RulesOf(me) = WantRules(db)
      /\ \A r \in NATRules : Cardinality(ViaTunnel(me, r)) = RoutedNAT(db, r)
  BY <1>1, PlacedWanted
<1>3. Installed(db)
  BY <1>1, WritePolicyServes DEF Served, Installed
<1>4. rules = Builtin \cup WantRules(db)
  <2>1. rules \ Builtin \subseteq WantRules(db)
    BY <1>1, <1>2 DEF Clean, CleanRules, Progress, RulesPlaced
  <2> QED BY <1>3, <2>1, BuiltinThere DEF Installed
<1>5. routes = WantRoutes(db)
  BY <1>1, <1>2, <1>3 DEF Clean, CleanRoutes, Progress, RoutesPlaced, Installed
<1>6. ASSUME NEW r \in NATRules PROVE nat[r] = RoutedNAT(db, r) + DirectNAT(db, r)
  <2>1. me.ext = ExtOf(db)
    BY <1>1 DEF ExtCurrent
  <2>2. Count(me.nat, r) = RoutedNAT(db, r) + DirectNAT(db, r)
    BY <1>1, <2>1, PlacedWanted DEF Progress, NATPlanned, DirectNAT
  <2>3. nat[r] <= Count(me.nat, r) /\ nat[r] >= Count(me.nat, r)
    BY <1>1, <1>2 DEF Clean, CleanNAT, Progress, NATPlaced
  <2>4. nat[r] \in Nat /\ Count(me.nat, r) \in Nat
    BY CountNat, MyType, FieldTypes DEF TypeOK
  <2> QED BY <2>2, <2>3, <2>4
<1>7. links = WantLinks(db)
  <2>1. Configured(db.tunnels) \subseteq Enabled(db.tunnels)
    BY DEF Configured
  <2>2. links \subseteq WantLinks(db)
    BY <1>1, <2>1 DEF Clean, CleanLinks, Current, WantLinks
  <2> QED BY <1>3, <2>2 DEF Installed
<1>8. peers = Enabled(db.clients)
  BY <1>3 DEF Installed
<1> QED BY <1>1, <1>4, <1>5, <1>6, <1>7, <1>8 DEF Exact

(* At rest without an error.                                                  *)
QuietExact == at = "idle" /\ ~lastErr => Exact(db)

(* At rest nothing of that is touched.                                        *)
LEMMA ExactStep ==
  ASSUME Alone, NoSilence, BuiltinApart, TypeOK, Progress, Current, Clean, ExtCurrent,
         BuiltinStays, QuietExact, [Next]_vars
  PROVE  QuietExact'
<1> SUFFICES ASSUME at' = "idle", ~lastErr' PROVE Exact(db)'
  BY DEF QuietExact
<1>1. CASE WritePolicy(Boot)
  BY <1>1, WritePolicyExact
<1>2. CASE at = "idle" /\ ~lastErr /\ UNCHANGED vars
  BY <1>2 DEF QuietExact, vars, kernel, Exact
<1>3. ~SilentMutate
  BY SilentEffect DEF NoSilence
<1> QED BY <1>1, <1>2, <1>3, QuietOnlyBySaving

(* README.md:232: when requests apply one after the other and no command is refused, a *)
(* node at rest without an error carries exactly its database, with every rule, NAT rule *)
(* and interface there as often as it should be, wherever containers were recreated and *)
(* whatever Applies have failed before at an ingress or an upstream.          *)
THEOREM QuietCurrent ==
  Alone /\ RebootOnly /\ NoSilence /\ BuiltinApart /\ NeverRefused => (Spec => []QuietMeansCurrent)
<1> SUFFICES ASSUME Alone, RebootOnly, NoSilence, BuiltinApart, NeverRefused
             PROVE  Spec => []QuietMeansCurrent
  OBVIOUS
<1>1. Init => ExtCurrent /\ QuietExact
  BY BootIsJob DEF Init, at, ExtCurrent, QuietExact, Routing
<1>2. TypeOK /\ Progress /\ Current /\ Clean /\ BuiltinStays /\ ExtCurrent /\ QuietExact /\ [Next]_vars
        => (ExtCurrent /\ QuietExact)'
  BY ExtStep, ExactStep
<1>3. QuietExact => QuietMeansCurrent
  BY QuietIsIdle DEF QuietExact, QuietMeansCurrent
<1>4. Spec => []BuiltinStays
  BY BuiltinSafe
<1> QED BY <1>1, <1>2, <1>3, <1>4, CleanInvariant, AppliedInvariant, TypeCorrect, PTL DEF Spec
=============================================================================
