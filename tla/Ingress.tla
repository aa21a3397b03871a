------------------------------ MODULE Ingress ------------------------------
(***************************************************************************)
(* The row of ingress_settings and everything that passes it on: the        *)
(* settings page, PUT /settings/ingress, the import of a wg-easy export,    *)
(* the part of an Apply that completes the row and brings the interface up, *)
(* and the configurations exported to clients.  A step is one statement or  *)
(* command of one request.                                                 *)
(*                                                                         *)
(* Of the row there are the key pair and the obfuscation parameters; a      *)
(* public key is named as its private key is.  Registry has the addresses,  *)
(* Netctl the rest of an Apply.                                            *)
(*                                                                         *)
(* An operator marked "mutant" is no part of the model: it is the next     *)
(* definition with a bug in it, for checking that the properties notice.   *)
(***************************************************************************)
EXTENDS Amnezia

CONSTANTS
  Requests,      \* requests that may be in progress at once
  Founds,        \* parameters of a row at the outset: given at bootstrap or by an older version
  Typed,         \* what is typed into a padding of the settings page, and where:
  Fields,        \*   paddings that get edited
  Files,         \* wg-easy exports: a key, and parameters in up to four places
  Absent,        \* a place that a file leaves out
  MaxRequests,   \* bound: requests received in all
  MaxFaults      \* bound: callers that hang up, failed commands and restarts

Keys == {0} \cup {f.key : f \in Files}
Places == {"awg", "amnezia", "server.awg", "server.amnezia"}

ASSUME IngressOK == /\ {MaxRequests, MaxFaults} \subseteq Nat
                    /\ Founds \subseteq Params /\ Fields \subseteq 1..4
                    /\ Typed \subseteq Paddings \cup {Blank}
                    /\ \A f \in Files : /\ f.key \in Nat \ {0}
                                        /\ f.block \in [Places -> Params \cup {Absent}]

VARIABLES
  row,           \* ingress_settings, with what it was given and by whom
  job,           \* request -> what its handler does next, and its locals
  shown,         \* the settings page
  exported,      \* the last exported configuration
  since,         \* the row was given something else since then
  kernel,        \* the row the interface was brought up with
  pending,       \* the row was written and not applied since
  met,           \* two requests have been in progress at once
  asked,         \* the parameters that the row was last given
  missed,        \* requests that hold a row they read before it was
  overwritten,   \* one of them has written it back
  received, faults

asking == <<asked, missed, overwritten>>
history == <<since, pending, met, asking>>
vars == <<row, job, shown, exported, kernel, history, received, faults>>

(* given, age and from are history: the parameters before they were completed,  *)
(* and the imports that brought the private and the public key.                 *)
Row(key, pub, p, age, from) ==
  [key |-> key, pub |-> pub, params |-> p, given |-> p, age |-> age, from |-> from]
Nothing == [s |-> [i \in 1..4 |-> Blank], h |-> [i \in Slots |-> 0]]
NoRow == Row(0, Blank, Nothing, 0, 0)
Idle == [step |-> "idle", row |-> NoRow, body |-> NoRow, stale |-> FALSE, page |-> FALSE]

(* Bootstrap completes what it is given; a row of an older version is as it is,  *)
(* if no Apply was made at startup or none got that far.                        *)
Init ==
  /\ \E p \in Founds : \E q \in EnsureAmneziaDefaults(p) \cup {p} :
       row = [Row(0, 0, p, 0, 0) EXCEPT !.params = q]
  /\ asked = row.given /\ missed = {} /\ overwritten = FALSE
  /\ job = [r \in Requests |-> Idle]
  /\ shown = NoRow /\ exported = NoRow /\ since = TRUE
  /\ kernel = NoRow /\ pending = TRUE /\ met = FALSE
  /\ received = 0 /\ faults = 0
-----------------------------------------------------------------------------
At(r, step) == job[r].step = step
Go(r, j) == job' = [job EXCEPT ![r] = j]
End(r) == Go(r, Idle)
Fault == faults < MaxFaults /\ faults' = faults + 1
NoFault == UNCHANGED faults

Receive(r, j) ==
  /\ At(r, "idle") /\ received < MaxRequests
  /\ received' = received + 1
  /\ met' = (met \/ \E q \in Requests : ~At(q, "idle"))
  /\ Go(r, j)
  /\ UNCHANGED <<row, shown, exported, kernel, since, pending, asking, faults>>

(* Whoever has read the row holds an old one from now on. *)
Write(r, new, j) ==
  /\ row' = new
  /\ job' = [q \in Requests |-> IF q = r THEN j ELSE [job[q] EXCEPT !.stale = TRUE]]

(* The row is given other parameters: whoever has completed the old ones will    *)
(* write them back.                                                             *)
Give(r, new, j) ==
  /\ Write(r, new, j)
  /\ asked' = new.params /\ overwritten' = FALSE
  /\ missed' = {q \in Requests : At(q, "persist")}
  /\ since' = TRUE /\ pending' = TRUE

(* GET /settings/ingress leaves the private key out. *)
OpenPage ==
  /\ received < MaxRequests /\ received' = received + 1
  /\ shown' = [row EXCEPT !.key = 0]
  /\ UNCHANGED <<row, job, exported, kernel, history, faults>>

(* GET /clients/{id}/config and /qrcode *)
ClientConfig ==
  /\ received < MaxRequests /\ received' = received + 1
  /\ exported' = row /\ since' = FALSE
  /\ UNCHANGED <<row, job, shown, kernel, pending, met, asking, faults>>

PutIngress(r) ==
  /\ shown # NoRow
  /\ \E f \in Fields, v \in Typed, pub \in {shown.pub, Blank} :
       Receive(r, [Idle EXCEPT !.step = "get", !.page = TRUE,
                     !.body = Row(0, pub, [shown.params EXCEPT !.s[f] = v], shown.age, shown.from)])

PickAmnezia(b) ==
  IF b["awg"] # Absent THEN b["awg"]
  ELSE IF b["amnezia"] # Absent THEN b["amnezia"]
  ELSE IF b["server.awg"] # Absent THEN b["server.awg"]
  ELSE b["server.amnezia"]

Imported(f) == Row(f.key, f.key, PickAmnezia(f.block), received + 1, received + 1)

ImportVanilla(r) == \E f \in Files :                 \* mutant
  Receive(r, [Idle EXCEPT !.step = "import", !.body = Imported(f)])

(* A file without parameters is refused (422). *)
WgEasyImport(r) == \E f \in Files :
  /\ PickAmnezia(f.block) # Absent
  /\ Receive(r, [Idle EXCEPT !.step = "import", !.body = Imported(f)])

SystemApply(r) == Receive(r, [Idle EXCEPT !.step = "teardown"])
-----------------------------------------------------------------------------
KeepBlankKey(r) ==                                    \* mutant
  /\ At(r, "get")
  /\ LET b == job[r].body
         pub == IF b.pub = Blank THEN row.pub ELSE b.pub
         from == IF b.pub = Blank THEN row.from ELSE b.from
     IN  Go(r, [job[r] EXCEPT !.step = "put", !.stale = FALSE,
                  !.body = Row(b.key, pub, b.params, row.age, from)])
  /\ UNCHANGED <<row, shown, exported, kernel, history, received, faults>>

(* PUT: the private key of the row, and its public key when the body has none. *)
GetIngress(r) ==
  /\ At(r, "get")
  /\ LET b == job[r].body
         pub == IF b.pub = Blank THEN row.pub ELSE b.pub
         from == IF b.pub = Blank THEN row.from ELSE b.from
     IN  Go(r, [job[r] EXCEPT !.step = "put", !.stale = FALSE,
                  !.body = Row(row.key, pub, b.params, row.age, from)])
  /\ UNCHANGED <<row, shown, exported, kernel, history, received, faults>>

UpdateIngress(r) ==
  /\ At(r, "put")
  /\ Give(r, job[r].body, [job[r] EXCEPT !.step = "teardown"])
  /\ UNCHANGED <<shown, exported, kernel, met, received, faults>>

(* The row is replaced, keys included, and nothing is applied. *)
ImportIngress(r) ==
  /\ At(r, "import")
  /\ Give(r, job[r].body, Idle)
  /\ UNCHANGED <<shown, exported, kernel, met, received, faults>>
-----------------------------------------------------------------------------
(* Controller.Apply *)

Teardown(r) ==
  /\ At(r, "teardown") /\ Go(r, [job[r] EXCEPT !.step = "read"])
  /\ kernel' = NoRow
  /\ UNCHANGED <<row, shown, exported, history, received, faults>>

ReadUnpersisted(r) ==                                 \* mutant
  /\ At(r, "read")
  /\ \E q \in EnsureAmneziaDefaults(row.params) :
       Go(r, [job[r] EXCEPT !.step = "up", !.row = [row EXCEPT !.params = q], !.stale = FALSE])
  /\ missed' = missed \ {r}
  /\ UNCHANGED <<row, shown, exported, kernel, since, pending, met, asked, overwritten,
                 received, faults>>

ReadIngress(r) ==
  /\ At(r, "read")
  /\ \E q \in EnsureAmneziaDefaults(row.params) :
       Go(r, [job[r] EXCEPT !.step = IF q = row.params THEN "up" ELSE "persist",
                            !.row = [row EXCEPT !.params = q], !.stale = FALSE])
  /\ missed' = missed \ {r}
  /\ UNCHANGED <<row, shown, exported, kernel, since, pending, met, asked, overwritten,
                 received, faults>>

(* The whole row goes back, and undoes whatever was written since it was read. *)
Heal(r) ==
  /\ At(r, "persist")
  /\ Write(r, job[r].row, [job[r] EXCEPT !.step = "up"])
  /\ since' = (since \/ job[r].stale)
  /\ overwritten' = (overwritten \/ r \in missed) /\ missed' = missed \ {r}
  /\ UNCHANGED <<shown, exported, kernel, pending, met, asked, received, faults>>

(* awg-quick up refuses an interface that is there, awg setconf unsound         *)
(* parameters.  A PUT answers with its body, whatever became of the Apply.      *)
Up(r) ==
  /\ At(r, "up") /\ End(r)
  /\ kernel' = IF kernel = NoRow /\ Sound(job[r].row.params) THEN job[r].row ELSE kernel
  /\ pending' = (job[r].stale \/ kernel' # job[r].row)
  /\ shown' = IF job[r].page THEN [job[r].body EXCEPT !.key = 0] ELSE shown
  /\ UNCHANGED <<row, exported, since, met, asking, received, faults>>

(* A draw, a statement or a command fails: the row may be left incomplete, the  *)
(* interface down.  A caller that has hung up gets no answer.                  *)
Fails(r) ==
  /\ ~At(r, "idle") /\ Fault
  /\ End(r)
  /\ shown' \in {shown} \cup IF job[r].page /\ job[r].step \in {"teardown", "read", "persist", "up"}
                             THEN {[job[r].body EXCEPT !.key = 0]} ELSE {}
  /\ UNCHANGED <<row, exported, kernel, history, received>>

(* The process restarts, with or without its container. *)
Restart ==
  /\ Fault
  /\ job' = [r \in Requests |-> Idle]
  /\ kernel' \in {kernel, NoRow}
  /\ UNCHANGED <<row, shown, exported, history, received>>

Handle(r) == \/ GetIngress(r) \/ UpdateIngress(r) \/ ImportIngress(r) \/ Teardown(r)
             \/ ReadIngress(r) \/ Heal(r) \/ Up(r) \/ Fails(r)

Next == \/ OpenPage \/ ClientConfig \/ Restart
        \/ \E r \in Requests : Handle(r) \/ PutIngress(r) \/ WgEasyImport(r) \/ SystemApply(r)

Spec == Init /\ [][Next]_vars
=============================================================================
