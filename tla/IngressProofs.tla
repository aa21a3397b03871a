---------------------------- MODULE IngressProofs ----------------------------
(***************************************************************************)
(* Results on the obfuscation parameters and on the copies of the ingress   *)
(* row, for every range of paddings and markers, every set of requests and  *)
(* exports and every bound.                                                *)
(***************************************************************************)
EXTENDS IngressRequirements, TLAPS

LEMMA ConstantsTyped ==
  /\ MaxRequests \in Nat /\ MaxFaults \in Nat
  /\ Founds \subseteq Params /\ Fields \subseteq 1..4
  /\ Typed \subseteq Nat \cup {Blank} /\ Blank \notin Int
  /\ \A f \in Files : f.key \in Keys /\ f.block \in [Places -> Params \cup {Absent}]
  /\ Keys \subseteq Nat /\ 0 \in Keys
BY IngressOK, ParametersOK DEF Keys
-----------------------------------------------------------------------------
(* What EnsureAmneziaDefaults makes of its argument. *)

(* A result of EnsureAmneziaDefaults satisfies Completes, entry by entry. *)
LEMMA OutcomeFacts ==
  ASSUME NEW p \in Params, NEW q \in EnsureAmneziaDefaults(p)
  PROVE  /\ q \in Params /\ Completes(p, q)
         /\ \A i \in 1..4 : q.s[i] \in Nat \cup {Blank} /\ p.s[i] \in Nat \cup {Blank}
<1>1. q \in Outcomes(p) /\ Completes(p, q)
  BY DEF EnsureAmneziaDefaults
<1>2. /\ p.s \in [1..4 -> Nat \cup {Blank}] /\ p.h \in [Slots -> Nat]
      /\ \A i \in 1..4 : p.s[i] \in Nat \cup {Blank}
  BY DEF Params
<1>3. \A i \in 1..4 : Pick(p.s[i], {}) \subseteq Nat \cup {Blank}
  BY <1>2, ParametersOK DEF Pick
<1>4. PICK a \in Pick(p.s[1], {}), b \in Pick(p.s[2], {}), c \in Pick(p.s[3], {}), d \in Pick(p.s[4], {}) :
        q.s = <<a, b, c, d>>
  BY <1>1 DEF Outcomes
<1>5. q.s \in [1..4 -> Nat \cup {Blank}]
  <2>1. {a, b, c, d} \subseteq Nat \cup {Blank}
    BY <1>3, <1>4
  <2> QED BY <1>4, <2>1
<1>6. q.h \in [Slots -> Nat] /\ q = [s |-> q.s, h |-> q.h]
  <2>1. Markers \subseteq Nat
    BY ParametersOK
  <2>2. Draws \subseteq [Slots -> Nat]
    BY <2>1 DEF Draws
  <2>3. q.h \in Draws \cup {p.h} /\ q = [s |-> q.s, h |-> q.h]
    BY <1>1 DEF Outcomes
  <2> QED BY <1>2, <2>2, <2>3
<1> QED BY <1>1, <1>2, <1>5, <1>6 DEF Params

(* defaults.go:38: what is there stays. *)
LEMMA GivenStays ==
  ASSUME NEW p \in Params, NEW q \in EnsureAmneziaDefaults(p)
  PROVE  /\ \A i \in 1..4 : p.s[i] # Blank => q.s[i] = p.s[i]
         /\ ~NoMarkers(p) => q.h = p.h
<1>1. Completes(p, q)
  BY OutcomeFacts
<1>2. \A i \in 1..4 : p.s[i] # Blank => q.s[i] = p.s[i]
  <2> SUFFICES ASSUME NEW i \in 1..4, p.s[i] # Blank PROVE q.s[i] = p.s[i]
    OBVIOUS
  <2>1. \A forbidden : Pick(p.s[i], forbidden) = {p.s[i]}
    BY DEF Pick
  <2>2. i = 1 \/ i = 2 \/ i = 3 \/ i = 4
    OBVIOUS
  <2> QED BY <1>1, <2>1, <2>2 DEF Completes
<1> QED BY <1>1, <1>2 DEF Completes

(* A padding that was blank is drawn apart from the ones before it. *)
LEMMA DrawnApart ==
  ASSUME NEW p \in Params, NEW q \in EnsureAmneziaDefaults(p)
  PROVE  /\ \A i \in 1..4 : q.s[i] # Blank
         /\ \A i, j \in 1..4 : i < j /\ p.s[j] = Blank => q.s[i] # q.s[j]
         /\ p.s[2] = Blank => q.s[2] # q.s[1] + Overhead
<1>1. Completes(p, q) /\ \A i \in 1..4 : q.s[i] \in Nat \cup {Blank}
  BY OutcomeFacts
<1>2. \A v, forbidden : Pick(v, forbidden) = IF v = Blank THEN Paddings \ forbidden ELSE {v}
  BY DEF Pick
<1>3. Blank \notin Paddings
  <2>1. Paddings \subseteq Int /\ Blank \notin Int
    BY ParametersOK
  <2> QED BY <2>1, Zenon
<1>4. q.s[1] # Blank /\ q.s[2] # Blank /\ q.s[3] # Blank /\ q.s[4] # Blank
  BY <1>1, <1>2, <1>3 DEF Completes
<1>5. /\ Atoi(q.s[1]) = q.s[1] /\ Atoi(q.s[2]) = q.s[2] /\ Atoi(q.s[3]) = q.s[3]
  BY <1>4 DEF Atoi
<1>6. p.s[2] = Blank => q.s[2] # q.s[1] /\ q.s[2] # q.s[1] + Overhead
  BY <1>1, <1>2, <1>5 DEF Completes
<1>7. p.s[3] = Blank => q.s[3] # q.s[1] /\ q.s[3] # q.s[2]
  BY <1>1, <1>2, <1>5 DEF Completes
<1>8. p.s[4] = Blank => q.s[4] # q.s[1] /\ q.s[4] # q.s[2] /\ q.s[4] # q.s[3]
  BY <1>1, <1>2, <1>5 DEF Completes
<1>9. ASSUME NEW i \in 1..4, NEW j \in 1..4, i < j, p.s[j] = Blank
      PROVE  q.s[i] # q.s[j]
  <2>1. \/ j = 2 /\ i = 1
        \/ j = 3 /\ (i = 1 \/ i = 2)
        \/ j = 4 /\ (i = 1 \/ i = 2 \/ i = 3)
    BY <1>9
  <2> QED BY <1>6, <1>7, <1>8, <1>9, <2>1
<1> QED BY <1>4, <1>6, <1>9

(* What is repairable is made sound. *)
LEMMA RepairableHeals ==
  ASSUME NEW p \in Params, NEW q \in EnsureAmneziaDefaults(p), Repairable(p)
  PROVE  Sound(q)
<1>1. /\ \A i \in 1..4 : p.s[i] # Blank => q.s[i] = p.s[i]
      /\ ~NoMarkers(p) => q.h = p.h
  BY GivenStays
<1>2. /\ \A i \in 1..4 : q.s[i] # Blank
      /\ \A i, j \in 1..4 : i < j /\ p.s[j] = Blank => q.s[i] # q.s[j]
      /\ p.s[2] = Blank => q.s[2] # q.s[1] + Overhead
  BY DrawnApart
<1>3. SizesDiffer(q)
  <2>1. ASSUME NEW i \in 1..4, NEW j \in 1..4, i < j, p.s[j] # Blank
        PROVE  q.s[i] # q.s[j]
    <3>1. p.s[i] # Blank
      BY <2>1 DEF Repairable
    <3>2. p.s[i] # p.s[j]
      BY <2>1, <3>1 DEF Repairable, SizesDiffer, Apart
    <3> QED BY <1>1, <2>1, <3>1, <3>2
  <2>2. q.s[2] # q.s[1] + Overhead
    <3>1. CASE p.s[2] # Blank
      <4>1. p.s[1] # Blank
        BY <3>1 DEF Repairable
      <4> QED BY <1>1, <3>1, <4>1 DEF Repairable, SizesDiffer
    <3> QED BY <1>2, <3>1
  <2> QED BY <1>2, <2>1, <2>2 DEF SizesDiffer, Apart
<1>4. MarkersDiffer(q) /\ ~NoMarkers(q)
  <2>1. CASE NoMarkers(p)
    <3>1. q.h \in Draws
      BY <2>1, OutcomeFacts DEF Completes
    <3> QED BY <3>1, ParametersOK DEF Draws, MarkersDiffer, NoMarkers
  <2>2. CASE ~NoMarkers(p)
    BY <1>1, <2>2 DEF Repairable, MarkersDiffer, NoMarkers
  <2> QED BY <2>1, <2>2
<1> QED BY <1>2, <1>3, <1>4 DEF Sound, Complete

(* What is complete is left alone. *)
LEMMA CompleteStays ==
  ASSUME NEW p \in Params, NEW q \in EnsureAmneziaDefaults(p), Complete(p)
  PROVE  q = p
<1>1. /\ \A i \in 1..4 : q.s[i] = p.s[i]
      /\ q.h = p.h
  BY GivenStays DEF Complete
<1>2. q \in Params
  BY OutcomeFacts
<1>3. q.s = p.s
  BY <1>1, <1>2 DEF Params
<1> QED BY <1>1, <1>2, <1>3 DEF Params
-----------------------------------------------------------------------------
(* Rows and jobs, field by field. *)

LEMMA RowFacts ==
  ASSUME NEW key \in Keys, NEW pub \in Keys \cup {Blank}, NEW p \in Params, NEW age \in Nat, NEW from \in Nat
  PROVE  /\ Row(key, pub, p, age, from) \in Rows
         /\ Row(key, pub, p, age, from).key = key /\ Row(key, pub, p, age, from).pub = pub
         /\ Row(key, pub, p, age, from).params = p /\ Row(key, pub, p, age, from).given = p
         /\ Row(key, pub, p, age, from).age = age /\ Row(key, pub, p, age, from).from = from
BY DEF Row, Rows

LEMMA RowFields ==
  ASSUME NEW x \in Rows
  PROVE  /\ x.key \in Keys /\ x.pub \in Keys \cup {Blank} /\ x.params \in Params /\ x.given \in Params
         /\ x.age \in Nat /\ x.from \in Nat
BY DEF Rows

LEMMA Completed ==
  ASSUME NEW x \in Rows, NEW q \in Params
  PROVE  /\ [x EXCEPT !.params = q] \in Rows
         /\ [x EXCEPT !.params = q].key = x.key /\ [x EXCEPT !.params = q].pub = x.pub
         /\ [x EXCEPT !.params = q].params = q /\ [x EXCEPT !.params = q].given = x.given
         /\ [x EXCEPT !.params = q].age = x.age /\ [x EXCEPT !.params = q].from = x.from
BY DEF Rows

LEMMA CompletedAlready ==
  ASSUME NEW x \in Rows
  PROVE  [x EXCEPT !.params = x.params] = x
BY DEF Rows

LEMMA Shown ==
  ASSUME NEW x \in Rows
  PROVE  /\ [x EXCEPT !.key = 0] \in Rows
         /\ [x EXCEPT !.key = 0].pub = x.pub /\ [x EXCEPT !.key = 0].params = x.params
         /\ [x EXCEPT !.key = 0].age = x.age /\ [x EXCEPT !.key = 0].from = x.from
<1>1. 0 \in Keys
  BY ConstantsTyped
<1> QED BY <1>1 DEF Rows

LEMMA NothingTyped == Nothing \in Params
BY DEF Nothing, Params

LEMMA NoRowFacts ==
  /\ NoRow \in Rows /\ NoRow.key = 0 /\ NoRow.pub = Blank /\ NoRow.params = Nothing
  /\ NoRow.given = Nothing /\ NoRow.age = 0 /\ NoRow.from = 0
<1>1. 0 \in Keys /\ Blank \in Keys \cup {Blank} /\ 0 \in Nat
  BY ConstantsTyped
<1> QED BY <1>1, NothingTyped, RowFacts DEF NoRow

LEMMA JobFields ==
  ASSUME NEW j \in Jobs
  PROVE  j.step \in Steps /\ j.row \in Rows /\ j.body \in Rows /\ j.stale \in BOOLEAN /\ j.page \in BOOLEAN
BY DEF Jobs

LEMMA IdleFacts ==
  /\ Idle \in Jobs /\ Idle.step = "idle" /\ Idle.row = NoRow /\ Idle.body = NoRow
  /\ Idle.stale = FALSE /\ Idle.page = FALSE
<1>1. NoRow \in Rows
  BY NoRowFacts
<1> QED BY <1>1 DEF Idle, Jobs, Steps

LEMMA PutFacts ==
  ASSUME NEW j, NEW b \in Rows, j = [Idle EXCEPT !.step = "get", !.page = TRUE, !.body = b]
  PROVE  j \in Jobs /\ j.step = "get" /\ j.row = NoRow /\ j.body = b
<1>1. Idle \in Jobs /\ Idle.row = NoRow
  BY IdleFacts
<1> QED BY <1>1 DEF Jobs, Steps

LEMMA ImportFacts ==
  ASSUME NEW j, NEW b \in Rows, j = [Idle EXCEPT !.step = "import", !.body = b]
  PROVE  j \in Jobs /\ j.step = "import" /\ j.row = NoRow /\ j.body = b
<1>1. Idle \in Jobs /\ Idle.row = NoRow
  BY IdleFacts
<1> QED BY <1>1 DEF Jobs, Steps

LEMMA ApplyFacts ==
  ASSUME NEW j, j = [Idle EXCEPT !.step = "teardown"]
  PROVE  j \in Jobs /\ j.step = "teardown" /\ j.row = NoRow /\ j.body = NoRow
<1>1. Idle \in Jobs /\ Idle.row = NoRow /\ Idle.body = NoRow
  BY IdleFacts
<1> QED BY <1>1 DEF Jobs, Steps

LEMMA StepFacts ==
  ASSUME NEW j, NEW o \in Jobs, NEW s \in Steps, j = [o EXCEPT !.step = s]
  PROVE  j \in Jobs /\ j.step = s /\ j.row = o.row /\ j.body = o.body /\ j.stale = o.stale /\ j.page = o.page
BY DEF Jobs

LEMMA BodyFacts ==
  ASSUME NEW j, NEW o \in Jobs, NEW b \in Rows,
         j = [o EXCEPT !.step = "put", !.stale = FALSE, !.body = b]
  PROVE  j \in Jobs /\ j.step = "put" /\ j.row = o.row /\ j.body = b
BY DEF Jobs, Steps

LEMMA ReadFacts ==
  ASSUME NEW j, NEW o \in Jobs, NEW x \in Rows, NEW s \in Steps,
         j = [o EXCEPT !.step = s, !.row = x, !.stale = FALSE]
  PROVE  j \in Jobs /\ j.step = s /\ j.row = x /\ j.body = o.body /\ j.stale = FALSE
BY DEF Jobs

LEMMA StaleFacts ==
  ASSUME NEW j, NEW o \in Jobs, j = [o EXCEPT !.stale = TRUE]
  PROVE  j \in Jobs /\ j.step = o.step /\ j.row = o.row /\ j.body = o.body /\ j.stale = TRUE
BY DEF Jobs

LEMMA Went ==
  ASSUME TypeOK, NEW r \in Requests, NEW j \in Jobs, Go(r, j)
  PROVE  /\ job' \in [Requests -> Jobs] /\ job'[r] = j
         /\ \A q \in Requests : q # r => job'[q] = job[q]
BY DEF TypeOK, Go

LEMMA Wrote ==
  ASSUME TypeOK, NEW r \in Requests, NEW new, NEW j \in Jobs, Write(r, new, j)
  PROVE  /\ job' \in [Requests -> Jobs] /\ job'[r] = j /\ row' = new
         /\ \A q \in Requests : q # r =>
              /\ job'[q].step = job[q].step /\ job'[q].row = job[q].row
              /\ job'[q].body = job[q].body /\ job'[q].stale = TRUE
<1>1. job \in [Requests -> Jobs]
  BY DEF TypeOK
<1>2. ASSUME NEW q \in Requests
      PROVE  /\ [job[q] EXCEPT !.stale = TRUE] \in Jobs
             /\ [job[q] EXCEPT !.stale = TRUE].step = job[q].step
             /\ [job[q] EXCEPT !.stale = TRUE].row = job[q].row
             /\ [job[q] EXCEPT !.stale = TRUE].body = job[q].body
             /\ [job[q] EXCEPT !.stale = TRUE].stale = TRUE
  <2>1. job[q] \in Jobs
    BY <1>1
  <2> QED BY <2>1, StaleFacts
<1>3. /\ row' = new
      /\ job' = [q \in Requests |-> IF q = r THEN j ELSE [job[q] EXCEPT !.stale = TRUE]]
  BY DEF Write
<1>4. \A q \in Requests : job'[q] = IF q = r THEN j ELSE [job[q] EXCEPT !.stale = TRUE]
  BY <1>3
<1>5. job' \in [Requests -> Jobs]
  BY <1>2, <1>3
<1> QED BY <1>2, <1>3, <1>4, <1>5
-----------------------------------------------------------------------------
(* What each action does to the job of its request, field by field. *)

Others(r) == \A q \in Requests : q # r => job'[q] = job[q]
OthersStale(r) ==
  \A q \in Requests : q # r =>
    /\ job'[q].step = job[q].step /\ job'[q].row = job[q].row
    /\ job'[q].body = job[q].body /\ job'[q].stale = TRUE
JobsTyped(r) == job' \in [Requests -> Jobs] /\ job'[r] \in Jobs /\ job[r] \in Jobs

LEMMA OnPut ==
  ASSUME TypeOK, NEW r \in Requests, PutIngress(r)
  PROVE  /\ JobsTyped(r) /\ Others(r) /\ At(r, "idle") /\ received' = received + 1
         /\ job'[r].step = "get" /\ job'[r].row = NoRow
         /\ job'[r].body.params = job'[r].body.given
         /\ job'[r].body.pub \in {shown.pub, Blank}
         /\ job'[r].body.age = shown.age /\ job'[r].body.from = shown.from
         /\ UNCHANGED <<row, shown, exported, kernel, since, pending, asking, faults>>
<1>1. PICK f \in Fields, v \in Typed, pub \in {shown.pub, Blank} :
        Receive(r, [Idle EXCEPT !.step = "get", !.page = TRUE,
                      !.body = Row(0, pub, [shown.params EXCEPT !.s[f] = v], shown.age, shown.from)])
  BY DEF PutIngress
<1>2. shown \in Rows
  BY DEF TypeOK
<1>3. PICK p : p = [shown.params EXCEPT !.s[f] = v]
  OBVIOUS
<1>4. p \in Params
  <2>1. shown.params \in Params /\ f \in 1..4 /\ v \in Nat \cup {Blank}
    BY <1>2, RowFields, ConstantsTyped
  <2> QED BY <1>3, <2>1 DEF Params
<1>5. PICK b : b = Row(0, pub, p, shown.age, shown.from)
  OBVIOUS
<1>6. /\ b \in Rows /\ b.params = b.given /\ b.pub = pub
      /\ b.age = shown.age /\ b.from = shown.from
  <2>1. 0 \in Keys /\ pub \in Keys \cup {Blank} /\ shown.age \in Nat /\ shown.from \in Nat
    BY <1>2, RowFields, ConstantsTyped
  <2> QED BY <1>4, <1>5, <2>1, RowFacts
<1>7. PICK j : j = [Idle EXCEPT !.step = "get", !.page = TRUE, !.body = b]
  OBVIOUS
<1>8. j \in Jobs /\ j.step = "get" /\ j.row = NoRow /\ j.body = b
  BY <1>6, <1>7, PutFacts
<1>9. Receive(r, j)
  BY <1>1, <1>3, <1>5, <1>7
<1>10. job[r] \in Jobs
  BY DEF TypeOK
<1> QED BY <1>6, <1>8, <1>9, <1>10, Went DEF Receive, JobsTyped, Others

LEMMA OnImport ==
  ASSUME TypeOK, NEW r \in Requests, WgEasyImport(r)
  PROVE  /\ JobsTyped(r) /\ Others(r) /\ At(r, "idle") /\ received' = received + 1
         /\ job'[r].step = "import" /\ job'[r].row = NoRow
         /\ job'[r].body.params = job'[r].body.given
         /\ job'[r].body.key = job'[r].body.pub
         /\ job'[r].body.age = received + 1 /\ job'[r].body.from = received + 1
         /\ UNCHANGED <<row, shown, exported, kernel, since, pending, asking, faults>>
<1>1. PICK f \in Files : /\ PickAmnezia(f.block) # Absent
                         /\ Receive(r, [Idle EXCEPT !.step = "import", !.body = Imported(f)])
  BY DEF WgEasyImport
<1>2. PickAmnezia(f.block) \in Params
  <2>1. f.block \in [Places -> Params \cup {Absent}]
    BY ConstantsTyped
  <2>2. PickAmnezia(f.block) \in Params \cup {Absent}
    BY <2>1 DEF PickAmnezia, Places
  <2> QED BY <1>1, <2>2
<1>3. PICK b : b = Imported(f)
  OBVIOUS
<1>4. /\ b \in Rows /\ b.params = b.given /\ b.key = b.pub
      /\ b.age = received + 1 /\ b.from = received + 1
  <2>1. f.key \in Keys /\ f.key \in Keys \cup {Blank} /\ received + 1 \in Nat
    BY ConstantsTyped DEF TypeOK
  <2> QED BY <1>2, <1>3, <2>1, RowFacts DEF Imported
<1>5. PICK j : j = [Idle EXCEPT !.step = "import", !.body = b]
  OBVIOUS
<1>6. j \in Jobs /\ j.step = "import" /\ j.row = NoRow /\ j.body = b
  BY <1>4, <1>5, ImportFacts
<1>7. Receive(r, j)
  BY <1>1, <1>3, <1>5
<1>8. job[r] \in Jobs
  BY DEF TypeOK
<1> QED BY <1>4, <1>6, <1>7, <1>8, Went DEF Receive, JobsTyped, Others

LEMMA OnApply ==
  ASSUME TypeOK, NEW r \in Requests, SystemApply(r)
  PROVE  /\ JobsTyped(r) /\ Others(r) /\ At(r, "idle") /\ received' = received + 1
         /\ job'[r].step = "teardown" /\ job'[r].row = NoRow /\ job'[r].body = NoRow
         /\ UNCHANGED <<row, shown, exported, kernel, since, pending, asking, faults>>
<1>1. PICK j : j = [Idle EXCEPT !.step = "teardown"]
  OBVIOUS
<1>2. j \in Jobs /\ j.step = "teardown" /\ j.row = NoRow /\ j.body = NoRow
  BY <1>1, ApplyFacts
<1>3. Receive(r, j)
  BY <1>1 DEF SystemApply
<1>4. job[r] \in Jobs
  BY DEF TypeOK
<1> QED BY <1>2, <1>3, <1>4, Went DEF Receive, JobsTyped, Others

LEMMA OnGet ==
  ASSUME TypeOK, NEW r \in Requests, GetIngress(r)
  PROVE  /\ JobsTyped(r) /\ Others(r) /\ At(r, "get")
         /\ job'[r].step = "put" /\ job'[r].row = job[r].row
         /\ job'[r].body.params = job'[r].body.given
         /\ job'[r].body.key = row.key /\ job'[r].body.age = row.age
         /\ \/ /\ job[r].body.pub = Blank
               /\ job'[r].body.pub = row.pub /\ job'[r].body.from = row.from
            \/ /\ job[r].body.pub # Blank
               /\ job'[r].body.pub = job[r].body.pub /\ job'[r].body.from = job[r].body.from
         /\ UNCHANGED <<row, shown, exported, kernel, history, received, faults>>
<1> DEFINE o == job[r].body
<1>1. PICK pub : pub = IF o.pub = Blank THEN row.pub ELSE o.pub
  OBVIOUS
<1>2. PICK from : from = IF o.pub = Blank THEN row.from ELSE o.from
  OBVIOUS
<1>3. PICK b : b = Row(row.key, pub, o.params, row.age, from)
  OBVIOUS
<1>4. job[r] \in Jobs /\ o \in Rows /\ row \in Rows
  BY JobFields DEF TypeOK
<1>5. /\ b \in Rows /\ b.params = b.given /\ b.key = row.key /\ b.age = row.age
      /\ b.pub = pub /\ b.from = from
  <2>1. /\ row.key \in Keys /\ pub \in Keys \cup {Blank} /\ o.params \in Params
        /\ row.age \in Nat /\ from \in Nat
    BY <1>1, <1>2, <1>4, RowFields
  <2> QED BY <1>3, <2>1, RowFacts
<1>6. PICK j : j = [job[r] EXCEPT !.step = "put", !.stale = FALSE, !.body = b]
  OBVIOUS
<1>7. j \in Jobs /\ j.step = "put" /\ j.row = job[r].row /\ j.body = b
  BY <1>4, <1>5, <1>6, BodyFacts
<1>8. /\ At(r, "get") /\ Go(r, j)
      /\ UNCHANGED <<row, shown, exported, kernel, history, received, faults>>
  BY <1>1, <1>2, <1>3, <1>6 DEF GetIngress
<1>9. JobsTyped(r) /\ Others(r) /\ job'[r] = j
  BY <1>4, <1>7, <1>8, Went DEF JobsTyped, Others
<1> QED BY <1>1, <1>2, <1>5, <1>7, <1>8, <1>9

LEMMA OnUpdate ==
  ASSUME TypeOK, NEW r \in Requests, UpdateIngress(r)
  PROVE  /\ JobsTyped(r) /\ OthersStale(r) /\ At(r, "put")
         /\ row' = job[r].body /\ row' \in Rows
         /\ job'[r].step = "teardown" /\ job'[r].row = job[r].row /\ job'[r].body = job[r].body
         /\ since' = TRUE /\ pending' = TRUE
         /\ asked' = job[r].body.params /\ overwritten' = FALSE
         /\ missed' = {q \in Requests : At(q, "persist")}
         /\ UNCHANGED <<shown, exported, kernel, met, received, faults>>
<1>1. job[r] \in Jobs /\ job[r].body \in Rows
  BY JobFields DEF TypeOK
<1>2. PICK j : j = [job[r] EXCEPT !.step = "teardown"]
  OBVIOUS
<1>3. j \in Jobs /\ j.step = "teardown" /\ j.row = job[r].row /\ j.body = job[r].body
  BY <1>1, <1>2, StepFacts DEF Steps
<1>4. Write(r, job[r].body, j)
  BY <1>2 DEF UpdateIngress, Give
<1>5. JobsTyped(r) /\ OthersStale(r) /\ job'[r] = j /\ row' = job[r].body
  BY <1>1, <1>3, <1>4, Wrote DEF JobsTyped, OthersStale
<1> QED BY <1>1, <1>3, <1>5 DEF UpdateIngress, Give

LEMMA OnImportIngress ==
  ASSUME TypeOK, NEW r \in Requests, ImportIngress(r)
  PROVE  /\ JobsTyped(r) /\ OthersStale(r) /\ At(r, "import")
         /\ row' = job[r].body /\ row' \in Rows /\ job'[r] = Idle
         /\ since' = TRUE /\ pending' = TRUE
         /\ asked' = job[r].body.params /\ overwritten' = FALSE
         /\ missed' = {q \in Requests : At(q, "persist")}
         /\ UNCHANGED <<shown, exported, kernel, met, received, faults>>
<1>1. job[r] \in Jobs /\ job[r].body \in Rows /\ Idle \in Jobs
  BY JobFields, IdleFacts DEF TypeOK
<1>2. Write(r, job[r].body, Idle)
  BY DEF ImportIngress, Give
<1>3. JobsTyped(r) /\ OthersStale(r) /\ job'[r] = Idle /\ row' = job[r].body
  BY <1>1, <1>2, Wrote DEF JobsTyped, OthersStale
<1> QED BY <1>1, <1>3 DEF ImportIngress, Give

LEMMA OnTeardown ==
  ASSUME TypeOK, NEW r \in Requests, Teardown(r)
  PROVE  /\ JobsTyped(r) /\ Others(r) /\ At(r, "teardown")
         /\ job'[r].step = "read" /\ job'[r].row = job[r].row /\ job'[r].body = job[r].body
         /\ kernel' = NoRow
         /\ UNCHANGED <<row, shown, exported, history, received, faults>>
<1>1. job[r] \in Jobs
  BY DEF TypeOK
<1>2. PICK j : j = [job[r] EXCEPT !.step = "read"]
  OBVIOUS
<1>3. j \in Jobs /\ j.step = "read" /\ j.row = job[r].row /\ j.body = job[r].body
  BY <1>1, <1>2, StepFacts DEF Steps
<1>4. Go(r, j)
  BY <1>2 DEF Teardown
<1>5. JobsTyped(r) /\ Others(r) /\ job'[r] = j
  BY <1>1, <1>3, <1>4, Went DEF JobsTyped, Others
<1> QED BY <1>3, <1>5 DEF Teardown

LEMMA OnRead ==
  ASSUME TypeOK, NEW r \in Requests, ReadIngress(r)
  PROVE  \E q \in EnsureAmneziaDefaults(row.params) :
           /\ JobsTyped(r) /\ Others(r) /\ At(r, "read") /\ q \in Params
           /\ job'[r].step = IF q = row.params THEN "up" ELSE "persist"
           /\ job'[r].row = [row EXCEPT !.params = q]
           /\ job'[r].body = job[r].body /\ job'[r].stale = FALSE
           /\ missed' = missed \ {r}
           /\ UNCHANGED <<row, shown, exported, kernel, since, pending, met, asked, overwritten,
                          received, faults>>
<1>1. PICK q \in EnsureAmneziaDefaults(row.params) :
        Go(r, [job[r] EXCEPT !.step = IF q = row.params THEN "up" ELSE "persist",
                             !.row = [row EXCEPT !.params = q], !.stale = FALSE])
  BY DEF ReadIngress
<1>2. row \in Rows /\ row.params \in Params /\ job[r] \in Jobs
  BY RowFields DEF TypeOK
<1>3. q \in Params
  BY <1>2, OutcomeFacts
<1>4. PICK x : x = [row EXCEPT !.params = q]
  OBVIOUS
<1>5. x \in Rows
  BY <1>2, <1>3, <1>4, Completed
<1>6. PICK s : s = IF q = row.params THEN "up" ELSE "persist"
  OBVIOUS
<1>7. PICK j : j = [job[r] EXCEPT !.step = s, !.row = x, !.stale = FALSE]
  OBVIOUS
<1>8. j \in Jobs /\ j.step = s /\ j.row = x /\ j.body = job[r].body /\ j.stale = FALSE
  <2>1. s \in Steps
    BY <1>6 DEF Steps
  <2>2. PICK o : o = job[r]
    OBVIOUS
  <2>3. j = [o EXCEPT !.step = s, !.row = x, !.stale = FALSE] /\ o \in Jobs
    BY <1>2, <1>7, <2>2
  <2> QED BY <1>5, <2>1, <2>2, <2>3 DEF Jobs
<1>9. Go(r, j)
  BY <1>1, <1>4, <1>6, <1>7
<1>10. JobsTyped(r) /\ Others(r) /\ job'[r] = j
  BY <1>2, <1>8, <1>9, Went DEF JobsTyped, Others
<1>11. /\ At(r, "read") /\ missed' = missed \ {r}
       /\ UNCHANGED <<row, shown, exported, kernel, since, pending, met, asked, overwritten,
                      received, faults>>
  BY DEF ReadIngress
<1> QED BY <1>3, <1>4, <1>6, <1>8, <1>10, <1>11

LEMMA OnHeal ==
  ASSUME TypeOK, NEW r \in Requests, Heal(r)
  PROVE  /\ JobsTyped(r) /\ OthersStale(r) /\ At(r, "persist")
         /\ row' = job[r].row /\ row' \in Rows
         /\ job'[r].step = "up" /\ job'[r].row = job[r].row /\ job'[r].body = job[r].body
         /\ job'[r].stale = job[r].stale /\ since' = (since \/ job[r].stale)
         /\ overwritten' = (overwritten \/ r \in missed) /\ missed' = missed \ {r}
         /\ UNCHANGED <<shown, exported, kernel, pending, met, asked, received, faults>>
<1>1. job[r] \in Jobs /\ job[r].row \in Rows
  BY JobFields DEF TypeOK
<1>2. PICK j : j = [job[r] EXCEPT !.step = "up"]
  OBVIOUS
<1>3. /\ j \in Jobs /\ j.step = "up" /\ j.row = job[r].row /\ j.body = job[r].body
      /\ j.stale = job[r].stale
  BY <1>1, <1>2, StepFacts DEF Steps
<1>4. Write(r, job[r].row, j)
  BY <1>2 DEF Heal
<1>5. JobsTyped(r) /\ OthersStale(r) /\ job'[r] = j /\ row' = job[r].row
  BY <1>1, <1>3, <1>4, Wrote DEF JobsTyped, OthersStale
<1> QED BY <1>1, <1>3, <1>5 DEF Heal

LEMMA OnEnd ==
  ASSUME TypeOK, NEW r \in Requests, End(r)
  PROVE  JobsTyped(r) /\ Others(r) /\ job'[r] = Idle
<1>1. job[r] \in Jobs
  BY DEF TypeOK
<1> QED BY <1>1, IdleFacts, Went DEF End, JobsTyped, Others

(* The page afterwards: as before, or the body of the request with its key left out. *)
ShownAfter(r) ==
  \/ shown' = shown
  \/ /\ ~At(r, "get") /\ ~At(r, "put") /\ ~At(r, "import")
     /\ shown' \in Rows /\ shown'.pub = job[r].body.pub
     /\ shown'.age = job[r].body.age /\ shown'.from = job[r].body.from

LEMMA Answered ==
  ASSUME TypeOK, NEW r \in Requests, At(r, "teardown") \/ At(r, "read") \/ At(r, "persist") \/ At(r, "up"),
         shown' = [job[r].body EXCEPT !.key = 0]
  PROVE  ShownAfter(r)
<1>1. job[r].body \in Rows
  BY JobFields DEF TypeOK
<1>2. ~At(r, "get") /\ ~At(r, "put") /\ ~At(r, "import")
  BY DEF At
<1> QED BY <1>1, <1>2, Shown DEF ShownAfter

LEMMA OnUp ==
  ASSUME TypeOK, NEW r \in Requests, Up(r)
  PROVE  /\ JobsTyped(r) /\ Others(r) /\ job'[r] = Idle /\ At(r, "up") /\ ShownAfter(r)
         /\ kernel' \in {kernel, job[r].row} /\ pending' = (job[r].stale \/ kernel' # job[r].row)
         /\ UNCHANGED <<row, exported, since, met, asking, received, faults>>
<1>1. JobsTyped(r) /\ Others(r) /\ job'[r] = Idle
  BY OnEnd DEF Up
<1>2. At(r, "up") /\ shown' \in {shown, [job[r].body EXCEPT !.key = 0]}
  BY DEF Up
<1>3. ShownAfter(r)
  BY <1>2, Answered DEF ShownAfter
<1> QED BY <1>1, <1>2, <1>3 DEF Up

LEMMA OnFails ==
  ASSUME TypeOK, NEW r \in Requests, Fails(r)
  PROVE  /\ JobsTyped(r) /\ Others(r) /\ job'[r] = Idle /\ ShownAfter(r)
         /\ faults < MaxFaults /\ faults' = faults + 1
         /\ UNCHANGED <<row, exported, kernel, history, received>>
<1>1. JobsTyped(r) /\ Others(r) /\ job'[r] = Idle
  BY OnEnd DEF Fails
<1>2. \/ shown' = shown
      \/ /\ job[r].step \in {"teardown", "read", "persist", "up"}
         /\ shown' = [job[r].body EXCEPT !.key = 0]
  BY DEF Fails
<1>3. ShownAfter(r)
  BY <1>2, Answered DEF ShownAfter, At
<1> QED BY <1>1, <1>3 DEF Fails, Fault
-----------------------------------------------------------------------------
(* A step of Ingress is that of one action. *)
LEMMA Moves ==
  ASSUME [Next]_vars
  PROVE  \/ OpenPage \/ ClientConfig \/ Restart \/ UNCHANGED vars
         \/ \E r \in Requests :
              \/ PutIngress(r) \/ WgEasyImport(r) \/ SystemApply(r) \/ GetIngress(r)
              \/ UpdateIngress(r) \/ ImportIngress(r) \/ Teardown(r) \/ ReadIngress(r)
              \/ Heal(r) \/ Up(r) \/ Fails(r)
BY DEF Next, Handle

LEMMA OnRestart ==
  ASSUME TypeOK, Restart
  PROVE  /\ job' \in [Requests -> Jobs] /\ \A r \in Requests : job'[r] = Idle
         /\ kernel' \in {kernel, NoRow} /\ faults < MaxFaults /\ faults' = faults + 1
         /\ UNCHANGED <<row, shown, exported, history, received>>
BY IdleFacts DEF Restart, Fault

LEMMA OnOpen ==
  ASSUME TypeOK, OpenPage
  PROVE  /\ shown' \in Rows /\ shown'.pub = row.pub /\ shown'.age = row.age /\ shown'.from = row.from
         /\ received < MaxRequests /\ received' = received + 1
         /\ UNCHANGED <<row, job, exported, kernel, history, faults>>
<1>1. row \in Rows /\ shown' = [row EXCEPT !.key = 0]
  BY DEF TypeOK, OpenPage
<1> QED BY <1>1, Shown DEF OpenPage

LEMMA TypeInit == Init => TypeOK
<1> SUFFICES ASSUME Init PROVE TypeOK
  OBVIOUS
<1>1. PICK p \in Founds : \E q \in EnsureAmneziaDefaults(p) \cup {p} :
        row = [Row(0, 0, p, 0, 0) EXCEPT !.params = q]
  BY DEF Init
<1> PICK q \in EnsureAmneziaDefaults(p) \cup {p} : row = [Row(0, 0, p, 0, 0) EXCEPT !.params = q]
  BY <1>1
<1>2. p \in Params /\ q \in Params
  BY ConstantsTyped, OutcomeFacts
<1>3. Row(0, 0, p, 0, 0) \in Rows
  <2>1. 0 \in Keys /\ 0 \in Keys \cup {Blank} /\ 0 \in Nat
    BY ConstantsTyped
  <2> QED BY <1>2, <2>1, RowFacts
<1>4. PICK x : x = Row(0, 0, p, 0, 0)
  OBVIOUS
<1>5. row \in Rows
  BY <1>1, <1>2, <1>3, <1>4, Completed
<1>6. job \in [Requests -> Jobs]
  BY IdleFacts DEF Init
<1>7. received \in 0..MaxRequests /\ faults \in 0..MaxFaults
  BY ConstantsTyped DEF Init
<1>8. asked \in Params /\ missed \subseteq Requests /\ overwritten \in BOOLEAN
  BY <1>5, RowFields DEF Init
<1> QED BY <1>5, <1>6, <1>7, <1>8, NoRowFacts DEF Init, TypeOK

LEMMA TypeStep == TypeOK /\ [Next]_vars => TypeOK'
<1> SUFFICES ASSUME TypeOK, [Next]_vars PROVE TypeOK'
  OBVIOUS
<1>1. /\ row \in Rows /\ shown \in Rows /\ exported \in Rows /\ kernel \in Rows
      /\ job \in [Requests -> Jobs]
      /\ received \in 0..MaxRequests /\ faults \in 0..MaxFaults
      /\ since \in BOOLEAN /\ pending \in BOOLEAN /\ met \in BOOLEAN
      /\ asked \in Params /\ missed \subseteq Requests /\ overwritten \in BOOLEAN
      /\ NoRow \in Rows /\ MaxRequests \in Nat /\ MaxFaults \in Nat
  BY NoRowFacts, ConstantsTyped DEF TypeOK
<1>2. CASE OpenPage
  BY <1>1, <1>2, OnOpen DEF TypeOK, history, asking
<1>3. CASE ClientConfig
  <2>1. received' \in 0..MaxRequests /\ exported' \in Rows /\ since' = FALSE
    BY <1>1, <1>3 DEF ClientConfig
  <2>2. UNCHANGED <<row, job, shown, kernel, pending, met, asking, faults>>
    BY <1>3 DEF ClientConfig
  <2> QED BY <1>1, <2>1, <2>2 DEF TypeOK, asking
<1>4. CASE Restart
  BY <1>1, <1>4, OnRestart DEF TypeOK, history, asking
<1>5. CASE UNCHANGED vars
  BY <1>5 DEF vars, history, asking, TypeOK
<1>6. ASSUME NEW r \in Requests, PutIngress(r) \/ WgEasyImport(r) \/ SystemApply(r) PROVE TypeOK'
  <2>1. received < MaxRequests /\ received' = received + 1 /\ met' \in BOOLEAN
    BY <1>6 DEF PutIngress, WgEasyImport, SystemApply, Receive
  <2>2. JobsTyped(r) /\ UNCHANGED <<row, shown, exported, kernel, since, pending, asking, faults>>
    BY <1>6, OnPut, OnImport, OnApply
  <2> QED BY <1>1, <2>1, <2>2 DEF TypeOK, JobsTyped, asking
<1>7. ASSUME NEW r \in Requests, GetIngress(r) PROVE TypeOK'
  BY <1>1, <1>7, OnGet DEF TypeOK, JobsTyped, history, asking
<1>8. ASSUME NEW r \in Requests, UpdateIngress(r) \/ ImportIngress(r) PROVE TypeOK'
  <2>1. job[r].body.params \in Params
    BY <1>1, JobFields, RowFields
  <2> QED BY <1>1, <1>8, <2>1, OnUpdate, OnImportIngress DEF TypeOK, JobsTyped
<1>9. ASSUME NEW r \in Requests, Teardown(r) PROVE TypeOK'
  BY <1>1, <1>9, OnTeardown DEF TypeOK, JobsTyped, history, asking
<1>10. ASSUME NEW r \in Requests, ReadIngress(r) PROVE TypeOK'
  BY <1>1, <1>10, OnRead DEF TypeOK, JobsTyped, history, asking
<1>11. ASSUME NEW r \in Requests, Heal(r) PROVE TypeOK'
  BY <1>1, <1>11, OnHeal DEF TypeOK, JobsTyped
<1>12. ASSUME NEW r \in Requests, Up(r) PROVE TypeOK'
  <2>1. job[r].row \in Rows /\ pending' \in BOOLEAN
    BY <1>1, <1>12, JobFields, OnUp
  <2> QED BY <1>1, <1>12, <2>1, OnUp DEF TypeOK, JobsTyped, ShownAfter, asking
<1>13. ASSUME NEW r \in Requests, Fails(r) PROVE TypeOK'
  BY <1>1, <1>13, OnFails DEF TypeOK, JobsTyped, ShownAfter, history, asking
<1> QED BY <1>2, <1>3, <1>4, <1>5, <1>6, <1>7, <1>8, <1>9, <1>10, <1>11, <1>12, <1>13, Moves

(* Every copy of the row is a row: no import without parameters gets that far. *)
THEOREM RowsTyped == Spec => []TypeOK
BY TypeInit, TypeStep, PTL DEF Spec
-----------------------------------------------------------------------------
(* A copy of the row has what it was given; if that is repairable, the rest is   *)
(* still missing or has been drawn soundly.                                     *)
Kept(x) ==
  /\ \A i \in 1..4 : x.given.s[i] # Blank => x.params.s[i] = x.given.s[i]
  /\ ~NoMarkers(x.given) => x.params.h = x.given.h
Mended(x) == Repairable(x.given) => Sound(x.params)
Copy(x) == Kept(x) /\ (x.params = x.given \/ Mended(x))

JobGiven(j) ==
  /\ j.step \in {"put", "import"} => j.body.params = j.body.given
  /\ j.step \in {"persist", "up"} => Kept(j.row) /\ Mended(j.row)

GivenInv == Copy(row) /\ \A r \in Requests : JobGiven(job[r])

LEMMA GivenNext ==
  ASSUME Copy(row'), \A r \in Requests : JobGiven(job'[r])
  PROVE  GivenInv'
BY DEF GivenInv, JobGiven, Copy, Kept, Mended

LEMMA Fresh ==
  ASSUME NEW x, x.params = x.given
  PROVE  Copy(x)
BY DEF Copy, Kept

LEMMA CompletedCopy ==
  ASSUME NEW x \in Rows, Copy(x), NEW q \in EnsureAmneziaDefaults(x.params),
         NEW y, y = [x EXCEPT !.params = q]
  PROVE  Kept(y) /\ Mended(y)
<1>1. x.params \in Params /\ x.given \in Params
  BY RowFields
<1>2. q \in Params
  BY <1>1, OutcomeFacts
<1>3. y.params = q /\ y.given = x.given
  BY <1>2, Completed
<1>4. /\ \A i \in 1..4 : x.params.s[i] # Blank => q.s[i] = x.params.s[i]
      /\ ~NoMarkers(x.params) => q.h = x.params.h
  BY <1>1, GivenStays
<1>5. Kept(y)
  <2>1. ASSUME NEW i \in 1..4, y.given.s[i] # Blank PROVE y.params.s[i] = y.given.s[i]
    BY <1>3, <1>4, <2>1 DEF Copy, Kept
  <2>2. ASSUME ~NoMarkers(y.given) PROVE y.params.h = y.given.h
    <3>1. x.params.h = x.given.h
      BY <1>3, <2>2 DEF Copy, Kept
    <3>2. ~NoMarkers(x.params)
      BY <1>3, <2>2, <3>1 DEF NoMarkers
    <3> QED BY <1>3, <1>4, <3>1, <3>2
  <2> QED BY <2>1, <2>2 DEF Kept
<1>6. ASSUME Repairable(y.given) PROVE Sound(y.params)
  <2>1. CASE x.params = x.given
    BY <1>1, <1>3, <1>6, <2>1, RepairableHeals
  <2>2. CASE Sound(x.params)
    <3>1. q = x.params
      BY <1>1, <2>2, CompleteStays DEF Sound
    <3> QED BY <1>3, <2>2, <3>1
  <2> QED BY <1>3, <1>6, <2>1, <2>2 DEF Copy, Mended
<1> QED BY <1>5, <1>6 DEF Mended

LEMMA GivenInit == Init => GivenInv
<1> SUFFICES ASSUME Init PROVE GivenInv
  OBVIOUS
<1>1. PICK p \in Founds : \E q \in EnsureAmneziaDefaults(p) \cup {p} :
        row = [Row(0, 0, p, 0, 0) EXCEPT !.params = q]
  BY DEF Init
<1> PICK q \in EnsureAmneziaDefaults(p) \cup {p} : row = [Row(0, 0, p, 0, 0) EXCEPT !.params = q]
  BY <1>1
<1>2. PICK x : x = Row(0, 0, p, 0, 0)
  OBVIOUS
<1>3. p \in Params /\ x \in Rows /\ x.params = p /\ x.given = p
  <2>1. p \in Params /\ 0 \in Keys /\ 0 \in Keys \cup {Blank} /\ 0 \in Nat
    BY ConstantsTyped
  <2> QED BY <1>2, <2>1, RowFacts
<1>4. Copy(row)
  <2>1. CASE q \in EnsureAmneziaDefaults(p)
    BY <1>1, <1>2, <1>3, <2>1, Fresh, CompletedCopy DEF Copy
  <2>2. CASE q = p
    BY <1>2, <1>3, <2>2, CompletedAlready, Fresh
  <2> QED BY <2>1, <2>2
<1>5. \A r \in Requests : job[r].step = "idle"
  BY IdleFacts DEF Init
<1> QED BY <1>4, <1>5 DEF GivenInv, JobGiven

LEMMA GivenStep == TypeOK /\ GivenInv /\ [Next]_vars => GivenInv'
<1> SUFFICES ASSUME TypeOK, GivenInv, [Next]_vars PROVE GivenInv'
  OBVIOUS
<1> DEFINE Safe == Copy(row') /\ \A r \in Requests : JobGiven(job'[r])
<1>0. Safe => GivenInv'
  BY GivenNext
<1>1. ASSUME OpenPage PROVE Safe
  BY <1>1 DEF OpenPage, GivenInv
<1>2. ASSUME ClientConfig PROVE Safe
  BY <1>2 DEF ClientConfig, GivenInv
<1>3. ASSUME Restart PROVE Safe
  BY <1>3, OnRestart, IdleFacts DEF GivenInv, JobGiven
<1>4. ASSUME UNCHANGED vars PROVE Safe
  BY <1>4 DEF vars, GivenInv
<1>5. ASSUME NEW r \in Requests, PutIngress(r) PROVE Safe
  BY <1>5, OnPut DEF GivenInv, JobGiven, Others
<1>6. ASSUME NEW r \in Requests, WgEasyImport(r) PROVE Safe
  BY <1>6, OnImport DEF GivenInv, JobGiven, Others
<1>7. ASSUME NEW r \in Requests, SystemApply(r) PROVE Safe
  BY <1>7, OnApply DEF GivenInv, JobGiven, Others
<1>8. ASSUME NEW r \in Requests, GetIngress(r) PROVE Safe
  BY <1>8, OnGet DEF GivenInv, JobGiven, Others
<1>9. ASSUME NEW r \in Requests, UpdateIngress(r) PROVE Safe
  <2>1. Copy(row')
    BY <1>9, OnUpdate, Fresh DEF GivenInv, JobGiven, At
  <2> QED BY <1>9, <2>1, OnUpdate DEF GivenInv, JobGiven, OthersStale
<1>10. ASSUME NEW r \in Requests, ImportIngress(r) PROVE Safe
  <2>1. Copy(row')
    BY <1>10, OnImportIngress, Fresh DEF GivenInv, JobGiven, At
  <2> QED BY <1>10, <2>1, OnImportIngress, IdleFacts DEF GivenInv, JobGiven, OthersStale
<1>11. ASSUME NEW r \in Requests, Teardown(r) PROVE Safe
  BY <1>11, OnTeardown DEF GivenInv, JobGiven, Others
<1>12. ASSUME NEW r \in Requests, ReadIngress(r) PROVE Safe
  <2>1. PICK q \in EnsureAmneziaDefaults(row.params) :
          /\ Others(r) /\ job'[r].row = [row EXCEPT !.params = q]
          /\ job'[r].step \in {"up", "persist"} /\ row' = row
    BY <1>12, OnRead
  <2>2. PICK y : y = [row EXCEPT !.params = q]
    OBVIOUS
  <2>3. Kept(y) /\ Mended(y)
    BY <2>2, CompletedCopy DEF GivenInv, TypeOK
  <2>4. JobGiven(job'[r])
    BY <2>1, <2>2, <2>3 DEF JobGiven
  <2> QED BY <2>1, <2>4 DEF GivenInv, Others
<1>13. ASSUME NEW r \in Requests, Heal(r) PROVE Safe
  <2>1. Copy(row')
    BY <1>13, OnHeal DEF GivenInv, JobGiven, At, Copy
  <2> QED BY <1>13, <2>1, OnHeal DEF GivenInv, JobGiven, OthersStale, At
<1>14. ASSUME NEW r \in Requests, Up(r) PROVE Safe
  BY <1>14, OnUp, IdleFacts DEF GivenInv, JobGiven, Others
<1>15. ASSUME NEW r \in Requests, Fails(r) PROVE Safe
  BY <1>15, OnFails, IdleFacts DEF GivenInv, JobGiven, Others
<1> HIDE DEF Safe
<1> QED BY <1>0, <1>1, <1>2, <1>3, <1>4, <1>5, <1>6, <1>7, <1>8, <1>9, <1>10, <1>11, <1>12,
           <1>13, <1>14, <1>15, Moves

(* Until an old row is written back the row, and any copy of it that is not old,  *)
(* descends from what was given last.                                             *)
AskedInv ==
  ~overwritten => /\ row.given = asked
                  /\ \A r \in Requests : At(r, "persist") /\ r \notin missed => job[r].row.given = asked

LEMMA AskedInit == Init => AskedInv
BY IdleFacts DEF Init, AskedInv, At

LEMMA AskedStep == TypeOK /\ GivenInv /\ AskedInv /\ [Next]_vars => AskedInv'
<1> SUFFICES ASSUME TypeOK, GivenInv, AskedInv, [Next]_vars PROVE AskedInv'
  OBVIOUS
<1>1. CASE OpenPage
  BY <1>1, OnOpen DEF AskedInv, At, history, asking
<1>2. CASE ClientConfig
  BY <1>2 DEF ClientConfig, AskedInv, At, asking
<1>3. CASE Restart
  BY <1>3, OnRestart, IdleFacts DEF AskedInv, At, history, asking
<1>4. CASE UNCHANGED vars
  BY <1>4 DEF vars, AskedInv, At, history, asking
<1>5. ASSUME NEW r \in Requests, PutIngress(r) \/ WgEasyImport(r) \/ SystemApply(r) PROVE AskedInv'
  <2>1. /\ Others(r) /\ job'[r].step \in {"get", "import", "teardown"}
        /\ UNCHANGED <<row, asking>>
    BY <1>5, OnPut, OnImport, OnApply
  <2> QED BY <2>1 DEF AskedInv, At, Others, asking
<1>6. ASSUME NEW r \in Requests, GetIngress(r) PROVE AskedInv'
  BY <1>6, OnGet DEF AskedInv, At, Others, history, asking
<1>7. ASSUME NEW r \in Requests, UpdateIngress(r) \/ ImportIngress(r) PROVE AskedInv'
  <2>1. /\ OthersStale(r) /\ job'[r].step \in {"idle", "teardown"}
        /\ job[r].step \in {"put", "import"} /\ row' = job[r].body /\ asked' = job[r].body.params
        /\ missed' = {q \in Requests : At(q, "persist")}
    BY <1>7, OnUpdate, OnImportIngress, IdleFacts DEF At
  <2>2. row'.given = asked'
    BY <2>1 DEF GivenInv, JobGiven
  <2> QED BY <2>1, <2>2 DEF AskedInv, At, OthersStale
<1>8. ASSUME NEW r \in Requests, Teardown(r) PROVE AskedInv'
  BY <1>8, OnTeardown DEF AskedInv, At, Others, history, asking
<1>9. ASSUME NEW r \in Requests, ReadIngress(r) PROVE AskedInv'
  <2>1. PICK q \in Params :
          /\ Others(r) /\ job'[r].row = [row EXCEPT !.params = q] /\ missed' = missed \ {r}
          /\ UNCHANGED <<row, asked, overwritten>>
    BY <1>9, OnRead
  <2>2. job'[r].row.given = row.given
    BY <2>1, Completed DEF TypeOK
  <2> QED BY <2>1, <2>2 DEF AskedInv, At, Others
<1>10. ASSUME NEW r \in Requests, Heal(r) PROVE AskedInv'
  BY <1>10, OnHeal DEF AskedInv, At, OthersStale
<1>11. ASSUME NEW r \in Requests, Up(r) \/ Fails(r) PROVE AskedInv'
  <2>1. Others(r) /\ job'[r] = Idle /\ UNCHANGED <<row, asking>>
    BY <1>11, OnUp, OnFails DEF history
  <2> QED BY <2>1, IdleFacts DEF AskedInv, At, Others, asking
<1> QED BY <1>1, <1>2, <1>3, <1>4, <1>5, <1>6, <1>7, <1>8, <1>9, <1>10, <1>11, Moves

(* A parameter that was given last is never replaced (defaults.go:38) before an  *)
(* Apply writes back a row that it read earlier still.                           *)
THEOREM NothingReplaced == Spec => []GivenKept
<1>1. GivenInv /\ AskedInv => GivenKept
  BY DEF GivenInv, Copy, Kept, AskedInv, GivenKept, Keeps
<1> QED BY <1>1, TypeInit, TypeStep, GivenInit, GivenStep, AskedInit, AskedStep, PTL DEF Spec

(* An Apply brings the interface up with parameters that awg setconf accepts, if *)
(* no padding was given after a blank one and those that were given are accepted *)
(* themselves (wg_runtime.go:77).                                               *)
THEOREM SoundlyHealed == Spec => []HealsSound
<1>1. GivenInv => HealsSound
  BY DEF GivenInv, JobGiven, Mended, HealsSound, At
<1> QED BY <1>1, TypeInit, TypeStep, GivenInit, GivenStep, PTL DEF Spec
-----------------------------------------------------------------------------
(* Keys: some function says which key each import brought, 0 at the outset.  The *)
(* row, a row read for an Apply and a body about to be written have the private  *)
(* and the public key of the imports they name; a page, and what is made of it   *)
(* before the row is read, has such a public key or none.                       *)
Brought == [Nat -> Keys]
Has(b, x) == x.key = b[x.age] /\ x.pub = b[x.from]
Shows(b, x) == x.pub = Blank \/ x.pub = b[x.from]
Dated(n, x) == x.age <= n /\ x.from <= n

JobKeys(b, n, j) ==
  /\ Dated(n, j.row) /\ Dated(n, j.body) /\ Shows(b, j.body)
  /\ j.step \in {"put", "import"} => Has(b, j.body)
  /\ j.step \in {"persist", "up"} => Has(b, j.row)

KeysBrought(b, n) ==
  /\ Dated(n, row) /\ Has(b, row)
  /\ Dated(n, shown) /\ Shows(b, shown)
  /\ \A r \in Requests : JobKeys(b, n, job[r])

KeysInv == \E b \in Brought : KeysBrought(b, received)

LEMMA KeysNext ==
  ASSUME NEW b \in Brought, NEW n, received' = n,
         Dated(n, row'), Has(b, row'), Dated(n, shown'), Shows(b, shown'),
         \A r \in Requests : JobKeys(b, n, job'[r])
  PROVE  KeysInv'
BY DEF KeysInv, KeysBrought, JobKeys, Has, Shows, Dated

LEMMA NoRowKeys ==
  ASSUME NEW b \in Brought, NEW n \in Nat
  PROVE  Dated(n, NoRow) /\ Shows(b, NoRow) /\ JobKeys(b, n, Idle)
<1>1. Dated(n, NoRow) /\ Shows(b, NoRow)
  BY NoRowFacts DEF Dated, Shows
<1> QED BY <1>1, IdleFacts DEF JobKeys

(* One more request received, whether or not it is an import: *)
LEMMA KeysLater ==
  ASSUME NEW b, NEW n \in Nat, NEW c, \A i \in Nat : i <= n => c[i] = b[i]
  PROVE  /\ \A x \in Rows : Dated(n, x) => Dated(n + 1, x)
         /\ \A x \in Rows : Dated(n, x) /\ Has(b, x) => Has(c, x)
         /\ \A x \in Rows : Dated(n, x) /\ Shows(b, x) => Shows(c, x)
         /\ \A j \in Jobs : JobKeys(b, n, j) => JobKeys(c, n + 1, j)
<1>1. ASSUME NEW x \in Rows, Dated(n, x) PROVE Dated(n + 1, x) /\ c[x.age] = b[x.age] /\ c[x.from] = b[x.from]
  BY <1>1, RowFields DEF Dated
<1>2. ASSUME NEW x \in Rows, Dated(n, x)
      PROVE  (Has(b, x) => Has(c, x)) /\ (Shows(b, x) => Shows(c, x))
  BY <1>1, <1>2 DEF Has, Shows
<1>3. ASSUME NEW j \in Jobs, JobKeys(b, n, j) PROVE JobKeys(c, n + 1, j)
  BY <1>1, <1>2, <1>3, JobFields DEF JobKeys
<1> QED BY <1>1, <1>2, <1>3

LEMMA KeysInit == Init => KeysInv
<1> SUFFICES ASSUME Init PROVE KeysInv
  OBVIOUS
<1>1. PICK p \in Founds : \E q \in EnsureAmneziaDefaults(p) \cup {p} :
        row = [Row(0, 0, p, 0, 0) EXCEPT !.params = q]
  BY DEF Init
<1> PICK q \in EnsureAmneziaDefaults(p) \cup {p} : row = [Row(0, 0, p, 0, 0) EXCEPT !.params = q]
  BY <1>1
<1>2. PICK x : x = Row(0, 0, p, 0, 0)
  OBVIOUS
<1>3. p \in Params /\ q \in Params
  BY ConstantsTyped, OutcomeFacts
<1>4. x \in Rows /\ x.key = 0 /\ x.pub = 0 /\ x.age = 0 /\ x.from = 0
  <2>1. 0 \in Keys /\ 0 \in Keys \cup {Blank} /\ 0 \in Nat
    BY ConstantsTyped
  <2> QED BY <1>2, <1>3, <2>1, RowFacts
<1>5. PICK y : y = [x EXCEPT !.params = q]
  OBVIOUS
<1>6. row.key = 0 /\ row.pub = 0 /\ row.age = 0 /\ row.from = 0
  <2>1. y.key = 0 /\ y.pub = 0 /\ y.age = 0 /\ y.from = 0
    BY <1>3, <1>4, <1>5, Completed
  <2>2. row = y
    BY <1>2, <1>5
  <2> QED BY <2>1, <2>2
<1>7. PICK b : b = [i \in Nat |-> 0]
  OBVIOUS
<1>8. b \in Brought /\ b[0] = 0
  BY <1>7, ConstantsTyped DEF Brought
<1>9. Dated(0, row) /\ Has(b, row)
  BY <1>6, <1>8 DEF Dated, Has
<1>10. /\ received = 0 /\ shown = NoRow /\ \A r \in Requests : job[r] = Idle
  BY DEF Init
<1> QED BY <1>8, <1>9, <1>10, NoRowKeys DEF KeysInv, KeysBrought

LEMMA KeysStep == TypeOK /\ KeysInv /\ [Next]_vars => KeysInv'
<1> SUFFICES ASSUME TypeOK, KeysInv, [Next]_vars PROVE KeysInv'
  OBVIOUS
<1>1. PICK b \in Brought : KeysBrought(b, received)
  BY DEF KeysInv
<1>2. PICK n : n = received
  OBVIOUS
<1>3. /\ n \in Nat /\ row \in Rows /\ shown \in Rows
      /\ \A q \in Requests : job[q] \in Jobs /\ job[q].row \in Rows /\ job[q].body \in Rows
  BY <1>2, JobFields, ConstantsTyped DEF TypeOK
<1>4. /\ Dated(n, row) /\ Has(b, row) /\ Dated(n, shown) /\ Shows(b, shown)
      /\ \A r \in Requests : JobKeys(b, n, job[r])
  BY <1>1, <1>2 DEF KeysBrought
<1>5. Dated(n, NoRow) /\ Shows(b, NoRow) /\ JobKeys(b, n, Idle)
  BY <1>3, NoRowKeys
<1> DEFINE Same(c, m) == /\ Dated(m, row') /\ Has(c, row') /\ Dated(m, shown') /\ Shows(c, shown')
                         /\ \A r \in Requests : JobKeys(c, m, job'[r])
<1>6. ASSUME NEW c \in Brought, NEW m, received' = m, Same(c, m) PROVE KeysInv'
  BY <1>6, KeysNext
<1>7. /\ Dated(n + 1, row) /\ Has(b, row) /\ Dated(n + 1, shown) /\ Shows(b, shown)
      /\ \A r \in Requests : JobKeys(b, n + 1, job[r])
      /\ Dated(n + 1, NoRow) /\ Shows(b, NoRow)
  BY <1>3, <1>4, <1>5, NoRowFacts, KeysLater
<1>8. CASE OpenPage
  <2>1. /\ Dated(n + 1, shown') /\ Shows(b, shown')
    BY <1>7, <1>8, OnOpen DEF Dated, Has, Shows
  <2>2. Same(b, n + 1) /\ received' = n + 1
    BY <1>2, <1>7, <1>8, <2>1, OnOpen
  <2> QED BY <1>6, <1>7, <2>2
<1>9. CASE ClientConfig
  <2>1. Same(b, n + 1) /\ received' = n + 1
    BY <1>2, <1>7, <1>9 DEF ClientConfig
  <2> QED BY <1>6, <1>7, <2>1
<1>10. CASE Restart
  <2>1. Same(b, n) /\ received' = n
    BY <1>2, <1>4, <1>5, <1>10, OnRestart
  <2> QED BY <1>6, <2>1
<1>11. CASE UNCHANGED vars
  <2>1. Same(b, n) /\ received' = n
    BY <1>2, <1>4, <1>11 DEF vars
  <2> QED BY <1>6, <2>1
<1>12. ASSUME NEW r \in Requests, PutIngress(r) PROVE KeysInv'
  <2>1. JobKeys(b, n + 1, job'[r])
    BY <1>7, <1>12, OnPut DEF JobKeys, Dated, Shows
  <2>2. Same(b, n + 1) /\ received' = n + 1
    BY <1>2, <1>7, <1>12, <2>1, OnPut DEF Others
  <2> QED BY <1>6, <1>7, <2>2
<1>13. ASSUME NEW r \in Requests, WgEasyImport(r) PROVE KeysInv'
  <2>1. PICK k : k = job'[r].body.key
    OBVIOUS
  <2>2. k \in Keys /\ job'[r].body \in Rows
    BY <1>13, <2>1, OnImport, JobFields, RowFields DEF JobsTyped
  <2>3. PICK d : d = [b EXCEPT ![n + 1] = k]
    OBVIOUS
  <2>4. /\ d \in Brought /\ d[n + 1] = k
        /\ Dated(n + 1, row) /\ Has(d, row) /\ Dated(n + 1, shown) /\ Shows(d, shown)
        /\ \A q \in Requests : JobKeys(d, n + 1, job[q])
    <3>1. d \in Brought /\ d[n + 1] = k /\ \A i \in Nat : i <= n => d[i] = b[i]
      BY <1>3, <2>2, <2>3 DEF Brought
    <3> QED BY <1>3, <1>4, <3>1, KeysLater
  <2>5. JobKeys(d, n + 1, job'[r])
    <3>1. /\ job'[r].body.age = n + 1 /\ job'[r].body.from = n + 1
          /\ job'[r].body.key = k /\ job'[r].body.pub = k
          /\ job'[r].row = NoRow /\ job'[r].step = "import"
      BY <1>2, <1>13, <2>1, OnImport
    <3>2. Dated(n + 1, job'[r].body) /\ Has(d, job'[r].body) /\ Shows(d, job'[r].body)
      BY <1>3, <2>4, <3>1 DEF Dated, Has, Shows
    <3> QED BY <1>7, <3>1, <3>2 DEF JobKeys
  <2>6. Same(d, n + 1) /\ received' = n + 1
    BY <1>2, <1>13, <2>4, <2>5, OnImport DEF Others
  <2> QED BY <1>6, <2>4, <2>6
<1>14. ASSUME NEW r \in Requests, SystemApply(r) PROVE KeysInv'
  <2>1. JobKeys(b, n + 1, job'[r])
    BY <1>7, <1>14, OnApply DEF JobKeys
  <2>2. Same(b, n + 1) /\ received' = n + 1
    BY <1>2, <1>7, <1>14, <2>1, OnApply DEF Others
  <2> QED BY <1>6, <1>7, <2>2
<1>15. ASSUME NEW r \in Requests, GetIngress(r) PROVE KeysInv'
  <2>1. JobKeys(b, n, job[r])
    BY <1>4
  <2>2. JobKeys(b, n, job'[r])
    <3>1. Dated(n, job'[r].body) /\ Has(b, job'[r].body) /\ Shows(b, job'[r].body)
      BY <1>4, <1>15, <2>1, OnGet DEF JobKeys, Dated, Has, Shows
    <3> QED BY <1>15, <2>1, <3>1, OnGet DEF JobKeys
  <2>3. Same(b, n) /\ received' = n
    BY <1>2, <1>4, <1>15, <2>2, OnGet DEF Others
  <2> QED BY <1>6, <2>3
<1>16. ASSUME NEW r \in Requests, UpdateIngress(r) PROVE KeysInv'
  <2>1. Same(b, n) /\ received' = n
    BY <1>2, <1>4, <1>16, OnUpdate DEF OthersStale, JobKeys, At
  <2> QED BY <1>6, <2>1
<1>17. ASSUME NEW r \in Requests, ImportIngress(r) PROVE KeysInv'
  <2>1. Dated(n, row') /\ Has(b, row')
    BY <1>4, <1>17, OnImportIngress DEF JobKeys, At
  <2>2. \A q \in Requests : JobKeys(b, n, job'[q])
    BY <1>4, <1>5, <1>17, OnImportIngress DEF OthersStale, JobKeys
  <2>3. Same(b, n) /\ received' = n
    BY <1>2, <1>4, <1>17, <2>1, <2>2, OnImportIngress
  <2> QED BY <1>6, <2>3
<1>18. ASSUME NEW r \in Requests, Teardown(r) PROVE KeysInv'
  <2>1. Same(b, n) /\ received' = n
    BY <1>2, <1>4, <1>18, OnTeardown DEF Others, JobKeys
  <2> QED BY <1>6, <2>1
<1>19. ASSUME NEW r \in Requests, ReadIngress(r) PROVE KeysInv'
  <2>1. PICK q \in Params :
          /\ Others(r) /\ job'[r].row = [row EXCEPT !.params = q] /\ job'[r].body = job[r].body
          /\ job'[r].step \in {"up", "persist"} /\ UNCHANGED <<row, shown, received>>
    BY <1>19, OnRead
  <2>2. Dated(n, job'[r].row) /\ Has(b, job'[r].row)
    BY <1>3, <1>4, <2>1, Completed DEF Dated, Has
  <2>3. JobKeys(b, n, job'[r])
    BY <1>4, <2>1, <2>2 DEF JobKeys
  <2>4. Same(b, n) /\ received' = n
    BY <1>2, <1>4, <2>1, <2>3 DEF Others
  <2> QED BY <1>6, <2>4
<1>20. ASSUME NEW r \in Requests, Heal(r) PROVE KeysInv'
  <2>1. Dated(n, row') /\ Has(b, row')
    BY <1>4, <1>20, OnHeal DEF JobKeys, At
  <2>2. JobKeys(b, n, job'[r])
    BY <1>4, <1>20, OnHeal DEF JobKeys, At
  <2>3. Same(b, n) /\ received' = n
    BY <1>2, <1>4, <1>20, <2>1, <2>2, OnHeal DEF OthersStale, JobKeys
  <2> QED BY <1>6, <2>3
<1>21. ASSUME NEW r \in Requests, Up(r) \/ Fails(r) PROVE KeysInv'
  <2>1. /\ Others(r) /\ job'[r] = Idle /\ ShownAfter(r) /\ UNCHANGED <<row, received>>
    BY <1>21, OnUp, OnFails
  <2>2. Dated(n, shown') /\ Shows(b, shown')
    BY <1>4, <2>1 DEF ShownAfter, JobKeys, Dated, Shows
  <2>3. Same(b, n) /\ received' = n
    BY <1>2, <1>4, <1>5, <2>1, <2>2 DEF Others
  <2> QED BY <1>6, <2>3
<1> QED BY <1>8, <1>9, <1>10, <1>11, <1>12, <1>13, <1>14, <1>15, <1>16, <1>17, <1>18, <1>19,
           <1>20, <1>21, Moves

(* The public key that is stored is that of the private key beside it, if one    *)
(* import brought both, or none did (handlers.go:276).                         *)
THEOREM KeysOfOneImportPair == Spec => []KeysPair
<1>1. KeysInv => KeysPair
  BY DEF KeysInv, KeysBrought, Has, KeysPair
<1> QED BY <1>1, TypeInit, TypeStep, KeysInit, KeysStep, PTL DEF Spec
-----------------------------------------------------------------------------
(* Exports: what was exported agrees with the row until it is given something     *)
(* else, and so does a row that was read since and is to be written back.        *)
Agrees(x) == Complete(exported.params) => exported.params = x.params /\ exported.pub = x.pub

ExportInv ==
  /\ ~since => Agrees(row)
  /\ \A r \in Requests :
       At(r, "persist") /\ ~job[r].stale =>
         /\ job[r].row.params \in EnsureAmneziaDefaults(row.params)
         /\ job[r].row.pub = row.pub

LEMMA ExportStep == TypeOK /\ ExportInv /\ [Next]_vars => ExportInv'
<1> SUFFICES ASSUME TypeOK, ExportInv, [Next]_vars PROVE ExportInv'
  OBVIOUS
<1>0. /\ row \in Rows /\ exported \in Rows /\ row.params \in Params
      /\ \A q \in Requests : job[q] \in Jobs
  BY RowFields DEF TypeOK
<1>1. CASE OpenPage
  BY <1>1, OnOpen DEF ExportInv, Agrees, At, history
<1>2. CASE ClientConfig
  BY <1>2 DEF ClientConfig, ExportInv, Agrees, At
<1>3. CASE Restart
  BY <1>3, OnRestart, IdleFacts DEF ExportInv, Agrees, At, history
<1>4. CASE UNCHANGED vars
  BY <1>4 DEF vars, history, ExportInv, Agrees, At
<1>5. ASSUME NEW r \in Requests, PutIngress(r) \/ WgEasyImport(r) \/ SystemApply(r) PROVE ExportInv'
  <2>1. /\ Others(r) /\ job'[r].step \in {"get", "import", "teardown"}
        /\ UNCHANGED <<row, exported, since>>
    BY <1>5, OnPut, OnImport, OnApply
  <2> QED BY <2>1 DEF ExportInv, Agrees, At, Others
<1>6. ASSUME NEW r \in Requests, GetIngress(r) PROVE ExportInv'
  BY <1>6, OnGet DEF ExportInv, Agrees, At, Others, history
<1>7. ASSUME NEW r \in Requests, UpdateIngress(r) \/ ImportIngress(r) PROVE ExportInv'
  <2>1. OthersStale(r) /\ job'[r].step \in {"idle", "teardown"} /\ since' = TRUE
    BY <1>7, OnUpdate, OnImportIngress, IdleFacts
  <2> QED BY <2>1 DEF ExportInv, At, OthersStale
<1>8. ASSUME NEW r \in Requests, Teardown(r) PROVE ExportInv'
  BY <1>8, OnTeardown DEF ExportInv, Agrees, At, Others, history
<1>9. ASSUME NEW r \in Requests, ReadIngress(r) PROVE ExportInv'
  <2>1. PICK q \in EnsureAmneziaDefaults(row.params) :
          /\ Others(r) /\ q \in Params /\ job'[r].row = [row EXCEPT !.params = q]
          /\ UNCHANGED <<row, exported, since>>
    BY <1>9, OnRead
  <2>2. job'[r].row.params = q /\ job'[r].row.pub = row.pub
    BY <1>0, <2>1, Completed
  <2> QED BY <2>1, <2>2 DEF ExportInv, Agrees, At, Others
<1>10. ASSUME NEW r \in Requests, Heal(r) PROVE ExportInv'
  <2>1. /\ OthersStale(r) /\ job'[r].step = "up" /\ row' = job[r].row /\ exported' = exported
        /\ since' = (since \/ job[r].stale) /\ At(r, "persist")
    BY <1>10, OnHeal
  <2>2. ASSUME ~since, ~job[r].stale, Complete(exported.params)
        PROVE  exported.params = job[r].row.params /\ exported.pub = job[r].row.pub
    <3>1. /\ exported.params = row.params /\ exported.pub = row.pub
          /\ job[r].row.params \in EnsureAmneziaDefaults(row.params) /\ job[r].row.pub = row.pub
      BY <2>1, <2>2 DEF ExportInv, Agrees
    <3> QED BY <1>0, <2>2, <3>1, CompleteStays
  <2>3. job[r].stale \in BOOLEAN
    BY <1>0, JobFields
  <2> QED BY <2>1, <2>2, <2>3 DEF ExportInv, Agrees, At, OthersStale
<1>11. ASSUME NEW r \in Requests, Up(r) \/ Fails(r) PROVE ExportInv'
  <2>1. Others(r) /\ job'[r] = Idle /\ UNCHANGED <<row, exported, since>>
    BY <1>11, OnUp, OnFails DEF history
  <2> QED BY <2>1, IdleFacts DEF ExportInv, Agrees, At, Others
<1> QED BY <1>1, <1>2, <1>3, <1>4, <1>5, <1>6, <1>7, <1>8, <1>9, <1>10, <1>11, Moves

(* An exported configuration that has all of its parameters keeps agreeing with   *)
(* the stored row, through every Apply and restart (wg_runtime.go:80).           *)
THEOREM ExportsStayGood == Spec => []ExportsHold
<1>1. Init => ExportInv
  BY IdleFacts DEF Init, ExportInv, At
<1>2. ExportInv => ExportsHold
  BY DEF ExportInv, Agrees, ExportsHold
<1> QED BY <1>1, <1>2, TypeInit, TypeStep, ExportStep, PTL DEF Spec
-----------------------------------------------------------------------------
(* One request at a time: from teardown to up the interface is down, and what an *)
(* Apply brings up it has read, or written, last.                              *)
Running(r) == At(r, "read") \/ At(r, "persist") \/ At(r, "up")

RunInv ==
  /\ ~met => /\ \A r, q \in Requests : ~At(r, "idle") /\ ~At(q, "idle") => r = q
             /\ \A r \in Requests : Running(r) => kernel = NoRow
             /\ ~pending /\ kernel # NoRow => kernel = row
  /\ \A r \in Requests : At(r, "up") /\ ~job[r].stale => job[r].row = row

LEMMA RunStep == TypeOK /\ RunInv /\ [Next]_vars => RunInv'
<1> SUFFICES ASSUME TypeOK, RunInv, [Next]_vars PROVE RunInv'
  OBVIOUS
<1>0. /\ row \in Rows /\ \A q \in Requests : job[q] \in Jobs /\ job[q].stale \in BOOLEAN
      /\ met \in BOOLEAN /\ pending \in BOOLEAN
  BY JobFields DEF TypeOK
<1>1. CASE OpenPage
  BY <1>1, OnOpen DEF RunInv, Running, At, history
<1>2. CASE ClientConfig
  BY <1>2 DEF ClientConfig, RunInv, Running, At
<1>3. CASE Restart
  BY <1>3, OnRestart, IdleFacts DEF RunInv, Running, At, history
<1>4. CASE UNCHANGED vars
  BY <1>4 DEF vars, history, RunInv, Running, At
<1>5. ASSUME NEW r \in Requests, PutIngress(r) \/ WgEasyImport(r) \/ SystemApply(r) PROVE RunInv'
  <2>1. /\ Others(r) /\ job'[r].step \in {"get", "import", "teardown"} /\ At(r, "idle")
        /\ UNCHANGED <<row, kernel, pending>>
    BY <1>5, OnPut, OnImport, OnApply
  <2>2. met' = (met \/ \E q \in Requests : ~At(q, "idle"))
    BY <1>5 DEF PutIngress, WgEasyImport, SystemApply, Receive
  <2> QED BY <2>1, <2>2 DEF RunInv, Running, At, Others
<1>6. ASSUME NEW r \in Requests, GetIngress(r) PROVE RunInv'
  BY <1>6, OnGet DEF RunInv, Running, At, Others, history
<1>7. ASSUME NEW r \in Requests, UpdateIngress(r) \/ ImportIngress(r) PROVE RunInv'
  <2>1. /\ OthersStale(r) /\ job'[r].step \in {"idle", "teardown"} /\ pending' = TRUE
        /\ ~At(r, "idle") /\ UNCHANGED <<kernel, met>>
    BY <1>7, OnUpdate, OnImportIngress, IdleFacts DEF At
  <2> QED BY <2>1 DEF RunInv, Running, At, OthersStale
<1>8. ASSUME NEW r \in Requests, Teardown(r) PROVE RunInv'
  BY <1>8, OnTeardown DEF RunInv, Running, At, Others, history
<1>9. ASSUME NEW r \in Requests, ReadIngress(r) PROVE RunInv'
  <2>1. PICK q \in EnsureAmneziaDefaults(row.params) :
          /\ Others(r) /\ At(r, "read")
          /\ job'[r].step = IF q = row.params THEN "up" ELSE "persist"
          /\ job'[r].row = [row EXCEPT !.params = q]
          /\ UNCHANGED <<row, kernel, pending, met>>
    BY <1>9, OnRead
  <2>2. job'[r].step = "up" => job'[r].row = row
    BY <1>0, <2>1, CompletedAlready
  <2>3. job'[r].step \in {"up", "persist"}
    BY <2>1
  <2> QED BY <2>1, <2>2, <2>3 DEF RunInv, Running, At, Others
<1>10. ASSUME NEW r \in Requests, Heal(r) PROVE RunInv'
  <2>1. /\ OthersStale(r) /\ At(r, "persist") /\ row' = job[r].row
        /\ job'[r].step = "up" /\ job'[r].row = job[r].row /\ UNCHANGED <<kernel, pending, met>>
    BY <1>10, OnHeal
  <2>2. ~met => kernel = NoRow /\ \A q \in Requests : q # r => job[q].step = "idle"
    BY <2>1 DEF RunInv, Running, At
  <2> QED BY <2>1, <2>2 DEF RunInv, Running, At, OthersStale
<1>11. ASSUME NEW r \in Requests, Up(r) PROVE RunInv'
  <2>1. /\ Others(r) /\ job'[r] = Idle /\ At(r, "up") /\ kernel' \in {kernel, job[r].row}
        /\ pending' = (job[r].stale \/ kernel' # job[r].row) /\ UNCHANGED <<row, met>>
    BY <1>11, OnUp
  <2>2. ~pending' => kernel' = row
    BY <1>0, <2>1 DEF RunInv
  <2>3. ~met => \A q \in Requests : job'[q].step = "idle"
    BY <2>1, IdleFacts DEF RunInv, At, Others
  <2> QED BY <2>1, <2>2, <2>3, IdleFacts DEF RunInv, Running, At, Others
<1>12. ASSUME NEW r \in Requests, Fails(r) PROVE RunInv'
  BY <1>12, OnFails, IdleFacts DEF RunInv, Running, At, Others, history
<1> QED BY <1>1, <1>2, <1>3, <1>4, <1>5, <1>6, <1>7, <1>8, <1>9, <1>10, <1>11, <1>12, Moves

(* With one request at a time the interface runs on what is stored: drawn        *)
(* parameters are saved before they are used (wg_runtime.go:80).                *)
THEOREM StoredBeforeUsed == Spec => []RunsStored
<1>1. Init => RunInv
  BY IdleFacts DEF Init, RunInv, Running, At
<1>2. RunInv => RunsStored
  BY DEF RunInv, RunsStored
<1> QED BY <1>1, <1>2, TypeInit, TypeStep, RunStep, PTL DEF Spec
=============================================================================
