------------------------------- MODULE Access -------------------------------
(***************************************************************************)
(* Setup, login and logout of internal/api/handlers/handlers.go behind      *)
(* LoginLimiter, the session check of every other request, and the two of   *)
(* these that bear on accounts: the export and the import of the database.  *)
(* A step is one statement of one request; between two of them others run,  *)
(* callers hang up, the database is replaced and the process restarts.     *)
(*                                                                         *)
(* A request that csrf.go turns away changes nothing and is left out, as    *)
(* are bodies that do not parse and passwords too short to bootstrap with.  *)
(*                                                                         *)
(* An operator marked "mutant" is no part of the model: it is the next     *)
(* definition with a bug in it, for checking that the properties notice.   *)
(***************************************************************************)
EXTENDS LoginLimiter, FiniteSets

CONSTANTS
  Passwords,
  Found,          \* databases that the process may find when it starts
  Foreign,        \* databases of other instances, to be imported
  Lifetime,       \* ticks a session is good for: seven days
  MaxRequests,    \* bound: requests received in all
  MaxFaults       \* bound: callers that hang up, failed imports and restarts

VARIABLES
  db,             \* the rows of admin_account, ingress_settings and sessions
  open,           \* Store.db is open
  job,            \* request -> what its handler does next, and its locals
  archive,        \* the last export
  received, faults

store == <<db, open, archive>>
vars == <<limiter, store, job, received, faults>>

(* A setup and a session are told apart by the number of the request that made *)
(* them: key pairs and tokens are random.  Token 0 was made before or elsewhere. *)
Accounts == [password : Passwords, setup : Int]
Sessions == [token : 0..MaxRequests, expires : Nat, password : Passwords, crossed : BOOLEAN]
Databases == [admin : Accounts \cup {None}, ingress : Int \cup {None}, sessions : SUBSET Sessions]

Whole(d) == /\ d.admin = None <=> d.ingress = None
            /\ d.admin # None => d.ingress = d.admin.setup

(* A session in the database was opened with the password of the account beside  *)
(* it, though between the check and the INSERT any import may replace both: then *)
(* it was opened with the password of the account that was there.               *)
Earned(d) == \A s \in d.sessions :
               s.crossed \/ (d.admin # None /\ s.password = d.admin.password)

(* An export is a copy of the live file, with the session that asked for it. *)
ASSUME AccessOK == /\ {Lifetime, MaxRequests, MaxFaults} \subseteq Nat
                   /\ Found \cup Foreign \subseteq Databases
                   /\ \A d \in Found \cup Foreign : Earned(d) /\ Whole(d)
                   /\ None \notin Passwords /\ None \notin Accounts /\ None \notin Databases

NewDatabase == [admin |-> None, ingress |-> None, sessions |-> {}]
Idle == [step |-> "idle", next |-> "idle", serial |-> 0, password |-> None, cookie |-> 0,
         upload |-> NewDatabase, crossed |-> FALSE]

AccessInit ==
  /\ LimiterInit
  /\ db \in Found /\ open = TRUE /\ archive = None
  /\ job = [r \in Requests |-> Idle] /\ received = 0 /\ faults = 0
-----------------------------------------------------------------------------
Receive(r, j) ==
  /\ job[r].step = "idle" /\ received < MaxRequests
  /\ received' = received + 1
  /\ job' = [job EXCEPT ![r] = j]
  /\ UNCHANGED <<store, faults>>

At(r, step) == job[r].step = step
Go(r, step) == job' = [job EXCEPT ![r].step = step]
End(r) == job' = [job EXCEPT ![r] = Idle]
Quiet == UNCHANGED <<limiter, received, faults>>

(* One statement of request r: it fails on a closed database, and its error ends *)
(* the request.                                                                 *)
Statement(r, step) == At(r, step) /\ Quiet /\ UNCHANGED <<open, archive>>
Failed(r) == ~open /\ End(r) /\ UNCHANGED db

PostBootstrap(r) == \E ip \in Ips, p \in Passwords :
  /\ Arrive(r, ip)
  /\ Receive(r, [Idle EXCEPT !.step = "limit", !.next = "insert", !.serial = received + 1,
                          !.password = p])

PostLogin(r) == \E ip \in Ips, p \in Passwords :
  /\ Arrive(r, ip)
  /\ Receive(r, [Idle EXCEPT !.step = "limit", !.next = "hash", !.serial = received + 1,
                          !.password = p])

Proceed(r) ==
  /\ At(r, "limit") /\ Admit(r)
  /\ Go(r, "setup")
  /\ UNCHANGED <<store, received, faults>>

TooMany(r) ==
  /\ At(r, "limit") /\ Refuse(r)
  /\ End(r)
  /\ UNCHANGED <<store, received, faults>>

SetupComplete(r) ==
  /\ Statement(r, "setup")
  /\ \/ Failed(r)
     \/ /\ open /\ UNCHANGED db
        /\ IF (db.admin = None) = (job[r].next = "insert") THEN Go(r, job[r].next) ELSE End(r)

InsertOrReplace(r) ==                                 \* mutant
  /\ Statement(r, "insert") /\ End(r)
  /\ IF open
       THEN db' = [db EXCEPT !.admin = [password |-> job[r].password, setup |-> job[r].serial],
                             !.ingress = job[r].serial]
       ELSE UNCHANGED db

InsertIngressFirst(r) ==                              \* mutant
  /\ Statement(r, "insert") /\ End(r)
  /\ IF ~open THEN UNCHANGED db
     ELSE db' = IF db.admin = None
                  THEN [db EXCEPT !.admin = [password |-> job[r].password, setup |-> job[r].serial],
                                  !.ingress = job[r].serial]
                  ELSE [db EXCEPT !.ingress = job[r].serial]

(* Store.Bootstrap is a transaction; the rows of admin_account and of            *)
(* ingress_settings have id 1, so the second of two requests inserts neither.   *)
Bootstrap(r) ==
  /\ Statement(r, "insert") /\ End(r)
  /\ IF open /\ db.admin = None
       THEN db' = [db EXCEPT !.admin = [password |-> job[r].password, setup |-> job[r].serial],
                             !.ingress = job[r].serial]
       ELSE UNCHANGED db

CheckAnyPassword(r) ==                                \* mutant
  /\ Statement(r, "hash")
  /\ \/ Failed(r)
     \/ open /\ UNCHANGED db /\ Go(r, "create")

CheckPassword(r) ==
  /\ Statement(r, "hash")
  /\ \/ Failed(r)
     \/ /\ open /\ UNCHANGED db
        /\ IF db.admin # None /\ db.admin.password = job[r].password THEN Go(r, "create") ELSE End(r)

CreateSession(r) ==
  /\ Statement(r, "create")
  /\ \/ Failed(r)
     \/ /\ open /\ End(r)
        /\ db' = [db EXCEPT !.sessions = @ \cup {[token |-> job[r].serial, expires |-> clock + Lifetime,
                                                 password |-> job[r].password, crossed |-> job[r].crossed]}]
-----------------------------------------------------------------------------
(* A cookie names any session there has been. *)

Valid(token) == \E s \in db.sessions : s.token = token /\ clock < s.expires

PostLogout(r) == \E t \in 0..received :
  /\ Receive(r, [Idle EXCEPT !.step = "delete", !.cookie = t])
  /\ UNCHANGED limiter

GetExport(r) == \E t \in 0..received :
  /\ Receive(r, [Idle EXCEPT !.step = "auth", !.next = "copy", !.cookie = t])
  /\ UNCHANGED limiter

PostImport(r) == \E t \in 0..received, d \in Foreign \cup ({archive} \ {None}) :
  /\ Receive(r, [Idle EXCEPT !.step = "auth", !.next = "close", !.cookie = t, !.upload = d])
  /\ UNCHANGED limiter

(* The error of the statement is dropped, the cookie is cleared in any case. *)
DeleteSession(r) ==
  /\ Statement(r, "delete") /\ End(r)
  /\ db' = IF open THEN [db EXCEPT !.sessions = {s \in @ : s.token # job[r].cookie}] ELSE db

Authorize(r) ==
  /\ Statement(r, "auth")
  /\ \/ Failed(r)
     \/ /\ open /\ UNCHANGED db
        /\ IF Valid(job[r].cookie) THEN Go(r, job[r].next) ELSE End(r)

(* The file itself is copied, which may be away while it is being replaced. *)
Copy(r) ==
  /\ At(r, "copy") /\ End(r)
  /\ \/ archive' = db
     \/ ~open /\ UNCHANGED archive
  /\ UNCHANGED <<db, open>> /\ Quiet

Close(r) ==
  /\ At(r, "close") /\ Go(r, "install")
  /\ open' = FALSE
  /\ UNCHANGED <<db, archive>> /\ Quiet

(* For DbReplace this is many steps.  A login between its check of the password *)
(* and its session crosses into the new database.                              *)
Install(r) ==
  /\ At(r, "install")
  /\ db' = job[r].upload /\ open' = TRUE
  /\ job' = [q \in Requests |-> IF q = r THEN Idle
                                ELSE IF At(q, "create") THEN [job[q] EXCEPT !.crossed = TRUE]
                                ELSE job[q]]
  /\ UNCHANGED archive /\ Quiet

InstallFails(r) ==
  /\ At(r, "install") /\ End(r)
  /\ faults < MaxFaults /\ faults' = faults + 1
  /\ open' = TRUE \/ UNCHANGED open
  /\ UNCHANGED <<limiter, db, archive, received>>
-----------------------------------------------------------------------------
Pass ==
  /\ Tick
  /\ UNCHANGED <<store, job, received, faults>>

(* The context of a request is seen by its statements, not by the replacement. *)
HangUp(r) ==
  /\ job[r].step \in {"setup", "insert", "hash", "create", "delete", "auth"}
  /\ faults < MaxFaults /\ faults' = faults + 1
  /\ End(r)
  /\ UNCHANGED <<limiter, store, received>>

Restart ==
  /\ faults < MaxFaults /\ faults' = faults + 1
  /\ Forget
  /\ open' = TRUE /\ job' = [r \in Requests |-> Idle]
  /\ UNCHANGED <<db, archive, received>>

Handle(r) == \/ Proceed(r) \/ TooMany(r) \/ SetupComplete(r) \/ Bootstrap(r) \/ CheckPassword(r)
             \/ CreateSession(r) \/ DeleteSession(r) \/ Authorize(r) \/ Copy(r) \/ Close(r)
             \/ Install(r) \/ InstallFails(r)

Call(r) == PostBootstrap(r) \/ PostLogin(r) \/ PostLogout(r) \/ GetExport(r) \/ PostImport(r)

Next == \/ Pass \/ Restart
        \/ \E r \in Requests : Handle(r) \/ HangUp(r) \/ Call(r)

Spec == AccessInit /\ [][Next]_vars
-----------------------------------------------------------------------------
(* There is an administrator exactly when there is an ingress, and both are of  *)
(* one setup: whichever bootstraps met, wherever one stopped, and whatever has  *)
(* been exported, imported and restored.                                       *)
SetupWhole == Whole(db)

(* Of bootstraps that meet one sets up, although each has found nothing set up   *)
(* when it looked: an account only ever gives way to an imported one.           *)
OneSetup == [][db'.admin # db.admin =>
                db.admin = None \/ \E r \in Requests : Install(r) /\ db' = job[r].upload]_vars

(* handlers.go:179: whoever has a session knew the password of the account that  *)
(* is there, whatever was imported since, or crossed into it from another.       *)
SessionsEarned == Earned(db)
=============================================================================
