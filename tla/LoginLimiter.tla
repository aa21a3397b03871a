---------------------------- MODULE LoginLimiter ----------------------------
(***************************************************************************)
(* LoginRateLimiter of internal/api/middleware/ratelimit.go, which stands   *)
(* before bootstrap and login.  Allow reads the clock before it takes its   *)
(* lock, so the requests that wait there decide in any order, each by the   *)
(* time it came at.                                                        *)
(*                                                                         *)
(* An operator marked "mutant" is no part of the model: it is the next     *)
(* definition with a bug in it, for checking that the properties notice.   *)
(***************************************************************************)
EXTENDS Integers, Sequences

CONSTANTS
  Requests,      \* goroutines that may be in a handler at once
  Ips,           \* addresses that clientIP tells apart
  Burst,         \* max: 5 in the code
  Interval,      \* refill: 12 seconds in the code
  MaxLag,        \* bound: ticks between the clock and a waiting request's reading
  MaxClock,      \* bound: ticks
  None           \* no bucket, no reading, no time

Time == 0..MaxClock
Bucket == [tokens : 0..Burst, last : Time]
Reading == [ip : Ips, now : Time]

ASSUME LimiterOK == /\ Burst \in Nat \ {0} /\ Interval \in Nat \ {0}
                    /\ {MaxLag, MaxClock} \subseteq Nat
                    /\ None \notin Int /\ None \notin Bucket /\ None \notin Reading

VARIABLES
  clock,
  buckets,       \* address -> tokens and the time of the last refill
  waiting,       \* request in Allow -> its address and reading of the clock
  admitted,      \* address -> when it was let through, since the process started
  refused        \* address -> when it was last sent away since then

limiter == <<clock, buckets, waiting, admitted, refused>>

LimiterInit ==
  /\ clock = 0
  /\ buckets = [ip \in Ips |-> None] /\ waiting = [r \in Requests |-> None]
  /\ admitted = [ip \in Ips |-> <<>>] /\ refused = [ip \in Ips |-> None]
-----------------------------------------------------------------------------
(* The bucket an address has at a reading: made full, or refilled by the whole *)
(* intervals that have passed; a reading from before the last refill adds none. *)

Made(now) == [tokens |-> Burst, last |-> now]

EagerRefill(b, now) ==                                \* mutant
  LET add == (now - b.last + 1) \div Interval
  IN  IF add <= 0 THEN b
      ELSE [tokens |-> IF b.tokens + add > Burst THEN Burst ELSE b.tokens + add, last |-> now]

ForgetfulRefill(b, now) ==                            \* mutant
  LET add == (now - b.last) \div Interval
  IN  IF add <= 0 THEN [b EXCEPT !.last = now]
      ELSE [tokens |-> IF b.tokens + add > Burst THEN Burst ELSE b.tokens + add, last |-> now]

GenerousRefill(b, now) ==                             \* mutant
  LET add == (now - b.last) \div Interval
  IN  IF add <= 0 THEN b
      ELSE [tokens |-> IF b.tokens + add > Burst THEN Burst ELSE b.tokens + add, last |-> b.last]

Refill(b, now) ==
  LET add == (now - b.last) \div Interval
  IN  IF add <= 0 THEN b
      ELSE [tokens |-> IF b.tokens + add > Burst THEN Burst ELSE b.tokens + add, last |-> now]

Current(q) == IF buckets[q.ip] = None THEN Made(q.now) ELSE Refill(buckets[q.ip], q.now)
-----------------------------------------------------------------------------
Tick ==
  /\ clock < MaxClock /\ clock' = clock + 1
  /\ \A r \in Requests : waiting[r] # None => clock - waiting[r].now < MaxLag
  /\ UNCHANGED <<buckets, waiting, admitted, refused>>

Arrive(r, ip) ==
  /\ waiting[r] = None
  /\ waiting' = [waiting EXCEPT ![r] = [ip |-> ip, now |-> clock]]
  /\ UNCHANGED <<clock, buckets, admitted, refused>>

AdmitAnyway(r) ==                                     \* mutant
  /\ waiting[r] # None /\ waiting' = [waiting EXCEPT ![r] = None]
  /\ LET q == waiting[r]
         b == Current(q)
     IN  /\ buckets' = [buckets EXCEPT ![q.ip] = [b EXCEPT !.tokens = @ - 1]]
         /\ admitted' = [admitted EXCEPT ![q.ip] = Append(@, clock)]
  /\ UNCHANGED <<clock, refused>>

Admit(r) ==
  /\ waiting[r] # None /\ waiting' = [waiting EXCEPT ![r] = None]
  /\ LET q == waiting[r]
         b == Current(q)
     IN  /\ b.tokens > 0
         /\ buckets' = [buckets EXCEPT ![q.ip] = [b EXCEPT !.tokens = @ - 1]]
         /\ admitted' = [admitted EXCEPT ![q.ip] = Append(@, clock)]
  /\ UNCHANGED <<clock, refused>>

Refuse(r) ==
  /\ waiting[r] # None /\ waiting' = [waiting EXCEPT ![r] = None]
  /\ LET q == waiting[r]
         b == Current(q)
     IN  /\ b.tokens <= 0
         /\ buckets' = [buckets EXCEPT ![q.ip] = b]
         /\ refused' = [refused EXCEPT ![q.ip] = clock]
  /\ UNCHANGED <<clock, admitted>>

(* A restart of the process: the map of buckets is new, whoever waited is gone. *)
Forget ==
  /\ buckets' = [ip \in Ips |-> None] /\ waiting' = [r \in Requests |-> None]
  /\ admitted' = [ip \in Ips |-> <<>>] /\ refused' = [ip \in Ips |-> None]
  /\ UNCHANGED clock

LimiterNext == \/ Tick \/ Forget
               \/ \E r \in Requests : Admit(r) \/ Refuse(r) \/ \E ip \in Ips : Arrive(r, ip)

LimiterSpec == LimiterInit /\ [][LimiterNext]_limiter
-----------------------------------------------------------------------------
LimiterTypeOK ==
  /\ clock \in Time
  /\ buckets \in [Ips -> Bucket \cup {None}] /\ waiting \in [Requests -> Reading \cup {None}]
  /\ admitted \in [Ips -> Seq(Time)] /\ refused \in [Ips -> Time \cup {None}]
  /\ \A r \in Requests : waiting[r] # None => clock - waiting[r].now \in 0..MaxLag

(* ratelimit.go:13: an address gets through Burst times and once per Interval   *)
(* after that - over every stretch of time, however its requests are delayed    *)
(* and reordered at the lock.                                                  *)
WindowBound ==
  \A ip \in Ips : \A i, j \in 1..Len(admitted[ip]) : i <= j =>
    Interval * (j - i + 1) <= Burst * Interval + MaxLag + admitted[ip][j] - admitted[ip][i]

(* The refill drops the fraction of an interval, yet nobody is locked out: who is *)
(* sent away got through less than an interval (and the lag) before, whatever he  *)
(* tried in between.  The answer asks to wait for five intervals (Retry-After).   *)
NeverStarves ==
  \A ip \in Ips : refused[ip] # None =>
    \E i \in 1..Len(admitted[ip]) : refused[ip] - admitted[ip][i] \in 0..(Interval + MaxLag - 1)

(* The limiter is a token bucket, of a capacity of Burst intervals. *)
Capacity == Burst * Interval + MaxLag
Saved(b) == b.tokens * Interval + clock - b.last
Credit(ip) == IF buckets[ip] = None \/ Saved(buckets[ip]) > Capacity THEN Capacity
              ELSE Saved(buckets[ip])

Ideal == INSTANCE TokenBucket WITH Price <- Interval, Slack <- MaxLag, Capacity <- Capacity,
                                   credit <- [ip \in Ips |-> Credit(ip)]
KeepsBucket == Ideal!Spec
=============================================================================
