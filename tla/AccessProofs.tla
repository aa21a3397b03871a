---------------------------- MODULE AccessProofs ----------------------------
(***************************************************************************)
(* Results on the limiter of logins and on accounts and sessions behind it, *)
(* for every number of requests and addresses, every burst and interval,    *)
(* every set of passwords and databases and every bound.                   *)
(***************************************************************************)
EXTENDS Access, TLAPS

LEMMA ConstantsTyped ==
  /\ Burst \in Nat /\ Burst > 0 /\ Interval \in Nat /\ Interval > 0
  /\ MaxLag \in Nat /\ MaxClock \in Nat
  /\ None \notin Int /\ None \notin Bucket /\ None \notin Reading
BY LimiterOK
-----------------------------------------------------------------------------
(* Arithmetic of the limiter: I is an interval. *)

LEMMA DivBounds ==
  ASSUME NEW a \in Int, NEW n \in Nat, n > 0
  PROVE  /\ a \div n \in Int
         /\ n * (a \div n) <= a /\ a < n * (a \div n) + n
         /\ a \div n <= 0 <=> a < n
OBVIOUS

LEMMA Product ==
  ASSUME NEW I \in Int, NEW a \in Int, NEW b \in Int
  PROVE  I * a \in Int /\ I * (a + b) = I * a + I * b /\ I * (a - 1) = I * a - I
         /\ I * a = a * I
OBVIOUS

LEMMA Scale ==
  ASSUME NEW I \in Nat, NEW a \in Int, NEW b \in Int, a <= b
  PROVE  I * a <= I * b
OBVIOUS

-----------------------------------------------------------------------------
(* A refill: nothing before an interval is over; then at least one token, no    *)
(* more than the time is worth, and all of that but a fraction of an interval    *)
(* unless the bucket is full.                                                   *)
Worth(b) == Interval * b.tokens

LEMMA RefillFacts ==
  ASSUME NEW b \in Bucket, NEW now \in Time
  PROVE  \/ now - b.last < Interval /\ Refill(b, now) = b
         \/ /\ now - b.last >= Interval
            /\ Refill(b, now) \in Bucket
            /\ Refill(b, now).last = now /\ Refill(b, now).tokens > 0
            /\ Worth(Refill(b, now)) <= Worth(b) + now - b.last
            /\ \/ Refill(b, now).tokens = Burst
               \/ Worth(b) + now - b.last < Worth(Refill(b, now)) + Interval
<1>1. /\ b.tokens \in Nat /\ b.tokens <= Burst /\ b.last \in Nat /\ now \in Nat
  BY ConstantsTyped DEF Bucket, Time
<1> DEFINE add == (now - b.last) \div Interval
           tokens == IF b.tokens + add > Burst THEN Burst ELSE b.tokens + add
<1>2. /\ add \in Int
      /\ Interval * add <= now - b.last /\ now - b.last < Interval * add + Interval
      /\ add <= 0 <=> now - b.last < Interval
  BY <1>1, ConstantsTyped, DivBounds
<1>3. Refill(b, now) = IF add <= 0 THEN b ELSE [tokens |-> tokens, last |-> now]
  BY DEF Refill
<1> HIDE DEF add
<1>4. CASE add <= 0
  BY <1>2, <1>3, <1>4
<1>5. CASE add > 0
  <2>1. Refill(b, now) = [tokens |-> tokens, last |-> now] /\ now - b.last >= Interval
    BY <1>1, <1>2, <1>3, <1>5, ConstantsTyped
  <2>2. tokens \in 0..Burst /\ tokens > 0 /\ tokens <= b.tokens + add
    BY <1>1, <1>2, <1>5, ConstantsTyped
  <2>3. Refill(b, now) \in Bucket /\ Refill(b, now).last = now /\ Refill(b, now).tokens = tokens
    BY <2>1, <2>2 DEF Bucket
  <2>4. Interval * (b.tokens + add) = Worth(b) + Interval * add /\ Worth(b) \in Int /\ Interval * add \in Int
    BY <1>1, <1>2, ConstantsTyped, Product DEF Worth
  <2>5. Interval * tokens <= Interval * (b.tokens + add)
    BY <1>1, <1>2, <2>2, ConstantsTyped, Scale
  <2>6. Interval * tokens \in Int
    BY <2>2, ConstantsTyped, Product
  <2>7. Interval * tokens <= Worth(b) + now - b.last
    BY <1>1, <1>2, <2>4, <2>5, <2>6
  <2>8. tokens = Burst \/ Worth(b) + now - b.last < Interval * tokens + Interval
    BY <1>1, <1>2, <2>4, ConstantsTyped
  <2> HIDE DEF tokens
  <2> QED BY <2>1, <2>2, <2>3, <2>7, <2>8 DEF Worth
<1> QED BY <1>2, <1>4, <1>5
-----------------------------------------------------------------------------
(* The inductive invariant: a stored bucket has room, was refilled no later than *)
(* some admission, and what it holds and has paid since any admission is covered *)
(* by the capacity and the time from there to its last refill.                  *)
Paid(ip, i) == Interval * (Len(admitted[ip]) - i + 1)

Banked(ip) ==
  /\ buckets[ip] = None => admitted[ip] = <<>>
  /\ buckets[ip] # None =>
       /\ buckets[ip].last <= clock /\ buckets[ip].tokens < Burst
       /\ \E i \in 1..Len(admitted[ip]) : buckets[ip].last <= admitted[ip][i]
       /\ \A i \in 1..Len(admitted[ip]) :
            Paid(ip, i) + Worth(buckets[ip]) - buckets[ip].last <= Capacity - admitted[ip][i]

LimiterInv ==
  /\ LimiterTypeOK
  /\ \A ip \in Ips : \A i \in 1..Len(admitted[ip]) : admitted[ip][i] <= clock
  /\ \A ip \in Ips : Banked(ip)

LEMMA CapacityTyped == Capacity \in Nat /\ Capacity = Interval * Burst + MaxLag
BY ConstantsTyped, Product DEF Capacity

LEMMA TypedIp ==
  ASSUME LimiterTypeOK, NEW ip \in Ips
  PROVE  /\ clock \in Nat
         /\ buckets[ip] # None =>
              buckets[ip] \in Bucket /\ buckets[ip].tokens \in Nat /\ buckets[ip].last \in Nat
         /\ admitted[ip] \in Seq(Time)
         /\ \A i \in 1..Len(admitted[ip]) : admitted[ip][i] \in Nat
         /\ Len(admitted[ip]) \in Nat
         /\ refused[ip] # None => refused[ip] \in Nat
BY ConstantsTyped DEF LimiterTypeOK, Bucket, Time

LEMMA PaidTyped ==
  ASSUME LimiterTypeOK, NEW ip \in Ips, NEW i \in 1..Len(admitted[ip])
  PROVE  Paid(ip, i) \in Int
<1>1. Len(admitted[ip]) \in Nat
  BY TypedIp
<1>2. Len(admitted[ip]) - i + 1 \in Int
  BY <1>1
<1> QED BY <1>2, ConstantsTyped, Product DEF Paid

LEMMA RoomWorth ==
  ASSUME NEW b \in Bucket
  PROVE  /\ b.tokens \in Nat /\ b.last \in Nat /\ Worth(b) \in Int
         /\ Worth(b) <= Interval * Burst
         /\ b.tokens < Burst => Worth(b) <= Interval * Burst - Interval
<1>1. b.tokens \in Nat /\ b.tokens <= Burst /\ b.last \in Nat
  BY ConstantsTyped DEF Bucket, Time
<1>2. Worth(b) \in Int
  BY <1>1, ConstantsTyped, Product DEF Worth
<1>3. Worth(b) <= Interval * Burst
  BY <1>1, ConstantsTyped, Scale DEF Worth
<1>4. ASSUME b.tokens < Burst PROVE Worth(b) <= Interval * Burst - Interval
  <2>1. b.tokens <= Burst - 1
    BY <1>1, <1>4, ConstantsTyped
  <2>2. Interval * b.tokens <= Interval * (Burst - 1)
    BY <1>1, <2>1, ConstantsTyped, Scale
  <2>3. Interval * (Burst - 1) = Interval * Burst - Interval
    BY ConstantsTyped, Product
  <2> QED BY <2>2, <2>3 DEF Worth
<1> QED BY <1>1, <1>2, <1>3, <1>4

LEMMA Carried ==
  ASSUME NEW p \in Int, NEW w \in Int, NEW l \in Int, NEW v \in Int, NEW n \in Int,
         NEW c \in Int, NEW a \in Int,
         p + w - l <= c - a, v <= w + n - l
  PROVE  p + v - n <= c - a
OBVIOUS

(* The bucket a waiting request decides by. *)
LEMMA CurrentFacts ==
  ASSUME LimiterInv, NEW r \in Requests, waiting[r] # None,
         NEW q, q = waiting[r], NEW b, b = Current(q)
  PROVE  /\ q \in Reading /\ q.ip \in Ips /\ q.now \in Time
         /\ q.now <= clock /\ clock - q.now <= MaxLag
         /\ b \in Bucket /\ b.last <= clock
         /\ b.tokens = 0 => buckets[q.ip] = b /\ buckets[q.ip] # None
         /\ b.tokens = 0 => q.now - b.last < Interval
         /\ b.tokens > 0 => Worth(b) + clock - b.last <= Capacity
         /\ \A i \in 1..Len(admitted[q.ip]) :
              Paid(q.ip, i) + Worth(b) - b.last <= Capacity - admitted[q.ip][i]
<1>1. /\ q \in Reading /\ q.ip \in Ips /\ q.now \in Time
      /\ q.now <= clock /\ clock - q.now <= MaxLag /\ q.now \in Nat /\ clock \in Nat
  BY ConstantsTyped DEF LimiterInv, LimiterTypeOK, Reading, Time
<1> DEFINE ip == q.ip
           old == buckets[ip]
<1>2. /\ Capacity \in Nat /\ Capacity = Interval * Burst + MaxLag /\ Interval * Burst \in Int
  BY CapacityTyped, ConstantsTyped, Product
<1>3. CASE old = None
  <2>1. b = [tokens |-> Burst, last |-> q.now] /\ admitted[ip] = <<>>
    BY <1>1, <1>3 DEF Current, Made, LimiterInv, Banked
  <2>2. b \in Bucket /\ b.tokens = Burst /\ b.last = q.now /\ Worth(b) = Interval * Burst
    BY <1>1, <2>1, ConstantsTyped DEF Bucket, Worth
  <2> QED BY <1>1, <1>2, <2>1, <2>2, ConstantsTyped
<1>4. CASE old # None
  <2>1. b = Refill(old, q.now)
    BY <1>4 DEF Current
  <2>2. /\ old \in Bucket /\ old.tokens \in Nat /\ old.last \in Nat
        /\ \A i \in 1..Len(admitted[ip]) : admitted[ip][i] \in Nat
        /\ Len(admitted[ip]) \in Nat
    BY <1>1, <1>4, TypedIp DEF LimiterInv
  <2>3. /\ old.last <= clock /\ old.tokens < Burst
        /\ \A i \in 1..Len(admitted[ip]) :
             Paid(ip, i) + Worth(old) - old.last <= Capacity - admitted[ip][i]
    BY <1>1, <1>4 DEF LimiterInv, Banked
  <2>4. Worth(old) \in Int /\ Worth(old) <= Interval * Burst - Interval
    BY <2>2, <2>3, RoomWorth
  <2>5. \A i \in 1..Len(admitted[ip]) : Paid(ip, i) \in Int
    BY <1>1, PaidTyped DEF LimiterInv
  <2> HIDE DEF ip, old
  <2>6. CASE q.now - old.last < Interval /\ b = old
    <3>1. Worth(b) + clock - b.last <= Capacity
      BY <1>1, <1>2, <2>2, <2>3, <2>4, <2>6, ConstantsTyped
    <3> QED BY <1>1, <1>4, <2>2, <2>3, <2>6, <3>1 DEF ip, old
  <2>7. CASE /\ q.now - old.last >= Interval
             /\ b \in Bucket /\ b.last = q.now /\ b.tokens > 0
             /\ Worth(b) <= Worth(old) + q.now - old.last
    <3>1. b.tokens \in Nat /\ b.tokens <= Burst /\ Worth(b) \in Int /\ Worth(b) <= Interval * Burst
      BY <2>7, RoomWorth DEF Bucket
    <3>2. ASSUME NEW i \in 1..Len(admitted[ip])
          PROVE  Paid(ip, i) + Worth(b) - b.last <= Capacity - admitted[ip][i]
      <4>1. /\ Paid(ip, i) + Worth(old) - old.last <= Capacity - admitted[ip][i]
            /\ Paid(ip, i) \in Int /\ admitted[ip][i] \in Nat
        BY <2>2, <2>3, <2>5
      <4>2. /\ Worth(b) \in Int /\ Worth(old) \in Int /\ Capacity \in Int
            /\ q.now \in Int /\ old.last \in Int /\ admitted[ip][i] \in Int
            /\ Worth(b) <= Worth(old) + q.now - old.last
        BY <1>1, <1>2, <2>2, <2>4, <2>7, <3>1, <4>1
      <4>3. Paid(ip, i) + Worth(b) - q.now <= Capacity - admitted[ip][i]
        BY <4>1, <4>2, Carried
      <4> QED BY <2>7, <4>3
    <3> QED BY <1>1, <1>2, <2>7, <3>1, <3>2, ConstantsTyped DEF ip
  <2> QED BY <1>1, <2>1, <2>2, <2>6, <2>7, RefillFacts
<1> QED BY <1>3, <1>4
-----------------------------------------------------------------------------
(* Steps of the limiter. *)

LEMMA Appended ==
  ASSUME NEW s \in Seq(Time), NEW t \in Time
  PROVE  /\ Append(s, t) \in Seq(Time) /\ Len(s) \in Nat /\ Len(Append(s, t)) = Len(s) + 1
         /\ \A i \in 1..Len(s) : Append(s, t)[i] = s[i]
         /\ Append(s, t)[Len(s) + 1] = t
OBVIOUS

LEMMA Spend ==
  ASSUME NEW b \in Bucket, b.tokens > 0
  PROVE  /\ [b EXCEPT !.tokens = @ - 1] \in Bucket
         /\ [b EXCEPT !.tokens = @ - 1].tokens = b.tokens - 1
         /\ [b EXCEPT !.tokens = @ - 1].last = b.last
         /\ [b EXCEPT !.tokens = @ - 1].tokens < Burst
         /\ Worth([b EXCEPT !.tokens = @ - 1]) = Worth(b) - Interval
<1>1. b.tokens \in Nat /\ b.tokens <= Burst
  BY ConstantsTyped DEF Bucket
<1>2. /\ [b EXCEPT !.tokens = @ - 1] \in Bucket
      /\ [b EXCEPT !.tokens = @ - 1].tokens = b.tokens - 1
      /\ [b EXCEPT !.tokens = @ - 1].last = b.last
  BY <1>1, ConstantsTyped DEF Bucket
<1>3. Interval * (b.tokens - 1) = Interval * b.tokens - Interval
  BY <1>1, ConstantsTyped, Product
<1> QED BY <1>1, <1>2, <1>3, ConstantsTyped DEF Worth

(* The address that is let through: one more admission, one token less.          *)
LEMMA AdmitSelf ==
  ASSUME LimiterInv, NEW r \in Requests, Admit(r), NEW ip, ip = waiting[r].ip
  PROVE  /\ admitted'[ip] = Append(admitted[ip], clock)
         /\ buckets'[ip] \in Bucket /\ buckets'[ip].tokens < Burst /\ buckets'[ip].last <= clock
         /\ \A i \in 1..Len(admitted[ip]) :
              Paid(ip, i) + Interval + Worth(buckets'[ip]) - buckets'[ip].last
                <= Capacity - admitted[ip][i]
         /\ Interval + Worth(buckets'[ip]) - buckets'[ip].last <= Capacity - clock
<1> DEFINE q == waiting[r]
           b == Current(q)
           new == [b EXCEPT !.tokens = @ - 1]
<1>1. /\ q.ip \in Ips /\ b \in Bucket /\ b.last <= clock
      /\ b.tokens > 0 => Worth(b) + clock - b.last <= Capacity
      /\ \A i \in 1..Len(admitted[q.ip]) :
           Paid(q.ip, i) + Worth(b) - b.last <= Capacity - admitted[q.ip][i]
  BY CurrentFacts DEF Admit
<1>2. b.tokens > 0
  BY DEF Admit
<1>3. buckets'[ip] = new /\ admitted'[ip] = Append(admitted[ip], clock)
  BY <1>1 DEF Admit, LimiterInv, LimiterTypeOK
<1> HIDE DEF q, b
<1>4. /\ new \in Bucket /\ new.last = b.last /\ new.tokens < Burst
      /\ Worth(new) = Worth(b) - Interval
  BY <1>1, <1>2, Spend
<1>5. /\ Worth(b) \in Int /\ b.last \in Int /\ Capacity \in Int /\ clock \in Int /\ Interval \in Int
  BY <1>1, RoomWorth, CapacityTyped, ConstantsTyped DEF LimiterInv, LimiterTypeOK, Time
<1> HIDE DEF new
<1>6. ASSUME NEW i \in 1..Len(admitted[ip])
      PROVE  Paid(ip, i) + Interval + Worth(new) - new.last <= Capacity - admitted[ip][i]
  <2>1. Paid(ip, i) \in Int
    BY <1>1, PaidTyped DEF LimiterInv, q
  <2>2. Paid(ip, i) + Interval + Worth(new) - new.last = Paid(ip, i) + Worth(b) - b.last
    BY <1>4, <1>5, <2>1
  <2> QED BY <1>1, <2>2 DEF q
<1>7. Interval + Worth(new) - new.last <= Capacity - clock
  BY <1>1, <1>2, <1>4, <1>5
<1> QED BY <1>1, <1>3, <1>4, <1>6, <1>7

(* An address that a step leaves alone is as it was. *)
LEMMA BankedStays ==
  ASSUME LimiterInv, NEW ip \in Ips, clock' \in Int, clock' >= clock,
         buckets'[ip] = buckets[ip], admitted'[ip] = admitted[ip]
  PROVE  /\ Banked(ip)'
         /\ \A i \in 1..Len(admitted'[ip]) : admitted'[ip][i] <= clock'
<1>1. /\ clock \in Nat /\ Len(admitted[ip]) \in Nat
      /\ buckets[ip] # None => buckets[ip].last \in Nat
      /\ \A i \in 1..Len(admitted[ip]) : admitted[ip][i] \in Nat /\ admitted[ip][i] <= clock
  BY TypedIp DEF LimiterInv
<1>2. \A i \in 1..Len(admitted'[ip]) : Paid(ip, i)' = Paid(ip, i)
  BY DEF Paid
<1>3. Capacity' = Capacity
  BY DEF Capacity
<1>4. \A i \in 1..Len(admitted'[ip]) : admitted'[ip][i] <= clock'
  BY <1>1
<1>5. buckets'[ip] # None => buckets'[ip].last <= clock'
  BY <1>1 DEF LimiterInv, Banked
<1>6. Banked(ip)
  BY DEF LimiterInv
<1>7. Worth(buckets[ip])' = Worth(buckets[ip])
  BY DEF Worth
<1> QED BY <1>2, <1>3, <1>4, <1>5, <1>6, <1>7 DEF Banked

LEMMA AdmitKeeps ==
  ASSUME LimiterInv, NEW r \in Requests, Admit(r), NEW ip, ip = waiting[r].ip
  PROVE  LimiterInv'
<1> DEFINE n == Len(admitted[ip])
           bank == buckets'[ip]
<1>1. /\ ip \in Ips /\ clock \in Nat /\ clock \in Time /\ UNCHANGED clock /\ n \in Nat
      /\ admitted[ip] \in Seq(Time) /\ Capacity \in Int /\ Interval \in Int
      /\ \A i \in 1..n : admitted[ip][i] \in Nat /\ admitted[ip][i] <= clock
  <2>1. ip \in Ips /\ UNCHANGED clock
    BY CurrentFacts DEF Admit
  <2> QED BY <2>1, TypedIp, CapacityTyped, ConstantsTyped DEF LimiterInv, LimiterTypeOK
<1>2. /\ admitted'[ip] = Append(admitted[ip], clock)
      /\ bank \in Bucket /\ bank.tokens < Burst /\ bank.last <= clock
      /\ \A i \in 1..n :
           Paid(ip, i) + Interval + Worth(bank) - bank.last <= Capacity - admitted[ip][i]
      /\ Interval + Worth(bank) - bank.last <= Capacity - clock
  BY AdmitSelf
<1>3. \A a \in Ips : a # ip => buckets'[a] = buckets[a] /\ admitted'[a] = admitted[a]
  BY DEF Admit, LimiterInv, LimiterTypeOK
<1>4. /\ Len(admitted'[ip]) = n + 1
      /\ \A i \in 1..n : admitted'[ip][i] = admitted[ip][i]
      /\ admitted'[ip][n + 1] = clock
      /\ admitted'[ip] \in Seq(Time)
  BY <1>1, <1>2, Appended
<1>5. LimiterTypeOK'
  <2>1. buckets' \in [Ips -> Bucket \cup {None}] /\ admitted' \in [Ips -> Seq(Time)]
    <3>1. /\ buckets' = [buckets EXCEPT ![ip] = bank]
          /\ admitted' = [admitted EXCEPT ![ip] = Append(admitted[ip], clock)]
      BY <1>1 DEF Admit, LimiterInv, LimiterTypeOK
    <3> QED BY <1>1, <1>2, <1>4, <3>1 DEF LimiterInv, LimiterTypeOK
  <2>2. /\ waiting' \in [Requests -> Reading \cup {None}]
        /\ \A q \in Requests : waiting'[q] # None => waiting'[q] = waiting[q]
    BY DEF Admit, LimiterInv, LimiterTypeOK
  <2>3. UNCHANGED <<clock, refused>>
    BY DEF Admit
  <2> QED BY <2>1, <2>2, <2>3 DEF LimiterInv, LimiterTypeOK
<1>6. Capacity' = Capacity /\ Worth(buckets[ip])' = Worth(bank)
  BY DEF Capacity, Worth
<1> HIDE DEF n, bank
<1>7. ASSUME NEW i \in 1..(n + 1)
      PROVE  /\ admitted'[ip][i] <= clock
             /\ Paid(ip, i)' + Worth(bank) - bank.last <= Capacity - admitted'[ip][i]
  <2>1. CASE i = n + 1
    <3>1. Paid(ip, i)' = Interval * 1
      BY <1>1, <1>4, <2>1 DEF Paid
    <3>2. Paid(ip, i)' = Interval
      BY <1>1, <3>1
    <3> QED BY <1>1, <1>2, <1>4, <2>1, <3>2
  <2>2. CASE i \in 1..n
    <3>1. Len(admitted'[ip]) - i + 1 = (n - i + 1) + 1 /\ n - i + 1 \in Int
      BY <1>1, <1>4, <2>2
    <3>2. Paid(ip, i)' = Interval * ((n - i + 1) + 1)
      BY <3>1 DEF Paid
    <3>3. Paid(ip, i)' = Paid(ip, i) + Interval * 1
      <4>1. Paid(ip, i) = Interval * (n - i + 1)
        BY DEF Paid, n
      <4>2. Interval * ((n - i + 1) + 1) = Interval * (n - i + 1) + Interval * 1
        BY <3>1, ConstantsTyped, Product
      <4> QED BY <3>2, <4>1, <4>2
    <3>4. Interval * 1 = Interval
      BY <1>1
    <3> QED BY <1>1, <1>2, <1>4, <2>2, <3>3, <3>4
  <2> QED BY <1>1, <2>1, <2>2
<1>8. Banked(ip)'
  <2>1. bank # None
    BY <1>2, ConstantsTyped
  <2>2. \E i \in 1..Len(admitted'[ip]) : bank.last <= admitted'[ip][i]
    BY <1>1, <1>2, <1>4
  <2> QED BY <1>1, <1>2, <1>4, <1>6, <1>7, <2>1, <2>2 DEF Banked, bank
<1>9. ASSUME NEW a \in Ips
      PROVE  Banked(a)' /\ \A i \in 1..Len(admitted'[a]) : admitted'[a][i] <= clock'
  <2>1. CASE a = ip
    BY <1>1, <1>4, <1>7, <1>8, <2>1
  <2>2. CASE a # ip
    BY <1>1, <1>3, <2>2, BankedStays
  <2> QED BY <2>1, <2>2
<1> QED BY <1>5, <1>9 DEF LimiterInv

LEMMA RefuseKeeps ==
  ASSUME LimiterInv, NEW r \in Requests, Refuse(r)
  PROVE  LimiterInv' /\ UNCHANGED <<clock, buckets, admitted>>
<1> DEFINE q == waiting[r]
           b == Current(q)
<1>1. /\ q.ip \in Ips /\ b \in Bucket
      /\ b.tokens = 0 => buckets[q.ip] = b
  BY CurrentFacts DEF Refuse
<1>2. b.tokens = 0
  BY <1>1, ConstantsTyped DEF Refuse, Bucket
<1>3. UNCHANGED <<clock, buckets, admitted>>
  <2>1. buckets' = [buckets EXCEPT ![q.ip] = b] /\ buckets[q.ip] = b
    BY <1>1, <1>2 DEF Refuse
  <2> QED BY <2>1 DEF Refuse, LimiterInv, LimiterTypeOK
<1>4. LimiterTypeOK'
  <2>1. /\ waiting' \in [Requests -> Reading \cup {None}]
        /\ \A p \in Requests : waiting'[p] # None => waiting'[p] = waiting[p]
    BY DEF Refuse, LimiterInv, LimiterTypeOK
  <2>2. refused' \in [Ips -> Time \cup {None}]
    BY <1>1 DEF Refuse, LimiterInv, LimiterTypeOK
  <2> QED BY <1>3, <2>1, <2>2 DEF LimiterInv, LimiterTypeOK
<1>5. ASSUME NEW a \in Ips
      PROVE  Banked(a)' /\ \A i \in 1..Len(admitted'[a]) : admitted'[a][i] <= clock'
  <2>1. clock \in Int
    BY TypedIp DEF LimiterInv
  <2> QED BY <1>3, <2>1, BankedStays
<1> QED BY <1>3, <1>4, <1>5 DEF LimiterInv

LEMMA ForgetKeeps ==
  ASSUME LimiterInv, Forget
  PROVE  LimiterInv'
<1>1. LimiterTypeOK'
  BY DEF Forget, LimiterInv, LimiterTypeOK
<1>2. \A ip \in Ips : admitted'[ip] = <<>> /\ buckets'[ip] = None
  BY DEF Forget
<1> QED BY <1>1, <1>2 DEF LimiterInv, Banked

LEMMA QuietKeeps ==
  ASSUME LimiterInv,
         Tick \/ (\E r \in Requests, ip \in Ips : Arrive(r, ip)) \/ UNCHANGED limiter
  PROVE  LimiterInv' /\ UNCHANGED <<buckets, admitted, refused>>
<1>1. /\ UNCHANGED <<buckets, admitted, refused>>
      /\ clock' \in Time /\ clock' >= clock
  BY ConstantsTyped DEF Tick, Arrive, limiter, LimiterInv, LimiterTypeOK, Time
<1>2. LimiterTypeOK'
  <2>1. CASE Tick
    <3>1. ASSUME NEW r \in Requests, waiting[r] # None
          PROVE  clock' - waiting[r].now \in 0..MaxLag
      <4>1. waiting[r].now \in Int /\ clock - waiting[r].now \in 0..MaxLag /\ clock \in Int
        BY <3>1, ConstantsTyped DEF LimiterInv, LimiterTypeOK, Reading, Time
      <4>2. clock' = clock + 1 /\ clock - waiting[r].now < MaxLag
        BY <2>1, <3>1 DEF Tick
      <4> QED BY <4>1, <4>2, ConstantsTyped
    <3> QED BY <1>1, <2>1, <3>1 DEF Tick, LimiterInv, LimiterTypeOK
  <2>2. ASSUME NEW r \in Requests, NEW ip \in Ips, Arrive(r, ip) PROVE LimiterTypeOK'
    <3>1. [ip |-> ip, now |-> clock] \in Reading
      BY DEF LimiterInv, LimiterTypeOK, Reading
    <3>2. waiting' = [waiting EXCEPT ![r] = [ip |-> ip, now |-> clock]]
      BY <2>2 DEF Arrive
    <3>3. waiting' \in [Requests -> Reading \cup {None}]
      BY <3>1, <3>2 DEF LimiterInv, LimiterTypeOK
    <3>4. \A p \in Requests : p # r => waiting'[p] = waiting[p]
      BY <3>2 DEF LimiterInv, LimiterTypeOK
    <3>5. waiting'[r].now = clock
      BY <3>2 DEF LimiterInv, LimiterTypeOK
    <3>6. clock - clock \in 0..MaxLag
      BY ConstantsTyped DEF LimiterInv, LimiterTypeOK, Time
    <3> QED BY <2>2, <3>3, <3>4, <3>5, <3>6 DEF Arrive, LimiterInv, LimiterTypeOK
  <2>3. CASE UNCHANGED limiter
    BY <2>3 DEF limiter, LimiterInv, LimiterTypeOK
  <2> QED BY <2>1, <2>2, <2>3
<1>3. ASSUME NEW a \in Ips
      PROVE  Banked(a)' /\ \A i \in 1..Len(admitted'[a]) : admitted'[a][i] <= clock'
  BY <1>1, BankedStays DEF Time
<1> QED BY <1>1, <1>2, <1>3 DEF LimiterInv

LEMMA LimiterInvariant == LimiterSpec => []LimiterInv
<1>1. LimiterInit => LimiterInv
  <2> SUFFICES ASSUME LimiterInit PROVE LimiterInv
    OBVIOUS
  <2>1. LimiterTypeOK
    BY ConstantsTyped DEF LimiterInit, LimiterTypeOK, Time
  <2> QED BY <2>1 DEF LimiterInit, LimiterInv, Banked
<1>2. LimiterInv /\ [LimiterNext]_limiter => LimiterInv'
  BY AdmitKeeps, RefuseKeeps, ForgetKeeps, QuietKeeps DEF LimiterNext
<1> QED BY <1>1, <1>2, PTL DEF LimiterSpec

LEMMA Payable ==
  ASSUME NEW p \in Int, NEW k \in Int, NEW w \in Int, NEW l \in Int, NEW c \in Int,
         NEW a \in Int, NEW t \in Int,
         p + k + w - l <= c - a, w >= 0, l <= t
  PROVE  p + k <= c + t - a
OBVIOUS

(* ratelimit.go:13, over every stretch of time: the bound is the invariant at the *)
(* last admission of the stretch.                                               *)
LEMMA WindowStep ==
  ASSUME LimiterInv, WindowBound, [LimiterNext]_limiter
  PROVE  WindowBound'
<1>1. CASE UNCHANGED admitted
  BY <1>1 DEF WindowBound
<1>2. CASE Forget
  BY <1>2 DEF Forget, WindowBound
<1>3. ASSUME NEW r \in Requests, Admit(r)
      PROVE  WindowBound'
  <2>1. PICK ip : ip = waiting[r].ip
    OBVIOUS
  <2> DEFINE n == Len(admitted[ip])
             bank == buckets'[ip]
  <2>2. /\ ip \in Ips /\ clock \in Nat /\ clock \in Time /\ n \in Nat
        /\ admitted[ip] \in Seq(Time)
        /\ \A i \in 1..n : admitted[ip][i] \in Nat
    <3>1. ip \in Ips
      BY <1>3, <2>1, CurrentFacts DEF Admit
    <3> QED BY <3>1, TypedIp DEF LimiterInv, LimiterTypeOK
  <2>3. /\ admitted'[ip] = Append(admitted[ip], clock)
        /\ bank \in Bucket /\ bank.last <= clock
        /\ \A i \in 1..n :
             Paid(ip, i) + Interval + Worth(bank) - bank.last <= Capacity - admitted[ip][i]
        /\ Interval + Worth(bank) - bank.last <= Capacity - clock
    BY <1>3, <2>1, AdmitSelf
  <2>4. /\ Len(admitted'[ip]) = n + 1
        /\ \A i \in 1..n : admitted'[ip][i] = admitted[ip][i]
        /\ admitted'[ip][n + 1] = clock
    BY <2>2, <2>3, Appended
  <2>5. \A a \in Ips : a # ip => admitted'[a] = admitted[a]
    BY <1>3, <2>1 DEF Admit, LimiterInv, LimiterTypeOK
  <2>6. /\ Worth(bank) \in Int /\ Worth(bank) >= 0 /\ bank.last \in Int
        /\ Capacity \in Int /\ Interval \in Int /\ Capacity = Burst * Interval + MaxLag
    <3>1. bank.tokens \in Nat /\ bank.tokens >= 0
      BY <2>3, RoomWorth
    <3>2. Interval * 0 <= Interval * bank.tokens /\ Interval * 0 = 0
      BY <3>1, ConstantsTyped, Scale
    <3>3. Worth(bank) \in Int /\ bank.last \in Int
      BY <2>3, RoomWorth
    <3>4. Capacity \in Int /\ Interval \in Int /\ Capacity = Burst * Interval + MaxLag
      BY CapacityTyped, ConstantsTyped DEF Capacity
    <3>5. Worth(bank) >= 0
      BY <3>2, <3>3 DEF Worth
    <3> QED BY <3>3, <3>4, <3>5
  <2> HIDE DEF n, bank
  <2>7. ASSUME NEW i \in 1..(n + 1)
        PROVE  Interval * (n + 1 - i + 1) <= Capacity + clock - admitted'[ip][i]
    <3>1. CASE i = n + 1
      <4>1. n + 1 - i + 1 = 1 /\ Interval * 1 = Interval
        BY <2>2, <2>6, <3>1
      <4>2. Interval <= Capacity + clock - clock
        BY <2>2, <2>3, <2>6
      <4> QED BY <2>4, <3>1, <4>1, <4>2
    <3>2. CASE i \in 1..n
      <4>1. n + 1 - i + 1 = (n - i + 1) + 1 /\ n - i + 1 \in Int
        BY <2>2, <3>2
      <4>2. Interval * ((n - i + 1) + 1) = Interval * (n - i + 1) + Interval * 1
        BY <4>1, ConstantsTyped, Product
      <4>3. Interval * (n - i + 1) = Paid(ip, i) /\ Interval * 1 = Interval
        BY <2>6 DEF Paid, n
      <4>4. Paid(ip, i) \in Int /\ admitted[ip][i] \in Int
        BY <2>2, <3>2, PaidTyped DEF LimiterInv, n
      <4>5. Paid(ip, i) + Interval + Worth(bank) - bank.last <= Capacity - admitted[ip][i]
        BY <2>3, <3>2
      <4>6. Paid(ip, i) + Interval <= Capacity + clock - admitted[ip][i]
        <5>1. clock \in Int /\ bank.last <= clock
          BY <2>2, <2>3
        <5> QED BY <2>6, <4>4, <4>5, <5>1, Payable
      <4>7. Interval * (n + 1 - i + 1) = Paid(ip, i) + Interval
        BY <4>1, <4>2, <4>3
      <4> QED BY <2>4, <3>2, <4>6, <4>7
    <3> QED BY <2>2, <3>1, <3>2
  <2>8. ASSUME NEW a \in Ips, NEW i \in 1..Len(admitted'[a]), NEW j \in 1..Len(admitted'[a]), i <= j
        PROVE  Interval * (j - i + 1) <= Burst * Interval + MaxLag + admitted'[a][j] - admitted'[a][i]
    <3>1. CASE a # ip
      BY <2>5, <2>8, <3>1 DEF WindowBound
    <3>2. CASE a = ip /\ j = n + 1
      <4>1. i \in 1..(n + 1) /\ admitted'[a][j] = clock /\ admitted'[a][i] = admitted'[ip][i]
        BY <2>4, <2>8, <3>2
      <4>2. Interval * (n + 1 - i + 1) <= Capacity + clock - admitted'[ip][i]
        BY <2>7, <4>1
      <4>3. j - i + 1 = n + 1 - i + 1
        BY <2>2, <3>2, <4>1
      <4>4. Burst * Interval + MaxLag + admitted'[a][j] - admitted'[a][i]
              = Capacity + clock - admitted'[ip][i]
        BY <2>6, <4>1
      <4> QED BY <4>2, <4>3, <4>4
    <3>3. CASE a = ip /\ j \in 1..n
      <4>1. i \in 1..n
        BY <2>2, <2>4, <2>8, <3>3
      <4>2. Interval * (j - i + 1) <= Burst * Interval + MaxLag + admitted[ip][j] - admitted[ip][i]
        BY <2>2, <2>8, <3>3, <4>1 DEF WindowBound, n
      <4> QED BY <2>4, <3>3, <4>1, <4>2
    <3> QED BY <2>2, <2>4, <3>1, <3>2, <3>3
  <2> QED BY <2>8 DEF WindowBound
<1>4. ASSUME NEW r \in Requests, NEW ip \in Ips, Arrive(r, ip)
      PROVE  UNCHANGED admitted
  BY <1>4 DEF Arrive
<1>5. ASSUME NEW r \in Requests, Refuse(r)
      PROVE  UNCHANGED admitted
  BY <1>5 DEF Refuse
<1>6. Tick \/ UNCHANGED limiter => UNCHANGED admitted
  BY DEF Tick, limiter
<1> QED BY <1>1, <1>2, <1>3, <1>4, <1>5, <1>6 DEF LimiterNext

(* Whoever is refused has an admission no older than the last refill, which is less *)
(* than an interval and the lag ago.                                            *)
LEMMA StarveStep ==
  ASSUME LimiterInv, NeverStarves, [LimiterNext]_limiter
  PROVE  NeverStarves'
<1>1. CASE UNCHANGED <<admitted, refused>>
  BY <1>1 DEF NeverStarves
<1>2. CASE Forget
  BY <1>2 DEF Forget, NeverStarves
<1>3. ASSUME NEW r \in Requests, Admit(r)
      PROVE  NeverStarves'
  <2> SUFFICES ASSUME NEW a \in Ips, refused'[a] # None
               PROVE  \E i \in 1..Len(admitted'[a]) :
                        refused'[a] - admitted'[a][i] \in 0..(Interval + MaxLag - 1)
    BY DEF NeverStarves
  <2>1. PICK ip : ip = waiting[r].ip
    OBVIOUS
  <2>2. refused'[a] = refused[a] /\ ip \in Ips
    BY <1>3, <2>1, CurrentFacts DEF Admit
  <2>3. PICK i \in 1..Len(admitted[a]) : refused[a] - admitted[a][i] \in 0..(Interval + MaxLag - 1)
    BY <2>2 DEF NeverStarves
  <2>4. admitted'[a] = admitted[a] \/ admitted'[a] = Append(admitted[a], clock)
    BY <1>3, <2>2 DEF Admit, LimiterInv, LimiterTypeOK
  <2>5. admitted[a] \in Seq(Time) /\ clock \in Time
    BY DEF LimiterInv, LimiterTypeOK
  <2>6. i \in 1..Len(admitted'[a]) /\ admitted'[a][i] = admitted[a][i]
    BY <2>4, <2>5, Appended
  <2> QED BY <2>2, <2>3, <2>6
<1>4. ASSUME NEW r \in Requests, Refuse(r)
      PROVE  NeverStarves'
  <2>1. PICK ip : ip = waiting[r].ip
    OBVIOUS
  <2>2. PICK b : b = Current(waiting[r])
    OBVIOUS
  <2>3. PICK now : now = waiting[r].now
    OBVIOUS
  <2>4. /\ ip \in Ips /\ now \in Time /\ now <= clock /\ clock - now <= MaxLag /\ b \in Bucket
        /\ b.tokens = 0 => buckets[ip] = b /\ buckets[ip] # None /\ now - b.last < Interval
    BY <1>4, <2>1, <2>2, <2>3, CurrentFacts DEF Refuse
  <2>5. b.tokens = 0
    BY <1>4, <2>2, <2>4, ConstantsTyped DEF Refuse, Bucket
  <2>6. admitted' = admitted /\ refused' = [refused EXCEPT ![ip] = clock]
    BY <1>4, <2>1 DEF Refuse
  <2>7. PICK i \in 1..Len(admitted[ip]) : b.last <= admitted[ip][i]
    BY <2>4, <2>5 DEF LimiterInv, Banked
  <2>8. /\ admitted[ip][i] \in Nat /\ admitted[ip][i] <= clock
        /\ clock \in Nat /\ now \in Nat /\ b.last \in Nat
    <3>1. LimiterTypeOK /\ admitted[ip][i] <= clock
      BY <2>4 DEF LimiterInv
    <3>2. clock \in Nat /\ admitted[ip][i] \in Nat
      BY <2>4, <3>1, TypedIp
    <3>3. now \in Nat /\ b.last \in Nat
      BY <2>4, ConstantsTyped, RoomWorth DEF Time
    <3> QED BY <3>1, <3>2, <3>3
  <2>9. clock - admitted[ip][i] \in 0..(Interval + MaxLag - 1)
    BY <2>4, <2>5, <2>7, <2>8, ConstantsTyped
  <2> QED BY <2>4, <2>6, <2>9 DEF NeverStarves, LimiterInv, LimiterTypeOK
<1>5. ASSUME NEW r \in Requests, NEW ip \in Ips, Arrive(r, ip)
      PROVE  UNCHANGED <<admitted, refused>>
  BY <1>5 DEF Arrive
<1>6. Tick \/ UNCHANGED limiter => UNCHANGED <<admitted, refused>>
  BY DEF Tick, limiter
<1> QED BY <1>1, <1>2, <1>3, <1>4, <1>5, <1>6 DEF LimiterNext
-----------------------------------------------------------------------------
(* The limiter implements a token bucket. *)

LEMMA SavedWorth ==
  ASSUME LimiterTypeOK, NEW b \in Bucket
  PROVE  /\ Saved(b) = Worth(b) + clock - b.last /\ Saved(b) \in Int
         /\ Worth(b) \in Int /\ Worth(b) >= 0 /\ b.last \in Int /\ clock \in Int
<1>1. /\ b.tokens \in Nat /\ b.last \in Nat /\ Worth(b) \in Int
  BY RoomWorth
<1>2. clock \in Nat
  BY ConstantsTyped DEF LimiterTypeOK, Time
<1>3. b.tokens * Interval = Interval * b.tokens
  BY <1>1, ConstantsTyped, Product
<1>4. Interval * 0 <= Interval * b.tokens /\ Interval * 0 = 0
  BY <1>1, ConstantsTyped, Scale
<1>5. Worth(b) >= 0
  BY <1>1, <1>4 DEF Worth
<1> QED BY <1>1, <1>2, <1>3, <1>5 DEF Saved, Worth

LEMMA CreditTyped ==
  ASSUME LimiterInv, NEW ip \in Ips
  PROVE  /\ Credit(ip) \in Nat /\ Credit(ip) <= Capacity
         /\ buckets[ip] = None => Credit(ip) = Capacity
         /\ buckets[ip] # None => Credit(ip) <= Saved(buckets[ip])
         /\ buckets[ip] # None /\ Saved(buckets[ip]) <= Capacity => Credit(ip) = Saved(buckets[ip])
<1>1. CASE buckets[ip] = None
  BY <1>1, CapacityTyped DEF Credit
<1>2. CASE buckets[ip] # None
  <2>1. buckets[ip] \in Bucket /\ buckets[ip].last <= clock
    BY <1>2, TypedIp DEF LimiterInv, Banked
  <2>2. Saved(buckets[ip]) \in Nat
    BY <2>1, SavedWorth DEF LimiterInv
  <2> QED BY <1>2, <2>2, CapacityTyped DEF Credit
<1> QED BY <1>1, <1>2

(* What the bucket of an admitted request is worth, and what its address had     *)
(* saved: the refill rounds down, by less than an interval and the lag.          *)
LEMMA CurrentCredit ==
  ASSUME LimiterInv, NEW r \in Requests, waiting[r] # None,
         NEW ip, ip = waiting[r].ip, NEW b, b = Current(waiting[r]), b.tokens > 0
  PROVE  Saved(b) <= Credit(ip) /\ Credit(ip) < Saved(b) + Interval + MaxLag
<1> DEFINE now == waiting[r].now
           old == buckets[ip]
<1>1. /\ ip \in Ips /\ now \in Time /\ now <= clock /\ clock - now <= MaxLag
      /\ b \in Bucket /\ Worth(b) + clock - b.last <= Capacity
  BY CurrentFacts
<1>2. /\ Saved(b) = Worth(b) + clock - b.last /\ Worth(b) \in Int /\ b.last \in Int /\ clock \in Int
      /\ now \in Int
  BY <1>1, SavedWorth, ConstantsTyped DEF LimiterInv, Time
<1>3. /\ Capacity = Interval * Burst + MaxLag /\ Interval * Burst \in Int
      /\ Interval \in Nat /\ Interval > 0 /\ MaxLag \in Nat
  BY CapacityTyped, ConstantsTyped, Product
<1>4. CASE old = None
  <2>1. b = Made(now)
    BY <1>4 DEF Current
  <2>2. Worth(b) = Interval * Burst /\ b.last = now
    BY <2>1 DEF Made, Worth
  <2>3. Credit(ip) = Capacity
    BY <1>1, <1>4, CreditTyped
  <2> QED BY <1>1, <1>2, <1>3, <2>2, <2>3
<1>5. CASE old # None
  <2>1. b = Refill(old, now) /\ old \in Bucket
    BY <1>1, <1>5, TypedIp DEF Current, LimiterInv
  <2>2. /\ Saved(old) = Worth(old) + clock - old.last /\ Worth(old) \in Int /\ old.last \in Int
        /\ Saved(old) \in Int
    BY <2>1, SavedWorth DEF LimiterInv
  <2>3. /\ Credit(ip) \in Nat /\ Credit(ip) <= Capacity /\ Credit(ip) <= Saved(old)
        /\ Credit(ip) = Capacity \/ Credit(ip) = Saved(old)
    BY <1>1, <1>5, CreditTyped DEF Credit
  <2> HIDE DEF now, old
  <2>4. CASE b = old
    BY <1>1, <1>2, <1>3, <2>2, <2>3, <2>4
  <2>5. CASE /\ b.last = now
             /\ Worth(b) <= Worth(old) + now - old.last
             /\ \/ b.tokens = Burst
                \/ Worth(old) + now - old.last < Worth(b) + Interval
    <3>1. Saved(b) <= Saved(old)
      BY <1>2, <2>2, <2>5
    <3>2. Saved(b) <= Capacity
      BY <1>1, <1>2
    <3>3. CASE b.tokens = Burst
      <4>1. Worth(b) = Interval * Burst
        BY <3>3 DEF Worth
      <4>2. Capacity < Saved(b) + Interval + MaxLag
        BY <1>1, <1>2, <1>3, <2>5, <4>1
      <4> QED BY <1>2, <1>3, <2>2, <2>3, <3>1, <3>2, <4>2
    <3>4. CASE Worth(old) + now - old.last < Worth(b) + Interval
      <4>1. Saved(old) < Saved(b) + Interval
        BY <1>2, <1>3, <2>2, <2>5, <3>4
      <4> QED BY <1>2, <1>3, <2>2, <2>3, <3>1, <3>2, <4>1
    <3> QED BY <2>5, <3>3, <3>4
  <2> QED BY <1>1, <2>1, <2>4, <2>5, RefillFacts
<1> QED BY <1>4, <1>5

LEMMA AdmitPays ==
  ASSUME LimiterInv, NEW r \in Requests, Admit(r), NEW ip, ip = waiting[r].ip
  PROVE  /\ Credit(ip) >= Interval
         /\ Credit(ip)' \in 0..(Credit(ip) - Interval)
         /\ Credit(ip) - Interval - Credit(ip)' < Interval + MaxLag
<1>1. PICK b : b = Current(waiting[r])
  OBVIOUS
<1>2. b.tokens > 0
  BY <1>1 DEF Admit
<1>3. /\ ip \in Ips /\ b \in Bucket /\ Worth(b) + clock - b.last <= Capacity /\ b.last <= clock
  BY <1>1, <1>2, CurrentFacts DEF Admit
<1>4. Saved(b) <= Credit(ip) /\ Credit(ip) < Saved(b) + Interval + MaxLag /\ Credit(ip) \in Nat
  BY <1>1, <1>2, <1>3, CurrentCredit, CreditTyped DEF Admit
<1>5. PICK new : new = [b EXCEPT !.tokens = @ - 1]
  OBVIOUS
<1>6. /\ buckets'[ip] = new /\ clock' = clock
      /\ new \in Bucket /\ new.last = b.last /\ Worth(new) = Worth(b) - Interval
  <2>1. buckets'[ip] = new /\ clock' = clock
    BY <1>1, <1>3, <1>5 DEF Admit, LimiterInv, LimiterTypeOK
  <2>2. new \in Bucket /\ new.last = b.last /\ Worth(new) = Worth(b) - Interval
    BY <1>2, <1>3, <1>5, Spend
  <2> QED BY <2>1, <2>2
<1>7. /\ Saved(b) = Worth(b) + clock - b.last /\ Saved(new) = Worth(new) + clock - new.last
      /\ Worth(b) \in Int /\ b.last \in Int /\ clock \in Int /\ Worth(new) \in Int /\ Worth(new) >= 0
  BY <1>3, <1>6, SavedWorth DEF LimiterInv
<1>8. Saved(new)' = Saved(new) /\ Capacity' = Capacity
  BY <1>6 DEF Saved, Capacity
<1>9. Saved(new) = Saved(b) - Interval /\ Saved(new) \in Nat
  BY <1>3, <1>6, <1>7, ConstantsTyped
<1>10. Saved(new) <= Capacity
  BY <1>3, <1>6, <1>7, ConstantsTyped, CapacityTyped
<1>11. Credit(ip)' = Saved(new)
  <2>1. new # None
    BY <1>6, ConstantsTyped
  <2> QED BY <1>6, <1>8, <1>9, <1>10, <2>1, CapacityTyped DEF Credit
<1> QED BY <1>4, <1>7, <1>9, <1>11, ConstantsTyped

level == [ip \in Ips |-> Credit(ip)]

LEMMA TickEarns ==
  ASSUME LimiterInv, Tick
  PROVE  level' = [ip \in Ips |-> Ideal!Earned(level[ip])]
<1> SUFFICES ASSUME NEW ip \in Ips
             PROVE  Credit(ip)' = Ideal!Earned(Credit(ip))
  BY DEF level
<1>1. clock' = clock + 1 /\ UNCHANGED buckets /\ Capacity' = Capacity
  BY DEF Tick, Capacity
<1>2. CASE buckets[ip] = None
  BY <1>1, <1>2, CapacityTyped DEF Credit, Ideal!Earned
<1>3. CASE buckets[ip] # None
  <2>1. PICK b : b = buckets[ip]
    OBVIOUS
  <2>2. /\ b \in Bucket /\ Saved(b) = Worth(b) + clock - b.last
        /\ Worth(b) \in Int /\ clock \in Int /\ b.last \in Int /\ Saved(b) \in Int
    BY <1>3, <2>1, TypedIp, SavedWorth DEF LimiterInv
  <2>3. b.tokens * Interval \in Int
    <3>1. b.tokens \in Int
      BY <2>2, RoomWorth
    <3> QED BY <3>1, ConstantsTyped, Product
  <2>4. Saved(b)' = Saved(b) + 1
    BY <1>1, <2>2, <2>3 DEF Saved
  <2>5. Saved(buckets[ip])' = Saved(b)'
    BY <1>1, <2>1 DEF Saved
  <2> QED BY <1>1, <1>3, <2>1, <2>2, <2>4, <2>5, CapacityTyped DEF Credit, Ideal!Earned
<1> QED BY <1>2, <1>3

LEMMA BucketStep ==
  ASSUME LimiterInv, [LimiterNext]_limiter
  PROVE  Ideal!Next \/ UNCHANGED level
<1>1. CASE Tick
  BY <1>1, TickEarns DEF level, Ideal!Next, Ideal!Tick
<1>2. CASE Forget
  <2>1. \A ip \in Ips : Credit(ip)' = Capacity
    BY <1>2 DEF Forget, Credit, Capacity
  <2> QED BY <2>1 DEF Ideal!Next, Ideal!Forget
<1>3. ASSUME UNCHANGED <<clock, buckets>>
      PROVE  UNCHANGED level
  <2>1. \A ip \in Ips : Credit(ip)' = Credit(ip)
    BY <1>3 DEF Credit, Saved, Capacity
  <2> QED BY <2>1 DEF level
<1>4. ASSUME NEW r \in Requests, Admit(r)
      PROVE  Ideal!Next
  <2>1. PICK ip : ip = waiting[r].ip
    OBVIOUS
  <2>2. ip \in Ips /\ UNCHANGED clock /\ \A a \in Ips : a # ip => buckets'[a] = buckets[a]
    BY <1>4, <2>1, CurrentFacts DEF Admit, LimiterInv, LimiterTypeOK
  <2>3. /\ Credit(ip) >= Interval
        /\ Credit(ip)' \in 0..(Credit(ip) - Interval)
        /\ Credit(ip) - Interval - Credit(ip)' < Interval + MaxLag
    BY <1>4, <2>1, AdmitPays
  <2>4. \A a \in Ips : a # ip => Credit(a)' = Credit(a)
    BY <2>2 DEF Credit, Saved, Capacity
  <2>5. level' = [level EXCEPT ![ip] = Credit(ip)']
    BY <2>2, <2>4 DEF level
  <2>6. level[ip] = Credit(ip)
    BY <2>2 DEF level
  <2>7. Ideal!Admit(ip)
    BY <2>2, <2>3, <2>5, <2>6 DEF Ideal!Admit, level
  <2> QED BY <2>2, <2>7 DEF Ideal!Next
<1>5. ASSUME NEW r \in Requests, Refuse(r)
      PROVE  UNCHANGED <<clock, buckets>>
  BY <1>5, RefuseKeeps
<1>6. ASSUME NEW r \in Requests, NEW ip \in Ips, Arrive(r, ip)
      PROVE  UNCHANGED <<clock, buckets>>
  BY <1>6 DEF Arrive
<1>7. UNCHANGED limiter => UNCHANGED <<clock, buckets>>
  BY DEF limiter
<1> QED BY <1>1, <1>2, <1>3, <1>4, <1>5, <1>6, <1>7 DEF LimiterNext

LEMMA BucketStart == LimiterInit => Ideal!Init
<1> SUFFICES ASSUME LimiterInit PROVE Ideal!Init
  OBVIOUS
<1>1. \A ip \in Ips : Credit(ip) = Capacity
  BY DEF LimiterInit, Credit
<1> QED BY <1>1 DEF Ideal!Init

LEMMA BucketKept == LimiterSpec => KeepsBucket
<1>1. LimiterInv /\ [LimiterNext]_limiter => [Ideal!Next]_level
  BY BucketStep
<1>2. LimiterInv /\ [LimiterNext]_limiter => [Ideal!Next]_([ip \in Ips |-> Credit(ip)])
  BY <1>1 DEF level
<1> QED BY <1>2, BucketStart, LimiterInvariant, PTL DEF LimiterSpec, KeepsBucket, Ideal!Spec
-----------------------------------------------------------------------------
(* Access behind the limiter: each of its steps is one of the limiter or none.   *)
LEMMA LimiterAlone == [Next]_vars => [LimiterNext]_limiter
<1> SUFFICES ASSUME [Next]_vars PROVE [LimiterNext]_limiter
  OBVIOUS
<1>1. CASE Pass \/ Restart
  BY <1>1 DEF Pass, Restart, LimiterNext
<1>2. ASSUME NEW r \in Requests, Handle(r) PROVE [LimiterNext]_limiter
  <2>1. CASE Proceed(r) \/ TooMany(r)
    BY <2>1 DEF Proceed, TooMany, LimiterNext
  <2>2. CASE \/ SetupComplete(r) \/ Bootstrap(r) \/ CheckPassword(r) \/ CreateSession(r)
             \/ DeleteSession(r) \/ Authorize(r)
    BY <2>2 DEF SetupComplete, Bootstrap, CheckPassword, CreateSession, DeleteSession, Authorize,
                Statement, Quiet
  <2>3. CASE Copy(r) \/ Close(r) \/ Install(r) \/ InstallFails(r)
    BY <2>3 DEF Copy, Close, Install, InstallFails, Quiet
  <2> QED BY <1>2, <2>1, <2>2, <2>3 DEF Handle
<1>3. ASSUME NEW r \in Requests, HangUp(r) PROVE [LimiterNext]_limiter
  BY <1>3 DEF HangUp
<1>4. ASSUME NEW r \in Requests, Call(r) PROVE [LimiterNext]_limiter
  <2>1. CASE PostBootstrap(r) \/ PostLogin(r)
    BY <2>1 DEF PostBootstrap, PostLogin, LimiterNext
  <2>2. CASE PostLogout(r) \/ GetExport(r) \/ PostImport(r)
    BY <2>2 DEF PostLogout, GetExport, PostImport
  <2> QED BY <1>4, <2>1, <2>2 DEF Call
<1>5. UNCHANGED vars => UNCHANGED limiter
  BY DEF vars
<1> QED BY <1>1, <1>2, <1>3, <1>4, <1>5 DEF Next

LEMMA LimiterHolds == Spec => LimiterSpec
<1>1. AccessInit => LimiterInit
  BY DEF AccessInit
<1> QED BY <1>1, LimiterAlone, PTL DEF Spec, LimiterSpec

(* The state of the limiter stays well typed, and what a request read of the clock *)
(* is no older than the lag.                                                    *)
THEOREM LimiterTypeCorrect == Spec => []LimiterTypeOK
<1>1. LimiterInv => LimiterTypeOK
  BY DEF LimiterInv
<1> QED BY <1>1, LimiterInvariant, LimiterHolds, PTL

(* No address gets more attempts than a burst and one per interval, over any      *)
(* stretch of time, for every burst, interval and number of waiting requests.    *)
THEOREM LoginsLimited == Spec => []WindowBound
<1>1. LimiterInit => WindowBound
  BY DEF LimiterInit, WindowBound
<1> QED BY <1>1, WindowStep, LimiterInvariant, LimiterHolds, PTL DEF LimiterSpec

(* Nobody who keeps trying is refused for more than an interval and the lag after *)
(* the last time he got through.                                                *)
THEOREM NobodyStarves == Spec => []NeverStarves
<1>1. LimiterInit => NeverStarves
  BY DEF LimiterInit, NeverStarves
<1> QED BY <1>1, StarveStep, LimiterInvariant, LimiterHolds, PTL DEF LimiterSpec

(* With respect to the credit that is left, the limiter is a token bucket of a     *)
(* capacity of Burst intervals and the lag.                                      *)
THEOREM LimiterIsBucket == Spec => KeepsBucket
BY BucketKept, LimiterHolds, PTL
-----------------------------------------------------------------------------
(* Accounts and sessions.  The inductive invariant holds of every copy of the      *)
(* database: the one in use, the last export and the uploads; and a login that is  *)
(* about to open its session still has the password of the account, unless the     *)
(* database was replaced since the check.                                        *)

Steps == {"idle", "limit", "setup", "insert", "hash", "create", "delete", "auth", "copy", "close",
          "install"}
Opened == [token : Nat, expires : Nat, password : Passwords \cup {None}, crossed : BOOLEAN]
Copies == [admin : Accounts \cup {None}, ingress : Int \cup {None}, sessions : SUBSET Opened]
Jobs == [step : Steps, next : Steps, serial : Nat, password : Passwords \cup {None}, cookie : Nat,
         upload : Copies, crossed : BOOLEAN]

Proper(d) == d \in Copies /\ Whole(d) /\ Earned(d)

JobOK(j) ==
  /\ j \in Jobs /\ Proper(j.upload)
  /\ j.step \in {"limit", "setup", "insert", "hash", "create"} => j.password \in Passwords
  /\ j.step \in {"limit", "setup"} => j.next \in {"insert", "hash"}
  /\ j.step = "auth" => j.next \in {"copy", "close"}

Entitled(j) ==
  j.step = "create" => j.crossed \/ (db.admin # None /\ j.password = db.admin.password)

AccessInv ==
  /\ job \in [Requests -> Jobs] /\ received \in Nat
  /\ \A r \in Requests : JobOK(job[r]) /\ Entitled(job[r])
  /\ Proper(db) /\ (archive # None => Proper(archive))

LEMMA NewProper == Proper(NewDatabase) /\ NewDatabase.admin = None /\ NewDatabase.ingress = None
BY DEF NewDatabase, Proper, Copies, Whole, Earned

LEMMA IdleOK == JobOK(Idle) /\ Idle.step = "idle"
<1>1. Idle.upload = NewDatabase /\ Idle.step = "idle"
  BY DEF Idle
<1>2. Proper(NewDatabase)
  BY NewProper
<1>3. Idle \in Jobs
  BY <1>2 DEF Idle, Jobs, Steps, Proper
<1> QED BY <1>1, <1>2, <1>3 DEF JobOK

LEMMA JobGoes ==
  ASSUME NEW j \in Jobs, NEW s \in Steps
  PROVE  /\ [j EXCEPT !.step = s] \in Jobs /\ [j EXCEPT !.step = s].step = s
         /\ [j EXCEPT !.step = s].next = j.next /\ [j EXCEPT !.step = s].password = j.password
         /\ [j EXCEPT !.step = s].upload = j.upload /\ [j EXCEPT !.step = s].crossed = j.crossed
BY DEF Jobs

(* One request moves on, and an account that is there stays.                       *)
LEMMA OneMoves ==
  ASSUME AccessInv, NEW r \in Requests, NEW j, JobOK(j), Entitled(j)',
         job' = [job EXCEPT ![r] = j], received' \in Nat,
         Proper(db'), db.admin # None => db'.admin = db.admin,
         archive' = archive \/ Proper(archive')
  PROVE  AccessInv'
<1>1. job' \in [Requests -> Jobs]
  BY DEF AccessInv, JobOK
<1>2. ASSUME NEW q \in Requests PROVE JobOK(job'[q]) /\ Entitled(job[q])'
  <2>1. CASE q = r
    <3>1. job'[q] = j
      BY <2>1 DEF AccessInv
    <3> QED BY <3>1 DEF Entitled
  <2>2. CASE q # r
    <3>1. job'[q] = job[q] /\ JobOK(job[q]) /\ Entitled(job[q])
      BY <2>2 DEF AccessInv
    <3> QED BY <3>1 DEF Entitled
  <2> QED BY <2>1, <2>2
<1>3. archive' # None => Proper(archive')
  BY DEF AccessInv
<1> QED BY <1>1, <1>2, <1>3 DEF AccessInv, Proper, JobOK, Whole, Earned

(* A request ends, or goes on to a step that asks for no password. *)
LEMMA Ends ==
  ASSUME AccessInv, NEW r \in Requests, End(r), UNCHANGED received,
         Proper(db'), db.admin # None => db'.admin = db.admin,
         archive' = archive \/ Proper(archive')
  PROVE  AccessInv'
<1>1. Entitled(Idle)'
  BY IdleOK DEF Entitled
<1>2. job' = [job EXCEPT ![r] = Idle] /\ received' \in Nat
  BY DEF End, AccessInv
<1> QED BY <1>1, <1>2, IdleOK, OneMoves

LEMMA Goes ==
  ASSUME AccessInv, NEW r \in Requests, NEW s \in Steps, Go(r, s), UNCHANGED <<received, db, archive>>,
         s \in {"setup", "insert", "hash", "create"} => job[r].password \in Passwords,
         s = "setup" => job[r].next \in {"insert", "hash"},
         s = "create" => db.admin # None /\ job[r].password = db.admin.password,
         s \notin {"limit", "auth"}
  PROVE  AccessInv'
<1> DEFINE j == [job[r] EXCEPT !.step = s]
<1>1. job' = [job EXCEPT ![r] = j] /\ job[r] \in Jobs /\ JobOK(job[r])
  BY DEF Go, AccessInv
<1>2. /\ j \in Jobs /\ j.step = s /\ j.next = job[r].next /\ j.password = job[r].password
      /\ j.upload = job[r].upload
  BY <1>1, JobGoes
<1>3. PICK new : new = j
  OBVIOUS
<1>4. JobOK(new)
  BY <1>1, <1>2, <1>3 DEF JobOK
<1>5. Entitled(new)'
  BY <1>2, <1>3 DEF Entitled
<1>6. job' = [job EXCEPT ![r] = new]
  BY <1>1, <1>3
<1>7. Proper(db') /\ received' \in Nat /\ archive' = archive
  BY DEF AccessInv
<1> HIDE DEF j
<1> QED BY <1>4, <1>5, <1>6, <1>7, OneMoves

LEMMA RowInserted ==
  ASSUME Proper(db), db.admin = None, NEW p \in Passwords, NEW n \in Int
  PROVE  Proper([db EXCEPT !.admin = [password |-> p, setup |-> n], !.ingress = n])
<1> DEFINE a == [password |-> p, setup |-> n]
           d == [db EXCEPT !.admin = a, !.ingress = n]
<1>1. a \in Accounts /\ a.setup = n /\ a # None /\ n # None
  BY AccessOK, ConstantsTyped DEF Accounts
<1> HIDE DEF a
<1>2. d \in Copies /\ d.admin = a /\ d.ingress = n /\ d.sessions = db.sessions
  BY <1>1 DEF Proper, Copies
<1> HIDE DEF d
<1>3. Whole(d)
  BY <1>1, <1>2 DEF Whole
<1>4. Earned(d)
  BY <1>2 DEF Proper, Earned
<1> QED BY <1>2, <1>3, <1>4 DEF Proper, a, d

LEMMA SessionsChanged ==
  ASSUME Proper(db), NEW S \in SUBSET Opened,
         \A s \in S : s \in db.sessions \/ s.crossed
                      \/ (db.admin # None /\ s.password = db.admin.password)
  PROVE  Proper([db EXCEPT !.sessions = S]) /\ [db EXCEPT !.sessions = S].admin = db.admin
<1> DEFINE d == [db EXCEPT !.sessions = S]
<1>1. d \in Copies /\ d.admin = db.admin /\ d.ingress = db.ingress /\ d.sessions = S
  BY DEF Proper, Copies
<1> HIDE DEF d
<1>2. Whole(d) /\ Earned(d)
  BY <1>1 DEF Proper, Whole, Earned
<1> QED BY <1>1, <1>2 DEF Proper, d

LEMMA SessionOpened ==
  ASSUME NEW j, JobOK(j), NEW e \in Nat
  PROVE  LET s == [token |-> j.serial, expires |-> e, password |-> j.password, crossed |-> j.crossed]
         IN  s \in Opened /\ s.password = j.password /\ s.crossed = j.crossed
BY DEF JobOK, Jobs, Opened

LEMMA HandleKeeps ==
  ASSUME AccessInv, LimiterTypeOK, NEW r \in Requests, Handle(r)
  PROVE  AccessInv'
<1>0. /\ job[r] \in Jobs /\ JobOK(job[r]) /\ Entitled(job[r]) /\ Proper(db)
      /\ archive # None => Proper(archive)
  BY DEF AccessInv
<1>1. CASE Proceed(r)
  BY <1>0, <1>1, Goes DEF Proceed, At, store, JobOK, Steps
<1>2. CASE TooMany(r)
  BY <1>0, <1>2, Ends DEF TooMany, store
<1>3. CASE SetupComplete(r)
  <2>1. UNCHANGED <<received, db, archive>>
    BY <1>3 DEF SetupComplete, Statement, Quiet, Failed
  <2>2. End(r) \/ Go(r, job[r].next)
    BY <1>3 DEF SetupComplete, Failed
  <2>3. job[r].next \in {"insert", "hash"} /\ job[r].password \in Passwords
    BY <1>0, <1>3 DEF SetupComplete, Statement, At, JobOK
  <2>4. job[r].next \in Steps
    BY <2>3 DEF Steps
  <2> QED BY <1>0, <2>1, <2>2, <2>3, <2>4, Goes, Ends
<1>4. CASE Bootstrap(r)
  <2>1. /\ End(r) /\ UNCHANGED <<received, archive>>
        /\ job[r].password \in Passwords /\ job[r].serial \in Int
    BY <1>0, <1>4 DEF Bootstrap, Statement, Quiet, At, JobOK, Jobs
  <2>2. CASE open /\ db.admin = None
    <3>1. db' = [db EXCEPT !.admin = [password |-> job[r].password, setup |-> job[r].serial],
                           !.ingress = job[r].serial]
      BY <1>4, <2>2 DEF Bootstrap
    <3>2. Proper(db')
      BY <1>0, <2>1, <2>2, <3>1, RowInserted
    <3> QED BY <2>1, <2>2, <3>2, Ends
  <2>3. CASE ~(open /\ db.admin = None)
    BY <1>0, <1>4, <2>1, <2>3, Ends DEF Bootstrap
  <2> QED BY <2>2, <2>3
<1>5. CASE CheckPassword(r)
  <2>1. UNCHANGED <<received, db, archive>>
    BY <1>5 DEF CheckPassword, Statement, Quiet, Failed
  <2>2. \/ End(r)
        \/ Go(r, "create") /\ db.admin # None /\ job[r].password = db.admin.password
    BY <1>5 DEF CheckPassword, Failed
  <2>3. job[r].password \in Passwords
    BY <1>0, <1>5 DEF CheckPassword, Statement, At, JobOK
  <2>4. "create" \in Steps
    BY DEF Steps
  <2> QED BY <1>0, <2>1, <2>2, <2>3, <2>4, Goes, Ends
<1>6. CASE CreateSession(r)
  <2>1. End(r) /\ UNCHANGED <<received, archive>> /\ At(r, "create")
    BY <1>6 DEF CreateSession, Statement, Quiet, Failed
  <2>2. CASE open
    <3> DEFINE s == [token |-> job[r].serial, expires |-> clock + Lifetime,
                     password |-> job[r].password, crossed |-> job[r].crossed]
    <3>1. db' = [db EXCEPT !.sessions = db.sessions \cup {s}]
      BY <1>6, <2>2 DEF CreateSession, Failed
    <3>2. clock + Lifetime \in Nat
      BY AccessOK, ConstantsTyped DEF LimiterTypeOK, Time
    <3>3. s \in Opened /\ s.password = job[r].password /\ s.crossed = job[r].crossed
      BY <1>0, <3>2, SessionOpened
    <3> HIDE DEF s
    <3>4. db.sessions \cup {s} \in SUBSET Opened
      BY <1>0, <3>3 DEF Proper, Copies
    <3>5. s.crossed \/ (db.admin # None /\ s.password = db.admin.password)
      BY <1>0, <2>1, <3>3 DEF Entitled, At
    <3>6. Proper(db') /\ db'.admin = db.admin
      BY <1>0, <3>1, <3>4, <3>5, SessionsChanged
    <3> QED BY <2>1, <3>6, Ends
  <2>3. CASE ~open
    BY <1>0, <1>6, <2>1, <2>3, Ends DEF CreateSession, Failed
  <2> QED BY <2>2, <2>3
<1>7. CASE DeleteSession(r)
  <2>1. End(r) /\ UNCHANGED <<received, archive>>
    BY <1>7 DEF DeleteSession, Statement, Quiet
  <2>2. CASE open
    <3> DEFINE S == {s \in db.sessions : s.token # job[r].cookie}
    <3>1. db' = [db EXCEPT !.sessions = S]
      BY <1>7, <2>2 DEF DeleteSession
    <3>2. S \in SUBSET Opened
      BY <1>0 DEF Proper, Copies
    <3>3. Proper(db') /\ db'.admin = db.admin
      BY <1>0, <3>1, <3>2, SessionsChanged
    <3> QED BY <2>1, <3>3, Ends
  <2>3. CASE ~open
    BY <1>0, <1>7, <2>1, <2>3, Ends DEF DeleteSession
  <2> QED BY <2>2, <2>3
<1>8. CASE Authorize(r)
  <2>1. UNCHANGED <<received, db, archive>>
    BY <1>8 DEF Authorize, Statement, Quiet, Failed
  <2>2. End(r) \/ Go(r, job[r].next)
    BY <1>8 DEF Authorize, Failed
  <2>3. job[r].next \in {"copy", "close"}
    BY <1>0, <1>8 DEF Authorize, Statement, At, JobOK
  <2>4. job[r].next \in Steps
    BY <2>3 DEF Steps
  <2> QED BY <1>0, <2>1, <2>2, <2>3, <2>4, Goes, Ends
<1>9. CASE Copy(r)
  BY <1>0, <1>9, Ends DEF Copy, Quiet
<1>10. CASE Close(r)
  <2>1. "install" \in Steps
    BY DEF Steps
  <2> QED BY <1>10, <2>1, Goes DEF Close, Quiet
<1>11. CASE Install(r)
  <2>1. /\ db' = job[r].upload /\ Proper(db')
        /\ UNCHANGED <<archive, received>>
        /\ job' = [q \in Requests |-> IF q = r THEN Idle
                                      ELSE IF At(q, "create") THEN [job[q] EXCEPT !.crossed = TRUE]
                                      ELSE job[q]]
    BY <1>0, <1>11 DEF Install, Quiet, JobOK
  <2>2. ASSUME NEW q \in Requests PROVE JobOK(job'[q]) /\ Entitled(job[q])'
    <3>1. CASE q = r
      <4>1. job'[q] = Idle
        BY <2>1, <3>1
      <4> QED BY <4>1, IdleOK DEF Entitled
    <3>2. CASE q # r /\ At(q, "create")
      <4>1. job'[q] = [job[q] EXCEPT !.crossed = TRUE] /\ JobOK(job[q])
        BY <2>1, <3>2 DEF AccessInv
      <4>2. PICK j : j = [job[q] EXCEPT !.crossed = TRUE]
        OBVIOUS
      <4>3. j \in Jobs /\ j.step = job[q].step /\ j.next = job[q].next /\ j.password = job[q].password
            /\ j.upload = job[q].upload /\ j.crossed
        BY <4>1, <4>2 DEF JobOK, Jobs
      <4> QED BY <4>1, <4>2, <4>3 DEF JobOK, Entitled
    <3>3. CASE q # r /\ ~At(q, "create")
      <4>1. job'[q] = job[q] /\ JobOK(job[q]) /\ job[q].step # "create"
        BY <2>1, <3>3 DEF AccessInv, At
      <4> QED BY <4>1 DEF Entitled
    <3> QED BY <3>1, <3>2, <3>3
  <2>3. job' \in [Requests -> Jobs]
    BY <2>1, <2>2 DEF JobOK
  <2> QED BY <1>0, <2>1, <2>2, <2>3 DEF AccessInv
<1>12. CASE InstallFails(r)
  BY <1>0, <1>12, Ends DEF InstallFails
<1> QED BY <1>1, <1>2, <1>3, <1>4, <1>5, <1>6, <1>7, <1>8, <1>9, <1>10, <1>11, <1>12 DEF Handle

LEMMA ForeignProper == \A d \in Found \cup Foreign : Proper(d)
<1> SUFFICES ASSUME NEW d \in Found \cup Foreign PROVE Proper(d)
  OBVIOUS
<1>1. d \in Databases /\ Earned(d) /\ Whole(d)
  BY AccessOK
<1>2. Sessions \subseteq Opened
  BY AccessOK DEF Sessions, Opened
<1>3. d \in Copies
  BY <1>1, <1>2 DEF Databases, Copies
<1> QED BY <1>1, <1>3 DEF Proper

LEMMA CallKeeps ==
  ASSUME AccessInv, NEW r \in Requests, Call(r)
  PROVE  AccessInv'
<1>0. Proper(db) /\ received \in Nat /\ received + 1 \in Nat
  BY IdleOK DEF AccessInv
<1>1. ASSUME NEW j, JobOK(j), j.step # "create", Receive(r, j)
      PROVE  AccessInv'
  <2>1. job' = [job EXCEPT ![r] = j] /\ received' = received + 1 /\ UNCHANGED <<db, archive>>
    BY <1>1 DEF Receive, store
  <2>2. Entitled(j)'
    BY <1>1 DEF Entitled
  <2> QED BY <1>0, <1>1, <2>1, <2>2, OneMoves
<1>2. ASSUME NEW p \in Passwords, NEW n \in {"insert", "hash"},
             Receive(r, [Idle EXCEPT !.step = "limit", !.next = n, !.serial = received + 1,
                                     !.password = p])
      PROVE  AccessInv'
  <2>1. PICK j : j = [Idle EXCEPT !.step = "limit", !.next = n, !.serial = received + 1,
                                  !.password = p]
    OBVIOUS
  <2>2. /\ Idle \in Jobs /\ Proper(Idle.upload) /\ "limit" \in Steps /\ n \in Steps
        /\ received + 1 \in Nat
    BY <1>0, IdleOK DEF JobOK, Steps
  <2>3. /\ j \in Jobs /\ j.step = "limit" /\ j.next = n /\ j.password = p /\ j.upload = Idle.upload
    BY <2>1, <2>2 DEF Jobs
  <2>4. JobOK(j)
    BY <2>2, <2>3 DEF JobOK
  <2> QED BY <1>1, <1>2, <2>1, <2>3, <2>4
<1>3. CASE PostBootstrap(r) \/ PostLogin(r)
  BY <1>2, <1>3 DEF PostBootstrap, PostLogin
<1>4. /\ Idle \in Jobs /\ Proper(Idle.upload) /\ {"delete", "auth", "copy", "close"} \subseteq Steps
      /\ \A t \in 0..received : t \in Nat
  BY <1>0, IdleOK DEF JobOK, Steps
<1>5. CASE PostLogout(r)
  <2>1. PICK t \in 0..received : Receive(r, [Idle EXCEPT !.step = "delete", !.cookie = t])
    BY <1>5 DEF PostLogout
  <2>2. PICK j : j = [Idle EXCEPT !.step = "delete", !.cookie = t]
    OBVIOUS
  <2>3. j \in Jobs /\ j.step = "delete" /\ j.upload = Idle.upload
    BY <1>4, <2>2 DEF Jobs
  <2>4. JobOK(j)
    BY <1>4, <2>3 DEF JobOK
  <2> QED BY <1>1, <2>1, <2>2, <2>3, <2>4
<1>6. CASE GetExport(r)
  <2>1. PICK t \in 0..received : Receive(r, [Idle EXCEPT !.step = "auth", !.next = "copy", !.cookie = t])
    BY <1>6 DEF GetExport
  <2>2. PICK j : j = [Idle EXCEPT !.step = "auth", !.next = "copy", !.cookie = t]
    OBVIOUS
  <2>3. j \in Jobs /\ j.step = "auth" /\ j.next = "copy" /\ j.upload = Idle.upload
    BY <1>4, <2>2 DEF Jobs
  <2>4. JobOK(j)
    BY <1>4, <2>3 DEF JobOK
  <2> QED BY <1>1, <2>1, <2>2, <2>3, <2>4
<1>7. CASE PostImport(r)
  <2>1. PICK t \in 0..received, d \in Foreign \cup ({archive} \ {None}) :
          Receive(r, [Idle EXCEPT !.step = "auth", !.next = "close", !.cookie = t, !.upload = d])
    BY <1>7 DEF PostImport
  <2>2. Proper(d)
    BY <2>1, ForeignProper DEF AccessInv
  <2>3. PICK j : j = [Idle EXCEPT !.step = "auth", !.next = "close", !.cookie = t, !.upload = d]
    OBVIOUS
  <2>4. j \in Jobs /\ j.step = "auth" /\ j.next = "close" /\ j.upload = d
    BY <1>4, <2>2, <2>3 DEF Proper, Jobs
  <2>5. JobOK(j)
    BY <2>2, <2>4 DEF JobOK
  <2> QED BY <1>1, <2>1, <2>3, <2>4, <2>5
<1> QED BY <1>3, <1>5, <1>6, <1>7 DEF Call

LEMMA AccessStep ==
  ASSUME AccessInv, LimiterTypeOK, [Next]_vars
  PROVE  AccessInv'
<1>1. CASE Pass \/ UNCHANGED vars
  <2>1. UNCHANGED <<db, archive, job, received>>
    BY <1>1 DEF Pass, store, vars
  <2> QED BY <2>1 DEF AccessInv, Entitled
<1>2. CASE Restart
  <2>1. UNCHANGED <<db, archive, received>> /\ job' = [r \in Requests |-> Idle]
    BY <1>2 DEF Restart
  <2>2. \A r \in Requests : JobOK(job'[r]) /\ Entitled(job[r])'
    BY <2>1, IdleOK DEF Entitled
  <2> QED BY <2>1, <2>2, IdleOK DEF AccessInv, JobOK
<1>3. ASSUME NEW r \in Requests, HangUp(r) PROVE AccessInv'
  <2>1. End(r) /\ UNCHANGED <<db, archive, received>>
    BY <1>3 DEF HangUp, store
  <2> QED BY <2>1, Ends DEF AccessInv
<1> QED BY <1>1, <1>2, <1>3, HandleKeeps, CallKeeps DEF Next

LEMMA AccessStart == AccessInit => AccessInv
<1> SUFFICES ASSUME AccessInit PROVE AccessInv
  OBVIOUS
<1>1. Proper(db)
  BY ForeignProper DEF AccessInit
<1>2. \A r \in Requests : JobOK(job[r]) /\ Entitled(job[r])
  BY IdleOK DEF AccessInit, Entitled
<1> QED BY <1>1, <1>2, IdleOK DEF AccessInit, AccessInv, JobOK

LEMMA AccessInvariant == Spec => []AccessInv
BY AccessStart, AccessStep, LimiterTypeCorrect, PTL DEF Spec

(* However bootstraps, exports, imports and restarts fall together, there is an     *)
(* administrator exactly when there is an ingress, both of the same setup.         *)
THEOREM SetupsWhole == Spec => []SetupWhole
<1>1. AccessInv => SetupWhole
  BY DEF AccessInv, Proper, SetupWhole
<1> QED BY <1>1, AccessInvariant, PTL

(* No session is opened with a password that the account did not have when it was    *)
(* checked.                                                                       *)
THEOREM OnlyEarnedSessions == Spec => []SessionsEarned
<1>1. AccessInv => SessionsEarned
  BY DEF AccessInv, Proper, SessionsEarned
<1> QED BY <1>1, AccessInvariant, PTL

(* Of any number of bootstraps one sets up, and no step but an import replaces the   *)
(* account.                                                                       *)
THEOREM OnlyOneSetup == Spec => OneSetup
<1> DEFINE Stays == db'.admin # db.admin =>
                      db.admin = None \/ \E r \in Requests : Install(r) /\ db' = job[r].upload
<1>1. ASSUME AccessInv, [Next]_vars PROVE Stays
  <2>1. ASSUME NEW r \in Requests, Handle(r) PROVE Stays
    <3>1. CASE \/ Proceed(r) \/ TooMany(r) \/ SetupComplete(r) \/ CheckPassword(r) \/ Authorize(r)
               \/ Copy(r) \/ Close(r) \/ InstallFails(r)
      <4>1. UNCHANGED db
        BY <3>1 DEF Proceed, TooMany, SetupComplete, CheckPassword, Authorize, Copy, Close,
                    InstallFails, Failed, store
      <4> QED BY <4>1
    <3>2. CASE Bootstrap(r)
      BY <3>2 DEF Bootstrap
    <3>3. CASE CreateSession(r) \/ DeleteSession(r)
      <4>1. db' = db \/ \E S : db' = [db EXCEPT !.sessions = S]
        BY <3>3 DEF CreateSession, DeleteSession, Failed
      <4>2. ASSUME NEW S PROVE [db EXCEPT !.sessions = S].admin = db.admin
        BY <1>1 DEF AccessInv, Proper, Copies
      <4> QED BY <4>1, <4>2
    <3>4. CASE Install(r)
      BY <3>4 DEF Install
    <3> QED BY <2>1, <3>1, <3>2, <3>3, <3>4 DEF Handle
  <2>2. ASSUME NEW r \in Requests, HangUp(r) \/ Call(r) PROVE UNCHANGED db
    BY <2>2 DEF HangUp, Call, PostBootstrap, PostLogin, PostLogout, GetExport, PostImport, Receive, store
  <2>3. Pass \/ Restart \/ UNCHANGED vars => UNCHANGED db
    BY DEF Pass, Restart, vars, store
  <2> QED BY <1>1, <2>1, <2>2, <2>3 DEF Next
<1>2. AccessInv /\ [Next]_vars => [Stays]_vars
  BY <1>1
<1> QED BY <1>2, AccessInvariant, PTL DEF Spec, OneSetup
=============================================================================
