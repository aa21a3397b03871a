---------------------------- MODULE TokenBucket ----------------------------
(***************************************************************************)
(* What a limiter of attempts promises: an address has a credit of time,    *)
(* which grows with the clock up to a capacity; an attempt is admitted for  *)
(* the price of one interval and refused only to those who cannot pay.      *)
(* Rounding may cost a caller, but less than an interval and the slack of   *)
(* the clock.                                                              *)
(***************************************************************************)
EXTENDS Integers

CONSTANTS Ips, Price, Slack, Capacity

VARIABLE credit       \* address -> time saved up

Init == credit = [ip \in Ips |-> Capacity]

Earned(c) == IF c < Capacity THEN c + 1 ELSE Capacity
Tick == credit' = [ip \in Ips |-> Earned(credit[ip])]

Admit(ip) ==
  /\ credit[ip] >= Price
  /\ \E c \in 0..(credit[ip] - Price) :
        /\ credit[ip] - Price - c < Price + Slack
        /\ credit' = [credit EXCEPT ![ip] = c]

(* Buckets are not kept over a restart. *)
Forget == credit' = [ip \in Ips |-> Capacity]

Next == Tick \/ Forget \/ \E ip \in Ips : Admit(ip)

Spec == Init /\ [][Next]_credit
=============================================================================
