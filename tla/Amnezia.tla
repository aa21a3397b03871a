------------------------------ MODULE Amnezia ------------------------------
(***************************************************************************)
(* The obfuscation parameters of AmneziaWG and EnsureAmneziaDefaults of     *)
(* internal/amnezia/defaults.go, which draws the ones that are missing.     *)
(* Padding i is S1..S4, a number or blank; a marker H1..H4 that was never   *)
(* set is 0.  A draw is any of the values it may give: it fails for want of *)
(* randomness or after 128 unlucky attempts, and its caller then ends.      *)
(*                                                                         *)
(* An operator marked "mutant" is no part of the model: it is the next     *)
(* definition with a bug in it, for checking that the properties notice.   *)
(***************************************************************************)
EXTENDS Integers

CONSTANTS
  Paddings,      \* junkPaddingMin..junkPaddingMax: 15..150 in the code
  Overhead,      \* initiationOverhead: 56
  Slots,         \* the markers: 1..4
  Markers,       \* headerMarkerMin..headerMarkerMax: 5..2147483647
  Blank

ASSUME ParametersOK == /\ Paddings \subseteq Nat \ {0} /\ Overhead \in Nat \ {0}
                       /\ Markers \subseteq Nat \ (0..4)
                       /\ Slots # {} /\ Blank \notin Int

Params == [s : [1..4 -> Nat \cup {Blank}], h : [Slots -> Nat]]
-----------------------------------------------------------------------------
(* strconv.Atoi, whose error is dropped *)
Atoi(v) == IF v = Blank THEN 0 ELSE v

Pick(v, forbidden) == IF v = Blank THEN Paddings \ forbidden ELSE {v}

NoMarkers(p) == \A i \in Slots : p.h[i] = 0
Draws == {h \in [Slots -> Markers] : \A i, j \in Slots : h[i] = h[j] => i = j}

(* The paddings are drawn in order, each to avoid the ones before it: S1 is not *)
(* drawn to avoid an S2 that is there.                                         *)
ForgetS1(p, q) ==                                     \* mutant
  /\ q.s[1] \in Pick(p.s[1], {})
  /\ q.s[2] \in Pick(p.s[2], {Atoi(q.s[1]), Atoi(q.s[1]) + Overhead})
  /\ q.s[3] \in Pick(p.s[3], {Atoi(q.s[1]), Atoi(q.s[2])})
  /\ q.s[4] \in Pick(p.s[4], {Atoi(q.s[2]), Atoi(q.s[3])})
  /\ q.h \in IF NoMarkers(p) THEN Draws ELSE {p.h}

RedrawMarkers(p, q) ==                                \* mutant
  /\ q.s[1] \in Pick(p.s[1], {})
  /\ q.s[2] \in Pick(p.s[2], {Atoi(q.s[1]), Atoi(q.s[1]) + Overhead})
  /\ q.s[3] \in Pick(p.s[3], {Atoi(q.s[1]), Atoi(q.s[2])})
  /\ q.s[4] \in Pick(p.s[4], {Atoi(q.s[1]), Atoi(q.s[2]), Atoi(q.s[3])})
  /\ q.h \in Draws

Completes(p, q) ==
  /\ q.s[1] \in Pick(p.s[1], {})
  /\ q.s[2] \in Pick(p.s[2], {Atoi(q.s[1]), Atoi(q.s[1]) + Overhead})
  /\ q.s[3] \in Pick(p.s[3], {Atoi(q.s[1]), Atoi(q.s[2])})
  /\ q.s[4] \in Pick(p.s[4], {Atoi(q.s[1]), Atoi(q.s[2]), Atoi(q.s[3])})
  /\ q.h \in IF NoMarkers(p) THEN Draws ELSE {p.h}

Outcomes(p) ==
  [s : {<<a, b, c, d>> : a \in Pick(p.s[1], {}), b \in Pick(p.s[2], {}),
                         c \in Pick(p.s[3], {}), d \in Pick(p.s[4], {})},
   h : Draws \cup {p.h}]
EnsureAmneziaDefaults(p) == {q \in Outcomes(p) : Completes(p, q)}
-----------------------------------------------------------------------------
(* What awg setconf asks for (defaults.go:13-17): every padding is there, no two *)
(* kinds of packet are of one size, markers are distinct and none is that of a  *)
(* message of WireGuard.                                                       *)
Apart(a, b) == a # Blank /\ b # Blank => a # b
SizesDiffer(p) == /\ \A i, j \in 1..4 : i < j => Apart(p.s[i], p.s[j])
                  /\ p.s[1] # Blank /\ p.s[2] # Blank => p.s[2] # p.s[1] + Overhead
MarkersDiffer(p) == /\ \A i \in Slots : p.h[i] \notin 0..4
                    /\ \A i, j \in Slots : p.h[i] = p.h[j] => i = j

Complete(p) == (\A i \in 1..4 : p.s[i] # Blank) /\ ~NoMarkers(p)
Sound(p) == Complete(p) /\ SizesDiffer(p) /\ MarkersDiffer(p)

(* What is made sound: what is given does not clash, and no padding is given      *)
(* after a blank one.  A blank one is not drawn to avoid those after it: what could *)
(* be made sound, S1 blanked beside an S2 that was kept, is not always.            *)
Repairable(p) == /\ \A i, j \in 1..4 : i < j /\ p.s[i] = Blank => p.s[j] = Blank
                 /\ SizesDiffer(p)
                 /\ NoMarkers(p) \/ MarkersDiffer(p)
=============================================================================
