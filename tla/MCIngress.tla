----------------------------- MODULE MCIngress -----------------------------
(***************************************************************************)
(* Small instances of Ingress for TLC: four paddings to draw from, two      *)
(* markers, and an overhead that separates two of the paddings.  The texts  *)
(* of WgQuick have no state and are checked once, as an assumption.        *)
(***************************************************************************)
EXTENDS IngressRequirements, WgQuick, TLC

CONSTANTS r1, r2, blank, absent

OneRequest == {r1}
TwoRequests == {r1, r2}
Interchangeable == Permutations(TwoRequests)

FourPaddings == 15..18
TwoSlots == {1, 2}
TwoMarkers == {5, 6}
S1S4 == {1, 4}
OnlyBlank == {blank}

P(a, b, c, d, h) == [s |-> <<a, b, c, d>>, h |-> <<h, IF h = 0 THEN 0 ELSE 11 - h>>]

(* A row of a version without S3 and S4, a bootstrap that left a padding and the *)
(* markers to the program, and a marker that was given without the other.       *)
OneMarker == [P(15, 16, 18, 17, 0) EXCEPT !.h[1] = 5]
SomeFounds == {P(15, 16, blank, blank, 5), P(15, 16, 17, blank, 0), OneMarker}

(* Exports: of a version without S3 and S4, and with parameters in two places. *)
Old == [key |-> 1, block |-> [p \in Places |-> IF p = "server.amnezia" THEN P(16, 15, blank, blank, 6) ELSE absent]]
Both == [key |-> 2, block |-> [p \in Places |-> IF p = "awg" THEN P(16, 15, 17, 18, 6)
                                                ELSE IF p = "amnezia" THEN P(15, 15, blank, blank, 5)
                                                ELSE absent]]
Vanilla == [key |-> 3, block |-> [p \in Places |-> absent]]
SomeFiles == {Old, Both, Vanilla}

(* For ExportsAgree: a server with all of its parameters. *)
Whole == {P(15, 16, 17, 18, 5)}
-----------------------------------------------------------------------------
(* The text of an upstream, which Apply rewrites beside the ingress: every text  *)
(* of up to four lines.                                                         *)
Lines == {InterfaceHead, Head_("Peer"), Directive("DNS", "1.1.1.1"), Directive("Table", "auto"),
          Directive("MTU", "1420"), Remark}
Texts == UNION {[1..n -> Lines] : n \in 0..4}
ASSUME ConfsSound == \A text \in Texts : Sectioned(text) => ConfSound(text)
=============================================================================
