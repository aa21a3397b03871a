------------------------ MODULE IngressRequirements ------------------------
(***************************************************************************)
(* What the row of ingress_settings, the interface and the exported client  *)
(* configurations must be to each other.                                   *)
(***************************************************************************)
EXTENDS Ingress

Rows == [key : Keys, pub : Keys \cup {Blank}, params : Params, given : Params,
         age : Nat, from : Nat]
Steps == {"idle", "get", "put", "import", "teardown", "read", "persist", "up"}
Jobs == [step : Steps, row : Rows, body : Rows, stale : BOOLEAN, page : BOOLEAN]

(* Every copy of the row is a row: no file without parameters gets that far. *)
TypeOK ==
  /\ {row, shown, exported, kernel} \subseteq Rows
  /\ job \in [Requests -> Jobs]
  /\ {since, pending, met, overwritten} \subseteq BOOLEAN
  /\ asked \in Params /\ missed \subseteq Requests
  /\ received \in 0..MaxRequests /\ faults \in 0..MaxFaults

(* q has every padding that p gives, and its markers if p gives any. *)
Keeps(p, q) == /\ \A i \in 1..4 : p.s[i] # Blank => q.s[i] = p.s[i]
               /\ ~NoMarkers(p) => q.h = p.h

(* defaults.go:38: a parameter that was given last, by the page, an import or at  *)
(* the outset, is never replaced, whichever Applies complete the row, unless one   *)
(* has written back a row that it read before they were given.                     *)
GivenKept == ~overwritten => Keeps(asked, row.params)

(* wg_runtime.go:77: what Apply brings the interface up with is acceptable to awg *)
(* setconf, if no padding was given after a blank one and what was given is sound. *)
HealsSound ==
  \A r \in Requests : At(r, "up") /\ Repairable(job[r].row.given) => Sound(job[r].row.params)

(* The public key that clients are given is that of the private key the server   *)
(* has, if the same import (or none) brought them: a page saves the public key it *)
(* shows beside the private key of the row, which may be of a later import.      *)
KeysPair == row.age = row.from => row.key = row.pub

AllIdle == \A r \in Requests : At(r, "idle")

(* README.md:232: with one request at a time the interface runs on the stored     *)
(* row: the parameters that were drawn for it have been saved.                   *)
RunsStored == AllIdle /\ ~met /\ ~pending /\ kernel # NoRow => kernel = row

(* A configuration exported with all of its parameters keeps agreeing with the row *)
(* through every Apply and restart, until the row is given something else or an    *)
(* Apply writes back what it read before a change.                                *)
ExportsHold ==
  Complete(exported.params) /\ ~since => exported.params = row.params /\ exported.pub = row.pub

(* docs/SPECIFICATION.md 5.1: an exported configuration has the parameters of the *)
(* server, on a server at rest that was given nothing since.                     *)
ExportsAgree ==
  AllIdle /\ ~met /\ ~pending /\ ~since /\ kernel # NoRow => exported.params = kernel.params
=============================================================================
