------------------------------ MODULE MCAccess ------------------------------
(***************************************************************************)
(* A small instance of Access for TLC: two goroutines, one address with a   *)
(* burst of one, two passwords, a start with and without a setup, and an    *)
(* export of another instance with the session that made it.               *)
(***************************************************************************)
EXTENDS Access

CONSTANTS r1, r2, home, ours, theirs

TwoRequests == {r1, r2}
OneAddress == {home}
TwoPasswords == {ours, theirs}
Setup(password, n) == [NewDatabase EXCEPT !.admin = [password |-> password, setup |-> n], !.ingress = n]
Before == {NewDatabase, Setup(ours, 0)}
Exporter == [token |-> 0, expires |-> 2, password |-> theirs, crossed |-> FALSE]
Elsewhere == {[Setup(theirs, -1) EXCEPT !.sessions = {Exporter}]}
=============================================================================
