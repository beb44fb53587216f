---------------------------- MODULE MCHousehold ----------------------------
(* Instances of Household for TLC. *)
EXTENDS Household

\* A window across midnight, on the second day only.
Bedtime   == [days |-> {1}, start |-> 2, end |-> 1]
Overnight == {Bedtime}
=============================================================================
