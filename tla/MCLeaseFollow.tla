---------------------------- MODULE MCLeaseFollow ----------------------------
(* Instances of LeaseFollow for TLC. *)
EXTENDS LeaseFollow, TLC

\* Addresses and rules are interchangeable; RowOf does not depend on the
\* order of addresses as long as MacUnique holds.
Symmetry == Permutations(IPs) \cup Permutations(MACs) \cup Permutations(Rules)
=============================================================================
