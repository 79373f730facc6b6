------------------------------- MODULE MCPolicy -------------------------------
(* Model checking of module Policy on small instances. *)
EXTENDS Policy, TLC

(* CRs are told apart by their creation time only; policy contents by       *)
(* whether the gateway rejects them.                                        *)
Symmetry == Permutations(Policies) \cup Permutations(Specs \ Rejected)

=============================================================================
