------------------------------ MODULE DisputesMC ------------------------------
(* Instances of Disputes for TLC. *)
EXTENDS Disputes, TLC

\* Interchangeable requests.
Sym == Permutations(Request)

=============================================================================
