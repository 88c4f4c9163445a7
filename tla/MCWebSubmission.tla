-------------------------- MODULE MCWebSubmission --------------------------
(* Instances of WebSubmission for TLC. *)
EXTENDS WebSubmission, TLC

Symmetric == Permutations(Forms) \cup Permutations(Inputs) \cup Permutations(Sessions)

=============================================================================
