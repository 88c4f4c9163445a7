------------------------ MODULE MCDocumentLifecycle ------------------------
(* Instances of DocumentLifecycle for TLC: documents of one candidate.     *)
EXTENDS DocumentLifecycle, TLC

OneCandidate == [d \in Documents |-> CHOOSE p \in Candidates : TRUE]

Symmetric == Permutations(Calls)

=============================================================================
