-------------------------- MODULE MCDocumentReads --------------------------
(* Instances of DocumentReads for TLC: documents of one candidate, beside  *)
(* another who has none.                                                   *)
EXTENDS DocumentReads, TLC

OneCandidate == [d \in Documents |-> CHOOSE p \in Candidates : TRUE]

(* First versions expire soon, what corrects them does not. *)
FirstExpires == {<<d, 1>> : d \in Documents}

Symmetric == Permutations(Documents)

=============================================================================
