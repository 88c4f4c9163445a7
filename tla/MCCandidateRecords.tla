------------------------ MODULE MCCandidateRecords -------------------------
(* Instances of CandidateRecords for TLC: extractions of one candidate.    *)
EXTENDS CandidateRecords, TLC

OneCandidate == [x \in Extractions |-> CHOOSE p \in Candidates : TRUE]

Symmetric == Permutations(Calls) \cup Permutations(Extractions) \cup Permutations(Values)
               \cup Permutations(Fields)

=============================================================================
