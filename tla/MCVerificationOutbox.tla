------------------------ MODULE MCVerificationOutbox ------------------------
(* Instances of VerificationOutbox for TLC.                                *)
EXTENDS VerificationOutbox, TLC

(* Workers of one host: each process has its own identifier. *)
DistinctIds == [w \in Workers |-> w]

(* Workers of several hosts, or containers, whose processes all got the    *)
(* same pid.                                                               *)
SharedId == [w \in Workers |-> CHOOSE id \in WorkerIds : TRUE]

(* Sound for the safety properties: none tells two workers or two          *)
(* requests apart, and IdOf is one of the two functions above.             *)
Symmetric == Permutations(Workers) \cup Permutations(Requests)

=============================================================================
