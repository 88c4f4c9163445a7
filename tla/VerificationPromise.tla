------------------------ MODULE VerificationPromise ------------------------
(***************************************************************************)
(* What the Right-to-Work workflow promises its caller, without workers,   *)
(* leases or an outbox: an accepted request is tried at most MaxAttempts   *)
(* times and decided once; it is VERIFIED only on the word of the          *)
(* verifier, and FAILED only on its word or when no attempt is left.       *)
(***************************************************************************)
EXTENDS Integers

CONSTANTS Requests, MaxAttempts

VARIABLES
  phase,  \* "absent", "open", or the decision
  tries,  \* attempts used
  said    \* what the verifier has answered

vars == <<phase, tries, said>>

Init == /\ phase = [r \in Requests |-> "absent"]
        /\ tries = [r \in Requests |-> 0]
        /\ said = [r \in Requests |-> {}]

Accept(r) == /\ phase[r] = "absent"
             /\ phase' = [phase EXCEPT ![r] = "open"]
             /\ UNCHANGED <<tries, said>>

Try(r) == /\ phase[r] = "open"
          /\ tries[r] < MaxAttempts
          /\ tries' = [tries EXCEPT ![r] = @ + 1]
          /\ UNCHANGED <<phase, said>>

(* An attempt may be answered late, even after another one has decided.    *)
Answer(r) == /\ tries[r] > 0
             /\ \E a \in {"verified", "failed", "malformed", "throws"} :
                  said' = [said EXCEPT ![r] = @ \cup {a}]
             /\ UNCHANGED <<phase, tries>>

Verify(r) == /\ phase[r] = "open"
             /\ "verified" \in said[r]
             /\ phase' = [phase EXCEPT ![r] = "VERIFIED"]
             /\ UNCHANGED <<tries, said>>

Fail(r) == /\ phase[r] = "open"
           /\ said[r] \cap {"failed", "malformed"} # {} \/ tries[r] = MaxAttempts
           /\ phase' = [phase EXCEPT ![r] = "FAILED"]
           /\ UNCHANGED <<tries, said>>

Progress(r) == Try(r) \/ Verify(r) \/ Fail(r)

Next == \E r \in Requests : Accept(r) \/ Answer(r) \/ Progress(r)

Spec == Init /\ [][Next]_vars

FairSpec == Spec /\ \A r \in Requests : WF_vars(Progress(r))

=============================================================================
