-------------------------- MODULE DocumentHistory --------------------------
(***************************************************************************)
(* What the compliance-document service promises about one document: an    *)
(* append-only line of versions of which the last is current, an approved  *)
(* version only ever followed by a correction, and nothing after its       *)
(* removal.                                                                *)
(*                                                                         *)
(* An operation is atomic on its document, which it locks.  It looks at    *)
(* the candidate before, without a lock that would keep it: the candidate  *)
(* may be removed between the look and the commit, but nothing is          *)
(* committed that did not look before.                                     *)
(***************************************************************************)
EXTENDS Naturals, Sequences

CONSTANTS Documents, RightToWork, Candidates, CandidateOf

VARIABLES
  history,   \* the versions of each document, each with its status and origin
  removed,   \* the documents removed
  requested, \* the versions of each document sent for verification
  gone,      \* the candidates removed
  admitted   \* the documents with an operation that found the candidate active

vars == <<history, removed, requested, gone, admitted>>

Init == /\ history = [d \in Documents |-> <<>>]
        /\ removed = {}
        /\ requested = [d \in Documents |-> {}]
        /\ gone = {}
        /\ admitted = {}

Active(d) == history[d] # <<>> /\ d \notin removed

(* What a query for an active document of an active candidate finds. *)
Visible(d) == Active(d) /\ CandidateOf[d] \notin gone

Current(d) == history[d][Len(history[d])]

(* An operation on the document finds its candidate active; the lock on    *)
(* the document keeps the others away until it commits or gives up.        *)
Admit(d) == /\ CandidateOf[d] \notin gone
            /\ d \notin admitted
            /\ admitted' = admitted \cup {d}
            /\ UNCHANGED <<history, removed, requested, gone>>

GiveUp(d) == /\ d \in admitted
             /\ admitted' = admitted \ {d}
             /\ UNCHANGED <<history, removed, requested, gone>>

Commit(d) == /\ d \in admitted
             /\ admitted' = admitted \ {d}
             /\ UNCHANGED gone

Draft(d, by) == /\ Commit(d)
                /\ history' = [history EXCEPT ![d] = Append(@, [status |-> "DRAFT", by |-> by])]
                /\ UNCHANGED <<removed, requested>>

Create(d) == history[d] = <<>> /\ Draft(d, "create")

AddVersion(d) == Active(d) /\ Current(d).status = "DRAFT" /\ Draft(d, "addVersion")

Correct(d) == Active(d) /\ Current(d).status = "APPROVED" /\ Draft(d, "correct")

Approve(d) == /\ Active(d) /\ Commit(d)
              /\ history' = [history EXCEPT ![d][Len(history[d])].status = "APPROVED"]
              /\ UNCHANGED <<removed, requested>>

Remove(d) == /\ Active(d) /\ Commit(d)
             /\ removed' = removed \cup {d}
             /\ UNCHANGED <<history, requested>>

RequestVerification(d) ==
  /\ d \in RightToWork
  /\ Active(d) /\ Commit(d)
  /\ Current(d).status = "APPROVED"
  /\ Len(history[d]) \notin requested[d]
  /\ requested' = [requested EXCEPT ![d] = @ \cup {Len(history[d])}]
  /\ UNCHANGED <<history, removed>>

RemoveCandidate(p) == /\ p \notin gone
                      /\ gone' = gone \cup {p}
                      /\ UNCHANGED <<history, removed, requested, admitted>>

(* What changes a document, other than a request for verification. *)
Mutation(d) == \/ Create(d)
               \/ AddVersion(d)
               \/ Correct(d)
               \/ Approve(d)
               \/ Remove(d)

Next == \/ \E d \in Documents : Admit(d) \/ GiveUp(d) \/ Mutation(d) \/ RequestVerification(d)
        \/ \E p \in Candidates : RemoveCandidate(p)

Spec == Init /\ [][Next]_vars

=============================================================================
