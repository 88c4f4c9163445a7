-------------------------- MODULE CandidateHistory --------------------------
(***************************************************************************)
(* What the candidate and CV extraction services promise about candidates, *)
(* as if each request were served in one step: it changes what it asks to  *)
(* change and nothing else, nothing changes a removed candidate, a         *)
(* proposal is decided once, and a profile is the output of the acceptance *)
(* that came last.  That a proposal is decided only while its candidate is *)
(* active is not promised: the two services lock different rows.           *)
(***************************************************************************)
CONSTANTS Calls, Candidates, Extractions, CandidateOf, Fields, Values, None

VARIABLES
  asked,     \* the request of each call: its operation, its row, its input
  data,      \* the fields of each candidate, None before its creation
  removed,   \* the candidates removed
  proposal,  \* each extraction: None, "PROPOSED" or its decision
  profile    \* each candidate's profile: None, or its source and its output

vars == <<asked, data, removed, proposal, profile>>

Init == /\ asked = [c \in Calls |-> None]
        /\ data = [p \in Candidates |-> None]
        /\ removed = {}
        /\ proposal = [x \in Extractions |-> None]
        /\ profile = [p \in Candidates |-> None]

Partial == UNION {[given -> Values] : given \in SUBSET Fields}

Requests == [op : {"createCandidate"}, row : Candidates, input : [Fields -> Values]]
       \cup [op : {"updateCandidate"}, row : Candidates, input : Partial]
       \cup [op : {"removeCandidate"}, row : Candidates, input : {None}]
       \cup [op : {"createExtraction", "reject"}, row : Extractions, input : {None}]
       \cup [op : {"confirm"}, row : Extractions, input : Values]

Ask(c) == /\ asked[c] = None
          /\ \E request \in Requests : asked' = [asked EXCEPT ![c] = request]
          /\ UNCHANGED <<data, removed, proposal, profile>>

(* A request is dropped without effect, or takes effect and ends.          *)
Finish(c) == asked' = [asked EXCEPT ![c] = None]

Drop(c) == Finish(c) /\ UNCHANGED <<data, removed, proposal, profile>>

Active(p) == data[p] # None /\ p \notin removed

CreateCandidate(p, input) == /\ data[p] = None
                             /\ data' = [data EXCEPT ![p] = input]
                             /\ UNCHANGED <<removed, proposal, profile>>

UpdateCandidate(p, input) ==
  /\ Active(p)
  /\ data' = [data EXCEPT ![p] = [f \in Fields |-> IF f \in DOMAIN input THEN input[f] ELSE @[f]]]
  /\ UNCHANGED <<removed, proposal, profile>>

RemoveCandidate(p) == /\ Active(p)
                      /\ removed' = removed \cup {p}
                      /\ UNCHANGED <<data, proposal, profile>>

Propose(x) == /\ data[CandidateOf[x]] # None
              /\ proposal[x] = None
              /\ proposal' = [proposal EXCEPT ![x] = "PROPOSED"]
              /\ UNCHANGED <<data, removed, profile>>

Accept(x, input) ==
  /\ proposal[x] = "PROPOSED"
  /\ proposal' = [proposal EXCEPT ![x] = "ACCEPTED"]
  /\ profile' = [profile EXCEPT ![CandidateOf[x]] = [source |-> x, output |-> input]]
  /\ UNCHANGED <<data, removed>>

Reject(x) == /\ proposal[x] = "PROPOSED"
             /\ proposal' = [proposal EXCEPT ![x] = "REJECTED"]
             /\ UNCHANGED <<data, removed, profile>>

Serve(c) ==
  LET row == asked[c].row
      input == asked[c].input
  IN /\ CASE asked[c].op = "createCandidate"  -> CreateCandidate(row, input)
          [] asked[c].op = "updateCandidate"  -> UpdateCandidate(row, input)
          [] asked[c].op = "removeCandidate"  -> RemoveCandidate(row)
          [] asked[c].op = "createExtraction" -> Propose(row)
          [] asked[c].op = "confirm"          -> Accept(row, input)
          [] asked[c].op = "reject"           -> Reject(row)
     /\ Finish(c)

Next == \E c \in Calls : Ask(c) \/ (asked[c] # None /\ (Drop(c) \/ Serve(c)))

Spec == Init /\ [][Next]_vars

=============================================================================
