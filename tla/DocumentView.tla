---------------------------- MODULE DocumentView ----------------------------
(***************************************************************************)
(* The page of one document: the server component that reads the document  *)
(* and then its history, the detail component that keeps both, the         *)
(* controls that approve and correct, and the refresh of the history that  *)
(* follows.  Meanwhile others work on the document.                        *)
(*                                                                         *)
(* The mutations are those of DocumentHistory: one that has found the      *)
(* candidate active may commit when it is removed.  A request is retried   *)
(* under the key of its control (WebSubmission), so that for each control  *)
(* there is one write to come, under way, or done; a control that is       *)
(* mounted anew has a new key, and what an old one left under way is then  *)
(* the work of others.                                                     *)
(***************************************************************************)
EXTENDS Naturals, Sequences

CONSTANTS
  Document,
  Candidate,     \* its candidate
  MaxVersions,   \* bound on its versions
  MaxRefreshes   \* bound on the refreshes of the history under way at once

ASSUME MaxVersionsAssumption == MaxVersions \in Nat \ {0}
ASSUME MaxRefreshesAssumption == MaxRefreshes \in Nat

VARIABLES
  history, removed, gone, admitted,  \* as in DocumentHistory
  view,     \* the detail component
  write,    \* what each control has asked of the API
  refresh   \* the history requests under way

Mutations == INSTANCE DocumentHistory WITH
               Documents <- {Document}, Candidates <- {Candidate},
               CandidateOf <- [d \in {Document} |-> Candidate],
               RightToWork <- {}, requested <- [d \in {Document} |-> {}]

rows == <<history, removed, gone, admitted>>
vars == <<rows, view, write, refresh>>

-----------------------------------------------------------------------------

Controls == {"approve", "correct"}
Slots == 1..MaxRefreshes
Dto == [version : 0..MaxVersions, status : {"DRAFT", "APPROVED"}]
NoDto == [version |-> 0, status |-> "DRAFT"]

TypeOK ==
  /\ history \in [{Document} -> Seq([status : {"DRAFT", "APPROVED"},
                                     by : {"create", "addVersion", "correct"}])]
  /\ removed \subseteq {Document} /\ gone \subseteq {Candidate} /\ admitted \subseteq {Document}
  /\ view \in [pc : {"opening", "opened", "shown", "gone"}, document : Dto,
               listed : 0..MaxVersions, loading : BOOLEAN, error : BOOLEAN,
               correcting : BOOLEAN, submitting : BOOLEAN]
  /\ view.correcting => view.document.status = "APPROVED"
  /\ write \in [Controls -> [state : {"none", "pending", "admitted", "done"}, result : Dto]]
  /\ refresh \in [Slots -> [state : {"none", "asked", "read"}, listed : 0..MaxVersions]]

(* listed: the versions in the history shown, counted from the first; 0    *)
(* when there is none.                                                     *)
Opening == [pc |-> "opening", document |-> NoDto, listed |-> 0, loading |-> FALSE,
            error |-> FALSE, correcting |-> FALSE, submitting |-> FALSE]

Unasked == [state |-> "none", result |-> NoDto]
NoRefresh == [state |-> "none", listed |-> 0]

Init == /\ Mutations!Init
        /\ view = Opening
        /\ write = [c \in Controls |-> Unasked]
        /\ refresh = [s \in Slots |-> NoRefresh]

-----------------------------------------------------------------------------

Visible == Mutations!Visible(Document)
Versions == Len(history[Document])
Status == Mutations!Current(Document).status

(* Others work on the document, when no control of the page holds it, or   *)
(* remove its candidate.                                                   *)
Mutate == /\ \/ /\ \A c \in Controls : write[c].state # "admitted"
                /\ \/ Mutations!Admit(Document)
                   \/ Mutations!GiveUp(Document)
                   \/ Mutations!Mutation(Document)
             \/ Mutations!RemoveCandidate(Candidate)
          /\ Len(history'[Document]) <= MaxVersions
          /\ UNCHANGED <<view, write, refresh>>

(* The page reads the document, then its history by another call of the    *)
(* API; without a history it shows an error in its place.                  *)
OpenDocument ==
  /\ view.pc = "opening"
  /\ Visible
  /\ view' = [view EXCEPT !.pc = "opened", !.document = [version |-> Versions, status |-> Status]]
  /\ UNCHANGED <<rows, write, refresh>>

OpenHistory ==
  /\ view.pc = "opened"
  /\ \/ Visible /\ view' = [view EXCEPT !.pc = "shown", !.listed = Versions]
     \/ view' = [view EXCEPT !.pc = "shown", !.error = TRUE]
  /\ UNCHANGED <<rows, write, refresh>>

(* Not found, a lost session, or a user who goes elsewhere. *)
Leave == /\ view.pc # "gone"
         /\ view' = [view EXCEPT !.pc = "gone"]
         /\ UNCHANGED <<rows, write, refresh>>

-----------------------------------------------------------------------------
(* The controls, as the status of the document shown allows. *)

CanApprove == view.pc = "shown" /\ view.document.status = "DRAFT"
CanCorrect == view.pc = "shown" /\ view.document.status = "APPROVED"

ShowCorrection ==
  /\ CanCorrect /\ ~view.correcting
  /\ view' = [view EXCEPT !.correcting = TRUE]
  /\ UNCHANGED <<rows, write, refresh>>

(* The form is unmounted, and its attempt with it. *)
HideCorrection ==
  /\ CanCorrect /\ view.correcting /\ ~view.submitting
  /\ view' = [view EXCEPT !.correcting = FALSE]
  /\ write' = [write EXCEPT !["correct"] = Unasked]
  /\ UNCHANGED <<rows, refresh>>

Submit(c) ==
  /\ ~view.submitting
  /\ view' = [view EXCEPT !.submitting = TRUE]
  /\ write' = [write EXCEPT ![c].state = IF @ = "none" THEN "pending" ELSE @]
  /\ UNCHANGED <<rows, refresh>>

(* (bug) The page shows the approval that it asks for. *)
ApproveAtOnce == /\ CanApprove /\ ~view.submitting
                 /\ view' = [view EXCEPT !.submitting = TRUE, !.document.status = "APPROVED"]
                 /\ write' = [write EXCEPT !["approve"].state = IF @ = "none" THEN "pending" ELSE @]
                 /\ UNCHANGED <<rows, refresh>>

Approve == CanApprove /\ Submit("approve")

Correct == CanCorrect /\ view.correcting /\ Submit("correct")

(* The API takes up what was asked: it locks the document and finds its    *)
(* candidate active.                                                       *)
ApiAdmits(c) ==
  /\ write[c].state = "pending"
  /\ Mutations!Admit(Document)
  /\ write' = [write EXCEPT ![c].state = "admitted"]
  /\ UNCHANGED <<view, refresh>>

(* It is rolled back; a retry may take it up again. *)
ApiGivesUp(c) ==
  /\ write[c].state = "admitted"
  /\ Mutations!GiveUp(Document)
  /\ write' = [write EXCEPT ![c].state = "pending"]
  /\ UNCHANGED <<view, refresh>>

(* It carries out what was asked, whether or not anybody still waits, on   *)
(* the version that is current by then.                                    *)
ApiApproves ==
  /\ write["approve"].state = "admitted"
  /\ Mutations!Approve(Document)
  /\ write' = [write EXCEPT !["approve"] =
                 [state |-> "done", result |-> [version |-> Versions, status |-> "APPROVED"]]]
  /\ UNCHANGED <<view, refresh>>

ApiCorrects ==
  /\ write["correct"].state = "admitted"
  /\ Versions < MaxVersions
  /\ Mutations!Correct(Document)
  /\ write' = [write EXCEPT !["correct"] =
                 [state |-> "done", result |-> [version |-> Versions + 1, status |-> "DRAFT"]]]
  /\ UNCHANGED <<view, refresh>>

(* A refusal, a lost answer or a timeout: the control stays as it was. *)
SubmissionFails ==
  /\ view.pc = "shown" /\ view.submitting
  /\ view' = [view EXCEPT !.submitting = FALSE]
  /\ UNCHANGED <<rows, write, refresh>>

(* The answer, to the first request or to a retry.  The status it brings   *)
(* unmounts the control; the history is asked for again.                   *)
Succeed(c) ==
  /\ view.pc = "shown" /\ view.submitting
  /\ write[c].state = "done"
  /\ view' = [view EXCEPT !.document = write[c].result, !.submitting = FALSE,
                          !.correcting = FALSE,
                          !.listed = 0, !.error = FALSE, !.loading = TRUE]
  /\ \E s \in Slots : /\ refresh[s].state = "none"
                      /\ refresh' = [refresh EXCEPT ![s].state = "asked"]

(* (bug) The control keeps its attempt for the next version. *)
ApprovedKeepingAttempt == CanApprove /\ Succeed("approve") /\ UNCHANGED <<rows, write>>

Approved == /\ CanApprove /\ Succeed("approve")
            /\ write' = [write EXCEPT !["approve"] = Unasked]
            /\ UNCHANGED rows

Corrected == /\ CanCorrect /\ view.correcting /\ Succeed("correct")
             /\ write' = [write EXCEPT !["correct"] = Unasked]
             /\ UNCHANGED rows

-----------------------------------------------------------------------------
(* refreshHistory, whose calls may overlap. *)

ReadHistory(s) ==
  /\ refresh[s].state = "asked"
  /\ Visible
  /\ refresh' = [refresh EXCEPT ![s] = [state |-> "read", listed |-> Versions]]
  /\ UNCHANGED <<rows, view, write>>

RefreshSucceeds(s) ==
  /\ refresh[s].state = "read"
  /\ view' = [view EXCEPT !.listed = refresh[s].listed, !.loading = FALSE]
  /\ refresh' = [refresh EXCEPT ![s] = NoRefresh]
  /\ UNCHANGED <<rows, write>>

(* A refusal, a lost answer or the timeout of requestFrontend. *)
RefreshFails(s) ==
  /\ refresh[s].state # "none"
  /\ view' = [view EXCEPT !.error = TRUE, !.loading = FALSE]
  /\ refresh' = [refresh EXCEPT ![s] = NoRefresh]
  /\ UNCHANGED <<rows, write>>

-----------------------------------------------------------------------------

User == Leave \/ ShowCorrection \/ HideCorrection \/ Approve \/ Correct

Answers == Approved \/ Corrected \/ SubmissionFails

Next == \/ Mutate
        \/ OpenDocument \/ OpenHistory
        \/ User \/ Answers
        \/ \E c \in Controls : ApiAdmits(c) \/ ApiGivesUp(c)
        \/ ApiApproves \/ ApiCorrects
        \/ \E s \in Slots : ReadHistory(s) \/ RefreshSucceeds(s) \/ RefreshFails(s)

Spec == Init /\ [][Next]_vars

-----------------------------------------------------------------------------

(* What the page says of the document is true of the server's: an approval *)
(* is shown once it is done, never before (docs/architecture.md:53).       *)
NothingOptimistic ==
  view.pc = "shown" =>
    /\ view.document.version \in DOMAIN history[Document]
    /\ view.document.status = "APPROVED" =>
         history[Document][view.document.version].status = "APPROVED"

(* The variables have their types, and nothing is shown before it is done. *)
ViewInv == TypeOK /\ NothingOptimistic

(* The page never goes back to an older version or from an approved one to *)
(* a draft of the same number, whatever answers are replayed to it.        *)
ShownNeverRegresses ==
  [][view.pc = "shown" =>
       \/ view'.document.version > view.document.version
       \/ /\ view'.document.version = view.document.version
          /\ view.document.status = "APPROVED" => view'.document.status = "APPROVED"]_vars

(* "Approve this version?  Approval makes this version immutable."         *)
(* (document-approval-control.tsx:133): the version that is approved is    *)
(* the one on the page.                                                    *)
ApprovesTheVersionShown ==
  [][write["approve"].state # "done" /\ write'["approve"].state = "done"
       /\ view.pc = "shown" /\ view.submitting =>
         write'["approve"].result.version = view.document.version]_vars

=============================================================================
