--------------------------- MODULE WebSubmission ---------------------------
(***************************************************************************)
(* The forms of the web application, from the user's hands to the API and  *)
(* back.  A form sends its values with an attempt identifier to a route of *)
(* the Next.js server; the route validates the session in the cookies,     *)
(* derives an idempotency key and calls the API; the browser and the       *)
(* server both give up after 8 seconds, while what they called goes on.    *)
(* Nothing but the key keeps a retry from writing again.                   *)
(*                                                                         *)
(* A form is one mounted component; a reload mounts another one.  All      *)
(* forms of a kind work on one record, where alone they can meet, and are  *)
(* in one browser, so that they share its cookies.  The API is taken at    *)
(* its word, KeyedWrite, which IdempotentWrite is shown to keep.           *)
(*                                                                         *)
(* A success that leads to another page ends its form.  The code enables   *)
(* the form again while that page is still to come; the user is taken not  *)
(* to act on a page that is being left.                                    *)
(***************************************************************************)
EXTENDS Naturals, Sequences, SequencesExt

CONSTANTS
  Forms,
  Inputs,         \* valid values of a form, or files; others are not sent
  Sessions,       \* pairs of session token and tenant, of one user
  MaxRequests,    \* bound on the requests of a form
  MaxSelections,  \* bound on the files chosen in an upload panel
  None

ASSUME MaxRequestsAssumption == MaxRequests \in Nat \ {0}
ASSUME MaxSelectionsAssumption == MaxSelections \in Nat
ASSUME NoneAssumption == None \notin Inputs \cup Sessions

Kinds == {"candidate", "document", "correction", "approval", "upload", "review"}

Ops == {"createCandidate", "createDocument", "correct", "approve", "extract", "confirm", "reject"}

VARIABLES
  cookies,  \* the session in the browser's cookies, if they name one
  form,     \* each form: its kind and state
  request,  \* the requests of each form, oldest first
  ledger    \* the writes committed by the API

vars == <<cookies, form, request, ledger>>

-----------------------------------------------------------------------------

(* A write is named by the request that made it. *)
WriteType == [by : Forms, at : 1..MaxRequests]

(* Of success, what the answer shows is the write made under the key.      *)
(* Failure stands for 400, 403 and 502, to which a form reacts alike; a    *)
(* record removed after the write (gone) and one that refuses it           *)
(* (rejected) look the same to it too.                                     *)
Replies == {"written", "gone", "unauthorised", "rejected", "conflict", "failed"}

(* undefined, null and an absent header are no value of any of these. *)
ASSUME NoneIsNoValue == None \notin WriteType \cup Replies \cup {"confirm"}

FormType == [kind : Kinds, pc : {"idle", "submitting", "done", "gone"},
             input : Inputs \cup {None}, dialog : {None, "confirm", "reject"},
             pending : Inputs \cup {None}, attempt : 0..MaxSelections,
             shown : WriteType \cup {None}]

KeyType == [op : Ops, session : Sessions, input : Inputs \cup {None},
            form : Forms \cup {None}, attempt : 0..MaxSelections]

RequestType == [op : Ops, input : Inputs \cup {None}, attempt : 0..MaxSelections,
                session : Sessions \cup {None}, pc : {"routing", "calling", "ended"},
                key : KeyType \cup {None},
                reply : Replies \cup {None}]

(* Nor of the records that an API kept under keys would make of them. *)
ASSUME NoneIsNoRecord ==
  None \notin KeyType \cup [key : KeyType, payload : Inputs \cup {None}]
                \cup [payload : Inputs \cup {None}, body : WriteType]

TypeOK == /\ cookies \in Sessions \cup {None}
          /\ form \in [Forms -> FormType]
          /\ request \in [Forms -> Seq(RequestType)]
          /\ ledger \subseteq WriteType

(* A correction starts with the dates of the document, a review with the   *)
(* proposal; the other forms start empty.                                  *)
Mounted(kind, input) == [kind |-> kind, pc |-> "idle", input |-> input, dialog |-> None,
                         pending |-> None, attempt |-> 0, shown |-> None]

Init ==
  /\ cookies \in Sessions
  /\ form \in [Forms -> {Mounted(kind, None) : kind \in Kinds \ {"correction", "review"}}
                   \cup {Mounted(kind, input) : kind \in {"correction", "review"}, input \in Inputs}]
  /\ request = [f \in Forms |-> <<>>]
  /\ ledger = {}

-----------------------------------------------------------------------------
(* The components.  Inputs and buttons are disabled during a submission.   *)

Usable(f, kinds) == form[f].pc = "idle" /\ form[f].kind \in kinds

UpdateField(f) ==
  /\ Usable(f, {"candidate", "document", "correction"})
  /\ \E input \in Inputs : form' = [form EXCEPT ![f].input = input]
  /\ UNCHANGED <<cookies, request, ledger>>

(* A file chosen is a new attempt. *)
SelectFile(f) ==
  /\ Usable(f, {"upload"})
  /\ form[f].attempt < MaxSelections
  /\ \E file \in Inputs \cup {None} :
       form' = [form EXCEPT ![f].input = file, ![f].attempt = @ + 1]
  /\ UNCHANGED <<cookies, request, ledger>>

(* (bug) An edit leaves the profile under review as it was. *)
UpdateProfileOnly(f) ==
  /\ Usable(f, {"review"})
  /\ \E input \in Inputs : form' = [form EXCEPT ![f].input = input]
  /\ UNCHANGED <<cookies, request, ledger>>

(* An edit of the profile withdraws it from confirmation. *)
UpdateProfile(f) ==
  /\ Usable(f, {"review"})
  /\ \E input \in Inputs :
       form' = [form EXCEPT ![f].input = input, ![f].dialog = None, ![f].pending = None]
  /\ UNCHANGED <<cookies, request, ledger>>

ReviewConfirmation(f) ==
  /\ Usable(f, {"review"})
  /\ form' = [form EXCEPT ![f].pending = form[f].input, ![f].dialog = "confirm"]
  /\ UNCHANGED <<cookies, request, ledger>>

ReviewRejection(f) ==
  /\ Usable(f, {"review"})
  /\ form' = [form EXCEPT ![f].pending = None, ![f].dialog = "reject"]
  /\ UNCHANGED <<cookies, request, ledger>>

AskApproval(f) ==
  /\ Usable(f, {"approval"})
  /\ form' = [form EXCEPT ![f].dialog = "confirm"]
  /\ UNCHANGED <<cookies, request, ledger>>

CancelConfirmation(f) ==
  /\ Usable(f, {"approval", "review"})
  /\ form' = [form EXCEPT ![f].pending = None, ![f].dialog = None]
  /\ UNCHANGED <<cookies, request, ledger>>

(* The browser sends its cookies as they are at that moment. *)
Send(f, op, input) ==
  /\ Len(request[f]) < MaxRequests
  /\ request' = [request EXCEPT ![f] =
                   Append(@, [op |-> op, input |-> input, attempt |-> form[f].attempt,
                              session |-> cookies, pc |-> "routing", key |-> None,
                              reply |-> None])]
  /\ form' = [form EXCEPT ![f].pc = "submitting"]
  /\ UNCHANGED <<cookies, ledger>>

SubmitCandidate(f) == /\ Usable(f, {"candidate"}) /\ form[f].input # None
                      /\ Send(f, "createCandidate", form[f].input)

SubmitDocument(f) == /\ Usable(f, {"document"}) /\ form[f].input # None
                     /\ Send(f, "createDocument", form[f].input)

SubmitCorrection(f) == /\ Usable(f, {"correction"})
                       /\ Send(f, "correct", form[f].input)

Approve(f) == /\ Usable(f, {"approval"}) /\ form[f].dialog = "confirm"
              /\ Send(f, "approve", None)

SubmitCv(f) == /\ Usable(f, {"upload"}) /\ form[f].input # None
               /\ Send(f, "extract", form[f].input)

ConfirmProposal(f) == /\ Usable(f, {"review"}) /\ form[f].dialog = "confirm"
                      /\ Send(f, "confirm", form[f].pending)

RejectProposal(f) == /\ Usable(f, {"review"}) /\ form[f].dialog = "reject"
                     /\ Send(f, "reject", None)

RequestOf(w) == request[w.by][w.at]

IsWritten(key) == \E w \in ledger : RequestOf(w).key = key

WrittenUnder(key) == CHOOSE w \in ledger : RequestOf(w).key = key

(* A form waits for the last request it made. *)
Awaited(f) == Last(request[f])

(* (bug) A form may accept the answer to an earlier request of its own. *)
ReceiveAny(f) ==
  /\ form[f].pc = "submitting"
  /\ \E i \in DOMAIN request[f] :
       /\ request[f][i].reply # None
       /\ form' = [form EXCEPT
            ![f].pc = IF request[f][i].reply = "written" THEN "done" ELSE "idle",
            ![f].shown = IF request[f][i].reply = "written"
                         THEN WrittenUnder(request[f][i].key) ELSE None]
  /\ UNCHANGED <<cookies, request, ledger>>

(* requestFrontend returns.  Success ends the form: it navigates away or   *)
(* shows the result.  A lost session is left for the sign-in page, and the *)
(* response that says so clears the cookies.  After any other problem the  *)
(* form is as it was before, its values, dialog and attempt kept.          *)
Receive(f) ==
  LET reply == Awaited(f).reply IN
  /\ form[f].pc = "submitting"
  /\ reply # None
  /\ form' = [form EXCEPT
       ![f].pc = CASE reply = "written"      -> "done"
                   [] reply = "unauthorised" -> "gone"
                   [] OTHER                  -> "idle",
       ![f].shown = IF reply = "written" THEN WrittenUnder(Awaited(f).key) ELSE None]
  /\ cookies' = IF reply = "unauthorised" THEN None ELSE cookies
  /\ UNCHANGED <<request, ledger>>

(* The signal of requestFrontend aborts the request; its answer is lost.   *)
TimeOut(f) == /\ form[f].pc = "submitting"
              /\ form' = [form EXCEPT ![f].pc = "idle"]
              /\ UNCHANGED <<cookies, request, ledger>>

(* The user reloads the page, goes elsewhere or closes the tab. *)
Leave(f) == /\ form[f].pc # "gone"
            /\ form' = [form EXCEPT ![f].pc = "gone"]
            /\ UNCHANGED <<cookies, request, ledger>>

-----------------------------------------------------------------------------
(* The routes of the Next.js server. *)

Reply(f, i, reply) == request' = [request EXCEPT ![f][i].pc = "ended", ![f][i].reply = reply]

(* validateTenantSession fails: no cookies, an expired token, a membership *)
(* that is gone, or an API that does not answer.                           *)
RefuseSession(f, i) ==
  /\ request[f][i].pc = "routing"
  /\ \E reply \in {"unauthorised", "failed"} : Reply(f, i, reply)
  /\ UNCHANGED <<cookies, form, ledger>>

(* The session is validated, and the API called with the derived key. *)
Forward(f, i, key) ==
  /\ request[f][i].pc = "routing"
  /\ request[f][i].session # None
  /\ request' = [request EXCEPT ![f][i].pc = "calling", ![f][i].key = key]
  /\ UNCHANGED <<cookies, form, ledger>>

(* The HMAC is injective.  Its key and its text name the session, whose    *)
(* user is the actor, the tenant, the attempt, and the input or the hash   *)
(* of the file.  An attempt belongs to one form and so names its record.   *)
DerivedKey(f, i) == [op |-> request[f][i].op, session |-> request[f][i].session,
                     input |-> request[f][i].input,
                     form |-> f, attempt |-> request[f][i].attempt]

(* (bug) Every request has a key of its own. *)
KeyOfRequest(f, i) == [DerivedKey(f, i) EXCEPT !.attempt = MaxSelections + i]

(* (bug) The input is left out. *)
KeyWithoutInput(f, i) == [DerivedKey(f, i) EXCEPT !.input = None]

CandidateKey(f, i) == DerivedKey(f, i)

DocumentKey(f, i) == DerivedKey(f, i)

LifecycleKey(f, i) == DerivedKey(f, i)

CvKey(f, i) == DerivedKey(f, i)

CandidatesRoute(f, i) == /\ request[f][i].op = "createCandidate"
                         /\ Forward(f, i, CandidateKey(f, i))

DocumentsRoute(f, i) == /\ request[f][i].op = "createDocument"
                        /\ Forward(f, i, DocumentKey(f, i))

CorrectionsRoute(f, i) == /\ request[f][i].op = "correct"
                          /\ Forward(f, i, LifecycleKey(f, i))

ApproveRoute(f, i) == /\ request[f][i].op = "approve"
                      /\ Forward(f, i, LifecycleKey(f, i))

CvExtractionsRoute(f, i) == /\ request[f][i].op = "extract"
                            /\ Forward(f, i, CvKey(f, i))

ConfirmRoute(f, i) == /\ request[f][i].op = "confirm"
                      /\ Forward(f, i, CvKey(f, i))

RejectRoute(f, i) == /\ request[f][i].op = "reject"
                     /\ Forward(f, i, CvKey(f, i))

(* requestApi gives up, or cannot read the answer.  The API goes on. *)
ApiTimeOut(f, i) ==
  /\ request[f][i].pc = "calling"
  /\ request[f][i].reply = None
  /\ request' = [request EXCEPT ![f][i].reply = "failed"]
  /\ UNCHANGED <<cookies, form, ledger>>

-----------------------------------------------------------------------------
(* The API.  Its answer may find that nobody waits for it. *)

(* One proposal is decided once: CandidateRecords. *)
Decided == \E w \in ledger : RequestOf(w).op \in {"confirm", "reject"}

ApiAnswer(f, i, answer) ==
  /\ request[f][i].pc = "calling"
  /\ request' = [request EXCEPT ![f][i].pc = "ended",
                                ![f][i].reply = IF @ = None THEN answer ELSE @]
  /\ UNCHANGED <<cookies, form>>

ApiWrites(f, i) ==
  /\ ~IsWritten(request[f][i].key)
  /\ request[f][i].op \in {"confirm", "reject"} => ~Decided
  /\ ApiAnswer(f, i, "written")
  /\ ledger' = ledger \cup {[by |-> f, at |-> i]}

ApiReplays(f, i) ==
  /\ IsWritten(request[f][i].key)
  /\ LET w == WrittenUnder(request[f][i].key) IN
     ApiAnswer(f, i, IF RequestOf(w).input = request[f][i].input THEN "written" ELSE "conflict")
  /\ UNCHANGED ledger

(* A record in another state, one that was removed after the write, a      *)
(* permission that is missing, an error.                                   *)
ApiRefuses(f, i) ==
  /\ \/ ~IsWritten(request[f][i].key) /\ ApiAnswer(f, i, "rejected")
     \/ /\ IsWritten(request[f][i].key)
        /\ RequestOf(WrittenUnder(request[f][i].key)).input = request[f][i].input
        /\ ApiAnswer(f, i, "gone")
     \/ \E answer \in {"unauthorised", "failed"} : ApiAnswer(f, i, answer)
  /\ UNCHANGED ledger

-----------------------------------------------------------------------------

(* Signing in or out or choosing a tenant, in another tab. *)
ChangeCookies == /\ cookies' \in Sessions \cup {None}
                 /\ UNCHANGED <<form, request, ledger>>

User(f) == \/ UpdateField(f) \/ SelectFile(f) \/ UpdateProfile(f)
           \/ ReviewConfirmation(f) \/ ReviewRejection(f)
           \/ AskApproval(f) \/ CancelConfirmation(f)
           \/ SubmitCandidate(f) \/ SubmitDocument(f) \/ SubmitCorrection(f)
           \/ Approve(f) \/ SubmitCv(f) \/ ConfirmProposal(f) \/ RejectProposal(f)
           \/ Leave(f)

Route(f, i) == \/ RefuseSession(f, i) \/ ApiTimeOut(f, i)
               \/ CandidatesRoute(f, i) \/ DocumentsRoute(f, i)
               \/ CorrectionsRoute(f, i) \/ ApproveRoute(f, i)
               \/ CvExtractionsRoute(f, i) \/ ConfirmRoute(f, i) \/ RejectRoute(f, i)

Api(f, i) == ApiWrites(f, i) \/ ApiReplays(f, i) \/ ApiRefuses(f, i)

Next == \/ ChangeCookies
        \/ \E f \in Forms :
             \/ User(f) \/ Receive(f) \/ TimeOut(f)
             \/ \E i \in DOMAIN request[f] : Route(f, i) \/ Api(f, i)

Spec == Init /\ [][Next]_vars

-----------------------------------------------------------------------------

(* What makes two requests the same submission to a user: the form, the    *)
(* operation, the values, the file chosen, and the session.  A retry after *)
(* a new login elsewhere, whose token differs, is not the same, also when  *)
(* the tenant is: the keys are derived from the token.                     *)
SameSubmission(r, s) == /\ r.op = s.op /\ r.input = s.input
                        /\ r.attempt = s.attempt /\ r.session = s.session

(* A submission is written once, however often it is retried, whichever    *)
(* of its requests or answers are lost, and in whatever order they arrive. *)
RetriesWriteOnce ==
  \A v, w \in ledger :
    v.by = w.by /\ SameSubmission(RequestOf(v), RequestOf(w)) => v = w

(* A form reports success for a write of its own that has the values and   *)
(* the file it shows: never for what the answer to an earlier request,     *)
(* given up in the meantime, was about.                                    *)
SuccessIsOwn ==
  \A f \in Forms : form[f].shown # None =>
    LET w == form[f].shown IN
    /\ w \in ledger
    /\ w.by = f
    /\ RequestOf(w).attempt = form[f].attempt
    /\ RequestOf(w).input \in {form[f].input, None}

(* The API never has to refuse a key for having been used otherwise: an    *)
(* edited retry is another write.                                          *)
KeysAreNeverReused ==
  \A f \in Forms : \A i \in DOMAIN request[f] : request[f][i].reply # "conflict"

(* A user who retries after a lost answer is not told that the record does *)
(* not allow what has in fact been done, as long as the record is there.   *)
NoRefusalAfterWrite ==
  [][\A f \in Forms : \A i \in DOMAIN request[f] :
       request[f][i].reply = None /\ request'[f][i].reply = "rejected" =>
         \A w \in ledger : w.by = f => ~SameSubmission(RequestOf(w), request[f][i])]_vars

(* A recruiter confirms the profile that the page shows. *)
ConfirmsWhatIsShown ==
  [][\A f \in Forms : Len(request'[f]) > Len(request[f]) =>
       (Last(request'[f]).op = "confirm" => Last(request'[f]).input = form[f].input)]_vars

=============================================================================
