------------------------- MODULE VerificationOutbox -------------------------
(***************************************************************************)
(* The Right-to-Work verification workflow: the transactional outbox, the  *)
(* worker loop (verification-worker.ts), and the transactions of           *)
(* verification.processor.ts.                                              *)
(*                                                                         *)
(* A request row and its outbox row are named by the same identity: the    *)
(* database allows one request per document version and one event per      *)
(* request.  Every transaction of the processor begins by locking the      *)
(* outbox row, so each is one atomic step here; what interleaves is the    *)
(* transactions, the calls to the verifier, the clock and the failures.    *)
(*                                                                         *)
(* Clocks are abstracted to what the claim function asks of them.  The     *)
(* state of an event says whether available_at is ahead ("delayed") or     *)
(* reached ("available"), and for a locked event whether locked_until is   *)
(* ahead ("leased") or reached ("lapsed"): time may pass at any moment.    *)
(***************************************************************************)
EXTENDS Integers, Sequences

CONSTANTS
  Workers,      \* worker processes
  WorkerIds,    \* the worker identifiers written to locked_by
  IdOf,         \* the identifier of each process: `local:${process.pid}`
  Requests,     \* requests that may be made
  MaxAttempts,  \* outbox_events.max_attempts
  None          \* SQL null

ASSUME WorkersAssumption == IdOf \in [Workers -> WorkerIds]
ASSUME MaxAttemptsAssumption == MaxAttempts \in Nat \ {0}

(***************************************************************************)
(* process.pid distinguishes the workers of one host, and nothing but      *)
(* chance the workers of several.  The results that need distinct          *)
(* identifiers say so.                                                     *)
(***************************************************************************)
UniqueIds == \A v, w \in Workers : IdOf[v] = IdOf[w] => v = w

Terminal == {"VERIFIED", "FAILED"}

ExhaustedCode == "MAX_ATTEMPTS_EXCEEDED"
RetryCode == "VERIFIER_UNAVAILABLE"
GenericCode == "VERIFICATION_FAILED"
ProviderCode == "PROVIDER_CODE"  \* any well-formed code of the provider

(* What verify() may do: return verified, return failed with a code that   *)
(* matches FAILURE_CODE_PATTERN or with one that does not, or throw.       *)
Verdicts == {"verified", "failed", "malformed"}
Answers == Verdicts \cup {"throws"}

SafeFailureCode(answer) == IF answer = "failed" THEN ProviderCode ELSE GenericCode

FailureCodes == {None, ExhaustedCode, GenericCode, ProviderCode}

ASSUME NoneAssumption ==
  None \notin WorkerIds \cup Requests \cup {ExhaustedCode, GenericCode, ProviderCode, RetryCode}

ErrorCodes == FailureCodes \cup {RetryCode}

VARIABLES
  request,  \* verification_requests: status, attemptCount, failureCode
  event,    \* outbox_events: state (see above), attempts, lockedBy, lastError
  worker,   \* each process: its pc and its local ClaimedEvent
  audit,    \* the audit actions recorded for each request, in order
  calls,    \* history: how often the verifier was invoked, per attempt number
  answers   \* history: what the verifier has returned for each request

vars == <<request, event, worker, audit, calls, answers>>

-----------------------------------------------------------------------------

RequestType == [status : {"ABSENT", "REQUESTED", "PENDING"} \cup Terminal,
                attemptCount : 0..MaxAttempts,
                failureCode : FailureCodes]

EventStates == {"absent", "delayed", "available", "leased", "lapsed", "processed"}

EventType == [state : EventStates, attempts : 0..MaxAttempts,
              lockedBy : WorkerIds \cup {None}, lastError : ErrorCodes]

(* A worker at "claimed" or "exhausted" holds a ClaimedEvent whose         *)
(* attempts_exhausted is false or true.                                    *)
Unclaimed == [pc : {"stopped", "idle"}, req : {None}, attempt : {0}, answer : {None}]
Claimed == [pc : {"claimed", "exhausted", "verifying"}, req : Requests,
            attempt : 1..MaxAttempts, answer : {None}]
Answered == [pc : {"answered"}, req : Requests, attempt : 1..MaxAttempts,
             answer : Answers]
WorkerType == Unclaimed \cup Claimed \cup Answered

AuditActions == {"request", "pending", "verified", "failed"}

TypeOK == /\ request \in [Requests -> RequestType]
          /\ event \in [Requests -> EventType]
          /\ worker \in [Workers -> WorkerType]
          /\ audit \in [Requests -> Seq(AuditActions)]
          /\ calls \in [Requests -> [1..MaxAttempts -> Nat]]
          /\ answers \in [Requests -> SUBSET Answers]

NoClaim(pc) == [pc |-> pc, req |-> None, attempt |-> 0, answer |-> None]

Init == /\ request = [r \in Requests |-> [status |-> "ABSENT", attemptCount |-> 0,
                                          failureCode |-> None]]
        /\ event = [r \in Requests |-> [state |-> "absent", attempts |-> 0,
                                        lockedBy |-> None, lastError |-> None]]
        /\ worker = [w \in Workers |-> NoClaim("stopped")]
        /\ audit = [r \in Requests |-> <<>>]
        /\ calls = [r \in Requests |-> [n \in 1..MaxAttempts |-> 0]]
        /\ answers = [r \in Requests |-> {}]

-----------------------------------------------------------------------------
(* The API and the clock. *)

Exists(r) == request[r].status # "ABSENT"

(* One transaction inserts the request, its event and the audit event.     *)
RequestRightToWorkVerification(r) ==
  /\ ~Exists(r)
  /\ request' = [request EXCEPT ![r].status = "REQUESTED"]
  /\ event' = [event EXCEPT ![r].state = "available"]
  /\ audit' = [audit EXCEPT ![r] = Append(@, "request")]
  /\ UNCHANGED <<worker, calls, answers>>

BecomesDue(r) == /\ event[r].state = "delayed"
                 /\ event' = [event EXCEPT ![r].state = "available"]
                 /\ UNCHANGED <<request, worker, audit, calls, answers>>

LeaseExpires(r) == /\ event[r].state = "leased"
                   /\ event' = [event EXCEPT ![r].state = "lapsed"]
                   /\ UNCHANGED <<request, worker, audit, calls, answers>>

-----------------------------------------------------------------------------
(* The worker process. *)

Drop(w) == worker' = [worker EXCEPT ![w] = NoClaim("idle")]

(* An operator introduced as "(bug)" is a defect this code could have had; *)
(* no definition uses it, and a property must be violated if it replaces   *)
(* the definition that follows.                                            *)

(* (bug) The claim does not look at processed_at. *)
ClaimableForever(r) == event[r].state \in {"available", "lapsed", "processed"}

(* (bug) An exhausted event is never claimed, so nobody closes it. *)
ClaimableWithAttemptsLeft(r) == /\ event[r].state \in {"available", "lapsed"}
                                /\ event[r].attempts < MaxAttempts

Claimable(r) == event[r].state \in {"available", "lapsed"}

Exhausted(r) == event[r].attempts >= MaxAttempts

(* (bug) LEAST(attempts + 1, max_attempts) without its bound. *)
NextAttemptUncapped(r) == event[r].attempts + 1

(* (bug) Taking over an expired lease does not count as an attempt. *)
NextAttemptOfFreshEvent(r) ==
  IF Exhausted(r) \/ (event[r].state = "lapsed" /\ event[r].attempts > 0)
  THEN event[r].attempts ELSE event[r].attempts + 1

NextAttempt(r) == IF Exhausted(r) THEN MaxAttempts ELSE event[r].attempts + 1

(* claim_next_verification_outbox_event: one UPDATE of one row.  Its        *)
(* ORDER BY compares timestamps of several clocks, so which claimable      *)
(* event it picks is left open.                                            *)
ClaimNextEvent(w, r) ==
  /\ worker[w].pc = "idle"
  /\ Claimable(r)
  /\ event' = [event EXCEPT ![r].state = "leased", ![r].attempts = NextAttempt(r),
                            ![r].lockedBy = IdOf[w]]
  /\ worker' = [worker EXCEPT ![w] = [pc |-> IF Exhausted(r) THEN "exhausted" ELSE "claimed",
                                      req |-> r, attempt |-> NextAttempt(r), answer |-> None]]
  /\ UNCHANGED <<request, audit, calls, answers>>

(* (bug) The guard does not compare locked_by. *)
OwnsOpenEvent(w) == event[worker[w].req].state # "processed"

(* The guard every processor transaction evaluates under the row lock.     *)
OwnsClaim(w) == LET e == event[worker[w].req]
                IN e.state # "processed" /\ e.lockedBy = IdOf[w]

Completed(w) == request[worker[w].req].status \in Terminal

(* (bug) The lock survives the event. *)
MarkProcessedStillLocked(r, code) ==
  event' = [event EXCEPT ![r].state = "processed", ![r].lastError = code]

MarkProcessed(r, code) ==
  event' = [event EXCEPT ![r].state = "processed", ![r].lockedBy = None,
                         ![r].lastError = code]

Record(r, actions) == audit' = [audit EXCEPT ![r] = @ \o actions]

(* (bug) Every attempt records that the request became PENDING. *)
PendingAuditAlways(r) == <<"pending">>

(* beginProcessing and failExhaustedClaim: entering PENDING is audited     *)
(* only for a request that was not yet PENDING.                            *)
PendingAudit(r) == IF request[r].status = "REQUESTED" THEN <<"pending">> ELSE <<>>

(* The terminal UPDATE of a request, as all three terminal paths write it. *)
Complete(r, attempt, status, code, actions) ==
  /\ request' = [request EXCEPT ![r] = [status |-> status, attemptCount |-> attempt,
                                        failureCode |-> code]]
  /\ Record(r, actions)
  /\ MarkProcessed(r, code)

(* A request found terminal is left alone, and its event is closed.        *)
AlreadyCompleted(r) == /\ MarkProcessed(r, event[r].lastError)
                       /\ UNCHANGED <<request, audit>>

LoseClaim(w) == /\ worker[w].pc \in {"claimed", "exhausted", "answered"}
                /\ ~OwnsClaim(w)
                /\ Drop(w)
                /\ UNCHANGED <<request, event, audit, calls, answers>>

BeginProcessing(w) ==
  LET c == worker[w] IN
  /\ c.pc = "claimed" /\ OwnsClaim(w)
  /\ IF Completed(w)
     THEN AlreadyCompleted(c.req) /\ Drop(w) /\ UNCHANGED calls
     ELSE /\ request' = [request EXCEPT ![c.req].status = "PENDING",
                                        ![c.req].attemptCount = c.attempt]
          /\ Record(c.req, PendingAudit(c.req))
          /\ worker' = [worker EXCEPT ![w].pc = "verifying"]
          /\ calls' = [calls EXCEPT ![c.req][c.attempt] = @ + 1]
          /\ UNCHANGED event
  /\ UNCHANGED answers

FailExhaustedClaim(w) ==
  LET c == worker[w] IN
  /\ c.pc = "exhausted" /\ OwnsClaim(w)
  /\ IF Completed(w)
     THEN AlreadyCompleted(c.req)
     ELSE Complete(c.req, c.attempt, "FAILED", ExhaustedCode,
                   Append(PendingAudit(c.req), "failed"))
  /\ Drop(w)
  /\ UNCHANGED <<calls, answers>>

VerifierAnswers(w, answer) ==
  /\ worker[w].pc = "verifying"
  /\ worker' = [worker EXCEPT ![w].pc = "answered", ![w].answer = answer]
  /\ answers' = [answers EXCEPT ![worker[w].req] = @ \cup {answer}]
  /\ UNCHANGED <<request, event, audit, calls>>

FinishProcessing(w) ==
  LET c == worker[w] IN
  /\ c.pc = "answered" /\ c.answer \in Verdicts /\ OwnsClaim(w)
  /\ IF Completed(w) THEN AlreadyCompleted(c.req)
     ELSE IF c.answer = "verified"
     THEN Complete(c.req, c.attempt, "VERIFIED", None, <<"verified">>)
     ELSE Complete(c.req, c.attempt, "FAILED", SafeFailureCode(c.answer), <<"failed">>)
  /\ Drop(w)
  /\ UNCHANGED <<calls, answers>>

(* (bug) One retry too few. *)
LastAttemptTooEarly(attempt) == attempt >= MaxAttempts - 1

LastAttempt(attempt) == attempt >= MaxAttempts

(* Unlike the other three, this transaction does not look at the status.   *)
HandleRetryableFailure(w) ==
  LET c == worker[w] IN
  /\ c.pc = "answered" /\ c.answer = "throws" /\ OwnsClaim(w)
  /\ IF LastAttempt(c.attempt)
     THEN Complete(c.req, c.attempt, "FAILED", ExhaustedCode, <<"failed">>)
     ELSE /\ request' = [request EXCEPT ![c.req].attemptCount = c.attempt]
          /\ event' = [event EXCEPT ![c.req].state = "delayed", ![c.req].lockedBy = None,
                                    ![c.req].lastError = RetryCode]
          /\ UNCHANGED audit
  /\ Drop(w)
  /\ UNCHANGED <<calls, answers>>

(* An error of the database or of the connection, before the step's        *)
(* transaction commits or after it: run() logs it and starts over, and the *)
(* local claim is gone.                                                    *)
IterationFails(w) == /\ worker[w].pc \notin {"stopped", "idle"}
                     /\ Drop(w)
                     /\ UNCHANGED <<request, event, audit, calls, answers>>

(* SIGTERM between iterations, or the death of the process at any moment.  *)
Stop(w) == /\ worker[w].pc # "stopped"
           /\ worker' = [worker EXCEPT ![w] = NoClaim("stopped")]
           /\ UNCHANGED <<request, event, audit, calls, answers>>

Start(w) == /\ worker[w].pc = "stopped"
            /\ Drop(w)
            /\ UNCHANGED <<request, event, audit, calls, answers>>

-----------------------------------------------------------------------------

(* What the worker loop does by itself. *)
Iterate(w) == \/ \E r \in Requests : ClaimNextEvent(w, r)
              \/ LoseClaim(w)
              \/ BeginProcessing(w)
              \/ FailExhaustedClaim(w)
              \/ FinishProcessing(w)
              \/ HandleRetryableFailure(w)

VerifierStep(w) == \E answer \in Answers : VerifierAnswers(w, answer)

Fault(w) == IterationFails(w) \/ Stop(w)

Next == \/ \E r \in Requests : \/ RequestRightToWorkVerification(r)
                               \/ BecomesDue(r)
                               \/ LeaseExpires(r)
        \/ \E w \in Workers : \/ Iterate(w)
                              \/ VerifierStep(w)
                              \/ Fault(w)
                              \/ Start(w)

Spec == Init /\ [][Next]_vars

-----------------------------------------------------------------------------
(* Fairness.  run() never leaves its loop while the process lives, the      *)
(* local verifier always answers, the operator restarts a stopped worker,  *)
(* and the clock advances.  Nothing can be promised if failures never end  *)
(* or if every lease is too short for the work done under it: eventually   *)
(* there is no fault, and no lease ends while its holder still works.      *)

EndsUnderHolder(r) == LeaseExpires(r) /\ \E w \in Workers : worker[w].req = r /\ OwnsClaim(w)

Disturbance == \/ \E w \in Workers : Fault(w)
               \/ \E r \in Requests : EndsUnderHolder(r)

Fairness == /\ \A w \in Workers : /\ WF_vars(Iterate(w))
                                  /\ WF_vars(VerifierStep(w))
                                  /\ WF_vars(Start(w))
            /\ \A r \in Requests : /\ WF_vars(BecomesDue(r))
                                   /\ WF_vars(LeaseExpires(r))

FairSpec == Spec /\ Fairness /\ <>[][~Disturbance]_vars

-----------------------------------------------------------------------------
(* Safety, whatever the worker identifiers.                                *)

(* The two rows tell one story: an event is processed exactly when its     *)
(* request is decided, with the same code, and then nobody holds it.       *)
OutboxAgreesWithRequest ==
  \A r \in Requests :
    /\ event[r].state = "processed" <=> request[r].status \in Terminal
    /\ event[r].state = "processed" => /\ event[r].lastError = request[r].failureCode
                                       /\ event[r].lockedBy = None

(* No attempt invokes the provider twice, whoever crashes and whichever    *)
(* lease expires; with attempts bounded by max_attempts, neither does an   *)
(* exhausted event.                                                        *)
VerifierCalledOncePerAttempt ==
  \A r \in Requests : \A n \in 1..MaxAttempts : calls[r][n] <= 1

(* MAX_ATTEMPTS_EXCEEDED is recorded only by the claim that used the last  *)
(* attempt or found none left.                                             *)
ExhaustionIsEarned ==
  \A r \in Requests : request[r].failureCode = ExhaustedCode =>
    event[r].attempts = MaxAttempts /\ request[r].attemptCount = MaxAttempts

(* The audit trail of a request is the path its status took: each          *)
(* transition is recorded once, in order, also when retries and exhausted  *)
(* claims take shortcuts.                                                  *)
AuditTrailOf(status) ==
  CASE status = "ABSENT"    -> <<>>
    [] status = "REQUESTED" -> <<"request">>
    [] status = "PENDING"   -> <<"request", "pending">>
    [] status = "VERIFIED"  -> <<"request", "pending", "verified">>
    [] status = "FAILED"    -> <<"request", "pending", "failed">>

AuditTrailMatchesStatus ==
  \A r \in Requests : audit[r] = AuditTrailOf(request[r].status)

(* A decided request and its processed event are never written again: not  *)
(* by a late answer, not by a retry, not by a worker that lost its claim.  *)
DecisionIsFinal ==
  [][\A r \in Requests : request[r].status \in Terminal =>
       /\ request'[r] = request[r]
       /\ event'[r] = event[r]
       /\ audit'[r] = audit[r]]_vars

-----------------------------------------------------------------------------
(* Safety that rests on distinct worker identifiers.                       *)

InTransit(w) == worker[w].pc \in {"claimed", "exhausted", "verifying", "answered"}

(* A worker in transit that passes the ownership guard works for the       *)
(* newest claim of its event, so that no two workers pass it.              *)
GuardFencesOldClaims ==
  UniqueIds => \A w \in Workers : InTransit(w) /\ OwnsClaim(w) =>
    /\ worker[w].attempt = event[worker[w].req].attempts
    /\ \A v \in Workers : InTransit(v) /\ OwnsClaim(v) /\ worker[v].req = worker[w].req
                          => v = w

(* The attempt that decided a request is the last one ever claimed for it. *)
DecidedByNewestClaim ==
  UniqueIds => \A r \in Requests : request[r].status \in Terminal =>
                 request[r].attemptCount = event[r].attempts

(* The attempt count the API shows never goes back, although every        *)
(* transaction overwrites it with the number its own claim remembers.      *)
AttemptCountNeverRegresses ==
  [][UniqueIds => \A r \in Requests :
       request'[r].attemptCount >= request[r].attemptCount]_vars

-----------------------------------------------------------------------------
(* Liveness, and the abstract specification this one implements.           *)

Promise == INSTANCE VerificationPromise WITH
             phase <- [r \in Requests |->
                         IF ~Exists(r) THEN "absent"
                         ELSE IF request[r].status \in Terminal
                              THEN request[r].status ELSE "open"],
             tries <- [r \in Requests |-> event[r].attempts],
             said <- answers

(* Every behaviour of the workflow is one of the promise, fairness         *)
(* included under FairSpec.                                                *)
ImplementsFairPromise == Promise!FairSpec

=============================================================================
