---------------------- MODULE VerificationOutboxProofs ----------------------
(***************************************************************************)
(* Theorems about VerificationOutbox, for every set of workers and         *)
(* requests and every number of attempts.                                  *)
(***************************************************************************)
EXTENDS VerificationOutbox, TLAPS

-----------------------------------------------------------------------------
(* Type correctness. *)

RowsOK == /\ request \in [Requests -> RequestType]
          /\ event \in [Requests -> EventType]
          /\ audit \in [Requests -> Seq(AuditActions)]

(* Closing an event, with the code of its request or its own. *)
LEMMA RecordType ==
  ASSUME TypeOK, NEW r \in Requests, NEW actions \in Seq(AuditActions), Record(r, actions)
  PROVE  audit' \in [Requests -> Seq(AuditActions)]
<1>1. audit[r] \o actions \in Seq(AuditActions)
  BY DEF TypeOK
<1> QED
  BY <1>1 DEF TypeOK, Record

LEMMA PendingType ==
  ASSUME TypeOK, NEW r \in Requests, NEW attempt \in 0..MaxAttempts,
         request' = [request EXCEPT ![r].status = "PENDING", ![r].attemptCount = attempt]
  PROVE  request' \in [Requests -> RequestType]
  BY DEF TypeOK, RequestType

LEMMA CountType ==
  ASSUME NEW f \in [1..MaxAttempts -> Nat], NEW n \in 1..MaxAttempts
  PROVE  [f EXCEPT ![n] = @ + 1] \in [1..MaxAttempts -> Nat]
<1>1. f[n] + 1 \in Nat
  OBVIOUS
<1> QED
  BY <1>1

LEMMA CallsType ==
  ASSUME TypeOK, NEW r \in Requests, NEW n \in 1..MaxAttempts,
         calls' = [calls EXCEPT ![r][n] = @ + 1]
  PROVE  calls' \in [Requests -> [1..MaxAttempts -> Nat]]
<1>1. calls[r] \in [1..MaxAttempts -> Nat]
  BY DEF TypeOK
<1>2. [calls[r] EXCEPT ![n] = @ + 1] \in [1..MaxAttempts -> Nat]
  BY <1>1, CountType
<1> QED
  BY <1>2 DEF TypeOK

(* The writes to the columns of an event, one at a time. *)
LEMMA ColumnTypes ==
  ASSUME NEW f \in [Requests -> EventType], NEW r
  PROVE  /\ \A s \in EventStates : [f EXCEPT ![r].state = s] \in [Requests -> EventType]
         /\ \A n \in 0..MaxAttempts : [f EXCEPT ![r].attempts = n] \in [Requests -> EventType]
         /\ \A l \in WorkerIds \cup {None} :
              [f EXCEPT ![r].lockedBy = l] \in [Requests -> EventType]
         /\ \A e \in ErrorCodes : [f EXCEPT ![r].lastError = e] \in [Requests -> EventType]
<1>1. \A s \in EventStates : [f EXCEPT ![r].state = s] \in [Requests -> EventType]
  BY DEF EventType
<1>2. \A n \in 0..MaxAttempts : [f EXCEPT ![r].attempts = n] \in [Requests -> EventType]
  BY DEF EventType
<1>3. \A l \in WorkerIds \cup {None} :
        [f EXCEPT ![r].lockedBy = l] \in [Requests -> EventType]
  BY DEF EventType
<1>4. \A e \in ErrorCodes : [f EXCEPT ![r].lastError = e] \in [Requests -> EventType]
  BY DEF EventType
<1> QED
  BY <1>1, <1>2, <1>3, <1>4

LEMMA CloseType ==
  ASSUME NEW f \in [Requests -> EventType], NEW r, NEW s \in EventStates,
         NEW l \in WorkerIds \cup {None}, NEW e \in ErrorCodes
  PROVE  [f EXCEPT ![r].state = s, ![r].lockedBy = l, ![r].lastError = e]
           \in [Requests -> EventType]
<1>1. PICK g \in [Requests -> EventType] : g = [f EXCEPT ![r].state = s]
  BY ColumnTypes
<1>2. PICK h \in [Requests -> EventType] : h = [g EXCEPT ![r].lockedBy = l]
  BY ColumnTypes
<1>3. [h EXCEPT ![r].lastError = e] \in [Requests -> EventType]
  BY ColumnTypes
<1> QED
  BY <1>1, <1>2, <1>3

LEMMA LeaseType ==
  ASSUME NEW f \in [Requests -> EventType], NEW r, NEW s \in EventStates,
         NEW n \in 0..MaxAttempts, NEW l \in WorkerIds \cup {None}
  PROVE  [f EXCEPT ![r].state = s, ![r].attempts = n, ![r].lockedBy = l]
           \in [Requests -> EventType]
<1>1. PICK g \in [Requests -> EventType] : g = [f EXCEPT ![r].state = s]
  BY ColumnTypes
<1>2. PICK h \in [Requests -> EventType] : h = [g EXCEPT ![r].attempts = n]
  BY ColumnTypes
<1>3. [h EXCEPT ![r].lockedBy = l] \in [Requests -> EventType]
  BY ColumnTypes
<1> QED
  BY <1>1, <1>2, <1>3

LEMMA MarkProcessedType ==
  ASSUME TypeOK, NEW r, NEW code \in ErrorCodes, MarkProcessed(r, code)
  PROVE  event' \in [Requests -> EventType]
  BY CloseType DEF TypeOK, MarkProcessed, EventStates

LEMMA AlreadyCompletedType ==
  ASSUME TypeOK, NEW r \in Requests, AlreadyCompleted(r)
  PROVE  RowsOK'
<1>1. event[r].lastError \in ErrorCodes
  BY DEF TypeOK, EventType
<1>2. event' \in [Requests -> EventType]
  BY <1>1, MarkProcessedType DEF AlreadyCompleted
<1> QED
  BY <1>2 DEF AlreadyCompleted, RowsOK, TypeOK

LEMMA CompleteType ==
  ASSUME TypeOK, NEW r \in Requests, NEW attempt \in 0..MaxAttempts,
         NEW status \in Terminal, NEW code \in FailureCodes,
         NEW actions \in Seq(AuditActions),
         Complete(r, attempt, status, code, actions)
  PROVE  RowsOK'
<1>1. event' \in [Requests -> EventType]
  BY MarkProcessedType DEF Complete, ErrorCodes
<1>2. request' \in [Requests -> RequestType]
  BY DEF Complete, TypeOK, RequestType
<1>3. audit' \in [Requests -> Seq(AuditActions)]
  BY RecordType DEF Complete
<1> QED
  BY <1>1, <1>2, <1>3 DEF RowsOK

LEMMA DropType ==
  ASSUME TypeOK, NEW w \in Workers, Drop(w)
  PROVE  worker' \in [Workers -> WorkerType]
  BY DEF TypeOK, Drop, NoClaim, WorkerType, Unclaimed

(* A worker between its claim and the end of its iteration works for a     *)
(* request, with an attempt number.                                        *)
LEMMA ClaimType ==
  ASSUME TypeOK, NEW w \in Workers, InTransit(w)
  PROVE  /\ worker[w].req \in Requests
         /\ worker[w].attempt \in 1..MaxAttempts
         /\ worker[w].attempt \in 0..MaxAttempts
         /\ worker[w].pc = "answered" => worker[w].answer \in Answers
         /\ worker[w].pc # "answered" => worker[w] \in Claimed
<1>1. worker[w] \in Claimed \cup Answered
  BY DEF TypeOK, InTransit, WorkerType, Unclaimed
<1>2. worker[w].req \in Requests /\ worker[w].attempt \in 1..MaxAttempts
  BY <1>1 DEF Claimed, Answered
<1> QED
  BY <1>1, <1>2, MaxAttemptsAssumption DEF Claimed, Answered

LEMMA PendingAuditType ==
  ASSUME NEW r
  PROVE  PendingAudit(r) \in Seq(AuditActions)
<1>1. "pending" \in AuditActions
  BY DEF AuditActions
<1>2. <<"pending">> \in Seq(AuditActions) /\ <<>> \in Seq(AuditActions)
  BY <1>1
<1> QED
  BY <1>2, Zenon DEF PendingAudit

LEMMA TypingInit == Init => TypeOK
<1> SUFFICES ASSUME Init
             PROVE  TypeOK
  OBVIOUS
<1>1. request \in [Requests -> RequestType]
  BY MaxAttemptsAssumption DEF Init, RequestType, FailureCodes
<1>2. event \in [Requests -> EventType]
  BY MaxAttemptsAssumption DEF Init, EventType, EventStates, FailureCodes, ErrorCodes
<1>3. worker \in [Workers -> WorkerType]
  BY DEF Init, NoClaim, WorkerType, Unclaimed
<1>4. audit \in [Requests -> Seq(AuditActions)]
  BY DEF Init
<1> QED
  BY <1>1, <1>2, <1>3, <1>4 DEF Init, TypeOK

LEMMA TypingStep == TypeOK /\ [Next]_vars => TypeOK'
<1>2. ASSUME TypeOK, NEW r \in Requests, RequestRightToWorkVerification(r)
      PROVE TypeOK'
  <2>1. request' \in [Requests -> RequestType]
    BY <1>2 DEF TypeOK, RequestRightToWorkVerification, RequestType
  <2>2. event' \in [Requests -> EventType]
    BY <1>2 DEF TypeOK, RequestRightToWorkVerification, EventType, EventStates
  <2>3. audit' \in [Requests -> Seq(AuditActions)]
    BY <1>2 DEF TypeOK, RequestRightToWorkVerification, AuditActions
  <2> QED
    BY <1>2, <2>1, <2>2, <2>3 DEF TypeOK, RequestRightToWorkVerification
<1>3. ASSUME TypeOK, NEW r \in Requests, BecomesDue(r) \/ LeaseExpires(r)
      PROVE TypeOK'
  <2>1. CASE BecomesDue(r)
    <3>1. event' \in [Requests -> EventType]
      BY <1>3, <2>1 DEF TypeOK, BecomesDue, EventType, EventStates
    <3> QED
      BY <1>3, <2>1, <3>1 DEF TypeOK, BecomesDue
  <2>2. CASE LeaseExpires(r)
    <3>1. event' \in [Requests -> EventType]
      BY <1>3, <2>2 DEF TypeOK, LeaseExpires, EventType, EventStates
    <3> QED
      BY <1>3, <2>2, <3>1 DEF TypeOK, LeaseExpires
  <2> QED
    BY <1>3, <2>1, <2>2
<1>4. ASSUME TypeOK, NEW w \in Workers, NEW r \in Requests, ClaimNextEvent(w, r)
      PROVE TypeOK'
  <2>a. event[r].attempts \in 0..MaxAttempts
    BY <1>4 DEF TypeOK, EventType
  <2>b. NextAttempt(r) \in 0..MaxAttempts /\ NextAttempt(r) \in 1..MaxAttempts
    BY <2>a, MaxAttemptsAssumption DEF NextAttempt, Exhausted
  <2>c. event' = [event EXCEPT ![r].state = "leased", ![r].attempts = NextAttempt(r),
                               ![r].lockedBy = IdOf[w]]
    BY <1>4 DEF ClaimNextEvent
  <2>d. IdOf[w] \in WorkerIds
    BY WorkersAssumption
  <2>1. event' \in [Requests -> EventType]
    BY <1>4, <2>b, <2>c, <2>d, LeaseType DEF TypeOK, EventStates
  <2>2. worker' \in [Workers -> WorkerType]
    BY <1>4, <2>b DEF TypeOK, ClaimNextEvent, WorkerType, Claimed
  <2> QED
    BY <1>4, <2>1, <2>2 DEF TypeOK, ClaimNextEvent
<1>5. ASSUME TypeOK, NEW w \in Workers, LoseClaim(w) \/ IterationFails(w) \/ Stop(w) \/ Start(w)
      PROVE TypeOK'
  <2>1. worker' \in [Workers -> WorkerType]
    BY <1>5 DEF TypeOK, LoseClaim, IterationFails, Stop, Start, Drop, NoClaim,
                  WorkerType, Unclaimed
  <2> QED
    BY <1>5, <2>1 DEF TypeOK, LoseClaim, IterationFails, Stop, Start
<1>6. ASSUME TypeOK, NEW w \in Workers, BeginProcessing(w)
      PROVE TypeOK'
  <2> DEFINE c == worker[w]
  <2>1. /\ c.req \in Requests /\ c \in Claimed
        /\ c.attempt \in 1..MaxAttempts /\ c.attempt \in 0..MaxAttempts
    BY <1>6, ClaimType DEF BeginProcessing, InTransit
  <2>2. CASE Completed(w)
    <3>1. AlreadyCompleted(c.req) /\ Drop(w) /\ UNCHANGED <<calls, answers>>
      BY <1>6, <2>2 DEF BeginProcessing
    <3> QED
      BY <1>6, <2>1, <3>1, AlreadyCompletedType, DropType DEF TypeOK, RowsOK
  <2>3. CASE ~Completed(w)
    <3>1. /\ request' = [request EXCEPT ![c.req].status = "PENDING",
                                        ![c.req].attemptCount = c.attempt]
          /\ Record(c.req, PendingAudit(c.req))
          /\ worker' = [worker EXCEPT ![w].pc = "verifying"]
          /\ calls' = [calls EXCEPT ![c.req][c.attempt] = @ + 1]
          /\ UNCHANGED <<event, answers>>
      BY <1>6, <2>3 DEF BeginProcessing
    <3>2. request' \in [Requests -> RequestType]
      BY <1>6, <2>1, <3>1, PendingType
    <3>3. audit' \in [Requests -> Seq(AuditActions)]
      BY <1>6, <2>1, <3>1, PendingAuditType, RecordType
    <3>4. worker' \in [Workers -> WorkerType]
      BY <1>6, <2>1, <3>1 DEF TypeOK, WorkerType, Claimed
    <3>5. calls' \in [Requests -> [1..MaxAttempts -> Nat]]
      BY <1>6, <2>1, <3>1, CallsType
    <3> QED
      BY <1>6, <3>1, <3>2, <3>3, <3>4, <3>5 DEF TypeOK
  <2> QED
    BY <2>2, <2>3
<1>7. ASSUME TypeOK, NEW w \in Workers, FailExhaustedClaim(w)
      PROVE TypeOK'
  <2> DEFINE c == worker[w]
  <2>1. UNCHANGED <<calls, answers>> /\ worker' \in [Workers -> WorkerType]
    BY <1>7, DropType DEF FailExhaustedClaim
  <2>2. c.req \in Requests /\ c.attempt \in 0..MaxAttempts
    BY <1>7, ClaimType DEF FailExhaustedClaim, InTransit
  <2>3. Append(PendingAudit(c.req), "failed") \in Seq(AuditActions)
    BY PendingAuditType DEF AuditActions
  <2>4. RowsOK'
    <3>1. CASE Completed(w)
      BY <1>7, <2>2, <3>1, AlreadyCompletedType DEF FailExhaustedClaim
    <3>2. CASE ~Completed(w)
      <4>1. Complete(c.req, c.attempt, "FAILED", ExhaustedCode,
                     Append(PendingAudit(c.req), "failed"))
        BY <1>7, <3>2 DEF FailExhaustedClaim
      <4>2. "FAILED" \in Terminal /\ ExhaustedCode \in FailureCodes
        BY DEF Terminal, FailureCodes
      <4> QED
        BY <1>7, <2>2, <2>3, <4>1, <4>2, CompleteType
    <3> QED
      BY <3>1, <3>2
  <2> QED
    BY <1>7, <2>1, <2>4 DEF TypeOK, RowsOK
<1>8. ASSUME TypeOK, NEW w \in Workers, NEW answer \in Answers, VerifierAnswers(w, answer)
      PROVE TypeOK'
  <2>1. worker[w] \in Claimed
    BY <1>8, ClaimType DEF VerifierAnswers, InTransit
  <2>2. worker' \in [Workers -> WorkerType]
    BY <1>8, <2>1 DEF TypeOK, VerifierAnswers, WorkerType, Claimed, Answered
  <2>3. answers' \in [Requests -> SUBSET Answers]
    BY <1>8 DEF TypeOK, VerifierAnswers
  <2> QED
    BY <1>8, <2>2, <2>3 DEF TypeOK, VerifierAnswers
<1>9. ASSUME TypeOK, NEW w \in Workers, FinishProcessing(w)
      PROVE TypeOK'
  <2> DEFINE c == worker[w]
  <2>1. UNCHANGED <<calls, answers>> /\ worker' \in [Workers -> WorkerType]
    BY <1>9, DropType DEF FinishProcessing
  <2>2. c.req \in Requests /\ c.attempt \in 0..MaxAttempts
    BY <1>9, ClaimType DEF FinishProcessing, InTransit
  <2>3. <<"verified">> \in Seq(AuditActions) /\ <<"failed">> \in Seq(AuditActions)
    BY DEF AuditActions
  <2>4. SafeFailureCode(c.answer) \in FailureCodes
    BY DEF SafeFailureCode, FailureCodes
  <2>5. RowsOK'
    <3>1. CASE Completed(w)
      BY <1>9, <2>2, <3>1, AlreadyCompletedType DEF FinishProcessing
    <3>2. CASE ~Completed(w)
      <4>1. \/ Complete(c.req, c.attempt, "VERIFIED", None, <<"verified">>)
            \/ Complete(c.req, c.attempt, "FAILED", SafeFailureCode(c.answer), <<"failed">>)
        BY <1>9, <3>2 DEF FinishProcessing
      <4>2. "VERIFIED" \in Terminal /\ "FAILED" \in Terminal /\ None \in FailureCodes
        BY DEF Terminal, FailureCodes
      <4> QED
        BY <1>9, <2>2, <2>3, <2>4, <4>1, <4>2, CompleteType
    <3> QED
      BY <3>1, <3>2
  <2> QED
    BY <1>9, <2>1, <2>5 DEF TypeOK, RowsOK
<1>10. ASSUME TypeOK, NEW w \in Workers, HandleRetryableFailure(w)
      PROVE TypeOK'
  <2> DEFINE c == worker[w]
  <2>1. UNCHANGED <<calls, answers>> /\ worker' \in [Workers -> WorkerType]
    BY <1>10, DropType DEF HandleRetryableFailure
  <2>2. c.req \in Requests /\ c.attempt \in 0..MaxAttempts
    BY <1>10, ClaimType DEF HandleRetryableFailure, InTransit
  <2>3. <<"failed">> \in Seq(AuditActions)
    BY DEF AuditActions
  <2>4. CASE LastAttempt(c.attempt)
    <3>1. Complete(c.req, c.attempt, "FAILED", ExhaustedCode, <<"failed">>)
      BY <1>10, <2>4 DEF HandleRetryableFailure
    <3>2. RowsOK'
      <4>1. "FAILED" \in Terminal /\ ExhaustedCode \in FailureCodes
        BY DEF Terminal, FailureCodes
      <4> QED
        BY <1>10, <2>2, <2>3, <3>1, <4>1, CompleteType
    <3> QED
      BY <1>10, <2>1, <3>2 DEF TypeOK, RowsOK
  <2>5. CASE ~LastAttempt(c.attempt)
    <3>1. /\ request' = [request EXCEPT ![c.req].attemptCount = c.attempt]
          /\ event' = [event EXCEPT ![c.req].state = "delayed", ![c.req].lockedBy = None,
                                    ![c.req].lastError = RetryCode]
          /\ UNCHANGED audit
      BY <1>10, <2>5 DEF HandleRetryableFailure
    <3>2. request' \in [Requests -> RequestType]
      BY <1>10, <2>2, <3>1 DEF TypeOK, RequestType
    <3>3. event' \in [Requests -> EventType]
      <4>1. RetryCode \in ErrorCodes
        BY DEF ErrorCodes
      <4> QED
        BY <1>10, <3>1, <4>1, CloseType DEF TypeOK, EventStates
    <3> QED
      BY <1>10, <2>1, <3>1, <3>2, <3>3 DEF TypeOK
  <2> QED
    BY <2>4, <2>5
<1>11. ASSUME TypeOK, UNCHANGED vars
       PROVE TypeOK'
  BY <1>11 DEF vars, TypeOK
<1> QED
  BY <1>2, <1>3, <1>4, <1>5, <1>6, <1>7, <1>8, <1>9, <1>10, <1>11
     DEF Next, Iterate, VerifierStep, Fault

(* Every transaction, failure and clock step keeps the rows, the workers'  *)
(* local claims and the histories in their types; in particular attempts   *)
(* stays within max_attempts, as the database's CHECK demands.             *)
THEOREM Typing == Spec => []TypeOK
  BY TypingInit, TypingStep, PTL DEF Spec

-----------------------------------------------------------------------------
(* The inductive invariant.  A remembered claim outlives its lease and     *)
(* even the decision of its request, so its attempt number is only bounded *)
(* by the one of the event; and nobody works for a request that has not    *)
(* left REQUESTED.                                                         *)

RowOK(r) ==
  /\ event[r].state = "absent" <=> ~Exists(r)
  /\ event[r].state = "processed" <=> request[r].status \in Terminal
  /\ event[r].state = "processed" => /\ event[r].lastError = request[r].failureCode
                                     /\ event[r].lockedBy = None
  /\ request[r].status # "FAILED" => request[r].failureCode = None
  /\ request[r].attemptCount <= event[r].attempts
  /\ request[r].failureCode = ExhaustedCode =>
       event[r].attempts = MaxAttempts /\ request[r].attemptCount = MaxAttempts

ClaimOK(w) ==
  InTransit(w) =>
    /\ Exists(worker[w].req)
    /\ worker[w].attempt <= event[worker[w].req].attempts
    /\ worker[w].pc = "exhausted" => worker[w].attempt = MaxAttempts
    /\ worker[w].pc \in {"verifying", "answered"} =>
         request[worker[w].req].status # "REQUESTED"

(* With distinct identifiers the guard of the transactions is a fence: a   *)
(* worker that passes it works for the newest attempt of its event, and a  *)
(* decision is taken at the newest attempt.                                *)
FenceOK(w) == InTransit(w) /\ OwnsClaim(w) =>
                worker[w].attempt = event[worker[w].req].attempts

DecisionOK(r) == request[r].status \in Terminal =>
                   request[r].attemptCount = event[r].attempts

RowsOKInv == \A r \in Requests : RowOK(r)
ClaimsOKInv == \A w \in Workers : ClaimOK(w)
FenceInv == UniqueIds => /\ \A w \in Workers : FenceOK(w)
                         /\ \A r \in Requests : DecisionOK(r)

IInv == TypeOK /\ RowsOKInv /\ ClaimsOKInv /\ FenceInv

(* What a step may do to a row that claims refer to. *)
Advances(q) ==
  /\ event[q].attempts <= event'[q].attempts
  /\ Exists(q) => Exists(q)'
  /\ request[q].status \notin {"ABSENT", "REQUESTED"} => request'[q].status # "REQUESTED"

(* Ownership that a step leaves to a worker was there before, for the same *)
(* attempt.                                                                *)
NoNewOwner(v) ==
  LET r == worker[v].req
  IN OwnsClaim(v)' => OwnsClaim(v) /\ event'[r].attempts = event[r].attempts

LEMMA ClaimOKKept ==
  ASSUME TypeOK, TypeOK', NEW v \in Workers, ClaimOK(v),
         InTransit(v) => Advances(worker[v].req), worker'[v] = worker[v]
  PROVE  ClaimOK(v)'
<1> SUFFICES ASSUME InTransit(v)
             PROVE  ClaimOK(v)'
  BY DEF ClaimOK, InTransit
<1>1. /\ worker[v].req \in Requests
      /\ worker[v].attempt \in 0..MaxAttempts
  BY ClaimType
<1> DEFINE r == worker[v].req
<1>2. /\ event[r].attempts \in Int /\ event'[r].attempts \in Int
      /\ request[r].status # "ABSENT"
      /\ worker[v].attempt \in Int /\ worker[v].attempt <= event[r].attempts
  BY <1>1 DEF TypeOK, EventType, ClaimOK, Exists
<1>3. /\ event[r].attempts <= event'[r].attempts
      /\ Exists(r)'
      /\ request[r].status \notin {"ABSENT", "REQUESTED"} => request'[r].status # "REQUESTED"
  BY <1>1, <1>2 DEF Advances, Exists
<1>4. worker[v].attempt <= event'[r].attempts
  BY <1>2, <1>3
<1> QED
  BY <1>2, <1>3, <1>4 DEF ClaimOK, InTransit

LEMMA FenceOKKept ==
  ASSUME NEW v \in Workers, FenceOK(v), NoNewOwner(v), worker'[v] = worker[v]
  PROVE  FenceOK(v)'
  BY DEF FenceOK, NoNewOwner, InTransit, OwnsClaim

(* A worker that is not in transit has no claim to speak of. *)
LEMMA NotInTransit ==
  ASSUME NEW v \in Workers, worker'[v].pc \in {"stopped", "idle"}
  PROVE  ClaimOK(v)' /\ FenceOK(v)'
  BY DEF ClaimOK, FenceOK, InTransit

LEMMA RowFrame ==
  ASSUME NEW q \in Requests, request'[q] = request[q], event'[q] = event[q]
  PROVE  /\ RowOK(q) => RowOK(q)'
         /\ DecisionOK(q) => DecisionOK(q)'
  BY DEF RowOK, DecisionOK, Exists

LEMMA SameRowAdvances ==
  ASSUME TypeOK, NEW q \in Requests, request'[q] = request[q], event'[q] = event[q]
  PROVE  Advances(q)
<1>1. event[q].attempts \in Int
  BY DEF TypeOK, EventType
<1> QED
  BY <1>1 DEF Advances, Exists

LEMMA DropEffect ==
  ASSUME TypeOK, NEW w \in Workers, Drop(w)
  PROVE  /\ worker'[w].pc = "idle"
         /\ \A v \in Workers \ {w} : worker'[v] = worker[v]
  BY DEF TypeOK, Drop, NoClaim

LEMMA CompleteEffect ==
  ASSUME TypeOK, NEW r \in Requests, NEW attempt, NEW status, NEW code, NEW actions,
         Complete(r, attempt, status, code, actions)
  PROVE  /\ request'[r].status = status
         /\ request'[r].attemptCount = attempt
         /\ request'[r].failureCode = code
         /\ event'[r].state = "processed"
         /\ event'[r].lockedBy = None
         /\ event'[r].lastError = code
         /\ event'[r].attempts = event[r].attempts
         /\ \A q \in Requests \ {r} : request'[q] = request[q] /\ event'[q] = event[q]
<1>1. request' = [request EXCEPT ![r] = [status |-> status, attemptCount |-> attempt,
                                         failureCode |-> code]]
  BY DEF Complete
<1>2. event' = [event EXCEPT ![r].state = "processed", ![r].lockedBy = None,
                             ![r].lastError = code]
  BY DEF Complete, MarkProcessed
<1>3. /\ request'[r].status = status
      /\ request'[r].attemptCount = attempt
      /\ request'[r].failureCode = code
      /\ \A q \in Requests \ {r} : request'[q] = request[q]
  BY <1>1 DEF TypeOK
<1>4. /\ event'[r].state = "processed"
      /\ event'[r].lockedBy = None
      /\ event'[r].lastError = code
      /\ event'[r].attempts = event[r].attempts
      /\ \A q \in Requests \ {r} : event'[q] = event[q]
  BY <1>2 DEF TypeOK, EventType
<1> QED
  BY <1>3, <1>4

(* What is left to show of a step: the rows R and the workers S it writes, *)
(* and what the other workers may conclude about the rows R.               *)
LEMMA FrameStep ==
  ASSUME IInv, TypeOK', NEW R \in SUBSET Requests, NEW S \in SUBSET Workers,
         \A q \in Requests \ R : request'[q] = request[q] /\ event'[q] = event[q],
         \A v \in Workers \ S : worker'[v] = worker[v],
         \A r \in R : RowOK(r)' /\ Advances(r),
         \A w \in S : ClaimOK(w)',
         UniqueIds => /\ \A r \in R : DecisionOK(r)'
                      /\ \A w \in S : FenceOK(w)'
                      /\ \A v \in Workers \ S : InTransit(v) /\ worker[v].req \in R => NoNewOwner(v)
  PROVE  IInv'
<1>1. RowsOKInv'
  BY RowFrame DEF IInv, RowsOKInv
<1>2. ASSUME NEW v \in Workers
      PROVE  ClaimOK(v)'
  <2>1. ASSUME v \notin S, InTransit(v)
        PROVE  Advances(worker[v].req)
    <3> DEFINE q == worker[v].req
    <3>1. q \in Requests
      BY <2>1, ClaimType DEF IInv
    <3>2. CASE q \notin R
      BY <3>1, <3>2, SameRowAdvances DEF IInv
    <3> QED
      BY <3>1, <3>2
  <2> QED
    BY <1>2, <2>1, ClaimOKKept DEF IInv, ClaimsOKInv
<1>3. ASSUME UniqueIds, NEW v \in Workers
      PROVE  FenceOK(v)'
  <2>1. CASE v \notin S /\ InTransit(v)
    <3>1. worker[v].req \in Requests /\ worker'[v] = worker[v] /\ FenceOK(v)
      BY <1>3, <2>1, ClaimType DEF IInv, FenceInv
    <3>2. NoNewOwner(v)
      BY <1>3, <2>1, <3>1 DEF NoNewOwner, OwnsClaim
    <3> QED
      BY <3>1, <3>2, FenceOKKept
  <2>2. CASE v \notin S /\ ~InTransit(v)
    BY <1>3, <2>2 DEF FenceOK, InTransit
  <2> QED
    BY <1>3, <2>1, <2>2
<1>4. ASSUME UniqueIds, NEW q \in Requests
      PROVE  DecisionOK(q)'
  BY <1>4, RowFrame DEF IInv, FenceInv
<1> QED
  BY <1>1, <1>2, <1>3, <1>4 DEF IInv, ClaimsOKInv, FenceInv, UniqueIds

(* The same for a step that writes one row and one worker. *)
LEMMA OneFrameStep ==
  ASSUME IInv, TypeOK', NEW r \in Requests, NEW w \in Workers,
         \A q \in Requests \ {r} : request'[q] = request[q] /\ event'[q] = event[q],
         \A v \in Workers \ {w} : worker'[v] = worker[v],
         RowOK(r)', Advances(r), ClaimOK(w)',
         UniqueIds => /\ DecisionOK(r)' /\ FenceOK(w)'
                      /\ \A v \in Workers \ {w} : InTransit(v) /\ worker[v].req = r => NoNewOwner(v)
  PROVE  IInv'
<1> DEFINE R == {r}
           S == {w}
<1>1. /\ R \in SUBSET Requests /\ S \in SUBSET Workers
      /\ \A q \in Requests \ R : request'[q] = request[q] /\ event'[q] = event[q]
      /\ \A v \in Workers \ S : worker'[v] = worker[v]
      /\ \A q \in R : RowOK(q)' /\ Advances(q)
      /\ \A v \in S : ClaimOK(v)'
  BY Zenon
<1>2. UniqueIds => /\ \A q \in R : DecisionOK(q)'
                   /\ \A v \in S : FenceOK(v)'
                   /\ \A v \in Workers \ S : InTransit(v) /\ worker[v].req \in R => NoNewOwner(v)
  BY Zenon
<1> HIDE DEF R, S
<1> QED
  BY <1>1, <1>2, FrameStep

LEMMA OneRowStep ==
  ASSUME IInv, TypeOK', NEW r \in Requests, UNCHANGED worker,
         \A q \in Requests \ {r} : request'[q] = request[q] /\ event'[q] = event[q],
         RowOK(r)', Advances(r),
         UniqueIds => /\ DecisionOK(r)'
                      /\ \A v \in Workers : InTransit(v) /\ worker[v].req = r => NoNewOwner(v)
  PROVE  IInv'
<1> DEFINE R == {r}
<1>1. /\ R \in SUBSET Requests /\ {} \in SUBSET Workers
      /\ \A q \in Requests \ R : request'[q] = request[q] /\ event'[q] = event[q]
      /\ \A v \in Workers \ {} : worker'[v] = worker[v]
      /\ \A q \in R : RowOK(q)' /\ Advances(q)
  BY Zenon
<1>2. UniqueIds => /\ \A q \in R : DecisionOK(q)'
                   /\ \A v \in Workers \ {} : InTransit(v) /\ worker[v].req \in R => NoNewOwner(v)
  BY Zenon
<1> HIDE DEF R
<1> QED
  BY <1>1, <1>2, FrameStep

LEMMA OneWorkerStep ==
  ASSUME IInv, TypeOK', NEW w \in Workers, UNCHANGED <<request, event>>,
         \A v \in Workers \ {w} : worker'[v] = worker[v],
         ClaimOK(w)', UniqueIds => FenceOK(w)'
  PROVE  IInv'
<1> DEFINE S == {w}
<1>1. /\ {} \in SUBSET Requests /\ S \in SUBSET Workers
      /\ \A q \in Requests \ {} : request'[q] = request[q] /\ event'[q] = event[q]
      /\ \A v \in Workers \ S : worker'[v] = worker[v]
      /\ \A v \in S : ClaimOK(v)' /\ (UniqueIds => FenceOK(v)')
  BY Zenon
<1> HIDE DEF S
<1> QED
  BY <1>1, FrameStep

(* The processed mark and the decision are written together, so that a     *)
(* worker that passes the ownership guard never finds its request decided. *)
LEMMA OwnedIsOpen ==
  ASSUME IInv, NEW w \in Workers, InTransit(w), OwnsClaim(w)
  PROVE  ~Completed(w)
  BY ClaimType DEF IInv, RowsOKInv, RowOK, OwnsClaim, Completed

(* The decision of a request by the worker that owns its claim. *)
LEMMA CompleteStep ==
  ASSUME IInv, TypeOK',
         NEW w \in Workers, InTransit(w), OwnsClaim(w), Drop(w),
         NEW r, r = worker[w].req, NEW n, n = worker[w].attempt,
         NEW status \in Terminal, NEW code \in FailureCodes, NEW actions,
         status = "VERIFIED" => code = None,
         code = ExhaustedCode => n = MaxAttempts,
         Complete(r, n, status, code, actions)
  PROVE  IInv'
<1>1. r \in Requests /\ n \in 0..MaxAttempts
  BY ClaimType DEF IInv
<1>2. /\ request'[r].status = status
      /\ request'[r].attemptCount = n
      /\ request'[r].failureCode = code
      /\ event'[r].state = "processed"
      /\ event'[r].lockedBy = None
      /\ event'[r].lastError = code
      /\ event'[r].attempts = event[r].attempts
      /\ \A q \in Requests \ {r} : request'[q] = request[q] /\ event'[q] = event[q]
  BY <1>1, CompleteEffect DEF IInv
<1>3. n <= event[r].attempts /\ event[r].attempts \in 0..MaxAttempts
  BY <1>1 DEF IInv, ClaimsOKInv, ClaimOK, TypeOK, EventType
<1>4. RowOK(r)'
  <2>1. code = ExhaustedCode => event[r].attempts = MaxAttempts /\ n = MaxAttempts
    BY <1>1, <1>3, MaxAttemptsAssumption
  <2>2. status # "FAILED" => code = None
    BY DEF Terminal
  <2> QED
    BY <1>2, <1>3, <2>1, <2>2 DEF RowOK, Exists, Terminal
<1>5. Advances(r)
  BY <1>2, <1>3 DEF Advances, Exists, Terminal
<1>6. /\ ClaimOK(w)' /\ FenceOK(w)'
      /\ \A v \in Workers \ {w} : worker'[v] = worker[v]
  BY DropEffect, NotInTransit DEF IInv
<1>7. ASSUME UniqueIds
      PROVE  DecisionOK(r)'
  <2>1. n = event[r].attempts
    BY <1>7 DEF IInv, FenceInv, FenceOK
  <2> QED
    BY <1>2, <2>1 DEF DecisionOK
<1>8. \A v \in Workers \ {w} : worker[v].req = r => NoNewOwner(v)
  BY <1>2, <1>6 DEF NoNewOwner, OwnsClaim
<1> QED
  BY <1>1, <1>2, <1>4, <1>5, <1>6, <1>7, <1>8, OneFrameStep

LEMMA InvInit == Init => IInv
<1> SUFFICES ASSUME Init
             PROVE  IInv
  OBVIOUS
<1>1. ASSUME NEW r \in Requests
      PROVE  RowOK(r)
  <2>1. /\ request[r].status = "ABSENT" /\ request[r].attemptCount = 0
        /\ request[r].failureCode = None
        /\ event[r].state = "absent" /\ event[r].attempts = 0
    BY DEF Init
  <2>2. None # ExhaustedCode
    BY NoneAssumption
  <2> QED
    BY <2>1, <2>2 DEF RowOK, Exists, Terminal
<1>2. ClaimsOKInv /\ \A w \in Workers : FenceOK(w)
  BY DEF Init, ClaimsOKInv, ClaimOK, FenceOK, InTransit, NoClaim
<1>3. \A r \in Requests : DecisionOK(r)
  BY DEF Init, DecisionOK, Terminal
<1> QED
  BY <1>1, <1>2, <1>3, TypingInit DEF IInv, RowsOKInv, FenceInv

LEMMA InvStep == IInv /\ [Next]_vars => IInv'
<1>0. ASSUME IInv, [Next]_vars
      PROVE  TypeOK'
  BY <1>0, TypingStep DEF IInv
<1>1. ASSUME IInv, TypeOK', NEW r \in Requests, RequestRightToWorkVerification(r)
      PROVE  IInv'
  <2>1. /\ request[r].status = "ABSENT" /\ UNCHANGED worker
        /\ request'[r] = [request[r] EXCEPT !.status = "REQUESTED"]
        /\ event'[r] = [event[r] EXCEPT !.state = "available"]
        /\ \A q \in Requests \ {r} : request'[q] = request[q] /\ event'[q] = event[q]
    BY <1>1 DEF IInv, TypeOK, RequestRightToWorkVerification, Exists
  <2>2. /\ request'[r].status = "REQUESTED" /\ event'[r].state = "available"
        /\ request'[r].failureCode = request[r].failureCode
        /\ request'[r].attemptCount = request[r].attemptCount
        /\ event'[r].attempts = event[r].attempts
        /\ event[r].attempts \in Int
    BY <1>1, <2>1 DEF IInv, TypeOK, RequestType, EventType
  <2>3. RowOK(r)
    BY <1>1 DEF IInv, RowsOKInv
  <2>4. RowOK(r)' /\ DecisionOK(r)' /\ Advances(r)
    BY <2>1, <2>2, <2>3, NoneAssumption
       DEF RowOK, DecisionOK, Advances, Exists, Terminal
  <2>5. ASSUME NEW v \in Workers, InTransit(v)
        PROVE  worker[v].req # r
    BY <1>1, <2>1, <2>5 DEF IInv, ClaimsOKInv, ClaimOK, Exists
  <2> QED
    BY <1>1, <2>1, <2>4, <2>5, OneRowStep
<1>2. ASSUME IInv, TypeOK', NEW r \in Requests, BecomesDue(r) \/ LeaseExpires(r)
      PROVE  IInv'
  <2>1. PICK state \in {"available", "lapsed"} :
          /\ event' = [event EXCEPT ![r].state = state]
          /\ event[r].state \notin {"absent", "processed"}
          /\ UNCHANGED <<request, worker>>
    BY <1>2 DEF BecomesDue, LeaseExpires
  <2>2. /\ event'[r].state = state /\ event'[r].attempts = event[r].attempts
        /\ event'[r].lockedBy = event[r].lockedBy /\ request'[r] = request[r]
        /\ \A q \in Requests \ {r} : request'[q] = request[q] /\ event'[q] = event[q]
    BY <1>2, <2>1 DEF IInv, TypeOK, EventType
  <2>3. RowOK(r) /\ event[r].attempts \in Int
    BY <1>2 DEF IInv, RowsOKInv, TypeOK, EventType
  <2>4. RowOK(r)' /\ Advances(r)
    BY <2>1, <2>2, <2>3 DEF RowOK, Advances, Exists
  <2>5. DecisionOK(r)'
    BY <2>1, <2>2, <2>3 DEF RowOK, DecisionOK
  <2>6. \A v \in Workers : worker[v].req = r => NoNewOwner(v)
    BY <2>1, <2>2 DEF NoNewOwner, OwnsClaim
  <2> QED
    BY <1>2, <2>1, <2>2, <2>4, <2>5, <2>6, OneRowStep
<1>3. ASSUME IInv, TypeOK', NEW w \in Workers, NEW r \in Requests, ClaimNextEvent(w, r)
      PROVE  IInv'
  <2>1. /\ event' = [event EXCEPT ![r].state = "leased", ![r].attempts = NextAttempt(r),
                                  ![r].lockedBy = IdOf[w]]
        /\ worker' = [worker EXCEPT ![w] =
             [pc |-> IF Exhausted(r) THEN "exhausted" ELSE "claimed", req |-> r,
              attempt |-> NextAttempt(r), answer |-> None]]
        /\ UNCHANGED request
        /\ event[r].state \notin {"absent", "processed"}
    BY <1>3 DEF ClaimNextEvent, Claimable
  <2>2. event[r].attempts \in 0..MaxAttempts
    BY <1>3 DEF IInv, TypeOK, EventType
  <2>3. /\ NextAttempt(r) \in Int /\ event[r].attempts <= NextAttempt(r)
        /\ event[r].attempts \in Int
        /\ Exhausted(r) => NextAttempt(r) = MaxAttempts
    BY <2>2, MaxAttemptsAssumption DEF NextAttempt, Exhausted
  <2>4. /\ event'[r].state = "leased" /\ event'[r].attempts = NextAttempt(r)
        /\ event'[r].lockedBy = IdOf[w] /\ request'[r] = request[r]
        /\ \A q \in Requests \ {r} : request'[q] = request[q] /\ event'[q] = event[q]
    BY <1>3, <2>1 DEF IInv, TypeOK, EventType
  <2>5. /\ worker'[w].pc = IF Exhausted(r) THEN "exhausted" ELSE "claimed"
        /\ worker'[w].req = r /\ worker'[w].attempt = NextAttempt(r)
        /\ \A v \in Workers \ {w} : worker'[v] = worker[v]
    BY <1>3, <2>1 DEF IInv, TypeOK
  <2>6. RowOK(r) /\ request[r].attemptCount \in Int /\ Exists(r)
    BY <1>3, <2>1 DEF IInv, RowsOKInv, RowOK, TypeOK, RequestType
  <2>7. request'[r].attemptCount <= event'[r].attempts
    BY <2>3, <2>4, <2>6 DEF RowOK
  <2>8. RowOK(r)' /\ Advances(r) /\ DecisionOK(r)'
    BY <2>1, <2>3, <2>4, <2>6, <2>7, NoneAssumption
       DEF RowOK, Advances, DecisionOK, Exists, Terminal
  <2>9. ClaimOK(w)' /\ FenceOK(w)'
    BY <2>3, <2>4, <2>5, <2>6 DEF ClaimOK, FenceOK, Exists
  <2>10. ASSUME UniqueIds, NEW v \in Workers \ {w}, worker[v].req = r
         PROVE  NoNewOwner(v)
    BY <2>4, <2>5, <2>10 DEF UniqueIds, NoNewOwner, OwnsClaim
  <2> QED
    BY <1>3, <2>4, <2>5, <2>8, <2>9, <2>10, OneFrameStep
<1>4. ASSUME IInv, TypeOK', NEW w \in Workers,
             LoseClaim(w) \/ IterationFails(w) \/ Stop(w) \/ Start(w)
      PROVE  IInv'
  <2>1. UNCHANGED <<request, event>>
    BY <1>4 DEF LoseClaim, IterationFails, Stop, Start
  <2>2. /\ worker'[w].pc \in {"stopped", "idle"}
        /\ \A v \in Workers \ {w} : worker'[v] = worker[v]
    BY <1>4 DEF LoseClaim, IterationFails, Stop, Start, Drop, NoClaim, IInv, TypeOK
  <2> QED
    BY <1>4, <2>1, <2>2, NotInTransit, OneWorkerStep
<1>5. ASSUME IInv, TypeOK', NEW w \in Workers, BeginProcessing(w)
      PROVE  IInv'
  <2>1. PICK r : r = worker[w].req
    OBVIOUS
  <2>2. PICK n : n = worker[w].attempt
    OBVIOUS
  <2>3. InTransit(w) /\ OwnsClaim(w) /\ r \in Requests /\ n \in Int
    BY <1>5, <2>1, <2>2, ClaimType DEF BeginProcessing, InTransit, IInv
  <2>4. /\ request' = [request EXCEPT ![r].status = "PENDING", ![r].attemptCount = n]
        /\ worker' = [worker EXCEPT ![w].pc = "verifying"]
        /\ UNCHANGED event
    BY <1>5, <2>1, <2>2, <2>3, OwnedIsOpen DEF BeginProcessing
  <2>5. /\ request'[r].status = "PENDING" /\ request'[r].attemptCount = n
        /\ request'[r].failureCode = request[r].failureCode
        /\ \A q \in Requests : event'[q] = event[q]
        /\ \A q \in Requests \ {r} : request'[q] = request[q]
    BY <1>5, <2>3, <2>4 DEF IInv, TypeOK, RequestType
  <2>6. /\ worker'[w].pc = "verifying" /\ worker'[w].req = r /\ worker'[w].attempt = n
        /\ \A v \in Workers \ {w} : worker'[v] = worker[v]
    <3>1. worker[w] \in Claimed
      BY <1>5, ClaimType DEF BeginProcessing, InTransit, IInv
    <3> QED
      BY <1>5, <2>1, <2>2, <2>4, <3>1 DEF IInv, TypeOK, Claimed
  <2>7. /\ RowOK(r) /\ Exists(r) /\ n <= event[r].attempts /\ event[r].attempts \in Int
        /\ ~Completed(w)
    BY <1>5, <2>1, <2>2, <2>3, OwnedIsOpen
       DEF IInv, RowsOKInv, ClaimsOKInv, ClaimOK, TypeOK, EventType
  <2>8. request[r].status \notin Terminal
    BY <2>1, <2>7 DEF Completed
  <2>9. RowOK(r)' /\ Advances(r) /\ DecisionOK(r)'
    BY <2>3, <2>5, <2>7, <2>8, NoneAssumption
       DEF RowOK, Advances, DecisionOK, Exists, Terminal
  <2>10. ClaimOK(w)'
    BY <2>3, <2>5, <2>6, <2>7 DEF ClaimOK, Exists
  <2>11. \A v \in Workers : worker'[v].req = worker[v].req => NoNewOwner(v)
    BY <2>4 DEF NoNewOwner, OwnsClaim
  <2>12. UniqueIds => FenceOK(w)'
    BY <1>5, <2>1, <2>2, <2>3, <2>4, <2>6 DEF IInv, FenceInv, FenceOK, OwnsClaim
  <2> QED
    BY <1>5, <2>3, <2>5, <2>6, <2>9, <2>10, <2>11, <2>12, OneFrameStep
<1>6. ASSUME IInv, TypeOK', NEW w \in Workers, FailExhaustedClaim(w)
      PROVE  IInv'
  <2> DEFINE r == worker[w].req
             n == worker[w].attempt
  <2>1. InTransit(w) /\ OwnsClaim(w) /\ Drop(w) /\ n = MaxAttempts
    BY <1>6 DEF FailExhaustedClaim, InTransit, IInv, ClaimsOKInv, ClaimOK
  <2>2. ~Completed(w)
    BY <1>6, <2>1, OwnedIsOpen
  <2>3. PICK actions : Complete(r, n, "FAILED", ExhaustedCode, actions)
    BY <1>6, <2>2 DEF FailExhaustedClaim
  <2> QED
    BY <1>6, <2>1, <2>3, CompleteStep DEF Terminal, FailureCodes
<1>7. ASSUME IInv, TypeOK', NEW w \in Workers, NEW answer \in Answers, VerifierAnswers(w, answer)
      PROVE  IInv'
  <2>1. UNCHANGED <<request, event>> /\ worker[w].pc = "verifying" /\ InTransit(w)
    BY <1>7 DEF VerifierAnswers, InTransit
  <2>2. /\ worker'[w].pc = "answered" /\ worker'[w].req = worker[w].req
        /\ worker'[w].attempt = worker[w].attempt
        /\ \A v \in Workers \ {w} : worker'[v] = worker[v]
    <3>1. worker[w] \in Claimed
      BY <1>7, <2>1, ClaimType DEF IInv
    <3> QED
      BY <1>7, <3>1 DEF VerifierAnswers, IInv, TypeOK, Claimed
  <2>3. ClaimOK(w)'
    BY <1>7, <2>1, <2>2 DEF IInv, ClaimsOKInv, ClaimOK, InTransit, Exists
  <2>4. UniqueIds => FenceOK(w)'
    BY <1>7, <2>1, <2>2 DEF IInv, FenceInv, FenceOK, OwnsClaim
  <2> QED
    BY <1>7, <2>1, <2>2, <2>3, <2>4, OneWorkerStep
<1>8. ASSUME IInv, TypeOK', NEW w \in Workers, FinishProcessing(w)
      PROVE  IInv'
  <2> DEFINE r == worker[w].req
             n == worker[w].attempt
  <2>1. InTransit(w) /\ OwnsClaim(w) /\ Drop(w)
    BY <1>8 DEF FinishProcessing, InTransit
  <2>2. ~Completed(w)
    BY <1>8, <2>1, OwnedIsOpen
  <2>3. \/ Complete(r, n, "VERIFIED", None, <<"verified">>)
        \/ Complete(r, n, "FAILED", SafeFailureCode(worker[w].answer), <<"failed">>)
    BY <1>8, <2>2 DEF FinishProcessing
  <2>4. /\ SafeFailureCode(worker[w].answer) \in FailureCodes
        /\ SafeFailureCode(worker[w].answer) # ExhaustedCode
    BY DEF SafeFailureCode, FailureCodes, ProviderCode, GenericCode, ExhaustedCode
  <2>5. None # ExhaustedCode /\ None \in FailureCodes
    BY NoneAssumption DEF FailureCodes
  <2>6. CASE Complete(r, n, "VERIFIED", None, <<"verified">>)
    BY <1>8, <2>1, <2>5, <2>6, CompleteStep DEF Terminal
  <2>7. CASE Complete(r, n, "FAILED", SafeFailureCode(worker[w].answer), <<"failed">>)
    BY <1>8, <2>1, <2>4, <2>7, CompleteStep DEF Terminal
  <2> QED
    BY <2>3, <2>6, <2>7
<1>9. ASSUME IInv, TypeOK', NEW w \in Workers, HandleRetryableFailure(w)
      PROVE  IInv'
  <2>1. PICK r : r = worker[w].req
    OBVIOUS
  <2>2. PICK n : n = worker[w].attempt
    OBVIOUS
  <2>3. /\ InTransit(w) /\ OwnsClaim(w) /\ Drop(w)
        /\ r \in Requests /\ n \in 1..MaxAttempts
    BY <1>9, <2>1, <2>2, ClaimType DEF HandleRetryableFailure, InTransit, IInv
  <2>4. CASE LastAttempt(n)
    <3>1. Complete(r, n, "FAILED", ExhaustedCode, <<"failed">>)
      BY <1>9, <2>1, <2>2, <2>4 DEF HandleRetryableFailure
    <3>2. n = MaxAttempts
      BY <2>3, <2>4, MaxAttemptsAssumption DEF LastAttempt
    <3> QED
      BY <1>9, <2>1, <2>2, <2>3, <3>1, <3>2, CompleteStep DEF Terminal, FailureCodes
  <2>5. CASE ~LastAttempt(n)
    <3>1. /\ request' = [request EXCEPT ![r].attemptCount = n]
          /\ event' = [event EXCEPT ![r].state = "delayed", ![r].lockedBy = None,
                                    ![r].lastError = RetryCode]
      BY <1>9, <2>1, <2>2, <2>5 DEF HandleRetryableFailure
    <3>2. /\ request'[r].status = request[r].status /\ request'[r].attemptCount = n
          /\ request'[r].failureCode = request[r].failureCode
          /\ \A q \in Requests \ {r} : request'[q] = request[q]
      BY <1>9, <2>3, <3>1 DEF IInv, TypeOK, RequestType
    <3>3. /\ event'[r].state = "delayed" /\ event'[r].lockedBy = None
          /\ event'[r].attempts = event[r].attempts
          /\ \A q \in Requests \ {r} : event'[q] = event[q]
      BY <1>9, <2>3, <3>1 DEF IInv, TypeOK, EventType
    <3>4. /\ RowOK(r) /\ Exists(r) /\ n <= event[r].attempts /\ event[r].attempts \in Int
          /\ n \in Int /\ ~Completed(w)
      BY <1>9, <2>1, <2>2, <2>3, OwnedIsOpen
         DEF IInv, RowsOKInv, ClaimsOKInv, ClaimOK, TypeOK, EventType
    <3>5. request[r].status \notin Terminal
      BY <2>1, <3>4 DEF Completed
    <3>6. RowOK(r)' /\ Advances(r) /\ DecisionOK(r)'
      BY <3>2, <3>3, <3>4, <3>5, NoneAssumption
         DEF RowOK, Advances, DecisionOK, Exists, Terminal
    <3>7. /\ ClaimOK(w)' /\ FenceOK(w)'
          /\ \A v \in Workers \ {w} : worker'[v] = worker[v]
      BY <1>9, <2>3, DropEffect, NotInTransit DEF IInv
    <3>8. \A v \in Workers \ {w} : worker[v].req = r => NoNewOwner(v)
      BY <3>3, <3>7, WorkersAssumption, NoneAssumption DEF NoNewOwner, OwnsClaim
    <3> QED
      BY <1>9, <2>3, <3>2, <3>3, <3>6, <3>7, <3>8, OneFrameStep
  <2> QED
    BY <2>4, <2>5
<1>10. ASSUME IInv, UNCHANGED vars
       PROVE  IInv'
  BY <1>10 DEF IInv, vars, TypeOK, RowsOKInv, RowOK, ClaimsOKInv, ClaimOK, FenceInv, FenceOK,
               DecisionOK, UniqueIds, InTransit, OwnsClaim, Exists
<1> QED
  BY <1>0, <1>1, <1>2, <1>3, <1>4, <1>5, <1>6, <1>7, <1>8, <1>9, <1>10
     DEF Next, Iterate, VerifierStep, Fault

-----------------------------------------------------------------------------
(* The properties the runs check, for every instance.                      *)

LEMMA Invariance == Spec => []IInv
  BY InvInit, InvStep, PTL DEF Spec

(* The outbox row and the request row never disagree about the decision,   *)
(* whatever the worker identifiers and wherever a worker fails.            *)
THEOREM OutboxAgreement == Spec => []OutboxAgreesWithRequest
<1>1. IInv => OutboxAgreesWithRequest
  BY DEF IInv, RowsOKInv, RowOK, OutboxAgreesWithRequest
<1> QED
  BY <1>1, Invariance, PTL

(* MAX_ATTEMPTS_EXCEEDED is never recorded while an attempt is left.       *)
THEOREM EarnedExhaustion == Spec => []ExhaustionIsEarned
<1>1. IInv => ExhaustionIsEarned
  BY DEF IInv, RowsOKInv, RowOK, ExhaustionIsEarned
<1> QED
  BY <1>1, Invariance, PTL

(* If identifiers are distinct, the ownership guard admits only the worker *)
(* of the newest claim, and no two workers at once.                        *)
THEOREM Fencing == Spec => []GuardFencesOldClaims
<1>1. ASSUME IInv, UniqueIds, NEW w \in Workers, InTransit(w), OwnsClaim(w)
      PROVE  /\ worker[w].attempt = event[worker[w].req].attempts
             /\ \A v \in Workers : InTransit(v) /\ OwnsClaim(v) /\ worker[v].req = worker[w].req
                                   => v = w
  BY <1>1 DEF IInv, FenceInv, FenceOK, UniqueIds, OwnsClaim
<1>2. IInv => GuardFencesOldClaims
  BY <1>1 DEF GuardFencesOldClaims
<1> QED
  BY <1>2, Invariance, PTL

(* If identifiers are distinct, a request is decided at the last attempt   *)
(* ever claimed for it.                                                    *)
THEOREM NewestDecides == Spec => []DecidedByNewestClaim
<1>1. IInv => DecidedByNewestClaim
  BY DEF IInv, FenceInv, DecisionOK, DecidedByNewestClaim
<1> QED
  BY <1>1, Invariance, PTL

(* The only rows a step writes are those of an undecided request. *)
LEMMA WritesAreToOpenRequests ==
  ASSUME IInv, TypeOK', Next, NEW q \in Requests, request[q].status \in Terminal
  PROVE  request'[q] = request[q] /\ event'[q] = event[q] /\ audit'[q] = audit[q]
<1> DEFINE Kept == request'[q] = request[q] /\ event'[q] = event[q] /\ audit'[q] = audit[q]
<1>1. event[q].state = "processed" /\ request[q].status # "ABSENT"
  BY DEF IInv, RowsOKInv, RowOK, Terminal
<1>2. ASSUME NEW r \in Requests,
             RequestRightToWorkVerification(r) \/ BecomesDue(r) \/ LeaseExpires(r)
      PROVE  Kept
  <2>1. q # r
    BY <1>1, <1>2 DEF RequestRightToWorkVerification, BecomesDue, LeaseExpires, Exists
  <2> QED
    BY <1>2, <2>1 DEF RequestRightToWorkVerification, BecomesDue, LeaseExpires, IInv, TypeOK
<1>3. ASSUME NEW w \in Workers, NEW r \in Requests, ClaimNextEvent(w, r)
      PROVE  Kept
  <2>1. q # r
    BY <1>1, <1>3 DEF ClaimNextEvent, Claimable
  <2> QED
    BY <1>3, <2>1 DEF ClaimNextEvent, IInv, TypeOK
<1>4. ASSUME NEW w \in Workers, UNCHANGED <<request, event, audit>>
      PROVE  Kept
  BY <1>4
<1>5. ASSUME NEW w \in Workers, InTransit(w), OwnsClaim(w)
      PROVE  worker[w].req # q /\ ~Completed(w)
  BY <1>5, OwnedIsOpen DEF Completed
<1>6. ASSUME NEW w \in Workers, InTransit(w), OwnsClaim(w), NEW n, NEW status, NEW code,
             NEW actions, Complete(worker[w].req, n, status, code, actions)
      PROVE  Kept
  <2>1. worker[w].req # q
    BY <1>5, <1>6
  <2> QED
    BY <1>6, <2>1 DEF Complete, Record, MarkProcessed, IInv, TypeOK
<1>7. ASSUME NEW w \in Workers, BeginProcessing(w)
      PROVE  Kept
  <2>1. InTransit(w) /\ OwnsClaim(w)
    BY <1>7 DEF BeginProcessing, InTransit
  <2>2. worker[w].req # q /\ ~Completed(w)
    BY <1>5, <2>1
  <2> QED
    BY <1>7, <2>2 DEF BeginProcessing, Record, IInv, TypeOK
<1>8. ASSUME NEW w \in Workers, FailExhaustedClaim(w) \/ FinishProcessing(w)
      PROVE  Kept
  <2>1. InTransit(w) /\ OwnsClaim(w)
    BY <1>8 DEF FailExhaustedClaim, FinishProcessing, InTransit
  <2>2. ~Completed(w)
    BY <1>5, <2>1
  <2> QED
    BY <1>6, <1>8, <2>1, <2>2 DEF FailExhaustedClaim, FinishProcessing
<1>9. ASSUME NEW w \in Workers, HandleRetryableFailure(w)
      PROVE  Kept
  <2>1. InTransit(w) /\ OwnsClaim(w)
    BY <1>9 DEF HandleRetryableFailure, InTransit
  <2>2. CASE LastAttempt(worker[w].attempt)
    BY <1>6, <1>9, <2>1, <2>2 DEF HandleRetryableFailure
  <2>3. CASE ~LastAttempt(worker[w].attempt)
    <3>1. worker[w].req # q
      BY <1>5, <2>1
    <3> QED
      BY <1>9, <2>3, <3>1 DEF HandleRetryableFailure, IInv, TypeOK
  <2> QED
    BY <2>2, <2>3
<1> QED
  BY <1>2, <1>3, <1>4, <1>7, <1>8, <1>9
     DEF Next, Iterate, VerifierStep, Fault, LoseClaim, VerifierAnswers, IterationFails, Stop, Start

(* A decided request, its event and its audit trail are never written      *)
(* again.                                                                  *)
THEOREM FinalDecision == Spec => DecisionIsFinal
<1>1. ASSUME IInv, [Next]_vars
      PROVE  [\A r \in Requests : request[r].status \in Terminal =>
                /\ request'[r] = request[r]
                /\ event'[r] = event[r]
                /\ audit'[r] = audit[r]]_vars
  BY <1>1, TypingStep, WritesAreToOpenRequests DEF IInv
<1> QED
  BY <1>1, Invariance, PTL DEF Spec, DecisionIsFinal

(* Every write of an attempt count is by the owner of the newest claim. *)
LEMMA AttemptCountGrows ==
  ASSUME IInv, TypeOK', UniqueIds, Next, NEW q \in Requests
  PROVE  request'[q].attemptCount >= request[q].attemptCount
<1> DEFINE Grows == request'[q].attemptCount >= request[q].attemptCount
<1>1. request[q].attemptCount \in Int
  BY DEF IInv, TypeOK, RequestType
<1>2. ASSUME request'[q].attemptCount = request[q].attemptCount
      PROVE  Grows
  BY <1>1, <1>2
<1>3. ASSUME NEW w \in Workers, InTransit(w), OwnsClaim(w), worker[w].req = q,
             request'[q].attemptCount = worker[w].attempt
      PROVE  Grows
  <2>1. worker[w].attempt = event[q].attempts
    BY <1>3 DEF IInv, FenceInv, FenceOK
  <2>2. request[q].attemptCount <= event[q].attempts /\ event[q].attempts \in Int
    BY DEF IInv, RowsOKInv, RowOK, TypeOK, EventType
  <2> QED
    BY <1>1, <1>3, <2>1, <2>2
<1>4. ASSUME NEW r \in Requests, RequestRightToWorkVerification(r)
      PROVE  Grows
  <2>1. request'[q].attemptCount = request[q].attemptCount
    BY <1>4 DEF RequestRightToWorkVerification, IInv, TypeOK, RequestType
  <2> QED
    BY <1>2, <2>1
<1>5. ASSUME UNCHANGED request
      PROVE  Grows
  BY <1>2, <1>5
<1>6. ASSUME NEW w \in Workers, InTransit(w), OwnsClaim(w), NEW status, NEW code, NEW actions,
             Complete(worker[w].req, worker[w].attempt, status, code, actions)
      PROVE  Grows
  <2>1. worker[w].req \in Requests
    BY <1>6, ClaimType DEF IInv
  <2>2. CASE worker[w].req = q
    BY <1>3, <1>6, <2>2, CompleteEffect DEF IInv
  <2>3. CASE worker[w].req # q
    BY <1>2, <1>6, <2>1, <2>3, CompleteEffect DEF IInv
  <2> QED
    BY <2>2, <2>3
<1>7. ASSUME NEW w \in Workers, BeginProcessing(w)
      PROVE  Grows
  <2>1. InTransit(w) /\ OwnsClaim(w)
    BY <1>7 DEF BeginProcessing, InTransit
  <2>2. request' = [request EXCEPT ![worker[w].req].status = "PENDING",
                                   ![worker[w].req].attemptCount = worker[w].attempt]
    BY <1>7, <2>1, OwnedIsOpen DEF BeginProcessing
  <2>3. CASE worker[w].req = q
    <3>1. request'[q].attemptCount = worker[w].attempt
      BY <2>2, <2>3 DEF IInv, TypeOK, RequestType
    <3> QED
      BY <1>3, <2>1, <2>3, <3>1
  <2>4. CASE worker[w].req # q
    BY <1>2, <2>2, <2>4 DEF IInv, TypeOK
  <2> QED
    BY <2>3, <2>4
<1>8. ASSUME NEW w \in Workers, FailExhaustedClaim(w) \/ FinishProcessing(w)
      PROVE  Grows
  <2>1. InTransit(w) /\ OwnsClaim(w)
    BY <1>8 DEF FailExhaustedClaim, FinishProcessing, InTransit
  <2> QED
    BY <1>6, <1>8, <2>1, OwnedIsOpen DEF FailExhaustedClaim, FinishProcessing
<1>9. ASSUME NEW w \in Workers, HandleRetryableFailure(w)
      PROVE  Grows
  <2>1. InTransit(w) /\ OwnsClaim(w)
    BY <1>9 DEF HandleRetryableFailure, InTransit
  <2>2. CASE LastAttempt(worker[w].attempt)
    BY <1>6, <1>9, <2>1, <2>2 DEF HandleRetryableFailure
  <2>3. CASE ~LastAttempt(worker[w].attempt)
    <3>1. request' = [request EXCEPT ![worker[w].req].attemptCount = worker[w].attempt]
      BY <1>9, <2>3 DEF HandleRetryableFailure
    <3>2. CASE worker[w].req = q
      <4>1. request'[q].attemptCount = worker[w].attempt
        BY <3>1, <3>2 DEF IInv, TypeOK, RequestType
      <4> QED
        BY <1>3, <2>1, <3>2, <4>1
    <3>3. CASE worker[w].req # q
      BY <1>2, <3>1, <3>3 DEF IInv, TypeOK
    <3> QED
      BY <3>2, <3>3
  <2> QED
    BY <2>2, <2>3
<1> QED
  BY <1>4, <1>5, <1>7, <1>8, <1>9
     DEF Next, Iterate, VerifierStep, Fault, BecomesDue, LeaseExpires, ClaimNextEvent,
         LoseClaim, VerifierAnswers, IterationFails, Stop, Start

(* If identifiers are distinct, a stale claim never writes its old attempt *)
(* number over a newer one.                                                *)
THEOREM MonotoneAttempts == Spec => AttemptCountNeverRegresses
<1>1. ASSUME IInv, [Next]_vars
      PROVE  [UniqueIds => \A r \in Requests :
                request'[r].attemptCount >= request[r].attemptCount]_vars
  BY <1>1, TypingStep, AttemptCountGrows DEF IInv
<1> QED
  BY <1>1, Invariance, PTL DEF Spec, AttemptCountNeverRegresses

-----------------------------------------------------------------------------
(* The audit trail, and the calls to the verifier. *)

AuditOK(r) == audit[r] = AuditTrailOf(request[r].status)

(* A worker that passes the ownership guard finds its request between its  *)
(* acceptance and its decision, and in PENDING once it has begun.          *)
LEMMA OwnedStatus ==
  ASSUME IInv, NEW w \in Workers, InTransit(w), OwnsClaim(w)
  PROVE  /\ request[worker[w].req].status \in {"REQUESTED", "PENDING"}
         /\ worker[w].pc = "answered" => request[worker[w].req].status = "PENDING"
<1>1. worker[w].req \in Requests /\ ~Completed(w)
  BY ClaimType, OwnedIsOpen DEF IInv
<1>2. request[worker[w].req].status \in {"ABSENT", "REQUESTED", "PENDING"} \cup Terminal
  BY <1>1 DEF IInv, TypeOK, RequestType
<1>3. /\ request[worker[w].req].status # "ABSENT"
      /\ worker[w].pc = "answered" => request[worker[w].req].status # "REQUESTED"
  BY DEF IInv, ClaimsOKInv, ClaimOK, Exists
<1> QED
  BY <1>1, <1>2, <1>3 DEF Completed

(* One action after a trail of one, and after a trail of two. *)
LEMMA TwoActions ==
  ASSUME NEW a \in AuditActions, NEW b \in AuditActions
  PROVE  <<a>> \o <<b>> = <<a, b>>
<1> DEFINE s == <<a>> \o <<b>>
           t == <<a, b>>
<1>1. s \in Seq(AuditActions) /\ t \in Seq(AuditActions) /\ Len(s) = 2 /\ Len(t) = 2
  OBVIOUS
<1>2. \A i \in 1..2 : s[i] = t[i]
  <2>1. s[1] = a /\ s[2] = b
    OBVIOUS
  <2>2. t[1] = a /\ t[2] = b
    OBVIOUS
  <2> QED
    BY <2>1, <2>2
<1> HIDE DEF s, t
<1>3. s = t
  BY <1>1, <1>2
<1> QED
  BY <1>3 DEF s, t

LEMMA ThreeActions ==
  ASSUME NEW a \in AuditActions, NEW b \in AuditActions, NEW c \in AuditActions
  PROVE  <<a, b>> \o <<c>> = <<a, b, c>>
<1> DEFINE s == <<a, b>> \o <<c>>
           t == <<a, b, c>>
<1>1. s \in Seq(AuditActions) /\ t \in Seq(AuditActions) /\ Len(s) = 3 /\ Len(t) = 3
  OBVIOUS
<1>2. \A i \in 1..3 : s[i] = t[i]
  <2>1. s[1] = a /\ s[2] = b /\ s[3] = c
    OBVIOUS
  <2>2. t[1] = a /\ t[2] = b /\ t[3] = c
    OBVIOUS
  <2> QED
    BY <2>1, <2>2
<1> HIDE DEF s, t
<1>3. s = t
  BY <1>1, <1>2
<1> QED
  BY <1>3 DEF s, t

(* The trail that PENDING has is the one of REQUESTED or PENDING, with the *)
(* action a transaction adds to it.                                        *)
LEMMA TrailToPending ==
  ASSUME NEW r \in Requests, AuditOK(r), request[r].status \in {"REQUESTED", "PENDING"}
  PROVE  audit[r] \o PendingAudit(r) = <<"request", "pending">>
<1>1. CASE request[r].status = "REQUESTED"
  <2>1. audit[r] = <<"request">> /\ PendingAudit(r) = <<"pending">>
    BY <1>1 DEF AuditOK, AuditTrailOf, PendingAudit
  <2>2. <<"request">> \o <<"pending">> = <<"request", "pending">>
    BY TwoActions DEF AuditActions
  <2> QED
    BY <2>1, <2>2
<1>2. CASE request[r].status = "PENDING"
  BY <1>2 DEF AuditOK, AuditTrailOf, PendingAudit, AuditActions
<1> QED
  BY <1>1, <1>2

LEMMA AuditFrame ==
  ASSUME NEW r, AuditOK(r), audit'[r] = audit[r], request'[r].status = request[r].status
  PROVE  AuditOK(r)'
  BY DEF AuditOK

(* A decision extends the trail of PENDING by the action of its status. *)
LEMMA CompleteAudit ==
  ASSUME TypeOK, NEW r \in Requests, NEW q \in Requests, AuditOK(q),
         NEW n, NEW status \in Terminal, NEW code, NEW actions,
         Complete(r, n, status, code, actions),
         audit[r] \o actions = AuditTrailOf(status)
  PROVE  AuditOK(q)'
<1>1. /\ request'[r].status = status
      /\ \A p \in Requests \ {r} : request'[p] = request[p]
  BY CompleteEffect
<1>2. /\ audit'[r] = AuditTrailOf(status)
      /\ \A p \in Requests \ {r} : audit'[p] = audit[p]
  BY DEF TypeOK, Complete, Record
<1> QED
  BY <1>1, <1>2 DEF AuditOK

LEMMA AuditStep ==
  ASSUME IInv, Next, NEW q \in Requests, AuditOK(q), \A r \in Requests : AuditOK(r)
  PROVE  AuditOK(q)'
<1>1. ASSUME NEW r \in Requests, RequestRightToWorkVerification(r)
      PROVE  AuditOK(q)'
  <2>1. CASE q = r
    <3>1. request'[q].status = "REQUESTED" /\ audit[q] = <<>> /\ audit'[q] = Append(audit[q], "request")
      BY <1>1, <2>1 DEF RequestRightToWorkVerification, Exists, IInv, TypeOK, RequestType,
                        AuditOK, AuditTrailOf
    <3> QED
      BY <3>1 DEF AuditOK, AuditTrailOf
  <2>2. CASE q # r
    BY <1>1, <2>2, AuditFrame DEF RequestRightToWorkVerification, IInv, TypeOK
  <2> QED
    BY <2>1, <2>2
<1>2. ASSUME UNCHANGED <<request, audit>>
      PROVE  AuditOK(q)'
  BY <1>2, AuditFrame
<1>3. ASSUME NEW w \in Workers, BeginProcessing(w)
      PROVE  AuditOK(q)'
  <2>1. InTransit(w) /\ OwnsClaim(w) /\ worker[w].req \in Requests
    BY <1>3, ClaimType DEF BeginProcessing, InTransit, IInv
  <2>2. PICK r \in Requests : r = worker[w].req
    BY <2>1
  <2>3. /\ request' = [request EXCEPT ![r].status = "PENDING",
                                      ![r].attemptCount = worker[w].attempt]
        /\ audit' = [audit EXCEPT ![r] = @ \o PendingAudit(r)]
    BY <1>3, <2>1, <2>2, OwnedIsOpen DEF BeginProcessing, Record
  <2>4. audit[r] \o PendingAudit(r) = <<"request", "pending">>
    BY <2>1, <2>2, OwnedStatus, TrailToPending
  <2>5. CASE q = r
    <3>1. request'[q].status = "PENDING" /\ audit'[q] = <<"request", "pending">>
      BY <2>3, <2>4, <2>5 DEF IInv, TypeOK, RequestType
    <3> QED
      BY <3>1 DEF AuditOK, AuditTrailOf
  <2>6. CASE q # r
    <3>1. request'[q] = request[q] /\ audit'[q] = audit[q]
      BY <2>3, <2>6 DEF IInv, TypeOK
    <3> QED
      BY <3>1, AuditFrame
  <2> QED
    BY <2>5, <2>6
<1>4. ASSUME NEW w \in Workers, FailExhaustedClaim(w)
      PROVE  AuditOK(q)'
  <2>1. InTransit(w) /\ OwnsClaim(w) /\ worker[w].req \in Requests
    BY <1>4, ClaimType DEF FailExhaustedClaim, InTransit, IInv
  <2>2. PICK r \in Requests : r = worker[w].req
    BY <2>1
  <2>3. Complete(r, worker[w].attempt, "FAILED", ExhaustedCode, Append(PendingAudit(r), "failed"))
    BY <1>4, <2>1, <2>2, OwnedIsOpen DEF FailExhaustedClaim
  <2>4. audit[r] \o PendingAudit(r) = <<"request", "pending">>
    BY <2>1, <2>2, OwnedStatus, TrailToPending
  <2>5. audit[r] \o Append(PendingAudit(r), "failed") = Append(audit[r] \o PendingAudit(r), "failed")
    <3>1. PendingAudit(r) \in Seq(AuditActions) /\ audit[r] \in Seq(AuditActions)
      BY PendingAuditType DEF IInv, TypeOK
    <3>2. ASSUME NEW s \in Seq(AuditActions), NEW t \in Seq(AuditActions)
          PROVE  s \o Append(t, "failed") = Append(s \o t, "failed")
      BY DEF AuditActions
    <3> QED
      BY <3>1, <3>2
  <2>6. audit[r] \o Append(PendingAudit(r), "failed") = AuditTrailOf("FAILED")
    <3>1. Append(<<"request", "pending">>, "failed") = <<"request", "pending", "failed">>
      <4>1. <<"request", "pending">> \in Seq(AuditActions)
        BY DEF AuditActions
      <4>2. Append(<<"request", "pending">>, "failed") = <<"request", "pending">> \o <<"failed">>
        BY <4>1 DEF AuditActions
      <4>3. <<"request", "pending">> \o <<"failed">> = <<"request", "pending", "failed">>
        BY ThreeActions DEF AuditActions
      <4> QED
        BY <4>2, <4>3
    <3> QED
      BY <2>4, <2>5, <3>1 DEF AuditTrailOf
  <2> QED
    BY <2>3, <2>6, CompleteAudit DEF Terminal, IInv
<1>5. ASSUME NEW w \in Workers, FinishProcessing(w)
      PROVE  AuditOK(q)'
  <2>1. /\ InTransit(w) /\ OwnsClaim(w) /\ worker[w].req \in Requests
        /\ worker[w].pc = "answered"
    BY <1>5, ClaimType DEF FinishProcessing, InTransit, IInv
  <2>2. PICK r \in Requests : r = worker[w].req
    BY <2>1
  <2>3. audit[r] = <<"request", "pending">>
    BY <2>1, <2>2, OwnedStatus DEF AuditOK, AuditTrailOf
  <2>4. /\ audit[r] \o <<"verified">> = AuditTrailOf("VERIFIED")
        /\ audit[r] \o <<"failed">> = AuditTrailOf("FAILED")
    <3>1. /\ <<"request", "pending">> \o <<"verified">> = <<"request", "pending", "verified">>
          /\ <<"request", "pending">> \o <<"failed">> = <<"request", "pending", "failed">>
      BY ThreeActions DEF AuditActions
    <3> QED
      BY <2>3, <3>1 DEF AuditTrailOf
  <2>5. \/ Complete(r, worker[w].attempt, "VERIFIED", None, <<"verified">>)
        \/ Complete(r, worker[w].attempt, "FAILED", SafeFailureCode(worker[w].answer), <<"failed">>)
    BY <1>5, <2>1, <2>2, OwnedIsOpen DEF FinishProcessing
  <2>6. CASE Complete(r, worker[w].attempt, "VERIFIED", None, <<"verified">>)
    BY <2>4, <2>6, CompleteAudit DEF Terminal, IInv
  <2>7. CASE Complete(r, worker[w].attempt, "FAILED", SafeFailureCode(worker[w].answer), <<"failed">>)
    BY <2>4, <2>7, CompleteAudit DEF Terminal, IInv
  <2> QED
    BY <2>5, <2>6, <2>7
<1>6. ASSUME NEW w \in Workers, HandleRetryableFailure(w)
      PROVE  AuditOK(q)'
  <2>1. /\ InTransit(w) /\ OwnsClaim(w) /\ worker[w].req \in Requests
        /\ worker[w].pc = "answered"
    BY <1>6, ClaimType DEF HandleRetryableFailure, InTransit, IInv
  <2>2. PICK r \in Requests : r = worker[w].req
    BY <2>1
  <2>3. CASE LastAttempt(worker[w].attempt)
    <3>1. audit[r] = <<"request", "pending">>
      BY <2>1, <2>2, OwnedStatus DEF AuditOK, AuditTrailOf
    <3>2. audit[r] \o <<"failed">> = AuditTrailOf("FAILED")
      <4>1. <<"request", "pending">> \o <<"failed">> = <<"request", "pending", "failed">>
        BY ThreeActions DEF AuditActions
      <4> QED
        BY <3>1, <4>1 DEF AuditTrailOf
    <3>3. Complete(r, worker[w].attempt, "FAILED", ExhaustedCode, <<"failed">>)
      BY <1>6, <2>2, <2>3 DEF HandleRetryableFailure
    <3> QED
      BY <3>2, <3>3, CompleteAudit DEF Terminal, IInv
  <2>4. CASE ~LastAttempt(worker[w].attempt)
    <3>1. request' = [request EXCEPT ![r].attemptCount = worker[w].attempt] /\ audit' = audit
      BY <1>6, <2>2, <2>4 DEF HandleRetryableFailure
    <3>2. request'[q].status = request[q].status
      BY <3>1 DEF IInv, TypeOK, RequestType
    <3> QED
      BY <3>1, <3>2, AuditFrame
  <2> QED
    BY <2>3, <2>4
<1> QED
  BY <1>1, <1>2, <1>3, <1>4, <1>5, <1>6
     DEF Next, Iterate, VerifierStep, Fault, BecomesDue, LeaseExpires, ClaimNextEvent,
         LoseClaim, VerifierAnswers, IterationFails, Stop, Start

(* The audit trail of a request is exactly the path its status took, also  *)
(* when an exhausted claim skips a stage or a retry repeats one.           *)
THEOREM AuditTrail == Spec => []AuditTrailMatchesStatus
<1>1. Init => AuditTrailMatchesStatus
  BY DEF Init, AuditTrailMatchesStatus, AuditTrailOf
<1>2. IInv /\ AuditTrailMatchesStatus /\ [Next]_vars => AuditTrailMatchesStatus'
  <2>1. ASSUME IInv, AuditTrailMatchesStatus, Next
        PROVE  AuditTrailMatchesStatus'
    BY <2>1, AuditStep DEF AuditTrailMatchesStatus, AuditOK
  <2>2. ASSUME AuditTrailMatchesStatus, UNCHANGED vars
        PROVE  AuditTrailMatchesStatus'
    BY <2>2 DEF AuditTrailMatchesStatus, vars
  <2> QED
    BY <2>1, <2>2
<1> QED
  BY <1>1, <1>2, Invariance, PTL DEF Spec

(* The verifier has been called at most once per attempt, never for an     *)
(* attempt not yet claimed; and whoever is about to call is alone with an  *)
(* attempt for which nobody has.                                           *)
CallsOK(r) == \A n \in 1..MaxAttempts :
                calls[r][n] <= 1 /\ (n > event[r].attempts => calls[r][n] = 0)

AboutToCall(w) == worker[w].pc = "claimed"

CallsInv ==
  /\ \A r \in Requests : CallsOK(r)
  /\ \A w \in Workers : AboutToCall(w) => calls[worker[w].req][worker[w].attempt] = 0
  /\ \A v, w \in Workers :
       AboutToCall(v) /\ AboutToCall(w) /\ worker[v].req = worker[w].req
         /\ worker[v].attempt = worker[w].attempt => v = w

(* A step that neither claims nor calls. *)
LEMMA CallsFrame ==
  ASSUME CallsInv, calls' = calls,
         \A r \in Requests : event'[r].attempts = event[r].attempts,
         \A w \in Workers : AboutToCall(w)' => worker'[w] = worker[w]
  PROVE  CallsInv'
<1>1. \A w \in Workers : AboutToCall(w)' => AboutToCall(w) /\ worker'[w] = worker[w]
  BY DEF AboutToCall
<1> QED
  BY <1>1, Zenon DEF CallsInv, CallsOK

LEMMA DropsNoClaim ==
  ASSUME TypeOK, NEW w \in Workers, NEW pc \in {"idle", "stopped"},
         worker' = [worker EXCEPT ![w] = NoClaim(pc)]
  PROVE  \A v \in Workers : AboutToCall(v)' => worker'[v] = worker[v]
  BY DEF TypeOK, NoClaim, AboutToCall

LEMMA ClosingKeepsAttempts ==
  ASSUME TypeOK, NEW r, NEW code, MarkProcessed(r, code)
  PROVE  \A q \in Requests : event'[q].attempts = event[q].attempts
  BY DEF TypeOK, EventType, MarkProcessed

LEMMA CallsStep ==
  ASSUME IInv, CallsInv, Next
  PROVE  CallsInv'
<1>1. ASSUME NEW r \in Requests,
             RequestRightToWorkVerification(r) \/ BecomesDue(r) \/ LeaseExpires(r)
      PROVE  CallsInv'
  <2>1. PICK s : event' = [event EXCEPT ![r].state = s]
    BY <1>1 DEF RequestRightToWorkVerification, BecomesDue, LeaseExpires
  <2>2. \A q \in Requests : event'[q].attempts = event[q].attempts
    BY <2>1 DEF IInv, TypeOK, EventType
  <2>3. calls' = calls /\ worker' = worker
    BY <1>1 DEF RequestRightToWorkVerification, BecomesDue, LeaseExpires
  <2> QED
    BY <2>2, <2>3, CallsFrame
<1>2. ASSUME NEW w \in Workers, LoseClaim(w) \/ IterationFails(w) \/ Stop(w) \/ Start(w)
      PROVE  CallsInv'
  <2>1. event' = event /\ calls' = calls
    BY <1>2 DEF LoseClaim, IterationFails, Stop, Start
  <2>2. PICK pc \in {"idle", "stopped"} : worker' = [worker EXCEPT ![w] = NoClaim(pc)]
    BY <1>2 DEF LoseClaim, IterationFails, Stop, Start, Drop
  <2>3. \A v \in Workers : AboutToCall(v)' => worker'[v] = worker[v]
    BY <2>2, DropsNoClaim DEF IInv
  <2> QED
    BY <2>1, <2>3, CallsFrame
<1>3. ASSUME NEW w \in Workers, NEW r \in Requests, ClaimNextEvent(w, r)
      PROVE  CallsInv'
  <2>1. PICK n : n = NextAttempt(r)
    OBVIOUS
  <2>2. /\ event' = [event EXCEPT ![r].state = "leased", ![r].attempts = n,
                                  ![r].lockedBy = IdOf[w]]
        /\ worker' = [worker EXCEPT ![w] =
             [pc |-> IF Exhausted(r) THEN "exhausted" ELSE "claimed", req |-> r,
              attempt |-> n, answer |-> None]]
        /\ calls' = calls
    BY <1>3, <2>1 DEF ClaimNextEvent
  <2>3. event[r].attempts \in 0..MaxAttempts
    BY DEF IInv, TypeOK, EventType
  <2>4. /\ n \in 1..MaxAttempts /\ event[r].attempts <= n
        /\ ~Exhausted(r) => n = event[r].attempts + 1
    BY <2>1, <2>3, MaxAttemptsAssumption DEF NextAttempt, Exhausted
  <2>5. /\ event'[r].attempts = n
        /\ \A q \in Requests \ {r} : event'[q] = event[q]
    BY <2>2 DEF IInv, TypeOK, EventType
  <2>6. /\ worker'[w].req = r /\ worker'[w].attempt = n
        /\ AboutToCall(w)' => ~Exhausted(r)
        /\ \A v \in Workers \ {w} : worker'[v] = worker[v]
    BY <2>2 DEF IInv, TypeOK, AboutToCall
  <2>7. \A q \in Requests : CallsOK(q)'
    <3>1. CallsOK(r)'
      BY <2>2, <2>3, <2>4, <2>5 DEF CallsInv, CallsOK
    <3>2. ASSUME NEW q \in Requests \ {r}
          PROVE  CallsOK(q)'
      BY <2>2, <2>5 DEF CallsInv, CallsOK
    <3> QED
      BY <3>1, <3>2
  <2>8. AboutToCall(w)' => calls'[r][n] = 0
    <3>1. ~Exhausted(r) => n > event[r].attempts
      BY <2>3, <2>4
    <3> QED
      BY <2>2, <2>4, <2>6, <3>1 DEF CallsInv, CallsOK
  <2>9. ASSUME NEW v \in Workers \ {w}, AboutToCall(v), worker[v].req = r, ~Exhausted(r)
        PROVE  worker[v].attempt # n
    <3>1. InTransit(v)
      BY <2>9 DEF AboutToCall, InTransit
    <3>2. worker[v].attempt <= event[r].attempts /\ worker[v].attempt \in 1..MaxAttempts
      BY <2>9, <3>1, ClaimType DEF IInv, ClaimsOKInv, ClaimOK
    <3> QED
      BY <2>3, <2>4, <2>9, <3>2
  <2>10. ASSUME NEW v \in Workers, AboutToCall(v)'
         PROVE  calls'[worker'[v].req][worker'[v].attempt] = 0
    <3>1. CASE v = w
      BY <2>6, <2>8, <2>10, <3>1
    <3>2. CASE v # w
      BY <2>2, <2>6, <2>10, <3>2 DEF CallsInv, AboutToCall
    <3> QED
      BY <3>1, <3>2
  <2>11. ASSUME NEW u \in Workers, NEW v \in Workers, AboutToCall(u)', AboutToCall(v)',
                worker'[u].req = worker'[v].req, worker'[u].attempt = worker'[v].attempt
         PROVE  u = v
    <3>1. CASE u = w /\ v # w
      BY <2>6, <2>9, <2>11, <3>1 DEF AboutToCall
    <3>2. CASE u # w /\ v = w
      BY <2>6, <2>9, <2>11, <3>2 DEF AboutToCall
    <3>3. CASE u # w /\ v # w
      BY <2>6, <2>11, <3>3 DEF CallsInv, AboutToCall
    <3> QED
      BY <3>1, <3>2, <3>3
  <2> QED
    BY <2>7, <2>10, <2>11 DEF CallsInv
<1>4. ASSUME NEW w \in Workers, BeginProcessing(w)
      PROVE  CallsInv'
  <2>1. PICK r : r = worker[w].req
    OBVIOUS
  <2>2. PICK n : n = worker[w].attempt
    OBVIOUS
  <2>3. InTransit(w) /\ OwnsClaim(w) /\ AboutToCall(w)
    BY <1>4 DEF BeginProcessing, InTransit, AboutToCall
  <2>4. r \in Requests /\ n \in 1..MaxAttempts /\ n <= event[r].attempts
    BY <2>1, <2>2, <2>3, ClaimType DEF IInv, ClaimsOKInv, ClaimOK
  <2>5. /\ worker' = [worker EXCEPT ![w].pc = "verifying"]
        /\ calls' = [calls EXCEPT ![r][n] = @ + 1]
        /\ event' = event
    BY <1>4, <2>1, <2>2, <2>3, OwnedIsOpen DEF BeginProcessing
  <2>6. \A v \in Workers : AboutToCall(v)' => v # w /\ worker'[v] = worker[v]
    BY <2>5 DEF IInv, TypeOK, AboutToCall, WorkerType, Unclaimed, Claimed, Answered
  <2>7. calls[r][n] = 0
    BY <2>1, <2>2, <2>3 DEF CallsInv
  <2>8. /\ calls'[r][n] = 1
        /\ \A q \in Requests, m \in 1..MaxAttempts :
             q # r \/ m # n => calls'[q][m] = calls[q][m]
    <3>1. calls \in [Requests -> [1..MaxAttempts -> Nat]]
      BY DEF IInv, TypeOK
    <3>2. calls'[r] = [calls[r] EXCEPT ![n] = @ + 1] /\ \A q \in Requests \ {r} : calls'[q] = calls[q]
      BY <2>4, <2>5, <3>1
    <3>3. ASSUME NEW g \in [1..MaxAttempts -> Nat], g[n] = 0
          PROVE  /\ [g EXCEPT ![n] = @ + 1][n] = 1
                 /\ \A m \in 1..MaxAttempts : m # n => [g EXCEPT ![n] = @ + 1][m] = g[m]
      BY <2>4, <3>3
    <3>4. calls'[r][n] = 1 /\ \A m \in 1..MaxAttempts : m # n => calls'[r][m] = calls[r][m]
      BY <2>4, <2>7, <3>1, <3>2, <3>3
    <3> QED
      BY <3>2, <3>4
  <2>9. ASSUME NEW q \in Requests
        PROVE  CallsOK(q)'
    <3>1. ASSUME NEW m \in 1..MaxAttempts
          PROVE  calls'[q][m] <= 1 /\ (m > event[q].attempts => calls'[q][m] = 0)
      <4>1. CASE q = r /\ m = n
        <5>1. event[r].attempts \in 0..MaxAttempts
          BY <2>4 DEF IInv, TypeOK, EventType
        <5> QED
          BY <2>4, <2>8, <4>1, <5>1
      <4>2. CASE q # r \/ m # n
        BY <2>8, <4>2 DEF CallsInv, CallsOK
      <4> QED
        BY <4>1, <4>2
    <3> QED
      BY <2>5, <3>1 DEF CallsOK
  <2>10. ASSUME NEW v \in Workers, AboutToCall(v)'
         PROVE  calls'[worker'[v].req][worker'[v].attempt] = 0
    <3>1. v # w /\ worker'[v] = worker[v] /\ AboutToCall(v)
      BY <2>6, <2>10 DEF AboutToCall
    <3>2. worker[v].req # r \/ worker[v].attempt # n
      BY <2>1, <2>2, <2>3, <3>1 DEF CallsInv
    <3>3. worker[v].req \in Requests /\ worker[v].attempt \in 1..MaxAttempts
      BY <3>1, ClaimType DEF IInv, AboutToCall, InTransit
    <3> QED
      BY <2>8, <3>1, <3>2, <3>3 DEF CallsInv
  <2>11. ASSUME NEW u \in Workers, NEW v \in Workers, AboutToCall(u)', AboutToCall(v)',
                worker'[u].req = worker'[v].req, worker'[u].attempt = worker'[v].attempt
         PROVE  u = v
    BY <2>6, <2>11 DEF CallsInv, AboutToCall
  <2> QED
    BY <2>9, <2>10, <2>11 DEF CallsInv
<1>5. ASSUME NEW w \in Workers, NEW answer \in Answers, VerifierAnswers(w, answer)
      PROVE  CallsInv'
  <2>1. event' = event /\ calls' = calls
    BY <1>5 DEF VerifierAnswers
  <2>2. \A v \in Workers : AboutToCall(v)' => worker'[v] = worker[v]
    <3>1. worker[w] \in Claimed
      BY <1>5, ClaimType DEF VerifierAnswers, InTransit, IInv
    <3> QED
      BY <1>5, <3>1 DEF VerifierAnswers, AboutToCall, IInv, TypeOK, Claimed
  <2> QED
    BY <2>1, <2>2, CallsFrame
<1>6. ASSUME NEW w \in Workers,
             FailExhaustedClaim(w) \/ FinishProcessing(w) \/ HandleRetryableFailure(w)
      PROVE  CallsInv'
  <2>1. calls' = calls /\ worker' = [worker EXCEPT ![w] = NoClaim("idle")]
    BY <1>6 DEF FailExhaustedClaim, FinishProcessing, HandleRetryableFailure, Drop
  <2>2. \A v \in Workers : AboutToCall(v)' => worker'[v] = worker[v]
    BY <2>1, DropsNoClaim DEF IInv
  <2>3. \A q \in Requests : event'[q].attempts = event[q].attempts
    <3>1. CASE \E r, code : MarkProcessed(r, code)
      BY <3>1, ClosingKeepsAttempts DEF IInv
    <3>2. CASE \E r : event' = [event EXCEPT ![r].state = "delayed", ![r].lockedBy = None,
                                             ![r].lastError = RetryCode]
      BY <3>2 DEF IInv, TypeOK, EventType
    <3> QED
      BY <1>6, <3>1, <3>2 DEF FailExhaustedClaim, FinishProcessing, HandleRetryableFailure,
                              AlreadyCompleted, Complete
  <2> QED
    BY <2>1, <2>2, <2>3, CallsFrame
<1> QED
  BY <1>1, <1>2, <1>3, <1>4, <1>5, <1>6 DEF Next, Iterate, VerifierStep, Fault

(* No attempt calls the verifier twice, whoever crashes, whichever lease   *)
(* expires, and even if workers share an identifier.                       *)
THEOREM OneCallPerAttempt == Spec => []VerifierCalledOncePerAttempt
<1>1. Init => CallsInv
  BY DEF Init, CallsInv, CallsOK, AboutToCall, NoClaim
<1>2. IInv /\ CallsInv /\ [Next]_vars => CallsInv'
  <2>1. ASSUME CallsInv, UNCHANGED vars
        PROVE  CallsInv'
    BY <2>1 DEF CallsInv, CallsOK, AboutToCall, vars
  <2> QED
    BY <2>1, CallsStep
<1>3. CallsInv => VerifierCalledOncePerAttempt
  BY DEF CallsInv, CallsOK, VerifierCalledOncePerAttempt
<1> QED
  BY <1>1, <1>2, <1>3, Invariance, PTL DEF Spec

-----------------------------------------------------------------------------
(* The refinement, as far as safety goes: what the caller sees of workers, *)
(* leases and the outbox is a behaviour of VerificationPromise.            *)

Phase(r) == IF ~Exists(r) THEN "absent"
            ELSE IF request[r].status \in Terminal THEN request[r].status ELSE "open"

Phases == [r \in Requests |-> Phase(r)]

Tries == [r \in Requests |-> event[r].attempts]

(* The actions of the promise in these words. *)
LEMMA PromiseActions ==
  ASSUME NEW r \in Requests
  PROVE  /\ Promise!Accept(r) <=> /\ Phases[r] = "absent"
                                  /\ Phases' = [Phases EXCEPT ![r] = "open"]
                                  /\ UNCHANGED <<Tries, answers>>
         /\ Promise!Try(r) <=> /\ Phases[r] = "open" /\ Tries[r] < MaxAttempts
                               /\ Tries' = [Tries EXCEPT ![r] = @ + 1]
                               /\ UNCHANGED <<Phases, answers>>
         /\ Promise!Answer(r) <=> /\ Tries[r] > 0
                                  /\ \E a \in Answers :
                                       answers' = [answers EXCEPT ![r] = @ \cup {a}]
                                  /\ UNCHANGED <<Phases, Tries>>
         /\ Promise!Verify(r) <=> /\ Phases[r] = "open" /\ "verified" \in answers[r]
                                  /\ Phases' = [Phases EXCEPT ![r] = "VERIFIED"]
                                  /\ UNCHANGED <<Tries, answers>>
         /\ Promise!Fail(r) <=> /\ Phases[r] = "open"
                                /\ \/ answers[r] \cap {"failed", "malformed"} # {}
                                   \/ Tries[r] = MaxAttempts
                                /\ Phases' = [Phases EXCEPT ![r] = "FAILED"]
                                /\ UNCHANGED <<Tries, answers>>
<1>1. Promise!Accept(r) <=> /\ Phases[r] = "absent"
                            /\ Phases' = [Phases EXCEPT ![r] = "open"]
                            /\ UNCHANGED <<Tries, answers>>
  BY DEF Promise!Accept, Phases, Phase, Tries
<1>2. Promise!Try(r) <=> /\ Phases[r] = "open" /\ Tries[r] < MaxAttempts
                         /\ Tries' = [Tries EXCEPT ![r] = @ + 1]
                         /\ UNCHANGED <<Phases, answers>>
  BY DEF Promise!Try, Phases, Phase, Tries
<1>3. Promise!Answer(r) <=> /\ Tries[r] > 0
                            /\ \E a \in Answers : answers' = [answers EXCEPT ![r] = @ \cup {a}]
                            /\ UNCHANGED <<Phases, Tries>>
  <2>1. Answers = {"verified", "failed", "malformed", "throws"}
    BY DEF Answers, Verdicts
  <2> QED
    BY <2>1 DEF Promise!Answer, Phases, Phase, Tries
<1>4. Promise!Verify(r) <=> /\ Phases[r] = "open" /\ "verified" \in answers[r]
                            /\ Phases' = [Phases EXCEPT ![r] = "VERIFIED"]
                            /\ UNCHANGED <<Tries, answers>>
  BY DEF Promise!Verify, Phases, Phase, Tries
<1>5. Promise!Fail(r) <=> /\ Phases[r] = "open"
                          /\ \/ answers[r] \cap {"failed", "malformed"} # {}
                             \/ Tries[r] = MaxAttempts
                          /\ Phases' = [Phases EXCEPT ![r] = "FAILED"]
                          /\ UNCHANGED <<Tries, answers>>
  BY DEF Promise!Fail, Phases, Phase, Tries
<1> QED
  BY <1>1, <1>2, <1>3, <1>4, <1>5

LEMMA PromiseVars == UNCHANGED <<Phases, Tries, answers>> => UNCHANGED Promise!vars
  BY DEF Promise!vars, Phases, Phase, Tries

(* What a row shows depends on its status and its attempts only. *)
LEMMA PhasesStep ==
  ASSUME NEW r \in Requests, NEW phase, Phase(r)' = phase,
         \A q \in Requests \ {r} : request'[q].status = request[q].status
  PROVE  Phases' = [Phases EXCEPT ![r] = phase]
<1>1. \A q \in Requests \ {r} : Phase(q)' = Phase(q)
  BY DEF Phase, Exists
<1> QED
  BY <1>1 DEF Phases

LEMMA PhasesKept ==
  ASSUME \A q \in Requests : request'[q].status = request[q].status \/ Phase(q)' = Phase(q)
  PROVE  Phases' = Phases
<1>1. \A q \in Requests : Phase(q)' = Phase(q)
  BY DEF Phase, Exists
<1> QED
  BY <1>1 DEF Phases

LEMMA TriesKept ==
  ASSUME \A q \in Requests : event'[q].attempts = event[q].attempts
  PROVE  Tries' = Tries
  BY DEF Tries

(* An answer that a worker holds has been given. *)
AnswersInv == \A w \in Workers : worker[w].pc = "answered" =>
                                   worker[w].answer \in answers[worker[w].req]

LEMMA AnswersStep ==
  ASSUME IInv, AnswersInv, Next
  PROVE  AnswersInv'
<1>1. ASSUME answers' = answers,
             \A w \in Workers : worker'[w].pc = "answered" => worker'[w] = worker[w]
      PROVE  AnswersInv'
  BY <1>1 DEF AnswersInv
<1>2. ASSUME NEW w \in Workers, NEW answer \in Answers, VerifierAnswers(w, answer)
      PROVE  AnswersInv'
  <2>1. worker[w] \in Claimed /\ worker[w].req \in Requests
    BY <1>2, ClaimType DEF VerifierAnswers, InTransit, IInv
  <2>2. /\ worker'[w].req = worker[w].req /\ worker'[w].answer = answer
        /\ \A v \in Workers \ {w} : worker'[v] = worker[v]
    BY <1>2, <2>1 DEF VerifierAnswers, IInv, TypeOK, Claimed
  <2>3. answers' = [answers EXCEPT ![worker[w].req] = @ \cup {answer}]
    BY <1>2 DEF VerifierAnswers
  <2>4. answer \in answers'[worker[w].req]
    BY <2>1, <2>3 DEF IInv, TypeOK
  <2>5. \A q \in Requests : answers[q] \subseteq answers'[q]
    BY <2>1, <2>3 DEF IInv, TypeOK
  <2>6. ASSUME NEW v \in Workers \ {w}, worker'[v].pc = "answered"
        PROVE  worker'[v].answer \in answers'[worker'[v].req]
    <3>1. worker[v].pc = "answered" /\ worker[v].req \in Requests
      BY <2>2, <2>6, ClaimType DEF InTransit, IInv
    <3> QED
      BY <2>2, <2>5, <2>6, <3>1 DEF AnswersInv
  <2> QED
    BY <2>2, <2>4, <2>6 DEF AnswersInv
<1>3. ASSUME NEW w \in Workers, BeginProcessing(w)
      PROVE  AnswersInv'
  <2>1. InTransit(w) /\ OwnsClaim(w) /\ worker[w].pc = "claimed"
    BY <1>3 DEF BeginProcessing, InTransit
  <2>2. worker' = [worker EXCEPT ![w].pc = "verifying"] /\ answers' = answers
    BY <1>3, <2>1, OwnedIsOpen DEF BeginProcessing
  <2>3. \A v \in Workers : worker'[v].pc = "answered" => worker'[v] = worker[v]
    BY <2>2 DEF IInv, TypeOK, WorkerType, Unclaimed, Claimed, Answered
  <2> QED
    BY <1>1, <2>2, <2>3
<1>4. ASSUME NEW w \in Workers, NEW r \in Requests, ClaimNextEvent(w, r)
      PROVE  AnswersInv'
  <2>1. answers' = answers /\ \A v \in Workers : worker'[v].pc = "answered" => worker'[v] = worker[v]
    BY <1>4 DEF ClaimNextEvent, IInv, TypeOK
  <2> QED
    BY <1>1, <2>1
<1>5. ASSUME NEW w \in Workers,
             LoseClaim(w) \/ IterationFails(w) \/ Stop(w) \/ Start(w)
               \/ FailExhaustedClaim(w) \/ FinishProcessing(w) \/ HandleRetryableFailure(w)
      PROVE  AnswersInv'
  <2>1. answers' = answers
    BY <1>5 DEF LoseClaim, IterationFails, Stop, Start, FailExhaustedClaim, FinishProcessing,
                HandleRetryableFailure
  <2>2. PICK pc \in {"idle", "stopped"} : worker' = [worker EXCEPT ![w] = NoClaim(pc)]
    BY <1>5 DEF LoseClaim, IterationFails, Stop, Start, FailExhaustedClaim, FinishProcessing,
                HandleRetryableFailure, Drop
  <2>3. \A v \in Workers : worker'[v].pc = "answered" => worker'[v] = worker[v]
    BY <2>2 DEF NoClaim, IInv, TypeOK
  <2> QED
    BY <1>1, <2>1, <2>3
<1>6. ASSUME NEW r \in Requests,
             RequestRightToWorkVerification(r) \/ BecomesDue(r) \/ LeaseExpires(r)
      PROVE  AnswersInv'
  BY <1>6 DEF AnswersInv, RequestRightToWorkVerification, BecomesDue, LeaseExpires
<1> QED
  BY <1>2, <1>3, <1>4, <1>5, <1>6 DEF Next, Iterate, VerifierStep, Fault

LEMMA AnswersAreGiven == Spec => []AnswersInv
<1>1. Init => AnswersInv
  BY DEF Init, AnswersInv, NoClaim
<1>2. IInv /\ AnswersInv /\ [Next]_vars => AnswersInv'
  BY AnswersStep DEF vars, AnswersInv
<1> QED
  BY <1>1, <1>2, Invariance, PTL DEF Spec

(* Closing a request, as a step of the promise. *)
LEMMA CompleteIsPromised ==
  ASSUME IInv, NEW r \in Requests, request[r].status \in {"REQUESTED", "PENDING"},
         NEW n, NEW status \in Terminal, NEW code, NEW actions,
         Complete(r, n, status, code, actions), answers' = answers,
         status = "VERIFIED" => "verified" \in answers[r],
         status = "FAILED" => \/ answers[r] \cap {"failed", "malformed"} # {}
                              \/ event[r].attempts = MaxAttempts
  PROVE  Promise!Next
<1>1. /\ request'[r].status = status
      /\ \A q \in Requests \ {r} : request'[q] = request[q]
      /\ \A q \in Requests : event'[q].attempts = event[q].attempts
  BY CompleteEffect DEF IInv
<1>2. Phases[r] = "open" /\ Phase(r)' = status
  BY <1>1 DEF Phases, Phase, Exists, Terminal
<1>3. Phases' = [Phases EXCEPT ![r] = status] /\ Tries' = Tries /\ Tries[r] = event[r].attempts
  BY <1>1, <1>2, PhasesStep, TriesKept DEF Tries
<1>4. Promise!Verify(r) \/ Promise!Fail(r)
  <2>1. CASE status = "VERIFIED"
    BY <1>2, <1>3, <2>1, PromiseActions
  <2>2. CASE status = "FAILED"
    BY <1>2, <1>3, <2>2, PromiseActions
  <2> QED
    BY <2>1, <2>2 DEF Terminal
<1> QED
  BY <1>4 DEF Promise!Next, Promise!Progress

LEMMA PromiseStep ==
  ASSUME IInv, TypeOK', AnswersInv, Next
  PROVE  Promise!Next \/ UNCHANGED Promise!vars
<1>1. ASSUME NEW r \in Requests, RequestRightToWorkVerification(r)
      PROVE  Promise!Next
  <2>1. /\ request' = [request EXCEPT ![r].status = "REQUESTED"]
        /\ event' = [event EXCEPT ![r].state = "available"]
        /\ ~Exists(r) /\ answers' = answers
    BY <1>1 DEF RequestRightToWorkVerification
  <2>2. /\ request'[r].status = "REQUESTED"
        /\ \A q \in Requests \ {r} : request'[q] = request[q]
        /\ \A q \in Requests : event'[q].attempts = event[q].attempts
    BY <2>1 DEF IInv, TypeOK, RequestType, EventType
  <2>3. Phases[r] = "absent" /\ Phase(r)' = "open"
    BY <2>1, <2>2 DEF Phases, Phase, Exists, Terminal
  <2>4. Promise!Accept(r)
    BY <2>1, <2>2, <2>3, PhasesStep, TriesKept, PromiseActions
  <2> QED
    BY <2>4 DEF Promise!Next
<1>2. ASSUME NEW r \in Requests, BecomesDue(r) \/ LeaseExpires(r)
      PROVE  UNCHANGED Promise!vars
  <2>1. request' = request /\ answers' = answers
    BY <1>2 DEF BecomesDue, LeaseExpires
  <2>2. PICK s : event' = [event EXCEPT ![r].state = s]
    BY <1>2 DEF BecomesDue, LeaseExpires
  <2>3. \A q \in Requests : event'[q].attempts = event[q].attempts
    BY <2>2 DEF IInv, TypeOK, EventType
  <2> QED
    BY <2>1, <2>3, PhasesKept, TriesKept, PromiseVars
<1>3. ASSUME NEW w \in Workers, NEW r \in Requests, ClaimNextEvent(w, r)
      PROVE  Promise!Next \/ UNCHANGED Promise!vars
  <2>1. /\ event' = [event EXCEPT ![r].state = "leased", ![r].attempts = NextAttempt(r),
                                  ![r].lockedBy = IdOf[w]]
        /\ request' = request /\ answers' = answers
        /\ event[r].state \notin {"absent", "processed"}
    BY <1>3 DEF ClaimNextEvent, Claimable
  <2>2. /\ event'[r].attempts = NextAttempt(r) /\ event[r].attempts \in 0..MaxAttempts
        /\ \A q \in Requests \ {r} : event'[q] = event[q]
    BY <2>1 DEF IInv, TypeOK, EventType
  <2>3. Phases[r] = "open" /\ Phases' = Phases
    <3>1. Exists(r) /\ request[r].status \notin Terminal
      BY <2>1 DEF IInv, RowsOKInv, RowOK
    <3> QED
      BY <2>1, <3>1, PhasesKept DEF Phases, Phase
  <2>4. CASE Exhausted(r)
    <3>1. NextAttempt(r) = event[r].attempts
      BY <2>2, <2>4, MaxAttemptsAssumption DEF Exhausted, NextAttempt
    <3>2. \A q \in Requests : event'[q].attempts = event[q].attempts
      BY <2>2, <3>1
    <3> QED
      BY <2>1, <2>3, <3>2, TriesKept, PromiseVars
  <2>5. CASE ~Exhausted(r)
    <3>1. NextAttempt(r) = event[r].attempts + 1 /\ event[r].attempts < MaxAttempts
      BY <2>2, <2>5, MaxAttemptsAssumption DEF Exhausted, NextAttempt
    <3>2. Tries[r] < MaxAttempts /\ Tries' = [Tries EXCEPT ![r] = @ + 1]
      BY <2>2, <3>1 DEF Tries
    <3>3. Promise!Try(r)
      BY <2>1, <2>3, <3>2, PromiseActions
    <3> QED
      BY <3>3 DEF Promise!Next, Promise!Progress
  <2> QED
    BY <2>4, <2>5
<1>4. ASSUME NEW w \in Workers, LoseClaim(w) \/ IterationFails(w) \/ Stop(w) \/ Start(w)
      PROVE  UNCHANGED Promise!vars
  <2>1. request' = request /\ answers' = answers /\ event' = event
    BY <1>4 DEF LoseClaim, IterationFails, Stop, Start
  <2> QED
    BY <2>1, PhasesKept, TriesKept, PromiseVars
<1>5. ASSUME NEW w \in Workers, BeginProcessing(w)
      PROVE  UNCHANGED Promise!vars
  <2>1. InTransit(w) /\ OwnsClaim(w)
    BY <1>5 DEF BeginProcessing, InTransit
  <2>2. PICK r \in Requests : r = worker[w].req
    BY <2>1, ClaimType DEF IInv
  <2>3. /\ request' = [request EXCEPT ![r].status = "PENDING",
                                      ![r].attemptCount = worker[w].attempt]
        /\ event' = event /\ answers' = answers
    BY <1>5, <2>1, <2>2, OwnedIsOpen DEF BeginProcessing
  <2>4. /\ request'[r].status = "PENDING" /\ \A q \in Requests \ {r} : request'[q] = request[q]
        /\ request[r].status \in {"REQUESTED", "PENDING"}
    BY <2>1, <2>2, <2>3, OwnedStatus DEF IInv, TypeOK, RequestType
  <2>5. Phase(r)' = Phase(r)
    BY <2>4 DEF Phase, Exists, Terminal
  <2> QED
    BY <2>3, <2>4, <2>5, PhasesKept, TriesKept, PromiseVars
<1>6. ASSUME NEW w \in Workers, FailExhaustedClaim(w)
      PROVE  Promise!Next
  <2>1. InTransit(w) /\ OwnsClaim(w) /\ answers' = answers /\ worker[w].pc = "exhausted"
    BY <1>6 DEF FailExhaustedClaim, InTransit
  <2>2. PICK r \in Requests : r = worker[w].req
    BY <2>1, ClaimType DEF IInv
  <2>3. PICK actions : Complete(r, worker[w].attempt, "FAILED", ExhaustedCode, actions)
    BY <1>6, <2>1, <2>2, OwnedIsOpen DEF FailExhaustedClaim
  <2>4. request[r].status \in {"REQUESTED", "PENDING"}
    BY <2>1, <2>2, OwnedStatus
  <2>5. event[r].attempts = MaxAttempts
    <3>1. /\ worker[w].attempt = MaxAttempts /\ worker[w].attempt <= event[r].attempts
          /\ event[r].attempts \in 0..MaxAttempts
      BY <2>1, <2>2 DEF IInv, ClaimsOKInv, ClaimOK, TypeOK, EventType
    <3> QED
      BY <3>1, MaxAttemptsAssumption
  <2> QED
    BY <2>1, <2>3, <2>4, <2>5, CompleteIsPromised DEF Terminal
<1>7. ASSUME NEW w \in Workers, NEW answer \in Answers, VerifierAnswers(w, answer)
      PROVE  Promise!Next
  <2>1. InTransit(w) /\ request' = request /\ event' = event
    BY <1>7 DEF VerifierAnswers, InTransit
  <2>2. PICK r \in Requests : r = worker[w].req
    BY <2>1, ClaimType DEF IInv
  <2>3. answers' = [answers EXCEPT ![r] = @ \cup {answer}]
    BY <1>7, <2>2 DEF VerifierAnswers
  <2>4. Tries[r] > 0
    <3>1. /\ worker[w].attempt \in 1..MaxAttempts /\ worker[w].attempt <= event[r].attempts
          /\ event[r].attempts \in 0..MaxAttempts
      BY <2>1, <2>2, ClaimType DEF IInv, ClaimsOKInv, ClaimOK, TypeOK, EventType
    <3> QED
      BY <3>1 DEF Tries
  <2>5. Promise!Answer(r)
    BY <2>1, <2>3, <2>4, PhasesKept, TriesKept, PromiseActions
  <2> QED
    BY <2>5 DEF Promise!Next
<1>8. ASSUME NEW w \in Workers, FinishProcessing(w)
      PROVE  Promise!Next
  <2>1. /\ InTransit(w) /\ OwnsClaim(w) /\ answers' = answers
        /\ worker[w].pc = "answered" /\ worker[w].answer \in Verdicts
    BY <1>8 DEF FinishProcessing, InTransit
  <2>2. PICK r \in Requests : r = worker[w].req
    BY <2>1, ClaimType DEF IInv
  <2>3. worker[w].answer \in answers[r] /\ request[r].status \in {"REQUESTED", "PENDING"}
    BY <2>1, <2>2, OwnedStatus DEF AnswersInv
  <2>4. CASE worker[w].answer = "verified"
    <3>1. Complete(r, worker[w].attempt, "VERIFIED", None, <<"verified">>)
      BY <1>8, <2>1, <2>2, <2>4, OwnedIsOpen DEF FinishProcessing
    <3> QED
      BY <2>1, <2>3, <2>4, <3>1, CompleteIsPromised DEF Terminal
  <2>5. CASE worker[w].answer # "verified"
    <3>1. Complete(r, worker[w].attempt, "FAILED", SafeFailureCode(worker[w].answer), <<"failed">>)
      BY <1>8, <2>1, <2>2, <2>5, OwnedIsOpen DEF FinishProcessing
    <3>2. answers[r] \cap {"failed", "malformed"} # {}
      BY <2>1, <2>3, <2>5 DEF Verdicts
    <3> QED
      BY <2>1, <2>3, <3>1, <3>2, CompleteIsPromised DEF Terminal
  <2> QED
    BY <2>4, <2>5
<1>9. ASSUME NEW w \in Workers, HandleRetryableFailure(w)
      PROVE  Promise!Next \/ UNCHANGED Promise!vars
  <2>1. InTransit(w) /\ OwnsClaim(w) /\ answers' = answers /\ worker[w].pc = "answered"
    BY <1>9 DEF HandleRetryableFailure, InTransit
  <2>2. PICK r \in Requests : r = worker[w].req
    BY <2>1, ClaimType DEF IInv
  <2>3. CASE LastAttempt(worker[w].attempt)
    <3>1. Complete(r, worker[w].attempt, "FAILED", ExhaustedCode, <<"failed">>)
      BY <1>9, <2>2, <2>3 DEF HandleRetryableFailure
    <3>2. request[r].status \in {"REQUESTED", "PENDING"}
      BY <2>1, <2>2, OwnedStatus
    <3>3. event[r].attempts = MaxAttempts
      <4>1. /\ worker[w].attempt \in 1..MaxAttempts /\ worker[w].attempt <= event[r].attempts
            /\ event[r].attempts \in 0..MaxAttempts
        BY <2>1, <2>2, ClaimType DEF IInv, ClaimsOKInv, ClaimOK, TypeOK, EventType
      <4> QED
        BY <2>3, <4>1, MaxAttemptsAssumption DEF LastAttempt
    <3> QED
      BY <2>1, <3>1, <3>2, <3>3, CompleteIsPromised DEF Terminal
  <2>4. CASE ~LastAttempt(worker[w].attempt)
    <3>1. /\ request' = [request EXCEPT ![r].attemptCount = worker[w].attempt]
          /\ event' = [event EXCEPT ![r].state = "delayed", ![r].lockedBy = None,
                                    ![r].lastError = RetryCode]
      BY <1>9, <2>2, <2>4 DEF HandleRetryableFailure
    <3>2. \A q \in Requests : request'[q].status = request[q].status
      BY <3>1 DEF IInv, TypeOK, RequestType
    <3>3. \A q \in Requests : event'[q].attempts = event[q].attempts
      BY <3>1 DEF IInv, TypeOK, EventType
    <3> QED
      BY <2>1, <3>2, <3>3, PhasesKept, TriesKept, PromiseVars
  <2> QED
    BY <2>3, <2>4
<1> QED
  BY <1>1, <1>2, <1>3, <1>4, <1>5, <1>6, <1>7, <1>8, <1>9 DEF Next, Iterate, VerifierStep, Fault

(* A request is accepted, tried and decided as VerificationPromise says:   *)
(* VERIFIED only on the verifier's word, FAILED only on its word or with   *)
(* no attempt left, and once.                                              *)
THEOREM ImplementsPromise == Spec => Promise!Spec
<1>1. Init => Promise!Init
  BY DEF Init, Promise!Init, Exists
<1>2. IInv /\ AnswersInv /\ [Next]_vars => [Promise!Next]_(Promise!vars)
  <2>1. ASSUME IInv, AnswersInv, Next
        PROVE  Promise!Next \/ UNCHANGED Promise!vars
    BY <2>1, PromiseStep, TypingStep DEF IInv
  <2>2. ASSUME UNCHANGED vars
        PROVE  UNCHANGED Promise!vars
    BY <2>2 DEF vars, Promise!vars, Exists
  <2> QED
    BY <2>1, <2>2
<1> QED
  BY <1>1, <1>2, AnswersAreGiven, Invariance, PTL DEF Spec, Promise!Spec

-----------------------------------------------------------------------------
(* What a decision rests on. *)

(* A request is VERIFIED because the verifier said so, and FAILED with the *)
(* code of something it said, or because no attempt is left: no default    *)
(* and no recovery path decides anything else.                             *)
Backed(r) ==
  /\ request[r].status = "VERIFIED" =>
       request[r].failureCode = None /\ "verified" \in answers[r]
  /\ request[r].status = "FAILED" =>
       \/ request[r].failureCode = ProviderCode /\ "failed" \in answers[r]
       \/ request[r].failureCode = GenericCode /\ "malformed" \in answers[r]
       \/ request[r].failureCode = ExhaustedCode /\ event[r].attempts = MaxAttempts

DecisionsAreBacked == \A r \in Requests : Backed(r)

(* Nothing the verifier has said is forgotten. *)
LEMMA AnswersGrow ==
  ASSUME IInv, [Next]_vars, NEW q \in Requests PROVE answers[q] \subseteq answers'[q]
<1>1. ASSUME NEW w \in Workers, NEW answer \in Answers, VerifierAnswers(w, answer)
      PROVE  answers[q] \subseteq answers'[q]
  BY <1>1 DEF VerifierAnswers, IInv, TypeOK
<1> QED
  BY <1>1 DEF Next, Iterate, VerifierStep, Fault, RequestRightToWorkVerification, BecomesDue,
              LeaseExpires, ClaimNextEvent, LoseClaim, BeginProcessing, FailExhaustedClaim,
              FinishProcessing, HandleRetryableFailure, IterationFails, Stop, Start, vars

(* The terminal UPDATE, with what its caller knows. *)
LEMMA CompleteIsBacked ==
  ASSUME IInv, NEW r \in Requests, NEW n, NEW status \in Terminal, NEW code, NEW actions,
         Complete(r, n, status, code, actions), answers' = answers,
         status = "VERIFIED" => code = None /\ "verified" \in answers[r],
         status = "FAILED" => \/ code = ProviderCode /\ "failed" \in answers[r]
                              \/ code = GenericCode /\ "malformed" \in answers[r]
                              \/ code = ExhaustedCode /\ event[r].attempts = MaxAttempts,
         NEW q \in Requests, request[q].status \notin Terminal, request'[q].status \in Terminal
  PROVE  Backed(q)'
<1>1. /\ request'[r].status = status /\ request'[r].failureCode = code
      /\ event'[r].attempts = event[r].attempts
      /\ \A p \in Requests \ {r} : request'[p] = request[p]
  BY CompleteEffect DEF IInv
<1>2. q = r
  BY <1>1
<1> QED
  BY <1>1, <1>2 DEF Backed

(* A request is decided by one of the three paths that close it. *)
LEMMA DecidingStep ==
  ASSUME IInv, AnswersInv, Next, NEW q \in Requests,
         request[q].status \notin Terminal, request'[q].status \in Terminal
  PROVE  Backed(q)'
<1>1. ASSUME UNCHANGED request PROVE FALSE
  BY <1>1
<1>2. ASSUME NEW r \in Requests, RequestRightToWorkVerification(r) PROVE FALSE
  <2>1. request'[q].status \in {"REQUESTED", request[q].status}
    BY <1>2 DEF RequestRightToWorkVerification, IInv, TypeOK, RequestType
  <2> QED
    BY <2>1 DEF Terminal
<1>3. ASSUME NEW w \in Workers, BeginProcessing(w) PROVE FALSE
  <2>1. InTransit(w) /\ OwnsClaim(w)
    BY <1>3 DEF BeginProcessing, InTransit
  <2>2. PICK r \in Requests : r = worker[w].req
    BY <2>1, ClaimType DEF IInv
  <2>3. request' = [request EXCEPT ![r].status = "PENDING",
                                   ![r].attemptCount = worker[w].attempt]
    BY <1>3, <2>1, <2>2, OwnedIsOpen DEF BeginProcessing
  <2>4. request'[q].status \in {"PENDING", request[q].status}
    BY <2>3 DEF IInv, TypeOK, RequestType
  <2> QED
    BY <2>4 DEF Terminal
<1>4. ASSUME NEW w \in Workers, FailExhaustedClaim(w) PROVE Backed(q)'
  <2>1. InTransit(w) /\ OwnsClaim(w) /\ answers' = answers /\ worker[w].pc = "exhausted"
    BY <1>4 DEF FailExhaustedClaim, InTransit
  <2>2. PICK r \in Requests : r = worker[w].req
    BY <2>1, ClaimType DEF IInv
  <2>3. PICK actions : Complete(r, worker[w].attempt, "FAILED", ExhaustedCode, actions)
    BY <1>4, <2>1, <2>2, OwnedIsOpen DEF FailExhaustedClaim
  <2>4. event[r].attempts = MaxAttempts
    <3>1. /\ worker[w].attempt = MaxAttempts /\ worker[w].attempt <= event[r].attempts
          /\ event[r].attempts \in 0..MaxAttempts
      BY <2>1, <2>2 DEF IInv, ClaimsOKInv, ClaimOK, TypeOK, EventType
    <3> QED
      BY <3>1, MaxAttemptsAssumption
  <2> QED
    BY <2>1, <2>3, <2>4, CompleteIsBacked DEF Terminal
<1>5. ASSUME NEW w \in Workers, FinishProcessing(w) PROVE Backed(q)'
  <2>1. /\ InTransit(w) /\ OwnsClaim(w) /\ answers' = answers
        /\ worker[w].pc = "answered" /\ worker[w].answer \in Verdicts
    BY <1>5 DEF FinishProcessing, InTransit
  <2>2. PICK r \in Requests : r = worker[w].req
    BY <2>1, ClaimType DEF IInv
  <2>3. worker[w].answer \in answers[r]
    BY <2>1, <2>2 DEF AnswersInv
  <2>4. CASE worker[w].answer = "verified"
    <3>1. Complete(r, worker[w].attempt, "VERIFIED", None, <<"verified">>)
      BY <1>5, <2>1, <2>2, <2>4, OwnedIsOpen DEF FinishProcessing
    <3> QED
      BY <2>1, <2>3, <2>4, <3>1, CompleteIsBacked DEF Terminal
  <2>5. CASE worker[w].answer # "verified"
    <3>1. Complete(r, worker[w].attempt, "FAILED", SafeFailureCode(worker[w].answer), <<"failed">>)
      BY <1>5, <2>1, <2>2, <2>5, OwnedIsOpen DEF FinishProcessing
    <3>2. PICK code : code = SafeFailureCode(worker[w].answer)
      OBVIOUS
    <3>3. \/ code = ProviderCode /\ "failed" \in answers[r]
          \/ code = GenericCode /\ "malformed" \in answers[r]
      BY <2>1, <2>3, <2>5, <3>2 DEF Verdicts, SafeFailureCode
    <3> QED
      BY <2>1, <3>1, <3>2, <3>3, CompleteIsBacked DEF Terminal
  <2> QED
    BY <2>4, <2>5
<1>6. ASSUME NEW w \in Workers, HandleRetryableFailure(w) PROVE Backed(q)'
  <2>1. InTransit(w) /\ OwnsClaim(w) /\ answers' = answers /\ worker[w].pc = "answered"
    BY <1>6 DEF HandleRetryableFailure, InTransit
  <2>2. PICK r \in Requests : r = worker[w].req
    BY <2>1, ClaimType DEF IInv
  <2>3. CASE LastAttempt(worker[w].attempt)
    <3>1. Complete(r, worker[w].attempt, "FAILED", ExhaustedCode, <<"failed">>)
      BY <1>6, <2>2, <2>3 DEF HandleRetryableFailure
    <3>2. event[r].attempts = MaxAttempts
      <4>1. /\ worker[w].attempt \in 1..MaxAttempts /\ worker[w].attempt <= event[r].attempts
            /\ event[r].attempts \in 0..MaxAttempts
        BY <2>1, <2>2, ClaimType DEF IInv, ClaimsOKInv, ClaimOK, TypeOK, EventType
      <4> QED
        BY <2>3, <4>1, MaxAttemptsAssumption DEF LastAttempt
    <3> QED
      BY <2>1, <3>1, <3>2, CompleteIsBacked DEF Terminal
  <2>4. CASE ~LastAttempt(worker[w].attempt)
    <3>1. request' = [request EXCEPT ![r].attemptCount = worker[w].attempt]
      BY <1>6, <2>2, <2>4 DEF HandleRetryableFailure
    <3>2. request'[q].status = request[q].status
      BY <3>1 DEF IInv, TypeOK, RequestType
    <3> QED
      BY <3>2
  <2> QED
    BY <2>3, <2>4
<1> QED
  BY <1>1, <1>2, <1>3, <1>4, <1>5, <1>6
     DEF Next, Iterate, VerifierStep, Fault, BecomesDue, LeaseExpires, ClaimNextEvent, LoseClaim,
         VerifierAnswers, IterationFails, Stop, Start

(* Every decision is backed by something the verifier said or by the last  *)
(* attempt, at the moment it is taken and ever after, whichever worker     *)
(* wrote it, fenced or not.                                                *)
THEOREM DecisionsHaveGrounds == Spec => []DecisionsAreBacked
<1>1. Init => DecisionsAreBacked
  BY DEF Init, DecisionsAreBacked, Backed
<1>2. IInv /\ AnswersInv /\ DecisionsAreBacked /\ [Next]_vars => DecisionsAreBacked'
  <2> SUFFICES ASSUME IInv, AnswersInv, DecisionsAreBacked, [Next]_vars, NEW q \in Requests
               PROVE  Backed(q)'
    BY DEF DecisionsAreBacked
  <2>1. Backed(q) /\ answers[q] \subseteq answers'[q]
    BY AnswersGrow DEF DecisionsAreBacked
  <2>2. CASE UNCHANGED vars
    BY <2>1, <2>2 DEF vars, Backed
  <2>3. CASE Next /\ request[q].status \in Terminal
    <3>1. request'[q] = request[q] /\ event'[q] = event[q]
      BY <2>3, TypingStep, WritesAreToOpenRequests DEF IInv
    <3> QED
      BY <2>1, <3>1 DEF Backed
  <2>4. CASE Next /\ request[q].status \notin Terminal
    <3>1. CASE request'[q].status \in Terminal
      BY <2>4, <3>1, DecidingStep
    <3>2. CASE request'[q].status \notin Terminal
      BY <3>2 DEF Backed, Terminal
    <3> QED
      BY <3>1, <3>2
  <2> QED
    BY <2>2, <2>3, <2>4
<1> QED
  BY <1>1, <1>2, AnswersAreGiven, Invariance, PTL DEF Spec

=============================================================================
