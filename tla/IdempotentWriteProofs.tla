----------------------- MODULE IdempotentWriteProofs -----------------------
(***************************************************************************)
(* Theorems about IdempotentWrite, for every set of calls, keys and        *)
(* payloads: one effect per record, and the refinement of KeyedWrite.      *)
(***************************************************************************)
EXTENDS IdempotentWrite, TLAPS

-----------------------------------------------------------------------------
(* The inductive invariant. *)

(* What holds of a call, beside its type: it has its input once it is made *)
(* and its answer once it is answered; an error that comes from a record   *)
(* is raised only when there is one.                                       *)
CallOK(c) ==
  /\ call[c].pc # "unsent" => call[c].key \in Keys /\ call[c].payload \in Payloads
  /\ call[c].answer # None <=> call[c].pc = "answered"
  /\ call[c].pc = "raised" => \/ call[c].error \in {"rejected", "failed"}
                              \/ call[c].error \in Errors /\ Stored(c) # None
  /\ call[c].pc = "inserted" => Stored(c) = None
  /\ call[c].pc = "committed" => Stored(c) = [payload |-> call[c].payload, body |-> c]

(* The index entry of an uncommitted insertion keeps every other out.      *)
OneInsertion == \A c, d \in Calls :
  call[c].pc = "inserted" /\ call[d].pc = "inserted" /\ call[c].key = call[d].key => c = d

CallsOK == \A c \in Calls : CallOK(c)

IInv == TypeOK /\ CallsOK /\ OneInsertion /\ EffectsMatchRecords

LEMMA InvInit == Init => IInv
  BY KindAssumption, NoneAssumption
     DEF Init, IInv, TypeOK, CallType, InFlight, CallsOK, CallOK, OneInsertion, EffectsMatchRecords

(* The writes to the fields of a call, one at a time. *)
LEMMA FieldTypes ==
  ASSUME NEW f \in [Calls -> CallType], NEW c
  PROVE  /\ \A pc \in {"unsent", "answered", "lost"} \cup InFlight :
              [f EXCEPT ![c].pc = pc] \in [Calls -> CallType]
         /\ \A k \in Keys \cup {None} : [f EXCEPT ![c].key = k] \in [Calls -> CallType]
         /\ \A p \in Payloads \cup {None} : [f EXCEPT ![c].payload = p] \in [Calls -> CallType]
         /\ \A e \in Errors \cup {None} : [f EXCEPT ![c].error = e] \in [Calls -> CallType]
         /\ \A a \in Calls \cup Problems \cup {None} :
              [f EXCEPT ![c].answer = a] \in [Calls -> CallType]
<1>1. \A pc \in {"unsent", "answered", "lost"} \cup InFlight :
        [f EXCEPT ![c].pc = pc] \in [Calls -> CallType]
  BY DEF CallType
<1>2. \A k \in Keys \cup {None} : [f EXCEPT ![c].key = k] \in [Calls -> CallType]
  BY DEF CallType
<1>3. \A p \in Payloads \cup {None} : [f EXCEPT ![c].payload = p] \in [Calls -> CallType]
  BY DEF CallType
<1>4. \A e \in Errors \cup {None} : [f EXCEPT ![c].error = e] \in [Calls -> CallType]
  BY DEF CallType
<1>5. \A a \in Calls \cup Problems \cup {None} : [f EXCEPT ![c].answer = a] \in [Calls -> CallType]
  BY DEF CallType
<1> QED
  BY <1>1, <1>2, <1>3, <1>4, <1>5

(* A step of one call that writes no record.                               *)
LEMMA OneCallStep ==
  ASSUME IInv, NEW c \in Calls, UNCHANGED <<record, effects>>,
         target' \in [Payloads -> {"open", "used", "removed"}],
         call' \in [Calls -> CallType],
         \A d \in Calls \ {c} : call'[d] = call[d],
         CallOK(c)',
         call'[c].pc = "inserted" =>
           \A d \in Calls : call[d].pc = "inserted" => call[d].key # call'[c].key
  PROVE  IInv'
<1>1. TypeOK'
  BY DEF IInv, TypeOK, CallOK
<1>2. CallsOK'
  BY DEF IInv, CallsOK, CallOK, Stored
<1>3. OneInsertion'
  BY DEF IInv, OneInsertion
<1>4. EffectsMatchRecords'
  BY DEF IInv, EffectsMatchRecords
<1> QED
  BY <1>1, <1>2, <1>3, <1>4 DEF IInv

LEMMA GotoStep ==
  ASSUME IInv, NEW c \in Calls, UNCHANGED <<record, effects, target>>,
         call[c].pc \in InFlight,
         NEW pc \in {"executing", "executed", "inserted", "lost"}, Goto(c, pc),
         pc = "inserted" =>
           /\ Stored(c) = None
           /\ \A d \in Calls : call[d].pc = "inserted" => call[d].key # call[c].key
  PROVE  IInv'
<1>1. call' \in [Calls -> CallType]
  BY DEF IInv, TypeOK, Goto, CallType, InFlight
<1>2. /\ call'[c].pc = pc /\ call'[c].key = call[c].key /\ call'[c].payload = call[c].payload
      /\ call'[c].answer = call[c].answer
      /\ \A d \in Calls \ {c} : call'[d] = call[d]
  BY DEF IInv, TypeOK, Goto, CallType
<1>3. CallOK(c)'
  BY <1>2 DEF IInv, CallsOK, CallOK, Stored, InFlight
<1> QED
  BY <1>1, <1>2, <1>3, OneCallStep DEF IInv, TypeOK

LEMMA RaiseStep ==
  ASSUME IInv, NEW c \in Calls, UNCHANGED <<record, effects, target>>,
         call[c].pc \in InFlight, NEW error \in Errors, Raise(c, error),
         error \in {"rejected", "failed"} \/ Stored(c) # None
  PROVE  IInv'
<1>1. call' \in [Calls -> CallType]
  <2>1. PICK f \in [Calls -> CallType] : f = [call EXCEPT ![c].pc = "raised"]
    BY FieldTypes DEF IInv, TypeOK, InFlight
  <2>2. [f EXCEPT ![c].error = error] \in [Calls -> CallType]
    BY FieldTypes
  <2> QED
    BY <2>1, <2>2 DEF Raise
<1>2. /\ call'[c].pc = "raised" /\ call'[c].key = call[c].key
      /\ call'[c].payload = call[c].payload
      /\ call'[c].answer = call[c].answer /\ call'[c].error = error
      /\ \A d \in Calls \ {c} : call'[d] = call[d]
  BY DEF IInv, TypeOK, Raise, CallType
<1>3. CallOK(c)'
  BY <1>2 DEF IInv, CallsOK, CallOK, Stored, InFlight
<1> QED
  BY <1>1, <1>2, <1>3, OneCallStep DEF IInv, TypeOK

LEMMA AnswerStep ==
  ASSUME IInv, NEW c \in Calls, UNCHANGED <<record, effects, target>>,
         call[c].pc \in InFlight, NEW answer \in Calls \cup Problems, Answer(c, answer)
  PROVE  IInv'
<1>0. answer # None
  BY NoneAssumption DEF Problems, Errors
<1>1. call' \in [Calls -> CallType]
  <2>1. PICK f \in [Calls -> CallType] : f = [call EXCEPT ![c].pc = "answered"]
    BY FieldTypes DEF IInv, TypeOK, InFlight
  <2>2. [f EXCEPT ![c].answer = answer] \in [Calls -> CallType]
    BY FieldTypes
  <2> QED
    BY <2>1, <2>2 DEF Answer
<1>2. /\ call'[c].pc = "answered" /\ call'[c].key = call[c].key
      /\ call'[c].payload = call[c].payload /\ call'[c].answer = answer
      /\ \A d \in Calls \ {c} : call'[d] = call[d]
  BY DEF IInv, TypeOK, Answer, CallType
<1>3. CallOK(c)'
  BY <1>0, <1>2 DEF IInv, CallsOK, CallOK, Stored, InFlight
<1> QED
  BY <1>1, <1>2, <1>3, OneCallStep DEF IInv, TypeOK

(* What a call in flight finds under its key. *)
LEMMA StoredType ==
  ASSUME IInv, NEW c \in Calls, call[c].pc \in InFlight
  PROVE  /\ call[c].key \in Keys /\ call[c].payload \in Payloads
         /\ Stored(c) \in RecordType \cup {None}
         /\ Stored(c) # None => StoredResponse(c) \in Calls \cup Problems
<1>1. call[c].key \in Keys /\ call[c].payload \in Payloads
  BY DEF IInv, CallsOK, CallOK, InFlight
<1>2. Stored(c) \in RecordType \cup {None}
  BY <1>1 DEF IInv, TypeOK, Stored
<1>3. Stored(c) # None => Stored(c).body \in Calls
  BY <1>2 DEF RecordType
<1> QED
  BY <1>1, <1>2, <1>3 DEF StoredResponse, Problems

LEMMA CommitStep ==
  ASSUME IInv, NEW c \in Calls, Commit(c)
  PROVE  IInv'
<1> DEFINE k == call[c].key
           p == call[c].payload
<1>1. k \in Keys /\ p \in Payloads /\ record[k] = None /\ effects[k] = 0
  BY StoredType DEF Commit, InFlight, IInv, CallsOK, CallOK, Stored, EffectsMatchRecords
<1>2. /\ record' = [record EXCEPT ![k] = [payload |-> p, body |-> c]]
      /\ effects' = [effects EXCEPT ![k] = effects[k] + 1]
      /\ target' = [target EXCEPT ![p] = Mutated(c)]
      /\ call[c].pc = "inserted"
  BY DEF Commit
<1> HIDE DEF k, p
<1>3. record' \in [Keys -> RecordType \cup {None}] /\ [payload |-> p, body |-> c] # None
  BY <1>1, <1>2, NoneAssumption DEF IInv, TypeOK, RecordType
<1>4. effects' \in [Keys -> Nat]
  BY <1>1, <1>2 DEF IInv, TypeOK
<1>5. target' \in [Payloads -> {"open", "used", "removed"}]
  <2>1. Mutated(c) \in {"open", "used", "removed"}
    <3>1. KindOfCall(c) \in Kinds /\ target[p] \in {"open", "used", "removed"}
      BY <1>1, KindAssumption DEF IInv, TypeOK, KindOfCall, k
    <3> QED
      BY <3>1 DEF Mutated, Kinds, p
  <2> QED
    BY <1>2, <2>1 DEF IInv, TypeOK
<1>6. /\ call' \in [Calls -> CallType]
      /\ call'[c].pc = "committed" /\ call'[c].key = k /\ call'[c].payload = p
      /\ call'[c].answer = call[c].answer
      /\ \A d \in Calls \ {c} : call'[d] = call[d]
  BY DEF Commit, Goto, IInv, TypeOK, CallType, InFlight, k, p
<1>7. CallOK(c)'
  BY <1>1, <1>2, <1>6 DEF IInv, TypeOK, CallsOK, CallOK, Stored
<1>8. ASSUME NEW d \in Calls \ {c}
      PROVE  CallOK(d)'
  <2>1. CallOK(d) /\ call'[d] = call[d]
    BY <1>6 DEF IInv, CallsOK
  <2>2. call[d].pc = "inserted" => call[d].key # k
    BY <1>2 DEF IInv, OneInsertion, k
  <2>3. CASE call[d].key = k
    <3>1. call[d].pc \notin {"inserted", "committed"}
      BY <1>1, <2>1, <2>2, <2>3, NoneAssumption
         DEF CallOK, Stored, RecordType, InFlight
    <3>2. Stored(d)' = [payload |-> p, body |-> c]
      BY <1>1, <1>2, <2>1, <2>3 DEF Stored, IInv, TypeOK
    <3> QED
      BY <1>3, <2>1, <3>1, <3>2 DEF CallOK
  <2>4. CASE call[d].key # k
    <3>1. record'[call[d].key] = record[call[d].key] \/ call[d].pc = "unsent"
      BY <1>2, <2>1, <2>4 DEF CallOK, IInv, TypeOK
    <3> QED
      BY <2>1, <3>1 DEF CallOK, Stored
  <2> QED
    BY <2>3, <2>4
<1>9. TypeOK'
  BY <1>3, <1>4, <1>5, <1>6, <1>7, <1>8 DEF TypeOK, CallOK
<1>10. OneInsertion'
  BY <1>6 DEF IInv, OneInsertion
<1>11. EffectsMatchRecords'
  BY <1>1, <1>2, <1>3 DEF IInv, TypeOK, EffectsMatchRecords
<1> QED
  BY <1>7, <1>8, <1>9, <1>10, <1>11 DEF IInv, CallsOK

LEMMA InvStep == IInv /\ [Next]_vars => IInv'
<1>1. ASSUME IInv, NEW c \in Calls, Send(c)
      PROVE  IInv'
  <2>1. PICK k \in Keys, p \in Payloads :
          call' = [call EXCEPT ![c].pc = "begun", ![c].key = k, ![c].payload = p]
    BY <1>1 DEF Send
  <2>0. call' \in [Calls -> CallType]
    <3>1. PICK f \in [Calls -> CallType] : f = [call EXCEPT ![c].pc = "begun"]
      BY <1>1, FieldTypes DEF IInv, TypeOK, InFlight
    <3>2. PICK g \in [Calls -> CallType] : g = [f EXCEPT ![c].key = k]
      BY FieldTypes
    <3>3. [g EXCEPT ![c].payload = p] \in [Calls -> CallType]
      BY FieldTypes
    <3> QED
      BY <2>1, <3>1, <3>2, <3>3
  <2>2. /\ call'[c].pc = "begun" /\ call'[c].key = k /\ call'[c].payload = p
        /\ call'[c].answer = call[c].answer
        /\ \A d \in Calls \ {c} : call'[d] = call[d]
    BY <1>1, <2>1 DEF IInv, TypeOK, CallType
  <2>3. CallOK(c)'
    BY <1>1, <2>2 DEF Send, IInv, CallsOK, CallOK
  <2> QED
    BY <1>1, <2>0, <2>2, <2>3, OneCallStep DEF Send, IInv, TypeOK
<1>2. ASSUME IInv, NEW c \in Calls, Lookup(c)
      PROVE  IInv'
  <2>1. call[c].pc \in InFlight /\ UNCHANGED <<record, effects, target>>
    BY <1>2 DEF Lookup, InFlight
  <2>2. CASE Stored(c) = None
    BY <1>2, <2>1, <2>2, GotoStep DEF Lookup
  <2>3. CASE Stored(c) # None /\ StoredResponse(c) \in Problems
    <3>1. Raise(c, StoredResponse(c)) /\ StoredResponse(c) \in Errors
      BY <1>2, <2>3 DEF Lookup, Problems, Errors
    <3> QED
      BY <1>2, <2>1, <2>3, <3>1, RaiseStep
  <2>4. CASE Stored(c) # None /\ StoredResponse(c) \notin Problems
    <3>1. Answer(c, StoredResponse(c))
      BY <1>2, <2>4 DEF Lookup
    <3> QED
      BY <1>2, <2>1, <2>4, <3>1, StoredType, AnswerStep
  <2> QED
    BY <2>2, <2>3, <2>4
<1>3. ASSUME IInv, NEW c \in Calls, Execute(c)
      PROVE  IInv'
  BY <1>3, GotoStep, RaiseStep DEF Execute, InFlight, Errors
<1>4. ASSUME IInv, NEW c \in Calls, Insert(c)
      PROVE  IInv'
  BY <1>4, GotoStep, RaiseStep DEF Insert, InFlight, Errors
<1>5. ASSUME IInv, NEW c \in Calls, Acknowledge(c)
      PROVE  IInv'
  BY <1>5, AnswerStep DEF Acknowledge, InFlight
<1>6. ASSUME IInv, NEW c \in Calls, Recover(c)
      PROVE  IInv'
  <2>1. /\ call[c].pc \in InFlight /\ UNCHANGED <<record, effects, target>>
        /\ call[c].pc = "raised"
    BY <1>6 DEF Recover, InFlight
  <2>2. CASE Stored(c) = None
    <3>1. Answer(c, call[c].error) /\ call[c].error \in Problems
      BY <1>6, <2>1, <2>2 DEF Recover, IInv, CallsOK, CallOK, Problems
    <3> QED
      BY <1>6, <2>1, <3>1, AnswerStep
  <2>3. CASE Stored(c) # None
    <3>1. Answer(c, StoredResponse(c))
      BY <1>6, <2>3 DEF Recover
    <3> QED
      BY <1>6, <2>1, <2>3, <3>1, StoredType, AnswerStep
  <2> QED
    BY <2>2, <2>3
<1>7. ASSUME IInv, NEW c \in Calls, TransactionFails(c)
      PROVE  IInv'
  BY <1>7, RaiseStep DEF TransactionFails, Errors
<1>8. ASSUME IInv, NEW c \in Calls, RecoveryFails(c)
      PROVE  IInv'
  BY <1>8, AnswerStep DEF RecoveryFails, InFlight, Problems
<1>9. ASSUME IInv, NEW c \in Calls, Crash(c)
      PROVE  IInv'
  BY <1>9, GotoStep DEF Crash
<1>10. ASSUME IInv, NEW p \in Payloads, Reopen(p) \/ RemoveParent(p)
       PROVE  IInv'
  <2>1. /\ UNCHANGED <<call, record, effects>>
        /\ target' \in [Payloads -> {"open", "used", "removed"}]
    BY <1>10 DEF Reopen, RemoveParent, IInv, TypeOK
  <2> QED
    BY <1>10, <2>1 DEF IInv, TypeOK, CallsOK, CallOK, Stored, OneInsertion, EffectsMatchRecords
<1>11. ASSUME IInv, UNCHANGED vars
       PROVE  IInv'
  BY <1>11 DEF vars, IInv, TypeOK, CallsOK, CallOK, Stored, OneInsertion, EffectsMatchRecords
<1> QED
  BY <1>1, <1>2, <1>3, <1>4, <1>5, <1>6, <1>7, <1>8, <1>9, <1>10, <1>11, CommitStep
     DEF Next, Step, Fault

LEMMA Invariance == Spec => []IInv
  BY InvInit, InvStep, PTL DEF Spec

(* Every variable keeps its type; in particular no client is ever answered *)
(* with the error of the unique index.                                     *)
THEOREM Typing == Spec => []TypeOK
<1>1. IInv => TypeOK
  BY DEF IInv
<1> QED
  BY <1>1, Invariance, PTL

(* One mutation commits for each recorded key and none without a record.   *)
THEOREM OneEffectPerRecord == Spec => []EffectsMatchRecords
<1>1. IInv => EffectsMatchRecords
  BY DEF IInv
<1> QED
  BY <1>1, Invariance, PTL

-----------------------------------------------------------------------------
(* The refinement of KeyedWrite. *)

LEMMA PromiseInit == Init => Promise!Init
  BY DEF Init, Promise!Init

(* What a call says is true of the ledger, if it is true of its record.    *)
LEMMA SayStep ==
  ASSUME IInv, NEW c \in Calls, UNCHANGED record, call[c].pc \in InFlight,
         NEW answer \in Calls \cup Problems, Answer(c, answer),
         \/ Stored(c) # None /\ answer = StoredResponse(c)
         \/ Stored(c) = None /\ answer = "rejected"
         \/ answer = "failed"
         \/ answer = c /\ Stored(c) = [payload |-> call[c].payload, body |-> c]
  PROVE  Promise!Say(c, answer)
<1> DEFINE asked == [d \in Calls |-> IF call[d].pc = "unsent" THEN None
                       ELSE [key |-> call[d].key, payload |-> call[d].payload]]
           said == [d \in Calls |-> call[d].answer]
<1>1. /\ asked[c] = [key |-> call[c].key, payload |-> call[c].payload]
      /\ asked[c] # None
      /\ said[c] = None
      /\ call[c].key \in Keys /\ call[c].payload \in Payloads
  BY NoneAssumption DEF IInv, CallsOK, CallOK, InFlight
<1>2. /\ said' = [said EXCEPT ![c] = answer]
      /\ asked' = asked
  BY DEF Answer, IInv, TypeOK, CallType, InFlight
<1>3. Stored(c) \in RecordType \cup {None}
  BY StoredType
<1>4. \/ /\ answer \in Calls
         /\ record[call[c].key] = [payload |-> call[c].payload, body |-> answer]
      \/ /\ answer = "conflict" /\ record[call[c].key] # None
         /\ record[call[c].key].payload # call[c].payload
      \/ /\ answer = "gone" /\ record[call[c].key] # None
         /\ record[call[c].key].payload = call[c].payload
      \/ answer = "rejected" /\ record[call[c].key] = None
      \/ answer = "failed"
  <2>1. CASE Stored(c) # None /\ answer = StoredResponse(c)
    <3>1. Stored(c) = [payload |-> Stored(c).payload, body |-> Stored(c).body]
          /\ Stored(c).body \in Calls
      BY <1>3, <2>1 DEF RecordType
    <3> QED
      BY <2>1, <3>1 DEF StoredResponse, Stored
  <2>2. CASE ~(Stored(c) # None /\ answer = StoredResponse(c))
    BY <2>2 DEF Stored
  <2> QED
    BY <2>1, <2>2
<1> HIDE DEF asked, said
<1>5. Promise!Truthful(c, answer)
  BY <1>1, <1>4 DEF Promise!Truthful, asked
<1> QED
  BY <1>1, <1>2, <1>5 DEF Promise!Say, Promise!Waiting, asked, said

(* Steps that show nothing to the client. *)
LEMMA SilentStep ==
  ASSUME IInv, NEW c \in Calls, UNCHANGED record, call[c].pc \in InFlight,
         (\E pc \in InFlight \cup {"lost"} : Goto(c, pc)) \/ (\E error : Raise(c, error))
  PROVE  UNCHANGED Promise!vars
<1>1. \A d \in Calls : /\ (call'[d].pc = "unsent") <=> (call[d].pc = "unsent")
                       /\ call'[d].key = call[d].key /\ call'[d].payload = call[d].payload
                       /\ call'[d].answer = call[d].answer
  BY DEF IInv, TypeOK, CallType, InFlight, Goto, Raise
<1> QED
  BY <1>1 DEF Promise!vars

LEMMA PromiseStep == IInv /\ [Next]_vars => [Promise!Next]_(Promise!vars)
<1> DEFINE PStep == [Promise!Next]_(Promise!vars)
<1>0. ASSUME NEW c \in Calls, NEW answer \in Calls \cup Problems, Promise!Say(c, answer)
      PROVE  PStep
  BY <1>0 DEF Promise!Next, Problems
<1>1. ASSUME IInv, NEW c \in Calls, Send(c)
      PROVE  PStep
  <2>1. PICK k \in Keys, p \in Payloads :
          call' = [call EXCEPT ![c].pc = "begun", ![c].key = k, ![c].payload = p]
    BY <1>1 DEF Send
  <2>2. /\ call[c].pc = "unsent"
        /\ call'[c].pc = "begun" /\ call'[c].key = k /\ call'[c].payload = p
        /\ \A d \in Calls : call'[d].answer = call[d].answer
        /\ \A d \in Calls \ {c} : call'[d] = call[d]
        /\ record' = record
    BY <1>1, <2>1 DEF Send, IInv, TypeOK, CallType
  <2>3. [d \in Calls |-> IF call[d].pc = "unsent" THEN None
                          ELSE [key |-> call[d].key, payload |-> call[d].payload]]'
        = [[d \in Calls |-> IF call[d].pc = "unsent" THEN None
                            ELSE [key |-> call[d].key, payload |-> call[d].payload]]
           EXCEPT ![c] = [key |-> k, payload |-> p]]
    BY <2>2
  <2>4. Promise!Ask(c)
    BY <2>2, <2>3 DEF Promise!Ask
  <2> QED
    BY <2>4 DEF Promise!Next
<1>2. ASSUME IInv, NEW c \in Calls, Commit(c)
      PROVE  PStep
  <2>1. /\ call[c].pc = "inserted" /\ call[c].pc \in InFlight
        /\ record' = [record EXCEPT ![call[c].key] = [payload |-> call[c].payload, body |-> c]]
        /\ Goto(c, "committed")
    BY <1>2 DEF Commit, InFlight
  <2>2. record[call[c].key] = None /\ call[c].answer = None
        /\ call[c].key \in Keys /\ call[c].payload \in Payloads
    BY <1>2, <2>1 DEF IInv, CallsOK, CallOK, Stored
  <2>3. \A d \in Calls : /\ (call'[d].pc = "unsent") <=> (call[d].pc = "unsent")
                         /\ call'[d].key = call[d].key /\ call'[d].payload = call[d].payload
                         /\ call'[d].answer = call[d].answer
    BY <1>2, <2>1 DEF IInv, TypeOK, CallType, Goto
  <2>4. [key |-> call[c].key, payload |-> call[c].payload] # None
    BY <2>2, NoneAssumption
  <2>5. Promise!Write(c)
    BY <2>1, <2>2, <2>3, <2>4 DEF Promise!Write, Promise!Waiting
  <2> QED
    BY <2>5 DEF Promise!Next
<1>3. ASSUME IInv, NEW c \in Calls, Lookup(c)
      PROVE  PStep
  <2>1. call[c].pc \in InFlight /\ UNCHANGED record
    BY <1>3 DEF Lookup, InFlight
  <2>2. CASE Stored(c) = None \/ StoredResponse(c) \in Problems
    <3>1. Goto(c, "executing") \/ Raise(c, StoredResponse(c))
      BY <1>3, <2>2 DEF Lookup
    <3> QED
      BY <1>3, <2>1, <3>1, SilentStep DEF InFlight
  <2>3. CASE ~(Stored(c) = None \/ StoredResponse(c) \in Problems)
    <3>1. Answer(c, StoredResponse(c)) /\ StoredResponse(c) \in Calls \cup Problems
      BY <1>3, <2>1, <2>3, StoredType DEF Lookup
    <3> QED
      BY <1>0, <1>3, <2>1, <2>3, <3>1, SayStep
  <2> QED
    BY <2>2, <2>3
<1>4. ASSUME IInv, NEW c \in Calls,
             Execute(c) \/ Insert(c) \/ TransactionFails(c) \/ Crash(c)
      PROVE  PStep
  <2>1. /\ call[c].pc \in InFlight /\ UNCHANGED record
        /\ (\E pc \in InFlight \cup {"lost"} : Goto(c, pc)) \/ (\E error : Raise(c, error))
    BY <1>4 DEF Execute, Insert, TransactionFails, Crash, InFlight
  <2> QED
    BY <1>4, <2>1, SilentStep
<1>5. ASSUME IInv, NEW c \in Calls, Acknowledge(c)
      PROVE  PStep
  <2>1. /\ call[c].pc \in InFlight /\ UNCHANGED record /\ Answer(c, c)
        /\ Stored(c) = [payload |-> call[c].payload, body |-> c]
    BY <1>5 DEF Acknowledge, InFlight, IInv, CallsOK, CallOK
  <2> QED
    BY <1>0, <1>5, <2>1, SayStep
<1>6. ASSUME IInv, NEW c \in Calls, Recover(c)
      PROVE  PStep
  <2>1. call[c].pc \in InFlight /\ UNCHANGED record /\ call[c].pc = "raised"
    BY <1>6 DEF Recover, InFlight
  <2>2. CASE Stored(c) = None
    <3>1. Answer(c, call[c].error) /\ call[c].error \in {"rejected", "failed"}
      BY <1>6, <2>1, <2>2 DEF Recover, IInv, CallsOK, CallOK
    <3> QED
      BY <1>0, <1>6, <2>1, <2>2, <3>1, SayStep DEF Problems
  <2>3. CASE Stored(c) # None
    <3>1. Answer(c, StoredResponse(c)) /\ StoredResponse(c) \in Calls \cup Problems
      BY <1>6, <2>1, <2>3, StoredType DEF Recover
    <3> QED
      BY <1>0, <1>6, <2>1, <2>3, <3>1, SayStep
  <2> QED
    BY <2>2, <2>3
<1>7. ASSUME IInv, NEW c \in Calls, RecoveryFails(c)
      PROVE  PStep
  <2>1. call[c].pc \in InFlight /\ UNCHANGED record /\ Answer(c, "failed")
    BY <1>7 DEF RecoveryFails, InFlight
  <2> QED
    BY <1>0, <1>7, <2>1, SayStep DEF Problems
<1>8. ASSUME IInv, UNCHANGED <<call, record>>
      PROVE  PStep
  BY <1>8 DEF Promise!vars
<1> QED
  BY <1>1, <1>2, <1>3, <1>4, <1>5, <1>6, <1>7, <1>8
     DEF Next, Step, Fault, Reopen, RemoveParent, vars

(* Every behaviour of the service, with its races, lost acknowledgements   *)
(* and crashes, keeps the promise of an idempotency key.                   *)
THEOREM KeepsPromise == Spec => ImplementsKeyedWrite
<1>1. Init => Promise!Init
  BY PromiseInit
<1>2. IInv /\ [Next]_vars => [Promise!Next]_(Promise!vars)
  BY PromiseStep
<1> QED
  BY <1>1, <1>2, Invariance, PTL DEF Spec, ImplementsKeyedWrite, Promise!Spec

-----------------------------------------------------------------------------
(* What the answers mean later. *)

(* A recorded write stays as it is: a retry replays what was answered      *)
(* first, and neither a race nor a lost acknowledgement replaces it.       *)
THEOREM RecordsStay == Spec => [][\A k \in Keys : record[k] # None => record'[k] = record[k]]_vars
<1>1. IInv /\ [Next]_vars => [\A k \in Keys : record[k] # None => record'[k] = record[k]]_vars
  <2> SUFFICES ASSUME IInv, [Next]_vars, NEW k \in Keys, record[k] # None
               PROVE  record'[k] = record[k]
    OBVIOUS
  <2>1. ASSUME NEW c \in Calls, Commit(c) PROVE record'[k] = record[k]
    <3>1. /\ record[call[c].key] = None
          /\ record' = [record EXCEPT ![call[c].key] =
                          [payload |-> call[c].payload, body |-> c]]
      BY <2>1 DEF Commit, IInv, CallsOK, CallOK, Stored
    <3> QED
      BY <3>1 DEF IInv, TypeOK
  <2>2. CASE UNCHANGED record
    BY <2>2
  <2> QED
    BY <2>1, <2>2 DEF Next, Send, Step, Lookup, Execute, Insert, Acknowledge, Recover, Fault,
                      TransactionFails, RecoveryFails, Crash, Reopen, RemoveParent, vars
<1> QED
  BY <1>1, Invariance, PTL DEF Spec

(* Whose write a record is, and since when it may be recorded. *)
RecordsAreOfCalls ==
  \A k \in Keys : record[k] # None =>
    LET c == record[k].body IN
    /\ call[c].pc \in {"committed", "raised", "answered", "lost"}
    /\ call[c].key = k /\ call[c].payload = record[k].payload

(* An answer that was true of the record when it was given is still true.  *)
(* A rejection may be followed by the write of a retry, but never by the   *)
(* write of the call that was rejected.                                    *)
AnswersHold ==
  \A c \in Calls : call[c].pc = "answered" =>
    LET written == record[call[c].key]
        answer == call[c].answer
    IN \/ answer \in Calls /\ written = [payload |-> call[c].payload, body |-> answer]
       \/ answer = "conflict" /\ written # None /\ written.payload # call[c].payload
       \/ answer = "gone" /\ written # None /\ written.payload = call[c].payload
       \/ answer = "rejected" /\ (written = None \/ written.body # c)
       \/ answer = "failed"

AInv == RecordsAreOfCalls /\ AnswersHold

LEMMA AInvInit == Init => AInv
  BY DEF Init, AInv, RecordsAreOfCalls, AnswersHold

(* A call that goes on without answering and without writing. *)
LEMMA SilentAInv ==
  ASSUME IInv, AInv, NEW c \in Calls, UNCHANGED record,
         \A d \in Calls \ {c} : call'[d] = call[d], call'[c].pc # "answered",
         call[c].pc \in {"committed", "raised", "answered", "lost"} =>
           /\ call'[c].pc \in {"committed", "raised", "answered", "lost"}
           /\ call'[c].key = call[c].key /\ call'[c].payload = call[c].payload
  PROVE  AInv'
<1>1. RecordsAreOfCalls'
  <2> SUFFICES ASSUME NEW k \in Keys, record[k] # None
               PROVE  /\ call'[record[k].body].pc \in {"committed", "raised", "answered", "lost"}
                      /\ call'[record[k].body].key = k
                      /\ call'[record[k].body].payload = record[k].payload
    BY DEF RecordsAreOfCalls
  <2>1. record[k].body \in Calls
    BY DEF IInv, TypeOK, RecordType
  <2> QED
    BY <2>1 DEF AInv, RecordsAreOfCalls
<1>2. AnswersHold'
  BY DEF AInv, AnswersHold
<1> QED
  BY <1>1, <1>2 DEF AInv

(* A call that answers truthfully. *)
LEMMA AnswerAInv ==
  ASSUME IInv, AInv, NEW c \in Calls, UNCHANGED record, call[c].pc \in InFlight,
         NEW answer \in Calls \cup Problems, Answer(c, answer),
         \/ Stored(c) # None /\ answer = StoredResponse(c)
         \/ Stored(c) = None /\ answer = "rejected"
         \/ answer = "failed"
         \/ answer = c /\ Stored(c) = [payload |-> call[c].payload, body |-> c]
  PROVE  AInv'
<1>1. /\ call'[c].pc = "answered" /\ call'[c].key = call[c].key
      /\ call'[c].payload = call[c].payload /\ call'[c].answer = answer
      /\ \A d \in Calls \ {c} : call'[d] = call[d]
  BY DEF IInv, TypeOK, Answer, CallType
<1>2. Stored(c) \in RecordType \cup {None}
  BY StoredType
<1>3. RecordsAreOfCalls'
  <2> SUFFICES ASSUME NEW k \in Keys, record[k] # None
               PROVE  /\ call'[record[k].body].pc \in {"committed", "raised", "answered", "lost"}
                      /\ call'[record[k].body].key = k
                      /\ call'[record[k].body].payload = record[k].payload
    BY DEF RecordsAreOfCalls
  <2>1. record[k].body \in Calls
    BY DEF IInv, TypeOK, RecordType
  <2> QED
    BY <1>1, <2>1 DEF AInv, RecordsAreOfCalls
<1>4. \/ /\ answer \in Calls
         /\ Stored(c) = [payload |-> call[c].payload, body |-> answer]
      \/ /\ answer = "conflict" /\ Stored(c) # None /\ Stored(c).payload # call[c].payload
      \/ /\ answer = "gone" /\ Stored(c) # None /\ Stored(c).payload = call[c].payload
      \/ answer = "rejected" /\ Stored(c) = None
      \/ answer = "failed"
  <2>1. CASE Stored(c) # None /\ answer = StoredResponse(c)
    <3>1. Stored(c) = [payload |-> Stored(c).payload, body |-> Stored(c).body]
          /\ Stored(c).body \in Calls
      BY <1>2, <2>1 DEF RecordType
    <3> QED
      BY <2>1, <3>1 DEF StoredResponse
  <2>2. CASE ~(Stored(c) # None /\ answer = StoredResponse(c))
    BY <2>2
  <2> QED
    BY <2>1, <2>2
<1>5. AnswersHold'
  BY <1>1, <1>4 DEF AInv, AnswersHold, Stored
<1> QED
  BY <1>3, <1>5 DEF AInv

LEMMA CommitAInv == ASSUME IInv, AInv, NEW c \in Calls, Commit(c) PROVE AInv'
<1>1. PICK k \in Keys : k = call[c].key /\ record[k] = None
  BY StoredType DEF Commit, InFlight, IInv, CallsOK, CallOK, Stored
<1>2. /\ call'[c].pc = "committed" /\ call'[c].key = k
      /\ call'[c].payload = call[c].payload
      /\ \A d \in Calls \ {c} : call'[d] = call[d]
      /\ call[c].pc = "inserted"
  BY <1>1 DEF Commit, Goto, IInv, TypeOK, CallType
<1>3. /\ record'[k] = [payload |-> call[c].payload, body |-> c]
      /\ \A l \in Keys \ {k} : record'[l] = record[l]
  BY <1>1 DEF Commit, IInv, TypeOK
<1>4. RecordsAreOfCalls'
  <2> SUFFICES ASSUME NEW l \in Keys, record'[l] # None
               PROVE  /\ call'[record'[l].body].pc \in {"committed", "raised", "answered", "lost"}
                      /\ call'[record'[l].body].key = l
                      /\ call'[record'[l].body].payload = record'[l].payload
    BY DEF RecordsAreOfCalls
  <2>1. CASE l = k
    BY <1>2, <1>3, <2>1
  <2>2. CASE l # k
    <3>1. /\ record'[l] = record[l] /\ record[l].body \in Calls
          /\ call[record[l].body].pc \in {"committed", "raised", "answered", "lost"}
          /\ call[record[l].body].key = l /\ call[record[l].body].payload = record[l].payload
      BY <1>3, <2>2 DEF AInv, RecordsAreOfCalls, IInv, TypeOK, RecordType
    <3> QED
      BY <1>2, <3>1
  <2> QED
    BY <2>1, <2>2
<1>5. AnswersHold'
  <2> SUFFICES ASSUME NEW d \in Calls, call'[d].pc = "answered"
               PROVE  LET written == record'[call'[d].key]
                          answer == call'[d].answer
                      IN \/ /\ answer \in Calls
                            /\ written = [payload |-> call'[d].payload, body |-> answer]
                         \/ /\ answer = "conflict" /\ written # None
                            /\ written.payload # call'[d].payload
                         \/ /\ answer = "gone" /\ written # None
                            /\ written.payload = call'[d].payload
                         \/ answer = "rejected" /\ (written = None \/ written.body # d)
                         \/ answer = "failed"
    BY DEF AnswersHold
  <2>1. /\ d # c /\ call'[d] = call[d] /\ call[d].pc = "answered"
        /\ call[d].key \in Keys /\ call[d].payload \in Payloads
    BY <1>2 DEF IInv, CallsOK, CallOK
  <2>2. CASE call[d].key # k
    BY <1>3, <2>1, <2>2 DEF AInv, AnswersHold
  <2>3. CASE call[d].key = k
    <3>1. record[call[d].key] = None
      BY <1>1, <2>3
    <3>2. \A body \in Calls : [payload |-> call[d].payload, body |-> body] # None
      BY <2>1, NoneAssumption
    <3>3. call[d].answer \in {"rejected", "failed"}
      BY <2>1, <3>1, <3>2 DEF AInv, AnswersHold
    <3> QED
      BY <1>3, <2>1, <2>3, <3>3
  <2> QED
    BY <2>2, <2>3
<1> QED
  BY <1>4, <1>5 DEF AInv

LEMMA AInvStep == IInv /\ AInv /\ [Next]_vars => AInv'
<1> SUFFICES ASSUME IInv, AInv, [Next]_vars PROVE AInv'
  OBVIOUS
<1>1. ASSUME NEW c \in Calls, UNCHANGED record,
             \/ call[c].pc \in InFlight /\ \E pc \in InFlight \cup {"lost"} :
                  /\ Goto(c, pc)
                  /\ call[c].pc \in {"committed", "raised"} => pc = "lost"
             \/ call[c].pc \in InFlight /\ \E error : Raise(c, error)
      PROVE  AInv'
  <2>1. /\ \A d \in Calls \ {c} : call'[d] = call[d]
        /\ call'[c].pc # "answered"
        /\ call'[c].key = call[c].key /\ call'[c].payload = call[c].payload
        /\ call[c].pc \in {"committed", "raised"} => call'[c].pc \in {"lost", "raised"}
    BY <1>1 DEF IInv, TypeOK, CallType, InFlight, Goto, Raise
  <2> QED
    BY <1>1, <2>1, SilentAInv DEF InFlight
<1>2. ASSUME NEW c \in Calls, Send(c) PROVE AInv'
  <2>1. PICK k \in Keys, p \in Payloads :
          call' = [call EXCEPT ![c].pc = "begun", ![c].key = k, ![c].payload = p]
    BY <1>2 DEF Send
  <2>2. /\ call[c].pc = "unsent" /\ call'[c].pc = "begun" /\ UNCHANGED record
        /\ \A d \in Calls \ {c} : call'[d] = call[d]
    BY <1>2, <2>1 DEF Send, IInv, TypeOK, CallType
  <2> QED
    BY <2>2, SilentAInv
<1>3. ASSUME NEW c \in Calls, Lookup(c) PROVE AInv'
  <2>1. call[c].pc \in InFlight /\ UNCHANGED record /\ call[c].pc = "begun"
    BY <1>3 DEF Lookup, InFlight
  <2>2. CASE Stored(c) = None \/ StoredResponse(c) \in Problems
    <3>1. Goto(c, "executing") \/ Raise(c, StoredResponse(c))
      BY <1>3, <2>2 DEF Lookup
    <3> QED
      BY <1>1, <2>1, <3>1 DEF InFlight
  <2>3. CASE ~(Stored(c) = None \/ StoredResponse(c) \in Problems)
    <3>1. Answer(c, StoredResponse(c)) /\ StoredResponse(c) \in Calls \cup Problems
      BY <1>3, <2>1, <2>3, StoredType DEF Lookup
    <3> QED
      BY <2>1, <2>3, <3>1, AnswerAInv
  <2> QED
    BY <2>2, <2>3
<1>4. ASSUME NEW c \in Calls, Execute(c) \/ Insert(c) \/ TransactionFails(c) \/ Crash(c)
      PROVE  AInv'
  BY <1>1, <1>4 DEF Execute, Insert, TransactionFails, Crash, InFlight
<1>5. ASSUME NEW c \in Calls, Acknowledge(c) PROVE AInv'
  <2>1. /\ call[c].pc \in InFlight /\ UNCHANGED record /\ Answer(c, c)
        /\ Stored(c) = [payload |-> call[c].payload, body |-> c]
    BY <1>5 DEF Acknowledge, InFlight, IInv, CallsOK, CallOK
  <2> QED
    BY <2>1, AnswerAInv
<1>6. ASSUME NEW c \in Calls, Recover(c) PROVE AInv'
  <2>1. call[c].pc \in InFlight /\ UNCHANGED record /\ call[c].pc = "raised"
    BY <1>6 DEF Recover, InFlight
  <2>2. CASE Stored(c) = None
    <3>1. Answer(c, call[c].error) /\ call[c].error \in {"rejected", "failed"}
      BY <1>6, <2>1, <2>2 DEF Recover, IInv, CallsOK, CallOK
    <3> QED
      BY <2>1, <2>2, <3>1, AnswerAInv DEF Problems
  <2>3. CASE Stored(c) # None
    <3>1. Answer(c, StoredResponse(c)) /\ StoredResponse(c) \in Calls \cup Problems
      BY <1>6, <2>1, <2>3, StoredType DEF Recover
    <3> QED
      BY <2>1, <2>3, <3>1, AnswerAInv
  <2> QED
    BY <2>2, <2>3
<1>7. ASSUME NEW c \in Calls, RecoveryFails(c) PROVE AInv'
  <2>1. call[c].pc \in InFlight /\ UNCHANGED record /\ Answer(c, "failed")
    BY <1>7 DEF RecoveryFails, InFlight
  <2> QED
    BY <2>1, AnswerAInv DEF Problems
<1>8. CASE UNCHANGED <<call, record>>
  BY <1>8 DEF AInv, RecordsAreOfCalls, AnswersHold
<1> QED
  BY <1>2, <1>3, <1>4, <1>5, <1>6, <1>7, <1>8, CommitAInv
     DEF Next, Step, Fault, Reopen, RemoveParent, vars

(* Answers stay true after they are given.  In particular no call whose    *)
(* write was committed has been told that it was rejected or that it       *)
(* conflicts, however its acknowledgement was lost, and no call that was   *)
(* told so commits afterwards.                                             *)
THEOREM AnswersStayTrue == Spec => []AnswersHold
<1>1. AInv => AnswersHold
  BY DEF AInv
<1> QED
  BY <1>1, AInvInit, AInvStep, Invariance, PTL DEF Spec

Succeeded(c) == call[c].pc = "answered" /\ call[c].answer \in Calls \ Problems

(* Two clients that are answered with a response under one key have been   *)
(* answered with the same response, to the same request.                   *)
ReplaysAgree ==
  \A c, d \in Calls : Succeeded(c) /\ Succeeded(d) /\ call[c].key = call[d].key =>
    call[c].answer = call[d].answer /\ call[c].payload = call[d].payload

(* All the responses to one key are the same, for any number of retries of *)
(* any number of clients.                                                  *)
THEOREM OneResponsePerKey == Spec => []ReplaysAgree
<1>1. AnswersHold => ReplaysAgree
  <2>1. ASSUME AnswersHold, NEW c \in Calls, Succeeded(c)
        PROVE  record[call[c].key] = [payload |-> call[c].payload, body |-> call[c].answer]
    BY <2>1 DEF AnswersHold, Succeeded, Problems
  <2>2. ASSUME AnswersHold, NEW c \in Calls, NEW d \in Calls, Succeeded(c), Succeeded(d),
               call[c].key = call[d].key
        PROVE  call[c].answer = call[d].answer /\ call[c].payload = call[d].payload
    <3>1. record[call[c].key] = [payload |-> call[c].payload, body |-> call[c].answer]
      BY <2>1, <2>2
    <3>2. record[call[c].key] = [payload |-> call[d].payload, body |-> call[d].answer]
      BY <2>1, <2>2
    <3> QED
      BY <3>1, <3>2
  <2> QED
    BY <2>2 DEF ReplaysAgree
<1> QED
  BY <1>1, AnswersStayTrue, PTL

(* A call waits for the row lock of its target, or for the index entry of  *)
(* an uncommitted record of its key.                                       *)
WaitsForLock(c) == /\ call[c].pc = "executing" /\ KindOfCall(c) # "create"
                   /\ Locked(call[c].payload)

WaitsForEntry(c) == /\ call[c].pc = "executed"
                    /\ \E d \in Calls : call[d].pc = "inserted" /\ call[d].key = call[c].key

(* Not everybody waits: whenever a call does, there is one that does not,  *)
(* and that holds what some call waits for.                                *)
NoDeadlock ==
  \A c \in Calls : WaitsForLock(c) \/ WaitsForEntry(c) =>
    \E d \in Calls : call[d].pc \in {"executed", "inserted"} /\ ~WaitsForEntry(d)

(* Row locks are taken before index entries and an index entry is the last *)
(* thing a transaction takes, so in no state, however many calls there     *)
(* are, do they wait for one another in a circle.                          *)
LEMMA NobodyWaitsInACircle == NoDeadlock
<1> SUFFICES ASSUME NEW c \in Calls, WaitsForLock(c) \/ WaitsForEntry(c)
             PROVE  \E d \in Calls : call[d].pc \in {"executed", "inserted"} /\ ~WaitsForEntry(d)
  BY DEF NoDeadlock
<1>1. PICK d \in Calls : call[d].pc \in {"executed", "inserted"}
  BY DEF WaitsForLock, WaitsForEntry, Locked, Holds
<1>2. CASE WaitsForEntry(d)
  BY <1>2 DEF WaitsForEntry
<1>3. CASE ~WaitsForEntry(d)
  BY <1>1, <1>3
<1> QED
  BY <1>2, <1>3

=============================================================================
