-------------------------- MODULE IdempotentWrite --------------------------
(***************************************************************************)
(* executeIdempotentWrite, through which every mutation of the API goes:   *)
(* look the key up, execute the mutation and insert the idempotency record *)
(* in one READ COMMITTED transaction; after any error, look the key up     *)
(* again in a second transaction.                                          *)
(*                                                                         *)
(* A call is one HTTP request and ends once; a client that retries makes   *)
(* another call with the same key.  A key stands for the tuple (tenant,    *)
(* membership, operation, key) of the unique index, a payload for the      *)
(* request fingerprint.  The fingerprint includes the identifier of the    *)
(* record a mutation works on, so a payload also names its target.         *)
(***************************************************************************)
EXTENDS Naturals

CONSTANTS
  Calls,     \* API requests
  Keys,      \* idempotency keys, in the scope of their operation
  Payloads,  \* request fingerprints
  KindOf,    \* what the operation of each key does to its target
  None       \* no record, no answer

(***************************************************************************)
(* The three ways the mutations differ here.  A creation needs its target  *)
(* to be active and locks nothing.  A transition locks its target, needs   *)
(* it open and uses it up (a correction uses up the approval).  A removal  *)
(* locks its target and ends it, and its replay is not validated.          *)
(***************************************************************************)
Kinds == {"create", "transition", "remove"}

ASSUME KindAssumption == KindOf \in [Keys -> Kinds]

(* Errors of the first transaction, and the problems a client may see.     *)
Errors == {"rejected", "duplicate", "conflict", "gone", "failed"}
Problems == {"rejected", "conflict", "gone", "failed"}

ASSUME NoneAssumption == /\ None \notin Calls \cup Keys \cup Payloads \cup Errors
                         /\ None \notin [payload : Payloads, body : Calls]
                         /\ None \notin [key : Keys, payload : Payloads]

VARIABLES
  call,     \* each request: its pc, its input, the error caught, its answer
  record,   \* committed idempotency_records: the payload and the body stored
  effects,  \* history: how many executions committed under each key
  target    \* committed state of the record each payload works on

vars == <<call, record, effects, target>>

-----------------------------------------------------------------------------

InFlight == {"begun", "executing", "executed", "inserted", "committed", "raised"}

CallType == [pc : {"unsent", "answered", "lost"} \cup InFlight,
             key : Keys \cup {None}, payload : Payloads \cup {None},
             error : Errors \cup {None}, answer : Calls \cup Problems \cup {None}]

RecordType == [payload : Payloads, body : Calls]

TypeOK == /\ call \in [Calls -> CallType]
          /\ \A c \in Calls : call[c].pc # "unsent" => call[c].key \in Keys /\ call[c].payload \in Payloads
          /\ record \in [Keys -> RecordType \cup {None}]
          /\ effects \in [Keys -> Nat]
          /\ target \in [Payloads -> {"open", "used", "removed"}]

Init == /\ call = [c \in Calls |-> [pc |-> "unsent", key |-> None, payload |-> None,
                                    error |-> None, answer |-> None]]
        /\ record = [k \in Keys |-> None]
        /\ effects = [k \in Keys |-> 0]
        /\ target = [p \in Payloads |-> "open"]

-----------------------------------------------------------------------------

Send(c) == /\ call[c].pc = "unsent"
           /\ \E k \in Keys, p \in Payloads :
                call' = [call EXCEPT ![c].pc = "begun", ![c].key = k, ![c].payload = p]
           /\ UNCHANGED <<record, effects, target>>

Goto(c, pc) == call' = [call EXCEPT ![c].pc = pc]
Raise(c, error) == call' = [call EXCEPT ![c].pc = "raised", ![c].error = error]
Answer(c, answer) == call' = [call EXCEPT ![c].pc = "answered", ![c].answer = answer]

KindOfCall(c) == KindOf[call[c].key]
Stored(c) == record[call[c].key]

(* (bug) The stored fingerprint is not compared. *)
StoredResponseUnchecked(c) == Stored(c).body

(* storedResponse: the body to replay, or the problem it throws.           *)
StoredResponse(c) ==
  IF Stored(c).payload # call[c].payload THEN "conflict"
  ELSE IF KindOfCall(c) # "remove" /\ target[call[c].payload] = "removed" THEN "gone"
  ELSE Stored(c).body

(* The first lookup.  A problem of the replay aborts the transaction.      *)
Lookup(c) ==
  /\ call[c].pc = "begun"
  /\ IF Stored(c) = None THEN Goto(c, "executing")
     ELSE IF StoredResponse(c) \in Problems THEN Raise(c, StoredResponse(c))
     ELSE Answer(c, StoredResponse(c))
  /\ UNCHANGED <<record, effects, target>>

(* The row lock a transition or a removal holds until its transaction ends. *)
Holds(c, p) == /\ call[c].pc \in {"executed", "inserted"}
               /\ KindOfCall(c) # "create"
               /\ call[c].payload = p

Locked(p) == \E c \in Calls : Holds(c, p)

Eligible(c) == CASE KindOfCall(c) = "transition" -> target[call[c].payload] = "open"
                 [] OTHER                        -> target[call[c].payload] # "removed"

(* The mutation, whose writes only its own transaction sees. *)
Execute(c) ==
  /\ call[c].pc = "executing"
  /\ KindOfCall(c) # "create" => ~Locked(call[c].payload)
  /\ IF Eligible(c) THEN Goto(c, "executed") ELSE Raise(c, "rejected")
  /\ UNCHANGED <<record, effects, target>>

(* (bug) The index is not unique. *)
InsertUnchecked(c) == /\ call[c].pc = "executed"
                      /\ Goto(c, "inserted")
                      /\ UNCHANGED <<record, effects, target>>

(* (bug) A duplicate key starts the mutation over. *)
InsertStartingOver(c) ==
  /\ call[c].pc = "executed"
  /\ \A d \in Calls : call[d].pc = "inserted" => call[d].key # call[c].key
  /\ IF Stored(c) = None THEN Goto(c, "inserted") ELSE Goto(c, "executing")
  /\ UNCHANGED <<record, effects, target>>

(* The unique index: an insertion waits for an uncommitted one of the same *)
(* key, and fails if a record is committed.                                *)
Insert(c) ==
  /\ call[c].pc = "executed"
  /\ \A d \in Calls : call[d].pc = "inserted" => call[d].key # call[c].key
  /\ IF Stored(c) = None THEN Goto(c, "inserted") ELSE Raise(c, "duplicate")
  /\ UNCHANGED <<record, effects, target>>

Mutated(c) == CASE target[call[c].payload] = "removed" -> "removed"
                [] KindOfCall(c) = "create"            -> target[call[c].payload]
                [] KindOfCall(c) = "transition"        -> "used"
                [] KindOfCall(c) = "remove"            -> "removed"

Commit(c) ==
  /\ call[c].pc = "inserted"
  /\ Goto(c, "committed")
  /\ record' = [record EXCEPT ![call[c].key] = [payload |-> call[c].payload, body |-> c]]
  /\ effects' = [effects EXCEPT ![call[c].key] = @ + 1]
  /\ target' = [target EXCEPT ![call[c].payload] = Mutated(c)]

Acknowledge(c) == /\ call[c].pc = "committed"
                  /\ Answer(c, c)
                  /\ UNCHANGED <<record, effects, target>>

(* (bug) The error is passed on without the second lookup. *)
RecoverRethrowing(c) == /\ call[c].pc = "raised"
                        /\ Answer(c, call[c].error)
                        /\ UNCHANGED <<record, effects, target>>

(* The catch block: the second lookup, in a transaction of its own.        *)
Recover(c) ==
  /\ call[c].pc = "raised"
  /\ Answer(c, IF Stored(c) = None THEN call[c].error ELSE StoredResponse(c))
  /\ UNCHANGED <<record, effects, target>>

(* The first transaction fails: it is rolled back, or it was committed and *)
(* the acknowledgement was lost.                                           *)
TransactionFails(c) == /\ call[c].pc \in InFlight \ {"raised"}
                       /\ Raise(c, "failed")
                       /\ UNCHANGED <<record, effects, target>>

RecoveryFails(c) == /\ call[c].pc = "raised"
                    /\ Answer(c, "failed")
                    /\ UNCHANGED <<record, effects, target>>

(* The server process dies, or nobody is there to receive the answer. *)
Crash(c) == /\ call[c].pc \in InFlight
            /\ Goto(c, "lost")
            /\ UNCHANGED <<record, effects, target>>

(* Other operations: one reopens a used target, under its lock; another    *)
(* removes the parent of a target, whose lock is not the target's.         *)
Reopen(p) == /\ target[p] = "used" /\ ~Locked(p)
             /\ target' = [target EXCEPT ![p] = "open"]
             /\ UNCHANGED <<call, record, effects>>

RemoveParent(p) == /\ target[p] # "removed"
                   /\ target' = [target EXCEPT ![p] = "removed"]
                   /\ UNCHANGED <<call, record, effects>>

-----------------------------------------------------------------------------

Step(c) == Lookup(c) \/ Execute(c) \/ Insert(c) \/ Commit(c) \/ Acknowledge(c) \/ Recover(c)

Fault(c) == TransactionFails(c) \/ RecoveryFails(c) \/ Crash(c)

Next == \/ \E c \in Calls : Send(c) \/ Step(c) \/ Fault(c)
        \/ \E p \in Payloads : Reopen(p) \/ RemoveParent(p)

Spec == Init /\ [][Next]_vars

(* The handler of a request runs on while its process lives, and the       *)
(* database grants a lock or an index entry once it is free.               *)
FairSpec == Spec /\ \A c \in Calls : WF_vars(Step(c))

-----------------------------------------------------------------------------

(* One execution commits for each recorded key and none without a record,  *)
(* whatever is retried, raced, lost or rolled back.                        *)
EffectsMatchRecords ==
  \A k \in Keys : effects[k] = IF record[k] = None THEN 0 ELSE 1

(* No call waits for ever, for a lock or an index entry or an error that   *)
(* comes again and again.                                                  *)
EveryCallEnds == \A c \in Calls : call[c].pc = "begun" ~> call[c].pc \in {"answered", "lost"}

Promise == INSTANCE KeyedWrite WITH
             asked <- [c \in Calls |->
                         IF call[c].pc = "unsent" THEN None
                         ELSE [key |-> call[c].key, payload |-> call[c].payload]],
             ledger <- record,
             said <- [c \in Calls |-> call[c].answer]

(* Every answer is true when it is given: a replay is the one write of its *)
(* key, also after a lost acknowledgement; a rejection means no write; the *)
(* error of the unique index never reaches the client.                     *)
ImplementsKeyedWrite == Promise!Spec

=============================================================================
