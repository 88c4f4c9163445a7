-------------------------- MODULE CandidateRecords --------------------------
(***************************************************************************)
(* The mutations of candidate.service.ts and cv-extraction.service.ts, on  *)
(* the rows they share: candidates, their CV extractions and the profile   *)
(* that an accepted extraction leaves.  As in DocumentLifecycle, each      *)
(* statement of a READ COMMITTED transaction is a step, locks are guards,  *)
(* and writes show at the commit.                                          *)
(*                                                                         *)
(* The runtime triggers (removed candidates, decided extractions and the   *)
(* evidence of a profile are protected) are left out: what holds here      *)
(* holds by the statements and locks of the services.  The unique index on *)
(* e-mail addresses only adds refusals, which Rollback covers.             *)
(***************************************************************************)
EXTENDS Naturals

CONSTANTS
  Calls,        \* concurrent transactions
  Candidates,
  Extractions,  \* extractions that exist or may be created
  CandidateOf,  \* the candidate each is created for
  Fields,       \* the columns an update may give
  Values,       \* contents of a column, or of a confirmed output
  None

ASSUME CandidateOfAssumption == CandidateOf \in [Extractions -> Candidates]

ASSUME NoneAssumption == /\ None \notin Values \cup Candidates \cup Extractions
                         /\ None \notin {"PROPOSED", "ACCEPTED", "REJECTED"}
                         /\ None \notin [Fields -> Values]
                         /\ None \notin [source : Extractions, output : Values]

CandidateOps == {"createCandidate", "updateCandidate", "removeCandidate"}
DecisionOps == {"confirm", "reject"}
Ops == CandidateOps \cup DecisionOps \cup {"createExtraction"}

VARIABLES
  candidate,   \* candidates: state and columns
  extraction,  \* cv_extractions: status and confirmed output
  profile,     \* candidate_profiles: source and output
  audit,       \* the event appended last to the ledger
  txn          \* each open transaction: pc, operation, row, input, what it read

vars == <<candidate, extraction, profile, audit, txn>>

-----------------------------------------------------------------------------

CandidateType == [state : {"absent"}, data : {None}]
                   \cup [state : {"active", "removed"}, data : [Fields -> Values]]

ExtractionType == [status : {None, "PROPOSED", "REJECTED"}, output : {None}]
                    \cup [status : {"ACCEPTED"}, output : Values]

ProfileType == [source : Extractions, output : Values]

(* The input of an update gives some fields, that of a confirmation an     *)
(* output, which the reviewer may have edited.                             *)
Given == UNION {[given -> Values] : given \in (SUBSET Fields) \ {{}}}

(* There are columns to give, and None is not a request. *)
ASSUME FieldsAssumption == Fields # {}

ASSUME NoRequestAssumption ==
         /\ None \notin Ops
         /\ None \notin [op : Ops, row : Candidates \cup Extractions,
                         input : Given \cup Values \cup {None}]

Absent == [state |-> "absent", data |-> None]
Unproposed == [status |-> None, output |-> None]

TypeOK ==
  /\ candidate \in [Candidates -> CandidateType]
  /\ extraction \in [Extractions -> ExtractionType]
  /\ profile \in [Candidates -> ProfileType \cup {None}]
  /\ \/ audit = None
     \/ audit \in [record : Candidates, before : CandidateType, after : CandidateType]
     \/ audit \in [record : Extractions, before : ExtractionType, after : ExtractionType]
  /\ txn \in [Calls -> [pc : {"idle", "begun", "checked", "extracted", "locked",
                              "accepted", "staged"},
                        op : Ops \cup {None},
                        row : Candidates \cup Extractions \cup {None},
                        input : Given \cup Values \cup {None},
                        read : CandidateType \cup ExtractionType]]

Idle == [pc |-> "idle", op |-> None, row |-> None, input |-> None, read |-> Absent]

Init == /\ candidate = [p \in Candidates |-> Absent]
        /\ extraction = [x \in Extractions |-> Unproposed]
        /\ profile = [p \in Candidates |-> None]
        /\ audit = None
        /\ txn = [c \in Calls |-> Idle]

-----------------------------------------------------------------------------

Rows == <<candidate, extraction, profile, audit>>

At(c, pc, op) == txn[c].pc = pc /\ txn[c].op = op
Goto(c, pc) == txn' = [txn EXCEPT ![c].pc = pc]
End(c) == txn' = [txn EXCEPT ![c] = Idle]

RowsOf(op) == IF op \in CandidateOps THEN Candidates ELSE Extractions

InputsOf(op) == CASE op = "createCandidate" -> [Fields -> Values]
                  [] op = "updateCandidate" -> Given
                  [] op = "confirm"         -> Values
                  [] OTHER                  -> {None}

(* A creation has a fresh identifier. *)
Fresh(op, row) == /\ \A b \in Calls : ~(txn[b].op = op /\ txn[b].row = row)
                  /\ CASE op = "createCandidate"  -> candidate[row] = Absent
                       [] op = "createExtraction" -> extraction[row] = Unproposed

Begin(c) ==
  /\ txn[c].pc = "idle"
  /\ \E op \in Ops : \E row \in RowsOf(op), input \in InputsOf(op) :
       /\ op \in {"createCandidate", "createExtraction"} => Fresh(op, row)
       /\ txn' = [txn EXCEPT ![c] = [Idle EXCEPT !.pc = "begun", !.op = op, !.row = row,
                                                 !.input = input]]
  /\ UNCHANGED Rows

Active(p) == candidate[p].state = "active"

-----------------------------------------------------------------------------
(* Locks. *)

(* FOR UPDATE of a removal; FOR NO KEY UPDATE of an update; FOR KEY SHARE   *)
(* of the foreign keys of a new extraction and of a new profile.           *)
HoldsCandidate(c, p, mode) ==
  /\ txn[c].pc = "staged"
  /\ CASE mode = "update"      -> txn[c].op = "removeCandidate" /\ txn[c].row = p
       [] mode = "noKeyUpdate" -> txn[c].op = "updateCandidate" /\ txn[c].row = p
       [] mode = "keyShare"    -> \/ /\ txn[c].op = "createExtraction"
                                     /\ CandidateOf[txn[c].row] = p
                                  \/ /\ txn[c].op = "confirm" /\ profile[p] = None
                                     /\ CandidateOf[txn[c].row] = p

CandidateFree(c, p, modes) ==
  \A b \in Calls \ {c} : \A mode \in modes : ~HoldsCandidate(b, p, mode)

(* (bug) The extraction is read without FOR UPDATE. *)
HoldsNothing(c, x) == FALSE

HoldsExtraction(c, x) == /\ txn[c].pc \in {"locked", "accepted", "staged"}
                         /\ txn[c].op \in DecisionOps
                         /\ txn[c].row = x

(* The row of the profile, or the entry of its unique index. *)
HoldsProfile(c, p) == At(c, "staged", "confirm") /\ CandidateOf[txn[c].row] = p

-----------------------------------------------------------------------------
(* candidate.service.ts *)

Audited(record, before, after) ==
  audit' = [record |-> record, before |-> before, after |-> after]

CreateCandidate(c) ==
  LET p == txn[c].row
      created == [state |-> "active", data |-> txn[c].input]
  IN /\ At(c, "begun", "createCandidate")
     /\ candidate' = [candidate EXCEPT ![p] = created]
     /\ Audited(p, Absent, created)
     /\ End(c)
     /\ UNCHANGED <<extraction, profile>>

(* The before image of an update is read without a lock. *)
ReadBefore(c) ==
  /\ At(c, "begun", "updateCandidate")
  /\ IF Active(txn[c].row)
     THEN txn' = [txn EXCEPT ![c].pc = "checked", ![c].read = candidate[txn[c].row]]
     ELSE End(c)
  /\ UNCHANGED Rows

Updatable(p) == Active(p)

(* updateMany waits for the row, then evaluates its filter on what is      *)
(* committed.                                                              *)
WriteCandidate(c) ==
  /\ At(c, "checked", "updateCandidate")
  /\ CandidateFree(c, txn[c].row, {"update", "noKeyUpdate"})
  /\ IF Updatable(txn[c].row) THEN Goto(c, "staged") ELSE End(c)
  /\ UNCHANGED Rows

Merge(data, given) ==
  [f \in Fields |-> IF f \in DOMAIN given THEN given[f] ELSE data[f]]

(* (bug) Every column is written, the missing ones as they were read. *)
UpdatedDataAsRead(c) == Merge(txn[c].read.data, txn[c].input)

UpdatedData(c) == Merge(candidate[txn[c].row].data, txn[c].input)

(* The after image is read after the write, under its lock. *)
UpdateCandidate(c) ==
  LET p == txn[c].row
      after == [candidate[p] EXCEPT !.data = UpdatedData(c)]
  IN /\ At(c, "staged", "updateCandidate")
     /\ candidate' = [candidate EXCEPT ![p] = after]
     /\ Audited(p, txn[c].read, after)
     /\ End(c)
     /\ UNCHANGED <<extraction, profile>>

LockCandidate(c) ==
  LET p == txn[c].row IN
  /\ At(c, "begun", "removeCandidate")
  /\ CandidateFree(c, p, {"update", "noKeyUpdate", "keyShare"})
  /\ IF Active(p)
     THEN txn' = [txn EXCEPT ![c].pc = "staged", ![c].read = candidate[p]]
     ELSE End(c)
  /\ UNCHANGED Rows

RemoveCandidate(c) ==
  LET p == txn[c].row
      after == [candidate[p] EXCEPT !.state = "removed"]
  IN /\ At(c, "staged", "removeCandidate")
     /\ candidate' = [candidate EXCEPT ![p] = after]
     /\ Audited(p, txn[c].read, after)
     /\ End(c)
     /\ UNCHANGED <<extraction, profile>>

-----------------------------------------------------------------------------
(* cv-extraction.service.ts *)

RequireCandidate(c) ==
  /\ At(c, "begun", "createExtraction")
  /\ IF Active(CandidateOf[txn[c].row]) THEN Goto(c, "checked") ELSE End(c)
  /\ UNCHANGED Rows

(* The provider is awaited inside the transaction.  It returns a valid      *)
(* profile, or it throws or returns something else.                        *)
ProviderExtracts(c) == /\ At(c, "checked", "createExtraction")
                       /\ Goto(c, "extracted") \/ End(c)
                       /\ UNCHANGED Rows

(* The insertion waits for a candidate that is being removed, and does not *)
(* look at it again.                                                       *)
InsertExtraction(c) ==
  /\ At(c, "extracted", "createExtraction")
  /\ CandidateFree(c, CandidateOf[txn[c].row], {"update"})
  /\ Goto(c, "staged")
  /\ UNCHANGED Rows

CreateExtraction(c) ==
  LET x == txn[c].row
      created == [status |-> "PROPOSED", output |-> None]
  IN /\ At(c, "staged", "createExtraction")
     /\ extraction' = [extraction EXCEPT ![x] = created]
     /\ Audited(x, Unproposed, created)
     /\ End(c)
     /\ UNCHANGED <<candidate, profile>>

(* SELECT ... FOR UPDATE OF extraction.  Its look at the candidate is older *)
(* than the one that follows it, and adds nothing to it.                   *)
LockExtraction(c) ==
  /\ txn[c].pc = "begun" /\ txn[c].op \in DecisionOps
  /\ \A b \in Calls \ {c} : ~HoldsExtraction(b, txn[c].row)
  /\ IF extraction[txn[c].row].status = None THEN End(c) ELSE Goto(c, "locked")
  /\ UNCHANGED Rows

Decidable(x) == extraction[x].status = "PROPOSED"

(* Read the locked extraction, now with its candidate; refuse, or go on.    *)
(* Only a confirmation has a profile to write.                             *)
ReadExtraction(c) ==
  LET x == txn[c].row IN
  /\ txn[c].pc = "locked"
  /\ IF Active(CandidateOf[x]) /\ Decidable(x)
     THEN txn' = [txn EXCEPT ![c].pc = IF txn[c].op = "confirm" THEN "accepted" ELSE "staged",
                             ![c].read = extraction[x]]
     ELSE End(c)
  /\ UNCHANGED Rows

(* candidateProfile.upsert waits for another one of the same candidate, and *)
(* an insertion for a candidate that is being removed.                     *)
UpsertProfile(c) ==
  LET p == CandidateOf[txn[c].row] IN
  /\ At(c, "accepted", "confirm")
  /\ \A b \in Calls \ {c} : ~HoldsProfile(b, p)
  /\ profile[p] = None => CandidateFree(c, p, {"update"})
  /\ Goto(c, "staged")
  /\ UNCHANGED Rows

Decide(c, decided) ==
  /\ extraction' = [extraction EXCEPT ![txn[c].row] = decided]
  /\ Audited(txn[c].row, txn[c].read, decided)
  /\ End(c)
  /\ UNCHANGED candidate

Confirm(c) ==
  /\ At(c, "staged", "confirm")
  /\ Decide(c, [status |-> "ACCEPTED", output |-> txn[c].input])
  /\ profile' = [profile EXCEPT ![CandidateOf[txn[c].row]] =
                   [source |-> txn[c].row, output |-> txn[c].input]]

Reject(c) == /\ At(c, "staged", "reject")
             /\ Decide(c, [status |-> "REJECTED", output |-> None])
             /\ UNCHANGED profile

(* Any statement may fail, an upsert may lose the race of two insertions,  *)
(* the idempotency record may turn out to exist, the process may die.      *)
Rollback(c) == /\ txn[c].pc # "idle"
               /\ End(c)
               /\ UNCHANGED Rows

-----------------------------------------------------------------------------

Next == \E c \in Calls :
  \/ Begin(c)
  \/ CreateCandidate(c)
  \/ ReadBefore(c) \/ WriteCandidate(c) \/ UpdateCandidate(c)
  \/ LockCandidate(c) \/ RemoveCandidate(c)
  \/ RequireCandidate(c) \/ ProviderExtracts(c) \/ InsertExtraction(c) \/ CreateExtraction(c)
  \/ LockExtraction(c) \/ ReadExtraction(c) \/ UpsertProfile(c) \/ Confirm(c) \/ Reject(c)
  \/ Rollback(c)

Spec == Init /\ [][Next]_vars

-----------------------------------------------------------------------------

(* A profile is what its source extraction was confirmed with: confirming  *)
(* two extractions, or confirming and rejecting one, at the same time      *)
(* leaves no profile without its evidence.                                 *)
ProfileHasEvidence ==
  \A p \in Candidates : profile[p] # None =>
    /\ CandidateOf[profile[p].source] = p
    /\ extraction[profile[p].source] = [status |-> "ACCEPTED", output |-> profile[p].output]

(* The variables have their types, and profiles their evidence.            *)
CandidatesInv == TypeOK /\ ProfileHasEvidence

(* Each step of an extraction is in the ledger with the state it had and    *)
(* the state it got, and so is each removal of a candidate.                *)
DecisionsAreAudited ==
  [][/\ \A x \in Extractions : extraction'[x] # extraction[x] =>
          audit' = [record |-> x, before |-> extraction[x], after |-> extraction'[x]]
     /\ \A p \in Candidates : candidate'[p].state # candidate[p].state =>
          audit' = [record |-> p, before |-> candidate[p], after |-> candidate'[p]]]_vars

(* An update is in the ledger with the public state of the candidate before *)
(* and after it (docs/api.md:79).                                          *)
UpdateAuditsItsChange ==
  [][\A p \in Candidates : candidate'[p] # candidate[p] =>
       audit' = [record |-> p, before |-> candidate[p], after |-> candidate'[p]]]_vars

History == INSTANCE CandidateHistory WITH
             asked <- [c \in Calls |->
                         IF txn[c].pc = "idle" THEN None
                         ELSE [op |-> txn[c].op, row |-> txn[c].row, input |-> txn[c].input]],
             data <- [p \in Candidates |-> candidate[p].data],
             removed <- {p \in Candidates : candidate[p].state = "removed"},
             proposal <- [x \in Extractions |-> extraction[x].status],
             profile <- profile

(* The interleaved transactions behave like atomic operations: concurrent  *)
(* updates of different columns lose nothing, a removed candidate is never *)
(* written again, a proposal is decided once, and a profile changes with   *)
(* an acceptance and only then.                                            *)
ImplementsCandidateHistory == History!Spec

=============================================================================
