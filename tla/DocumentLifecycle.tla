------------------------- MODULE DocumentLifecycle -------------------------
(***************************************************************************)
(* The transactions of compliance-document.service.ts, of the verification *)
(* request of verification.service.ts and of removeCandidate, on the rows  *)
(* they share.  A transaction is READ COMMITTED: each of its statements is *)
(* a step that sees what is committed, it may wait for a row lock, and its *)
(* own writes show at its commit.                                          *)
(*                                                                         *)
(* The unique index on version numbers and the runtime triggers on removed *)
(* documents and approved versions are left out: what holds here holds by  *)
(* the row locks alone.  The unique index on verification requests is kept *)
(* because the service relies on it.                                       *)
(***************************************************************************)
EXTENDS Naturals, Sequences

CONSTANTS
  Calls,        \* concurrent transactions
  Candidates,
  Documents,    \* documents that exist or may be created
  CandidateOf,  \* the candidate each is created for
  RightToWork,  \* the documents of type RIGHT_TO_WORK
  MaxVersions,  \* bound on the versions of a document
  None

ASSUME CandidateOfAssumption == CandidateOf \in [Documents -> Candidates]
ASSUME RightToWorkAssumption == RightToWork \subseteq Documents
ASSUME MaxVersionsAssumption == MaxVersions \in Nat \ {0}

(* The operations that begin with the row lock on a document. *)
DocumentOps == {"addVersion", "approve", "correct", "removeDocument", "requestVerification"}

Ops == DocumentOps \cup {"create", "removeCandidate"}

ASSUME NoneAssumption == None \notin Ops

(* No operation writes PENDING_REVIEW or REJECTED. *)
Statuses == {"DRAFT", "APPROVED"}

VARIABLES
  candidate,  \* candidates.removed_at: "active" or "removed"
  document,   \* compliance_documents: its state and its current version
  versions,   \* compliance_document_versions of each document, as inserted
  requested,  \* the versions that have a verification request
  audit,      \* the latest audit event of each document
  txn         \* each open transaction: pc, operation, row, and what it read

vars == <<candidate, document, versions, requested, audit, txn>>

-----------------------------------------------------------------------------

VersionType == [number : 1..MaxVersions, supersedes : 0..MaxVersions,
                status : Statuses, by : {"create", "addVersion", "correct"}]

(* What a DTO shows of a document; the audit hashes are taken of it.       *)
DtoType == [state : {"absent", "active", "removed"}, current : 0..MaxVersions,
            status : Statuses \cup {None}]

Absent == [state |-> "absent", current |-> 0, status |-> None]

TypeOK ==
  /\ candidate \in [Candidates -> {"active", "removed"}]
  /\ document \in [Documents -> [state : {"absent", "active", "removed"},
                                 current : 0..MaxVersions]]
  /\ versions \in [Documents -> Seq(VersionType)]
  /\ requested \in [Documents -> SUBSET (1..MaxVersions)]
  /\ audit \in [Documents -> [before : DtoType, after : DtoType]]
  /\ txn \in [Calls -> [pc : {"idle", "begun", "checked", "locked", "staged"},
                        op : Ops \cup {None},
                        row : Documents \cup Candidates \cup {None},
                        read : DtoType, count : 0..MaxVersions]]

Idle == [pc |-> "idle", op |-> None, row |-> None, read |-> Absent, count |-> 0]

Init == /\ candidate = [p \in Candidates |-> "active"]
        /\ document = [d \in Documents |-> [state |-> "absent", current |-> 0]]
        /\ versions = [d \in Documents |-> <<>>]
        /\ requested = [d \in Documents |-> {}]
        /\ audit = [d \in Documents |-> [before |-> Absent, after |-> Absent]]
        /\ txn = [c \in Calls |-> Idle]

-----------------------------------------------------------------------------

(* toDocument, of the committed rows. *)
Dto(d) == [state |-> document[d].state, current |-> document[d].current,
           status |-> IF document[d].current = 0 THEN None
                      ELSE versions[d][document[d].current].status]

Rows == <<candidate, document, versions, requested, audit>>

Goto(c, pc) == txn' = [txn EXCEPT ![c].pc = pc]
End(c) == txn' = [txn EXCEPT ![c] = Idle]

Begin(c) ==
  /\ txn[c].pc = "idle"
  /\ \E op \in Ops :
     \E row \in (IF op = "removeCandidate" THEN Candidates ELSE Documents) :
       /\ op = "create" => /\ document[row].state = "absent"
                           /\ \A b \in Calls : ~(txn[b].op = "create" /\ txn[b].row = row)
       /\ txn' = [txn EXCEPT ![c] = [Idle EXCEPT !.pc = "begun", !.op = op, !.row = row]]
  /\ UNCHANGED Rows

(* (bug) The document is read without FOR UPDATE. *)
HoldsNothing(c, d) == FALSE

HoldsDocument(c, d) == /\ txn[c].pc \in {"locked", "staged"}
                       /\ txn[c].op \in DocumentOps
                       /\ txn[c].row = d

(* The FOR UPDATE of a removal, or the FOR KEY SHARE with which the         *)
(* foreign key of a new document holds its candidate.                      *)
HoldsCandidate(c, p) == /\ txn[c].pc = "staged"
                        /\ \/ txn[c].op = "removeCandidate" /\ txn[c].row = p
                           \/ txn[c].op = "create" /\ CandidateOf[txn[c].row] = p

(* SELECT ... FOR UPDATE OF document.  Its look at the candidate is older  *)
(* than the one that follows it, and adds nothing to it.                   *)
LockDocument(c) ==
  /\ txn[c].pc = "begun" /\ txn[c].op \in DocumentOps
  /\ \A b \in Calls \ {c} : ~HoldsDocument(b, txn[c].row)
  /\ IF document[txn[c].row].state = "active" THEN Goto(c, "locked") ELSE End(c)
  /\ UNCHANGED Rows

(* (bug) A general version may follow an approved one. *)
AllowedOverApproved(op, d) ==
  CASE op = "correct" -> Dto(d).status = "APPROVED" /\ Len(versions[d]) < MaxVersions
    [] op = "addVersion" -> Len(versions[d]) < MaxVersions
    [] OTHER -> TRUE

Allowed(op, d) ==
  CASE op = "addVersion" -> Dto(d).status # "APPROVED" /\ Len(versions[d]) < MaxVersions
    [] op = "correct" -> Dto(d).status = "APPROVED" /\ Len(versions[d]) < MaxVersions
    [] op = "requestVerification" -> /\ d \in RightToWork
                                     /\ Dto(d).status = "APPROVED"
                                     /\ Dto(d).current \notin requested[d]
    [] op \in {"approve", "removeDocument"} -> TRUE

(* Read the locked document again, now with its candidate, then its        *)
(* current version and its highest number; refuse, or go on to write.  One *)
(* step for the three statements: the last two read rows that change only  *)
(* under the lock this transaction holds.                                  *)
ReadCurrent(c) ==
  LET d == txn[c].row IN
  /\ txn[c].pc = "locked"
  /\ IF /\ document[d].state = "active"
        /\ candidate[CandidateOf[d]] = "active"
        /\ Allowed(txn[c].op, d)
     THEN txn' = [txn EXCEPT ![c].pc = "staged", ![c].read = Dto(d),
                             ![c].count = Len(versions[d])]
     ELSE End(c)
  /\ UNCHANGED Rows

Audited(c, after) ==
  audit' = [audit EXCEPT ![txn[c].row] = [before |-> txn[c].read, after |-> after]]

Staged(c, op) == txn[c].pc = "staged" /\ txn[c].op = op

NewVersion(c) == [number |-> txn[c].count + 1, supersedes |-> txn[c].read.current,
                  status |-> "DRAFT", by |-> txn[c].op]

(* The new version is selected by its identifier, here its place. *)
SelectNewVersion(c) ==
  LET d == txn[c].row
      place == Len(versions[d]) + 1
  IN /\ versions' = [versions EXCEPT ![d] = Append(@, NewVersion(c))]
     /\ document' = [document EXCEPT ![d] = [state |-> "active", current |-> place]]
     /\ Audited(c, [state |-> "active", current |-> place, status |-> "DRAFT"])
     /\ End(c)
     /\ UNCHANGED <<candidate, requested>>

AddVersion(c) == Staged(c, "addVersion") /\ SelectNewVersion(c)

Correct(c) == Staged(c, "correct") /\ SelectNewVersion(c)

(* Approving an approved version writes an audit event and no row. *)
Approve(c) ==
  /\ Staged(c, "approve")
  /\ versions' = [versions EXCEPT ![txn[c].row][txn[c].read.current].status = "APPROVED"]
  /\ Audited(c, [txn[c].read EXCEPT !.status = "APPROVED"])
  /\ End(c)
  /\ UNCHANGED <<candidate, document, requested>>

RemoveDocument(c) ==
  /\ Staged(c, "removeDocument")
  /\ document' = [document EXCEPT ![txn[c].row].state = "removed"]
  /\ Audited(c, [txn[c].read EXCEPT !.state = "removed"])
  /\ End(c)
  /\ UNCHANGED <<candidate, versions, requested>>

RequestVerification(c) ==
  /\ Staged(c, "requestVerification")
  /\ requested' = [requested EXCEPT ![txn[c].row] = @ \cup {txn[c].read.current}]
  /\ End(c)
  /\ UNCHANGED <<candidate, document, versions, audit>>

(* createComplianceDocument: requireCandidate reads without a lock. *)
RequireCandidate(c) ==
  /\ txn[c].pc = "begun" /\ txn[c].op = "create"
  /\ IF candidate[CandidateOf[txn[c].row]] = "active" THEN Goto(c, "checked") ELSE End(c)
  /\ UNCHANGED Rows

(* The insertion waits for a candidate that is being removed, and does not *)
(* look at it again.                                                       *)
InsertDocument(c) ==
  /\ txn[c].pc = "checked"
  /\ \A b \in Calls : HoldsCandidate(b, CandidateOf[txn[c].row]) => txn[b].op = "create"
  /\ Goto(c, "staged")
  /\ UNCHANGED Rows

Create(c) == Staged(c, "create") /\ SelectNewVersion(c)

LockCandidate(c) ==
  /\ txn[c].pc = "begun" /\ txn[c].op = "removeCandidate"
  /\ \A b \in Calls : ~HoldsCandidate(b, txn[c].row)
  /\ IF candidate[txn[c].row] = "active" THEN Goto(c, "staged") ELSE End(c)
  /\ UNCHANGED Rows

RemoveCandidate(c) ==
  /\ Staged(c, "removeCandidate")
  /\ candidate' = [candidate EXCEPT ![txn[c].row] = "removed"]
  /\ End(c)
  /\ UNCHANGED <<document, versions, requested, audit>>

(* Any statement may fail, the idempotency record may turn out to exist,   *)
(* the process may die: the transaction is rolled back.                    *)
Rollback(c) == /\ txn[c].pc # "idle"
               /\ End(c)
               /\ UNCHANGED Rows

-----------------------------------------------------------------------------

Next == \E c \in Calls :
  \/ Begin(c)
  \/ LockDocument(c) \/ ReadCurrent(c)
  \/ AddVersion(c) \/ Approve(c) \/ Correct(c) \/ RemoveDocument(c) \/ RequestVerification(c)
  \/ RequireCandidate(c) \/ InsertDocument(c) \/ Create(c)
  \/ LockCandidate(c) \/ RemoveCandidate(c)
  \/ Rollback(c)

Spec == Init /\ [][Next]_vars

-----------------------------------------------------------------------------

(* The version numbers of a document have no gap and no duplicate, each    *)
(* version supersedes the one before it, and the pointer is at the last:   *)
(* the unique index on version numbers is never what stops a writer.       *)
VersionsFormALine ==
  \A d \in Documents :
    /\ document[d].current = Len(versions[d])
    /\ \A i \in 1..Len(versions[d]) : /\ versions[d][i].number = i
                                      /\ versions[d][i].supersedes = i - 1

(* A version that follows an approved one is a correction, one that        *)
(* follows a draft is not, whenever either was committed: no version       *)
(* escapes the permission to correct.                                      *)
OriginsAreJustified ==
  \A d \in Documents : \A i \in 1..Len(versions[d]) :
    /\ versions[d][i].by = "create" <=> i = 1
    /\ i > 1 => (versions[d][i].by = "correct" <=> versions[d][i - 1].status = "APPROVED")

(* A verification request names a version that exists and was approved, of *)
(* a right-to-work document, also when the document has moved on since.    *)
RequestsAreForApproved ==
  \A d \in Documents : \A n \in requested[d] :
    d \in RightToWork /\ n \in 1..Len(versions[d]) /\ versions[d][n].status = "APPROVED"

(* The variables have their types, the versions form a line in which each  *)
(* has the origin the one before it justifies, and requests are for        *)
(* approved versions.                                                      *)
DocumentsInv == /\ TypeOK
                /\ VersionsFormALine
                /\ OriginsAreJustified
                /\ RequestsAreForApproved

(* The before and after of each audit event are the document as the        *)
(* transaction found it committed and left it, and no change of a document *)
(* goes without its event.                                                 *)
AuditTellsTheTruth ==
  [][\A d \in Documents :
       audit'[d] # audit[d] \/ Dto(d)' # Dto(d) =>
         audit'[d] = [before |-> Dto(d), after |-> Dto(d)']]_vars

(* The transaction has found the candidate of its document active. *)
HasLooked(c) == \/ txn[c].op \in DocumentOps /\ txn[c].pc = "staged"
                \/ txn[c].op = "create" /\ txn[c].pc \in {"checked", "staged"}

History == INSTANCE DocumentHistory WITH
             history <- [d \in Documents |->
                           [i \in 1..Len(versions[d]) |->
                              [status |-> versions[d][i].status, by |-> versions[d][i].by]]],
             removed <- {d \in Documents : document[d].state = "removed"},
             requested <- requested,
             gone <- {p \in Candidates : candidate[p] = "removed"},
             admitted <- {d \in Documents : \E c \in Calls : txn[c].row = d /\ HasLooked(c)}

(* The interleaved transactions behave like operations that are atomic on  *)
(* their document: an approved version is only ever followed by a          *)
(* correction, a verification request is for a version that is approved    *)
(* and current at that moment, a removed document is never written again,  *)
(* not even by a transaction that waited for the removal, and what is      *)
(* committed beneath a removed candidate found it active before.           *)
ImplementsDocumentHistory == History!Spec

=============================================================================
