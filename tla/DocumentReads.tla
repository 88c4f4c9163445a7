--------------------------- MODULE DocumentReads ---------------------------
(***************************************************************************)
(* The reads of compliance-document.service.ts beside the mutations of     *)
(* documents and the removal of candidates.  A read is a READ COMMITTED    *)
(* transaction of several statements, takes no lock, and ends by appending *)
(* audit events for what it discloses.  Prisma loads an included relation  *)
(* by a statement of its own: a document and its current version are not   *)
(* read together.                                                          *)
(*                                                                         *)
(* The others act as DocumentHistory says, which DocumentLifecycle is      *)
(* shown to implement: what has looked at its candidate may still commit   *)
(* beneath it once it is removed.  Verification requests change nothing    *)
(* that is read.                                                           *)
(***************************************************************************)
EXTENDS Naturals, Sequences, FiniteSetsExt

CONSTANTS
  Reads,        \* read transactions
  Candidates,
  Documents,
  CandidateOf,  \* the candidate of each document
  MaxVersions,  \* bound on the versions of a document
  Expiring,     \* the versions, <<document, number>>, that expire within 30 days
  None

ASSUME CandidateOfAssumption == CandidateOf \in [Documents -> Candidates]
ASSUME MaxVersionsAssumption == MaxVersions \in Nat \ {0}
ASSUME ExpiringAssumption == Expiring \subseteq Documents \X (1..MaxVersions)

VARIABLES
  history, removed, gone, admitted,  \* as in DocumentHistory
  read,    \* each read: what it asks, how far it is, what it has found
  audit,   \* the committed audit events: read and state disclosed
  during,  \* history: what was true of each document since a read began
  hidden   \* history: the documents that were removed, or whose candidates
           \* were, when a read began

Others == INSTANCE DocumentHistory WITH
            RightToWork <- {}, requested <- [d \in Documents |-> {}]

rows == <<history, removed, gone, admitted>>
vars == <<rows, read, audit, during, hidden>>

-----------------------------------------------------------------------------

Statuses == {"DRAFT", "APPROVED"}

(* What a DTO shows of a document. *)
DtoType == [document : Documents, current : 1..MaxVersions, status : Statuses]

(* row: the document asked for, or the candidate whose documents are;      *)
(* status: the filter of a list, None for any.                             *)
ReadType == [pc : {"idle", "begun", "checked", "found", "loaded", "appended", "committed",
                   "answered", "notFound", "invalid"},
             op : {"get", "history", "list", "expiring", None},
             row : Documents \cup Candidates \cup {None}, status : Statuses \cup {None},
             found : [Documents -> 0..MaxVersions],
             items : SUBSET DtoType]

TypeOK == /\ history \in [Documents -> Seq([status : Statuses,
                                            by : {"create", "addVersion", "correct"}])]
          /\ removed \subseteq Documents
          /\ gone \subseteq Candidates
          /\ admitted \subseteq Documents
          /\ read \in [Reads -> ReadType]
          /\ audit \subseteq [read : Reads, items : SUBSET DtoType]
          /\ during \in [Reads -> SUBSET DtoType]
          /\ hidden \in [Reads -> SUBSET Documents]

Nothing == [d \in Documents |-> 0]

Idle == [pc |-> "idle", op |-> None, row |-> None, status |-> None,
         found |-> Nothing, items |-> {}]

Init == /\ Others!Init
        /\ read = [r \in Reads |-> Idle]
        /\ audit = {}
        /\ during = [r \in Reads |-> {}]
        /\ hidden = [r \in Reads |-> {}]

-----------------------------------------------------------------------------

Dto(d) == [document |-> d, current |-> Len(history[d]), status |-> Others!Current(d).status]

(* What is true of the documents that are not removed, committed.  One     *)
(* whose candidate is removed is still there, and may still change.        *)
Truth == {Dto(d) : d \in {e \in Documents : Others!Active(e)}}

Hidden == {d \in Documents : d \in removed \/ CandidateOf[d] \in gone}

(* Another transaction looks at a candidate, commits or rolls back. *)
Mutate == /\ \/ \E d \in Documents : Others!Admit(d) \/ Others!GiveUp(d) \/ Others!Mutation(d)
             \/ \E p \in Candidates : Others!RemoveCandidate(p)
          /\ \A d \in Documents : Len(history'[d]) <= MaxVersions
          /\ during' = [r \in Reads |-> IF read[r].pc \in {"begun", "checked", "found"}
                                        THEN during[r] \cup Truth' ELSE during[r]]
          /\ UNCHANGED <<read, audit, hidden>>

Begin(r, asked) ==
  /\ read[r].pc = "idle"
  /\ read' = [read EXCEPT ![r] = [asked EXCEPT !.pc = "begun"]]
  /\ during' = [during EXCEPT ![r] = Truth]
  /\ hidden' = [hidden EXCEPT ![r] = Hidden]
  /\ UNCHANGED <<rows, audit>>

Ask(r) == \/ \E d \in Documents, op \in {"get", "history"} :
               Begin(r, [Idle EXCEPT !.op = op, !.row = d])
          \/ \E p \in Candidates, status \in Statuses \cup {None} :
               Begin(r, [Idle EXCEPT !.op = "list", !.row = p, !.status = status])
          \/ \E status \in Statuses \cup {None} :
               Begin(r, [Idle EXCEPT !.op = "expiring", !.status = status])

Goto(r, pc) == read' = [read EXCEPT ![r].pc = pc]

Running(r, pc, ops) == read[r].pc = pc /\ read[r].op \in ops

(* The document and its candidate, by one statement. *)
FindDocument(r) ==
  LET d == read[r].row IN
  /\ Running(r, "begun", {"get", "history"})
  /\ IF Others!Visible(d)
     THEN read' = [read EXCEPT ![r].pc = "found", ![r].found[d] = Len(history[d])]
     ELSE Goto(r, "notFound")
  /\ UNCHANGED <<rows, audit, during, hidden>>

(* (bug) A list does not ask for its candidate. *)
RequireNothing(r) == /\ Running(r, "begun", {"list"})
                     /\ Goto(r, "checked")
                     /\ UNCHANGED <<rows, audit, during, hidden>>

(* requireCandidate, a statement of its own. *)
RequireCandidate(r) ==
  /\ Running(r, "begun", {"list"})
  /\ Goto(r, IF read[r].row \in gone THEN "notFound" ELSE "checked")
  /\ UNCHANGED <<rows, audit, during, hidden>>

HasStatus(d, status) == status # None => Others!Current(d).status = status

(* The where clause of listCandidateComplianceDocuments, which does not    *)
(* look at the candidate again.                                            *)
OfCandidate(d, p, status) ==
  CandidateOf[d] = p /\ Others!Active(d) /\ HasStatus(d, status)

(* (bug) Any version in the window qualifies its document. *)
ExpiresByAnyVersion(d, status) ==
  /\ Others!Visible(d) /\ HasStatus(d, status)
  /\ \E i \in DOMAIN history[d] : <<d, i>> \in Expiring

(* The where clause of listExpiringComplianceDocuments, which does. *)
Expires(d, status) ==
  /\ Others!Visible(d) /\ HasStatus(d, status)
  /\ <<d, Len(history[d])>> \in Expiring

(* One page holds all.  The count before it is left out. *)
Find(r, matching) ==
  /\ read' = [read EXCEPT ![r].pc = "found",
                          ![r].found = [d \in Documents |-> IF d \in matching
                                                            THEN Len(history[d]) ELSE 0]]
  /\ UNCHANGED <<rows, audit, during, hidden>>

FindCandidateDocuments(r) ==
  /\ Running(r, "checked", {"list"})
  /\ Find(r, {d \in Documents : OfCandidate(d, read[r].row, read[r].status)})

FindExpiringDocuments(r) ==
  /\ Running(r, "begun", {"expiring"})
  /\ Find(r, {d \in Documents : Expires(d, read[r].status)})

Loaded(r, items) == /\ read' = [read EXCEPT ![r].pc = "loaded", ![r].items = items]
                    /\ UNCHANGED <<rows, audit, during, hidden>>

(* (bug) The version is the one that is current by now, the rest is not. *)
VersionOfNow(d, current) ==
  [document |-> d, current |-> current, status |-> history[d][Len(history[d])].status]

(* The included relation: the version that the document named when found,  *)
(* with the status it has by now.                                          *)
IncludedVersion(d, current) ==
  [document |-> d, current |-> current, status |-> history[d][current].status]

(* The second statement of getComplianceDocument and of the lists. *)
LoadCurrentVersions(r) ==
  /\ Running(r, "found", {"get", "list", "expiring"})
  /\ Loaded(r, {IncludedVersion(d, read[r].found[d]) :
                  d \in {e \in Documents : read[r].found[e] # 0}})

(* (bug) The versions are read first, the current one after them: here the *)
(* document was found when the versions were loaded.                       *)
LoadVersionsFirst(r) ==
  LET d == read[r].row IN
  /\ Running(r, "found", {"history"})
  /\ IF Len(history[d]) <= read[r].found[d]
     THEN Loaded(r, {IncludedVersion(d, i) : i \in 1..read[r].found[d]})
     ELSE Goto(r, "invalid") /\ UNCHANGED <<rows, audit, during, hidden>>

(* listComplianceDocumentVersions: all versions, of which exactly one must *)
(* be the current one, or the read fails.                                  *)
LoadVersions(r) ==
  LET d == read[r].row IN
  /\ Running(r, "found", {"history"})
  /\ IF read[r].found[d] \in DOMAIN history[d]
     THEN Loaded(r, {IncludedVersion(d, i) : i \in DOMAIN history[d]})
     ELSE Goto(r, "invalid") /\ UNCHANGED <<rows, audit, during, hidden>>

(* appendAuditEvent or appendReadAuditEvents: a statement of the same      *)
(* transaction, so that its events show at the commit only.                *)
AppendAudit(r) == /\ read[r].pc = "loaded"
                  /\ Goto(r, "appended")
                  /\ UNCHANGED <<rows, audit, during, hidden>>

(* An empty list appends no event. *)
Commit(r) ==
  /\ read[r].pc = "appended"
  /\ audit' = audit \cup {[read |-> r, items |-> items] : items \in {read[r].items} \ {{}}}
  /\ Goto(r, "committed")
  /\ UNCHANGED <<rows, during, hidden>>

(* The answer may also be lost, and the read never asked for again. *)
Answer(r) == /\ read[r].pc = "committed"
             /\ Goto(r, "answered")
             /\ UNCHANGED <<rows, audit, during, hidden>>

(* A statement, the audit or the commit fails; all is rolled back. *)
Fail(r) == /\ read[r].pc \in {"begun", "checked", "found", "loaded", "appended"}
           /\ read' = [read EXCEPT ![r] = Idle]
           /\ during' = [during EXCEPT ![r] = {}]
           /\ hidden' = [hidden EXCEPT ![r] = {}]
           /\ UNCHANGED <<rows, audit>>

Step(r) == \/ FindDocument(r) \/ LoadVersions(r)
           \/ RequireCandidate(r) \/ FindCandidateDocuments(r)
           \/ FindExpiringDocuments(r) \/ LoadCurrentVersions(r)
           \/ AppendAudit(r) \/ Commit(r) \/ Answer(r)

Next == Mutate \/ \E r \in Reads : Ask(r) \/ Step(r) \/ Fail(r)

Spec == Init /\ [][Next]_vars

-----------------------------------------------------------------------------

Answered(r, ops) == Running(r, "answered", ops)

(* A document and its current version are read by two statements, but what *)
(* is answered, and what the ledger says was, was true at one moment       *)
(* between them: no answer pairs a version with a status it had only       *)
(* under, or after, another one.                                           *)
DocumentIsOfOneMoment ==
  /\ \A r \in Reads : Answered(r, {"get", "list", "expiring"}) => read[r].items \subseteq during[r]
  /\ \A e \in audit : read[e.read].op # "history" => e.items \subseteq during[e.read]

(* The variables have their types, and documents are of one moment.        *)
ReadsInv == TypeOK /\ DocumentIsOfOneMoment

(* Nothing is disclosed of a document that was removed, or whose candidate *)
(* was, before the read began (docs/api.md:235, :580): one that is removed *)
(* while it is read may be, by a list even when its candidate went before  *)
(* the documents were found.                                               *)
RemovedStaysHidden ==
  /\ \A r \in Reads : read[r].pc = "answered" =>
       \A item \in read[r].items : item.document \notin hidden[r]
  /\ \A e \in audit : \A item \in e.items : item.document \notin hidden[e.read]

(* A version history has every version up to the one it marks as current,  *)
(* without a gap, and a concurrent correction never makes the read fail.   *)
HistoryHoldsItsCurrent ==
  \A r \in Reads :
    /\ read[r].pc # "invalid"
    /\ Answered(r, {"history"}) =>
         LET d == read[r].row
             numbers == {item.current : item \in read[r].items}
         IN /\ read[r].found[d] \in numbers
            /\ numbers = 1..Max(numbers)

(* What is listed as expiring expires by its current version: an older one *)
(* never qualifies a document (docs/api.md:430), also not one corrected    *)
(* while the list is read.                                                 *)
ExpiringByCurrentVersion ==
  \A r \in Reads : Answered(r, {"expiring"}) =>
    \A item \in read[r].items : <<item.document, item.current>> \in Expiring

=============================================================================
