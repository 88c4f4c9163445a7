------------------------- MODULE DocumentReadsProofs -------------------------
(***************************************************************************)
(* Theorems about DocumentReads, for every set of reads, candidates and    *)
(* documents, any number of versions and any choice of those that expire;  *)
(* and, at the end, about DocumentView, the page that shows what a read    *)
(* has answered, for any number of versions and of refreshes under way.    *)
(***************************************************************************)
EXTENDS DocumentReads, TLAPS

-----------------------------------------------------------------------------
(* The inductive invariant.  What a read has found was true at a moment    *)
(* since it began, and stays so however the rows change: only the current  *)
(* version of an active document changes its status, and that is true of   *)
(* the document from then on.  What was removed when a read began stays    *)
(* so, and is not found: a list has found its candidate active since.      *)

HistoryOK == \A d \in Documents : Len(history[d]) <= MaxVersions

(* What is asked for; only a read that finds no single current version     *)
(* ends as invalid, and there is none.                                     *)
AskOK(r) ==
  /\ read[r].pc # "idle" /\ read[r].op \in {"get", "history"} => read[r].row \in Documents
  /\ read[r].pc # "invalid"

(* Before it has found something, a read has seen no version; until it has *)
(* loaded what it found, it counts all that is true as true of its time.   *)
BegunOK(r) == /\ read[r].pc \in {"begun", "checked"} => read[r].found = Nothing
              /\ read[r].pc \in {"begun", "checked", "found"} => Truth \subseteq during[r]

(* What was hidden when the read began still is.  Of the candidate that a  *)
(* list has found active, it is the documents removed.                     *)
HiddenOK(r) ==
  /\ hidden[r] \subseteq Hidden
  /\ read[r].pc = "checked" =>
       \A d \in hidden[r] : CandidateOf[d] = read[r].row => d \in removed

FoundOK(r) ==
  read[r].pc = "found" =>
    /\ read[r].op \in {"get", "history"} => read[r].found[read[r].row] # 0
    /\ \A d \in Documents : read[r].found[d] # 0 =>
         /\ read[r].found[d] <= Len(history[d])
         /\ IncludedVersion(d, read[r].found[d]) \in during[r]
         /\ d \notin hidden[r]
         /\ read[r].op = "expiring" => <<d, read[r].found[d]>> \in Expiring

(* The items are the versions of a document from the first on. *)
Gapless(items, current) ==
  \E n \in 1..MaxVersions : /\ {item.current : item \in items} = 1..n
                            /\ current \in 1..n

LoadedOK(r) ==
  read[r].pc \in {"loaded", "appended", "committed", "answered"} =>
    /\ read[r].op # "history" => read[r].items \subseteq during[r]
    /\ read[r].op = "history" => Gapless(read[r].items, read[r].found[read[r].row])
    /\ \A item \in read[r].items : item.document \notin hidden[r]
    /\ read[r].op = "expiring" =>
         \A item \in read[r].items : <<item.document, item.current>> \in Expiring

(* The ledger has of a read what it answers, once that is committed. *)
LedgerOK(r) ==
  \A e \in audit : e.read = r => /\ read[r].pc \in {"committed", "answered"}
                                 /\ e.items = read[r].items

ReadOK(r) == AskOK(r) /\ BegunOK(r) /\ HiddenOK(r) /\ FoundOK(r) /\ LoadedOK(r) /\ LedgerOK(r)

IInv == TypeOK /\ HistoryOK /\ \A r \in Reads : ReadOK(r)

-----------------------------------------------------------------------------
(* The mutations, in terms of what the reads see. *)

VersionType == [status : Statuses, by : {"create", "addVersion", "correct"}]

Rows == [Documents -> Seq(VersionType)]

Drafted(d) ==
  /\ removed' = removed
  /\ \E by \in {"create", "addVersion", "correct"} :
       history' = [history EXCEPT ![d] = Append(history[d], [status |-> "DRAFT", by |-> by])]

ApprovedNow(d) ==
  /\ removed' = removed /\ history[d] # <<>> /\ d \notin removed
  /\ history' = [history EXCEPT ![d][Len(history[d])].status = "APPROVED"]

RemovedNow(d) == history' = history /\ removed' = removed \cup {d}

Kept == history' = history /\ removed' = removed

(* A version is added to a document, or the current one is approved, or a  *)
(* document is removed; or none of these.                                  *)
LEMMA Mutating ==
  ASSUME Mutate
  PROVE  Kept \/ \E d \in Documents : Drafted(d) \/ ApprovedNow(d) \/ RemovedNow(d)
  <1>1. CASE \E d \in Documents : Others!Admit(d) \/ Others!GiveUp(d)
    BY <1>1 DEF Kept, Others!Admit, Others!GiveUp
  <1>2. CASE \E p \in Candidates : Others!RemoveCandidate(p)
    BY <1>2 DEF Kept, Others!RemoveCandidate
  <1>3. ASSUME NEW d \in Documents, Others!Mutation(d)
        PROVE  Drafted(d) \/ ApprovedNow(d) \/ RemovedNow(d)
    <2>1. CASE \E by \in {"create", "addVersion", "correct"} : Others!Draft(d, by)
      BY <2>1 DEF Drafted, Others!Draft
    <2>2. CASE Others!Approve(d)
      BY <2>2 DEF ApprovedNow, Others!Approve, Others!Active
    <2>3. CASE Others!Remove(d)
      BY <2>3 DEF RemovedNow, Others!Remove
    <2>. QED BY <1>3, <2>1, <2>2, <2>3
             DEF Others!Mutation, Others!Create, Others!AddVersion, Others!Correct
  <1>. QED BY <1>1, <1>2, <1>3 DEF Mutate

(* Removals are for good. *)
LEMMA RemovalsStay ==
  ASSUME TypeOK, Mutate
  PROVE  /\ gone \subseteq gone' /\ gone' \subseteq Candidates
         /\ admitted' \subseteq Documents /\ removed \subseteq removed'
  <1>1. removed \subseteq removed'
    BY Mutating DEF Kept, Drafted, ApprovedNow, RemovedNow
  <1>2. CASE \E p \in Candidates : Others!RemoveCandidate(p)
    BY <1>1, <1>2 DEF Others!RemoveCandidate, TypeOK
  <1>3. ASSUME NEW d \in Documents, Others!Admit(d) \/ Others!GiveUp(d) \/ Others!Commit(d)
        PROVE  gone' = gone /\ admitted' \subseteq Documents
    BY <1>3 DEF Others!Admit, Others!GiveUp, Others!Commit, TypeOK
  <1>4. ASSUME NEW d \in Documents, Others!Mutation(d) PROVE Others!Commit(d)
    BY <1>4 DEF Others!Mutation, Others!Create, Others!AddVersion, Others!Correct,
                Others!Approve, Others!Remove, Others!Draft
  <1>. QED BY <1>1, <1>2, <1>3, <1>4 DEF Mutate, TypeOK

(* What a mutation leaves of the versions there were: each is still there, *)
(* with its status, unless it is the current one of an active document.    *)
LEMMA VersionKept ==
  ASSUME TypeOK, Mutate, NEW d \in Documents, NEW i \in 1..Len(history[d])
  PROVE  /\ i <= Len(history'[d])
         /\ \/ history'[d][i].status = history[d][i].status
            \/ Others!Active(d)' /\ i = Len(history'[d])
  <1>1. history[d] \in Seq(VersionType)
    BY DEF TypeOK, VersionType
  <1>3. CASE history'[d] = history[d]
    BY <1>3, <1>1
  <1>2. CASE Kept
    BY <1>2, <1>3 DEF Kept
  <1>7. ASSUME NEW e \in Documents, Drafted(e) \/ ApprovedNow(e) \/ RemovedNow(e)
        PROVE  /\ i <= Len(history'[d])
               /\ \/ history'[d][i].status = history[d][i].status
                  \/ Others!Active(d)' /\ i = Len(history'[d])
    <2>4. CASE e = d /\ Drafted(e)
      <3>1. PICK by \in {"create", "addVersion", "correct"} :
                     history'[d] = Append(history[d], [status |-> "DRAFT", by |-> by])
        BY <2>4 DEF TypeOK, Drafted
      <3>. QED BY <3>1, <1>1
    <2>5. CASE e = d /\ ApprovedNow(e)
      <3>1. history'[d] = [history[d] EXCEPT ![Len(history[d])].status = "APPROVED"]
        BY <2>5 DEF TypeOK, ApprovedNow
      <3>2. Len(history'[d]) = Len(history[d]) /\ Len(history[d]) # 0 /\ history'[d] # <<>>
        BY <3>1, <2>5, <1>1 DEF ApprovedNow
      <3>3. Others!Active(d)'
        BY <3>2, <2>5 DEF Others!Active, ApprovedNow
      <3>4. i # Len(history[d]) => history'[d][i] = history[d][i]
        BY <3>1, <1>1
      <3>. QED BY <3>2, <3>3, <3>4, <1>1
    <2>6. CASE e # d \/ RemovedNow(e)
      BY <1>7, <2>6, <1>3 DEF TypeOK, Drafted, ApprovedNow, RemovedNow
    <2>. QED BY <1>7, <2>4, <2>5, <2>6
  <1>. QED BY Mutating, <1>2, <1>7

LEMMA MutateTyped ==
  ASSUME TypeOK, Mutate
  PROVE  history' \in Rows /\ removed' \subseteq Documents
  <1>1. CASE Kept
    BY <1>1 DEF Kept, TypeOK, Rows, VersionType
  <1>2. ASSUME NEW e \in Documents, Drafted(e) \/ ApprovedNow(e) \/ RemovedNow(e)
        PROVE  history' \in Rows /\ removed' \subseteq Documents
    <2>1. removed' \subseteq Documents
      BY <1>2 DEF TypeOK, Drafted, ApprovedNow, RemovedNow
    <2>2. history[e] \in Seq(VersionType)
      BY DEF TypeOK, VersionType
    <2>3. CASE Drafted(e)
      BY <2>1, <2>3, <2>2 DEF TypeOK, Rows, VersionType, Statuses, Drafted
    <2>4. CASE ApprovedNow(e)
      <3>1. history'[e] = [history[e] EXCEPT ![Len(history[e])].status = "APPROVED"]
        BY <2>4 DEF TypeOK, ApprovedNow
      <3>2. Len(history[e]) \in 1..Len(history[e])
        BY <2>4, <2>2 DEF ApprovedNow
      <3>3. PICK v \in VersionType : v = history[e][Len(history[e])]
        BY <3>2, <2>2
      <3>4. [v EXCEPT !.status = "APPROVED"] \in VersionType
        BY DEF Statuses, VersionType
      <3>5. history'[e] = [history[e] EXCEPT
                             ![Len(history[e])] = [v EXCEPT !.status = "APPROVED"]]
        BY <3>1, <3>3
      <3>6. history'[e] \in Seq(VersionType)
        BY <3>2, <3>4, <3>5, <2>2
      <3>. QED BY <3>6, <2>1, <2>4 DEF ApprovedNow, TypeOK, Rows, VersionType
    <2>5. CASE RemovedNow(e)
      BY <2>1, <2>5 DEF TypeOK, Rows, VersionType, RemovedNow
    <2>. QED BY <1>2, <2>3, <2>4, <2>5
  <1>. QED BY Mutating, <1>1, <1>2

LEMMA CurrentExists ==
  ASSUME TypeOK, HistoryOK, NEW d \in Documents, Others!Active(d)
  PROVE  /\ Len(history[d]) \in 1..MaxVersions
         /\ history[d][Len(history[d])].status \in Statuses
         /\ IncludedVersion(d, Len(history[d])) = Dto(d)
         /\ Dto(d) \in Truth
         /\ Dto(d) \in DtoType
  <1>1. history[d] \in Seq(VersionType)
    BY DEF TypeOK, VersionType
  <1>2. Len(history[d]) \in 1..MaxVersions
    BY <1>1, MaxVersionsAssumption DEF HistoryOK, Others!Active
  <1>3. history[d][Len(history[d])] \in VersionType
    BY <1>1, <1>2
  <1>4. history[d][Len(history[d])].status \in Statuses
    BY <1>3 DEF VersionType
  <1>. QED BY <1>2, <1>4 DEF IncludedVersion, Dto, Truth, DtoType, Others!Current

LEMMA TruthTyped ==
  ASSUME TypeOK, HistoryOK
  PROVE  Truth \subseteq DtoType
  BY CurrentExists DEF Truth

LEMMA VersionTyped ==
  ASSUME TypeOK, HistoryOK, NEW d \in Documents, NEW i \in 1..Len(history[d])
  PROVE  /\ i \in 1..MaxVersions
         /\ IncludedVersion(d, i) \in DtoType
  <1>1. history[d] \in Seq(VersionType)
    BY DEF TypeOK, VersionType
  <1>2. i \in 1..MaxVersions
    BY <1>1, MaxVersionsAssumption DEF HistoryOK
  <1>3. history[d][i] \in VersionType
    BY <1>1
  <1>4. history[d][i].status \in Statuses
    BY <1>3 DEF VersionType
  <1>. QED BY <1>2, <1>4 DEF IncludedVersion, DtoType

LEMMA MaxOfNumbers ==
  ASSUME NEW n \in Nat \ {0}
  PROVE  Max(1..n) = n
  <1>1. n \in 1..n /\ \A y \in 1..n : n >= y
    OBVIOUS
  <1>2. \A x \in 1..n : (\A y \in 1..n : x >= y) => x = n
    BY <1>1
  <1>. QED BY <1>1, <1>2 DEF Max

-----------------------------------------------------------------------------
(* The invariant. *)

LEMMA InitInv == Init => IInv
  <1>. SUFFICES ASSUME Init PROVE IInv
    OBVIOUS
  <1>1. TypeOK
    BY MaxVersionsAssumption
       DEF Init, Others!Init, TypeOK, ReadType, Idle, Nothing, Statuses
  <1>2. HistoryOK
    BY MaxVersionsAssumption DEF Init, Others!Init, HistoryOK
  <1>3. ASSUME NEW r \in Reads PROVE ReadOK(r)
    <2>1. read[r].pc = "idle" /\ hidden[r] = {} /\ audit = {}
      BY DEF Init, Idle
    <2>. QED BY <2>1 DEF ReadOK, AskOK, BegunOK, HiddenOK, FoundOK, LoadedOK, LedgerOK
  <1>. QED BY <1>1, <1>2, <1>3 DEF IInv

(* A mutation leaves what a read has found true at some moment of it.      *)
LEMMA MutateStep ==
  ASSUME IInv, Mutate
  PROVE  IInv'
  <1>. USE DEF IInv
  <1>1. /\ history' \in Rows /\ removed' \subseteq Documents /\ read' = read /\ audit' = audit
        /\ hidden' = hidden
    BY MutateTyped DEF Mutate
  <1>2. HistoryOK'
    BY DEF Mutate, HistoryOK
  <1>3. Truth' \subseteq DtoType
    <2>1. SUFFICES ASSUME NEW d \in Documents, Others!Active(d)'
                   PROVE  Dto(d)' \in DtoType
      BY DEF Truth
    <2>2. history'[d] \in Seq(VersionType)
      BY <1>1 DEF Rows
    <2>3. Len(history'[d]) \in 1..MaxVersions
      BY <2>1, <2>2, <1>2, MaxVersionsAssumption DEF HistoryOK, Others!Active
    <2>4. history'[d][Len(history'[d])] \in VersionType
      BY <2>2, <2>3
    <2>5. history'[d][Len(history'[d])].status \in Statuses
      BY <2>4 DEF VersionType
    <2>. QED BY <2>3, <2>5 DEF Dto, DtoType, Others!Current
  <1>4. \A r \in Reads : during'[r] = IF read[r].pc \in {"begun", "checked", "found"}
                                     THEN during[r] \cup Truth' ELSE during[r]
    BY DEF Mutate
  <1>5. TypeOK'
    <2>1. during' \in [Reads -> SUBSET DtoType]
      BY <1>3 DEF TypeOK, Mutate
    <2>. QED BY <1>1, <2>1, RemovalsStay DEF TypeOK, Rows, VersionType
  <1>6. Hidden \subseteq Hidden' /\ removed \subseteq removed'
    BY RemovalsStay DEF Hidden
  <1>7. ASSUME NEW r \in Reads PROVE ReadOK(r)'
    <2>1. AskOK(r)' /\ LedgerOK(r)'
      BY <1>1 DEF ReadOK, AskOK, LedgerOK
    <2>2. BegunOK(r)'
      BY <1>1, <1>4 DEF ReadOK, BegunOK
    <2>3. LoadedOK(r)'
      BY <1>1, <1>4 DEF ReadOK, LoadedOK
    <2>4. HiddenOK(r)'
      BY <1>1, <1>6 DEF ReadOK, HiddenOK
    <2>5. FoundOK(r)'
      <3>1. SUFFICES ASSUME read[r].pc = "found",
                            NEW d \in Documents, NEW n \in Nat \ {0}, n = read[r].found[d]
                     PROVE  /\ n <= Len(history'[d])
                            /\ IncludedVersion(d, n)' \in during'[r]
        BY <1>1 DEF ReadOK, FoundOK, TypeOK, ReadType
      <3>2. n <= Len(history[d]) /\ IncludedVersion(d, n) \in during[r]
        BY <3>1 DEF ReadOK, FoundOK
      <3>3. n \in 1..Len(history[d])
        BY <3>2 DEF TypeOK
      <3>4. /\ n <= Len(history'[d])
            /\ \/ history'[d][n].status = history[d][n].status
               \/ Others!Active(d)' /\ n = Len(history'[d])
        BY <3>3, VersionKept
      <3>5. CASE history'[d][n].status = history[d][n].status
        BY <3>1, <3>2, <3>4, <3>5, <1>4 DEF IncludedVersion
      <3>6. CASE Others!Active(d)' /\ n = Len(history'[d])
        <4>1. IncludedVersion(d, n)' \in Truth'
          BY <3>6 DEF IncludedVersion, Truth, Dto, Others!Current
        <4>. QED BY <4>1, <3>1, <3>4, <1>4
      <3>. QED BY <3>4, <3>5, <3>6
    <2>. QED BY <2>1, <2>2, <2>3, <2>4, <2>5 DEF ReadOK
  <1>. QED BY <1>2, <1>5, <1>7

(* A step of a read changes nothing for another one. *)
LEMMA ReadStep ==
  ASSUME IInv, NEW r \in Reads, NEW q \in ReadType,
         UNCHANGED rows, read' = [read EXCEPT ![r] = q],
         during' \in [Reads -> SUBSET DtoType], hidden' \in [Reads -> SUBSET Documents],
         \A s \in Reads \ {r} : during'[s] = during[s] /\ hidden'[s] = hidden[s],
         audit' \subseteq [read : Reads, items : SUBSET DtoType],
         \A e \in audit' : e.read = r \/ e \in audit,
         ReadOK(r)'
  PROVE  IInv'
  <1>. USE DEF IInv
  <1>1. history' = history /\ removed' = removed /\ gone' = gone /\ admitted' = admitted
    BY DEF rows
  <1>2. TypeOK' /\ HistoryOK'
    BY <1>1 DEF TypeOK, HistoryOK
  <1>3. ASSUME NEW s \in Reads, s # r PROVE ReadOK(s)'
    <2>1. read'[s] = read[s] /\ during'[s] = during[s] /\ hidden'[s] = hidden[s]
      BY <1>3 DEF TypeOK
    <2>2. /\ Truth' = Truth /\ Hidden' = Hidden
          /\ \A d, n : IncludedVersion(d, n)' = IncludedVersion(d, n)
      BY <1>1 DEF Truth, Hidden, Dto, Others!Current, Others!Active, IncludedVersion
    <2>3. AskOK(s)' /\ LedgerOK(s)'
      BY <1>3, <2>1 DEF ReadOK, AskOK, LedgerOK
    <2>4. BegunOK(s)' /\ HiddenOK(s)'
      BY <1>1, <2>1, <2>2 DEF ReadOK, BegunOK, HiddenOK
    <2>5. FoundOK(s)'
      BY <2>1, <2>2, <1>1 DEF ReadOK, FoundOK
    <2>6. LoadedOK(s)'
      BY <2>1 DEF ReadOK, LoadedOK
    <2>. QED BY <2>3, <2>4, <2>5, <2>6 DEF ReadOK
  <1>. QED BY <1>2, <1>3

(* The same of a step that leaves the histories alone and writes no audit. *)
LEMMA QuietStep ==
  ASSUME IInv, NEW r \in Reads, NEW q \in ReadType,
         UNCHANGED <<rows, audit, during, hidden>>, read' = [read EXCEPT ![r] = q], ReadOK(r)'
  PROVE  IInv'
  BY ReadStep DEF IInv, TypeOK

(* Rows and histories are what they were, and so is what they say. *)
LEMMA QuietRows ==
  ASSUME IInv, NEW r \in Reads, NEW q, UNCHANGED <<rows, audit, during, hidden>>,
         read' = [read EXCEPT ![r] = q]
  PROVE  /\ read'[r] = q /\ during' = during /\ hidden' = hidden /\ audit' = audit
         /\ history' = history /\ removed' = removed /\ Truth' = Truth /\ Hidden' = Hidden
         /\ \A d, n : IncludedVersion(d, n)' = IncludedVersion(d, n)
  <1>1. history' = history /\ removed' = removed /\ gone' = gone
    BY DEF rows
  <1>. QED BY <1>1 DEF IInv, TypeOK, Truth, Hidden, Dto, Others!Current, Others!Active,
                       IncludedVersion

(* A read that ends without an answer. *)
LEMMA EndsStep ==
  ASSUME IInv, NEW r \in Reads, read[r].pc \in {"begun", "checked"}, Goto(r, "notFound"),
         UNCHANGED <<rows, audit, during, hidden>>
  PROVE  IInv'
  <1>1. read[r] \in ReadType
    BY DEF IInv, TypeOK
  <1>2. PICK q : q = [read[r] EXCEPT !.pc = "notFound"] /\ read' = [read EXCEPT ![r] = q]
    BY <1>1 DEF Goto, ReadType
  <1>3. q \in ReadType /\ q.pc = "notFound" /\ q.op = read[r].op /\ q.row = read[r].row
    BY <1>1, <1>2 DEF ReadType
  <1>4. /\ read'[r] = q /\ during' = during /\ hidden' = hidden /\ audit' = audit
        /\ Hidden' = Hidden
    BY <1>2, QuietRows
  <1>5. AskOK(r)' /\ LedgerOK(r)'
    BY <1>3, <1>4 DEF IInv, ReadOK, AskOK, LedgerOK
  <1>6. BegunOK(r)' /\ HiddenOK(r)' /\ FoundOK(r)' /\ LoadedOK(r)'
    BY <1>3, <1>4 DEF IInv, ReadOK, BegunOK, HiddenOK, FoundOK, LoadedOK
  <1>. QED BY <1>2, <1>3, <1>5, <1>6, QuietStep DEF ReadOK

LEMMA IdleTyped ==
  /\ Idle \in ReadType
  /\ Idle.pc = "idle" /\ Idle.row = None /\ Idle.found = Nothing
  BY MaxVersionsAssumption DEF Idle, ReadType, Nothing

(* What may be asked. *)
LEMMA Asking ==
  ASSUME NEW r \in Reads, Ask(r)
  PROVE  \E p \in ReadType : /\ Begin(r, p) /\ p.found = Nothing
                             /\ p.op \in {"get", "history"} => p.row \in Documents
  <1>1. ASSUME NEW d \in Documents, NEW op \in {"get", "history"},
               Begin(r, [Idle EXCEPT !.op = op, !.row = d])
        PROVE  \E p \in ReadType : /\ Begin(r, p) /\ p.found = Nothing
                                   /\ p.op \in {"get", "history"} => p.row \in Documents
    <2>1. PICK p : p = [Idle EXCEPT !.op = op, !.row = d]
      OBVIOUS
    <2>2. p \in ReadType /\ p.op = op /\ p.row = d /\ p.found = Nothing
      BY <2>1, IdleTyped DEF ReadType
    <2>. QED BY <1>1, <2>1, <2>2
  <1>2. ASSUME NEW row \in Candidates, NEW status \in Statuses \cup {None},
               Begin(r, [Idle EXCEPT !.op = "list", !.row = row, !.status = status])
        PROVE  \E p \in ReadType : /\ Begin(r, p) /\ p.found = Nothing
                                   /\ p.op \in {"get", "history"} => p.row \in Documents
    <2>1. PICK p : p = [Idle EXCEPT !.op = "list", !.row = row, !.status = status]
      OBVIOUS
    <2>2. p \in ReadType /\ p.op = "list" /\ p.found = Nothing
      BY <2>1, IdleTyped DEF ReadType
    <2>. QED BY <1>2, <2>1, <2>2
  <1>3. ASSUME NEW status \in Statuses \cup {None},
               Begin(r, [Idle EXCEPT !.op = "expiring", !.status = status])
        PROVE  \E p \in ReadType : /\ Begin(r, p) /\ p.found = Nothing
                                   /\ p.op \in {"get", "history"} => p.row \in Documents
    <2>1. PICK p : p = [Idle EXCEPT !.op = "expiring", !.status = status]
      OBVIOUS
    <2>2. p \in ReadType /\ p.op = "expiring" /\ p.found = Nothing
      BY <2>1, IdleTyped DEF ReadType
    <2>. QED BY <1>3, <2>1, <2>2
  <1>. QED BY <1>1, <1>2, <1>3 DEF Ask

LEMMA BeginStep ==
  ASSUME IInv, NEW r \in Reads, Ask(r)
  PROVE  IInv'
  <1>1. PICK p \in ReadType : /\ Begin(r, p) /\ p.found = Nothing
                              /\ p.op \in {"get", "history"} => p.row \in Documents
    BY Asking
  <1>2. PICK q : q = [p EXCEPT !.pc = "begun"]
    OBVIOUS
  <1>3. /\ q \in ReadType /\ q.pc = "begun" /\ q.op = p.op /\ q.row = p.row
        /\ q.found = Nothing
    BY <1>1, <1>2 DEF ReadType
  <1>4. /\ read[r].pc = "idle" /\ read' = [read EXCEPT ![r] = q]
        /\ during' = [during EXCEPT ![r] = Truth] /\ hidden' = [hidden EXCEPT ![r] = Hidden]
        /\ UNCHANGED <<rows, audit>>
    BY <1>1, <1>2 DEF Begin
  <1>5. /\ during' \in [Reads -> SUBSET DtoType] /\ during'[r] = Truth
        /\ hidden' \in [Reads -> SUBSET Documents] /\ hidden'[r] = Hidden
        /\ \A s \in Reads \ {r} : during'[s] = during[s] /\ hidden'[s] = hidden[s]
    BY <1>4, TruthTyped DEF IInv, TypeOK, Hidden
  <1>6. read'[r] = q
    BY <1>4 DEF IInv, TypeOK
  <1>7. Truth' = Truth /\ Hidden' = Hidden
    BY <1>4 DEF rows, Truth, Hidden, Dto, Others!Current, Others!Active
  <1>8. AskOK(r)' /\ LedgerOK(r)'
    BY <1>1, <1>3, <1>4, <1>6 DEF IInv, ReadOK, AskOK, LedgerOK
  <1>9. BegunOK(r)' /\ HiddenOK(r)' /\ FoundOK(r)' /\ LoadedOK(r)'
    BY <1>3, <1>5, <1>6, <1>7 DEF BegunOK, HiddenOK, FoundOK, LoadedOK
  <1>. QED BY <1>3, <1>4, <1>5, <1>8, <1>9, ReadStep DEF IInv, TypeOK, ReadOK

LEMMA FailStep ==
  ASSUME IInv, NEW r \in Reads, Fail(r)
  PROVE  IInv'
  <1>1. PICK q \in ReadType : q.pc = "idle" /\ read' = [read EXCEPT ![r] = q]
    BY IdleTyped DEF Fail
  <1>2. /\ during' = [during EXCEPT ![r] = {}] /\ hidden' = [hidden EXCEPT ![r] = {}]
        /\ UNCHANGED <<rows, audit>>
    BY DEF Fail
  <1>3. /\ during' \in [Reads -> SUBSET DtoType] /\ hidden' \in [Reads -> SUBSET Documents]
        /\ hidden'[r] = {} /\ read'[r] = q
        /\ \A s \in Reads \ {r} : during'[s] = during[s] /\ hidden'[s] = hidden[s]
    BY <1>1, <1>2 DEF IInv, TypeOK
  <1>4. AskOK(r)' /\ BegunOK(r)' /\ HiddenOK(r)' /\ FoundOK(r)' /\ LoadedOK(r)'
    BY <1>1, <1>3 DEF AskOK, BegunOK, HiddenOK, FoundOK, LoadedOK
  <1>5. LedgerOK(r)'
    <2>1. \A e \in audit : e.read # r
      BY DEF Fail, IInv, ReadOK, LedgerOK
    <2>. QED BY <1>2, <2>1 DEF LedgerOK
  <1>. QED BY <1>1, <1>2, <1>3, <1>4, <1>5, ReadStep DEF IInv, TypeOK, ReadOK

(* What is found, by one statement: active documents, none of them hidden  *)
(* when the read began.                                                    *)
LEMMA FindStep ==
  ASSUME IInv, NEW r \in Reads, UNCHANGED <<rows, audit, during, hidden>>,
         read[r].pc \in {"begun", "checked"},
         NEW found \in [Documents -> 0..MaxVersions],
         read' = [read EXCEPT ![r].pc = "found", ![r].found = found],
         read[r].op \in {"get", "history"} => found[read[r].row] # 0,
         \A d \in Documents : found[d] # 0 =>
           /\ found[d] = Len(history[d]) /\ Others!Active(d) /\ d \notin hidden[r]
           /\ read[r].op = "expiring" => <<d, found[d]>> \in Expiring
  PROVE  IInv'
  <1>1. read[r] \in ReadType
    BY DEF IInv, TypeOK
  <1>2. PICK q : /\ q = [read[r] EXCEPT !.pc = "found", !.found = found]
                 /\ read' = [read EXCEPT ![r] = q]
    OBVIOUS
  <1>3. q \in ReadType
    BY <1>1, <1>2 DEF ReadType
  <1>4. q.pc = "found" /\ q.op = read[r].op /\ q.row = read[r].row /\ q.found = found
    BY <1>1, <1>2 DEF ReadType
  <1>5. /\ read'[r] = q /\ during' = during /\ hidden' = hidden /\ audit' = audit
        /\ history' = history /\ Truth' = Truth /\ Hidden' = Hidden
        /\ \A d, n : IncludedVersion(d, n)' = IncludedVersion(d, n)
    BY <1>2, QuietRows
  <1>6. Truth \subseteq during[r]
    BY DEF IInv, ReadOK, BegunOK
  <1>7. FoundOK(r)'
    <2>1. ASSUME NEW d \in Documents, found[d] # 0
          PROVE  /\ found[d] <= Len(history[d])
                 /\ IncludedVersion(d, found[d])' \in during[r]
      <3>1. PICK n \in Nat : n = found[d] /\ n = Len(history[d])
        <4>1. found[d] \in 0..MaxVersions /\ 0..MaxVersions \subseteq Nat
          BY MaxVersionsAssumption
        <4>. QED BY <4>1, <2>1
      <3>2. IncludedVersion(d, n) \in Truth
        BY <2>1, <3>1, CurrentExists DEF IInv
      <3>. QED BY <3>1, <3>2, <1>5, <1>6 DEF IncludedVersion
    <2>. QED BY <2>1, <1>4, <1>5 DEF FoundOK
  <1>8. AskOK(r)' /\ LedgerOK(r)'
    BY <1>4, <1>5 DEF IInv, ReadOK, AskOK, LedgerOK
  <1>9. BegunOK(r)' /\ HiddenOK(r)' /\ LoadedOK(r)'
    BY <1>4, <1>5, <1>6 DEF IInv, ReadOK, BegunOK, HiddenOK, LoadedOK
  <1>. QED BY <1>2, <1>3, <1>7, <1>8, <1>9, QuietStep DEF ReadOK

(* What a query finds that asks for the candidate too was not hidden.      *)
LEMMA VisibleIsNotHidden ==
  ASSUME IInv, NEW r \in Reads, NEW d \in Documents, Others!Visible(d)
  PROVE  Others!Active(d) /\ d \notin hidden[r]
  BY DEF IInv, ReadOK, HiddenOK, Hidden, Others!Visible, Others!Active

LEMMA FindDocumentStep ==
  ASSUME IInv, NEW r \in Reads, FindDocument(r)
  PROVE  IInv'
  <1>1. /\ read[r] \in ReadType /\ read[r].pc = "begun" /\ read[r].op \in {"get", "history"}
        /\ UNCHANGED <<rows, audit, during, hidden>>
    BY DEF FindDocument, Running, IInv, TypeOK
  <1>2. PICK d \in Documents : d = read[r].row
    BY <1>1 DEF IInv, ReadOK, AskOK
  <1>3. CASE Others!Visible(d)
    <2>1. PICK found : found = [Nothing EXCEPT ![d] = Len(history[d])]
      OBVIOUS
    <2>2. Others!Active(d) /\ d \notin hidden[r] /\ Len(history[d]) \in 1..MaxVersions
      BY <1>3, VisibleIsNotHidden, CurrentExists DEF IInv
    <2>3. /\ found \in [Documents -> 0..MaxVersions]
          /\ \A e \in Documents : found[e] = IF e = d THEN Len(history[d]) ELSE 0
      BY <2>1, <2>2, MaxVersionsAssumption DEF Nothing
    <2>4. read[r].found = Nothing
      BY <1>1 DEF IInv, ReadOK, BegunOK
    <2>5. read' = [read EXCEPT ![r].pc = "found", ![r].found = found]
      BY <1>1, <1>2, <1>3, <2>1, <2>4 DEF FindDocument, IInv, TypeOK, ReadType
    <2>6. /\ found[read[r].row] # 0 /\ read[r].op # "expiring"
          /\ \A e \in Documents : found[e] # 0 => e = d /\ found[e] = Len(history[e])
      BY <1>1, <1>2, <2>2, <2>3
    <2>. QED BY <1>1, <2>2, <2>3, <2>5, <2>6, FindStep
  <1>4. CASE ~Others!Visible(d)
    BY <1>1, <1>2, <1>4, EndsStep DEF FindDocument
  <1>. QED BY <1>3, <1>4

(* The candidate that a list asks for: if it is active, it was when the    *)
(* read began, and of its documents the removed ones alone were hidden.    *)
LEMMA RequireCandidateStep ==
  ASSUME IInv, NEW r \in Reads, RequireCandidate(r)
  PROVE  IInv'
  <1>1. /\ read[r] \in ReadType /\ read[r].pc = "begun" /\ read[r].op = "list"
        /\ UNCHANGED <<rows, audit, during, hidden>>
    BY DEF RequireCandidate, Running, IInv, TypeOK
  <1>2. CASE read[r].row \in gone
    BY <1>1, <1>2, EndsStep DEF RequireCandidate
  <1>3. CASE read[r].row \notin gone
    <2>1. PICK q : q = [read[r] EXCEPT !.pc = "checked"] /\ read' = [read EXCEPT ![r] = q]
      BY <1>1, <1>3 DEF RequireCandidate, Goto
    <2>2. /\ q \in ReadType /\ q.pc = "checked" /\ q.op = "list" /\ q.row = read[r].row
          /\ q.found = read[r].found
      BY <1>1, <2>1 DEF ReadType
    <2>3. /\ read'[r] = q /\ during' = during /\ hidden' = hidden /\ audit' = audit
          /\ removed' = removed /\ Truth' = Truth /\ Hidden' = Hidden
      BY <1>1, <2>1, QuietRows
    <2>4. \A d \in hidden[r] : CandidateOf[d] = read[r].row => d \in removed
      BY <1>3 DEF IInv, ReadOK, HiddenOK, Hidden
    <2>5. AskOK(r)' /\ LedgerOK(r)'
      BY <1>1, <2>2, <2>3 DEF IInv, ReadOK, AskOK, LedgerOK
    <2>6. BegunOK(r)' /\ HiddenOK(r)' /\ FoundOK(r)' /\ LoadedOK(r)'
      BY <1>1, <2>2, <2>3, <2>4
         DEF IInv, ReadOK, BegunOK, HiddenOK, FoundOK, LoadedOK
    <2>. QED BY <1>1, <2>1, <2>2, <2>5, <2>6, QuietStep DEF ReadOK
  <1>. QED BY <1>2, <1>3

(* A page of documents that are active and not hidden. *)
LEMMA FindPageStep ==
  ASSUME IInv, NEW r \in Reads, NEW matching, Find(r, matching),
         read[r].pc \in {"begun", "checked"}, read[r].op \in {"list", "expiring"},
         \A d \in Documents : d \in matching =>
           /\ Others!Active(d) /\ d \notin hidden[r]
           /\ read[r].op = "expiring" => <<d, Len(history[d])>> \in Expiring
  PROVE  IInv'
  <1>1. PICK found : found = [d \in Documents |-> IF d \in matching
                                                  THEN Len(history[d]) ELSE 0]
    OBVIOUS
  <1>2. read' = [read EXCEPT ![r].pc = "found", ![r].found = found]
    BY <1>1 DEF Find
  <1>3. ASSUME NEW d \in Documents PROVE found[d] \in 0..MaxVersions
    <2>1. CASE d \in matching
      <3>1. Len(history[d]) \in 1..MaxVersions
        BY <2>1, CurrentExists DEF IInv
      <3>. QED BY <2>1, <3>1, <1>1, MaxVersionsAssumption
    <2>2. CASE d \notin matching
      BY <2>2, <1>1, MaxVersionsAssumption
    <2>. QED BY <2>1, <2>2
  <1>4. found \in [Documents -> 0..MaxVersions]
    BY <1>1, <1>3
  <1>5. \A d \in Documents : found[d] # 0 =>
           /\ found[d] = Len(history[d]) /\ Others!Active(d) /\ d \notin hidden[r]
           /\ read[r].op = "expiring" => <<d, found[d]>> \in Expiring
    BY <1>1
  <1>. QED BY <1>2, <1>4, <1>5, FindStep DEF Find

LEMMA FindCandidateDocumentsStep ==
  ASSUME IInv, NEW r \in Reads, FindCandidateDocuments(r)
  PROVE  IInv'
  <1>1. PICK matching : /\ Find(r, matching)
                        /\ matching = {d \in Documents :
                                         OfCandidate(d, read[r].row, read[r].status)}
    BY DEF FindCandidateDocuments
  <1>2. read[r].pc = "checked" /\ read[r].op = "list"
    BY DEF FindCandidateDocuments, Running
  <1>3. ASSUME NEW d \in Documents, d \in matching
        PROVE  Others!Active(d) /\ d \notin hidden[r]
    <2>1. Others!Active(d) /\ CandidateOf[d] = read[r].row
      BY <1>1, <1>3 DEF OfCandidate
    <2>. QED BY <2>1, <1>2 DEF IInv, ReadOK, HiddenOK, Others!Active
  <1>. QED BY <1>1, <1>2, <1>3, FindPageStep

LEMMA FindExpiringDocumentsStep ==
  ASSUME IInv, NEW r \in Reads, FindExpiringDocuments(r)
  PROVE  IInv'
  <1>1. PICK matching : /\ Find(r, matching)
                        /\ matching = {d \in Documents : Expires(d, read[r].status)}
    BY DEF FindExpiringDocuments
  <1>2. read[r].pc = "begun" /\ read[r].op = "expiring"
    BY DEF FindExpiringDocuments, Running
  <1>3. ASSUME NEW d \in Documents, d \in matching
        PROVE  /\ Others!Active(d) /\ d \notin hidden[r]
               /\ <<d, Len(history[d])>> \in Expiring
    BY <1>1, <1>3, VisibleIsNotHidden DEF Expires
  <1>. QED BY <1>1, <1>2, <1>3, FindPageStep

LEMMA LoadStep ==
  ASSUME IInv, NEW r \in Reads, NEW items \in SUBSET DtoType,
         read[r].pc = "found", Loaded(r, items),
         read[r].op # "history" => items \subseteq during[r],
         read[r].op = "history" => Gapless(items, read[r].found[read[r].row]),
         \A item \in items : item.document \notin hidden[r],
         read[r].op = "expiring" =>
           \A item \in items : <<item.document, item.current>> \in Expiring
  PROVE  IInv'
  <1>1. read[r] \in ReadType /\ UNCHANGED <<rows, audit, during, hidden>>
    BY DEF IInv, TypeOK, Loaded
  <1>2. PICK q : /\ q = [read[r] EXCEPT !.pc = "loaded", !.items = items]
                 /\ read' = [read EXCEPT ![r] = q]
    BY DEF Loaded
  <1>3. q \in ReadType
    BY <1>1, <1>2 DEF ReadType
  <1>4. /\ q.pc = "loaded" /\ q.op = read[r].op /\ q.row = read[r].row
        /\ q.items = items /\ q.found = read[r].found
    BY <1>1, <1>2 DEF ReadType
  <1>5. /\ read'[r] = q /\ during' = during /\ hidden' = hidden /\ audit' = audit
        /\ Hidden' = Hidden
    BY <1>1, <1>2, QuietRows
  <1>6. AskOK(r)' /\ LedgerOK(r)'
    BY <1>4, <1>5 DEF IInv, ReadOK, AskOK, LedgerOK
  <1>7. BegunOK(r)' /\ HiddenOK(r)' /\ FoundOK(r)' /\ LoadedOK(r)'
    BY <1>4, <1>5 DEF IInv, ReadOK, BegunOK, HiddenOK, FoundOK, LoadedOK
  <1>. QED BY <1>1, <1>2, <1>3, <1>6, <1>7, QuietStep DEF ReadOK

LEMMA LoadCurrentVersionsStep ==
  ASSUME IInv, NEW r \in Reads, LoadCurrentVersions(r)
  PROVE  IInv'
  <1>1. read[r].pc = "found" /\ read[r].op \in {"get", "list", "expiring"}
    BY DEF LoadCurrentVersions, Running
  <1>2. PICK items : /\ items = {IncludedVersion(d, read[r].found[d]) :
                                   d \in {e \in Documents : read[r].found[e] # 0}}
                     /\ Loaded(r, items)
    BY DEF LoadCurrentVersions
  <1>3. ASSUME NEW item \in items
        PROVE  /\ item \in during[r] /\ item.document \notin hidden[r]
               /\ read[r].op = "expiring" => <<item.document, item.current>> \in Expiring
    <2>1. PICK d \in Documents : read[r].found[d] # 0 /\ item = IncludedVersion(d, read[r].found[d])
      BY <1>2, <1>3
    <2>2. item.document = d /\ item.current = read[r].found[d]
      BY <2>1 DEF IncludedVersion
    <2>. QED BY <2>1, <2>2, <1>1 DEF IInv, ReadOK, FoundOK
  <1>4. items \subseteq during[r]
    BY <1>3
  <1>5. items \in SUBSET DtoType
    BY <1>4 DEF IInv, TypeOK
  <1>. QED BY <1>1, <1>2, <1>3, <1>4, <1>5, LoadStep

LEMMA LoadVersionsStep ==
  ASSUME IInv, NEW r \in Reads, LoadVersions(r)
  PROVE  IInv'
  <1>1. read[r] \in ReadType /\ read[r].pc = "found" /\ read[r].op = "history"
    BY DEF LoadVersions, Running, IInv, TypeOK
  <1>2. PICK d \in Documents : d = read[r].row
    BY <1>1 DEF IInv, ReadOK, AskOK
  <1>3. PICK n \in Nat : n = Len(history[d]) /\ n <= MaxVersions /\ DOMAIN history[d] = 1..n
    BY DEF IInv, TypeOK, HistoryOK
  <1>4. read[r].found[d] \in 1..n /\ d \notin hidden[r]
    <2>1. PICK m \in 0..MaxVersions : m = read[r].found[d]
      BY <1>1 DEF ReadType
    <2>2. m # 0 /\ m <= Len(history[d]) /\ d \notin hidden[r]
      BY <1>1, <1>2, <2>1 DEF IInv, ReadOK, FoundOK
    <2>. QED BY <1>3, <2>1, <2>2, MaxVersionsAssumption
  <1>5. PICK items : /\ items = {IncludedVersion(d, i) : i \in 1..n}
                     /\ Loaded(r, items)
    BY <1>2, <1>3, <1>4 DEF LoadVersions, IncludedVersion
  <1>6. items \in SUBSET DtoType
    BY <1>3, <1>5, VersionTyped DEF IInv
  <1>7. \A i : IncludedVersion(d, i).current = i /\ IncludedVersion(d, i).document = d
    BY DEF IncludedVersion
  <1>8. Gapless(items, read[r].found[d])
    <2>1. {item.current : item \in items} = 1..n
      BY <1>5, <1>7
    <2>2. n \in 1..MaxVersions
      BY <1>3, <1>4, MaxVersionsAssumption
    <2>. QED BY <2>1, <2>2, <1>4 DEF Gapless
  <1>9. \A item \in items : item.document \notin hidden[r]
    BY <1>4, <1>5, <1>7
  <1>. QED BY <1>1, <1>2, <1>5, <1>6, <1>8, <1>9, LoadStep

(* A read that has loaded its items keeps them to the end. *)
LEMMA GoesOnStep ==
  ASSUME IInv, NEW r \in Reads, NEW pc \in {"appended", "committed", "answered"},
         read[r].pc \in {"loaded", "appended", "committed"}, Goto(r, pc),
         UNCHANGED <<rows, during, hidden>>,
         \A e \in audit' : e \in audit \/ e = [read |-> r, items |-> read[r].items],
         audit' = audit \/ pc = "committed",
         read[r].pc = "committed" => pc = "answered"
  PROVE  IInv'
  <1>1. read[r] \in ReadType
    BY DEF IInv, TypeOK
  <1>2. PICK q : q = [read[r] EXCEPT !.pc = pc] /\ read' = [read EXCEPT ![r] = q]
    BY DEF Goto
  <1>3. /\ q \in ReadType /\ q.pc = pc /\ q.op = read[r].op /\ q.row = read[r].row
        /\ q.items = read[r].items /\ q.found = read[r].found
    BY <1>1, <1>2 DEF ReadType
  <1>4. read'[r] = q /\ during' = during /\ hidden' = hidden
    BY <1>2 DEF IInv, TypeOK
  <1>5. Hidden' = Hidden /\ audit' \subseteq [read : Reads, items : SUBSET DtoType]
    BY <1>1 DEF IInv, TypeOK, ReadType, rows, Hidden
  <1>6. AskOK(r)' /\ BegunOK(r)' /\ HiddenOK(r)' /\ FoundOK(r)'
    BY <1>3, <1>4, <1>5 DEF IInv, ReadOK, AskOK, BegunOK, HiddenOK, FoundOK
  <1>7. LoadedOK(r)'
    BY <1>3, <1>4 DEF IInv, ReadOK, LoadedOK
  <1>8. LedgerOK(r)'
    <2>1. SUFFICES ASSUME NEW e \in audit', e.read = r
                   PROVE  pc \in {"committed", "answered"} /\ e.items = q.items
      BY <1>3, <1>4 DEF LedgerOK
    <2>2. CASE e \in audit
      BY <2>1, <2>2, <1>3 DEF IInv, ReadOK, LedgerOK
    <2>3. CASE e \notin audit
      BY <2>1, <2>3, <1>3
    <2>. QED BY <2>2, <2>3
  <1>9. \A e \in audit' : e.read = r \/ e \in audit
    OBVIOUS
  <1>10. during' \in [Reads -> SUBSET DtoType] /\ hidden' \in [Reads -> SUBSET Documents]
    BY DEF IInv, TypeOK
  <1>11. ReadOK(r)'
    BY <1>6, <1>7, <1>8 DEF ReadOK
  <1>. QED BY <1>2, <1>3, <1>4, <1>5, <1>9, <1>10, <1>11, ReadStep

LEMMA AppendAuditStep ==
  ASSUME IInv, NEW r \in Reads, AppendAudit(r)
  PROVE  IInv'
  BY GoesOnStep DEF AppendAudit

LEMMA CommitStep ==
  ASSUME IInv, NEW r \in Reads, Commit(r)
  PROVE  IInv'
  <1>1. \A e \in audit' : e \in audit \/ e = [read |-> r, items |-> read[r].items]
    BY DEF Commit
  <1>. QED BY <1>1, GoesOnStep DEF Commit

LEMMA AnswerStep ==
  ASSUME IInv, NEW r \in Reads, Answer(r)
  PROVE  IInv'
  BY GoesOnStep DEF Answer

LEMMA StutterStep ==
  ASSUME IInv, UNCHANGED vars
  PROVE  IInv'
  <1>1. /\ history' = history /\ removed' = removed /\ gone' = gone /\ admitted' = admitted
        /\ read' = read /\ audit' = audit /\ during' = during /\ hidden' = hidden
    BY DEF vars, rows
  <1>2. TypeOK' /\ HistoryOK'
    BY <1>1 DEF IInv, TypeOK, HistoryOK
  <1>3. /\ Truth' = Truth /\ Hidden' = Hidden
        /\ \A d, n : IncludedVersion(d, n)' = IncludedVersion(d, n)
    BY <1>1 DEF Truth, Hidden, Dto, Others!Current, Others!Active, IncludedVersion
  <1>4. ASSUME NEW r \in Reads PROVE ReadOK(r)'
    BY <1>1, <1>3 DEF IInv, ReadOK, AskOK, BegunOK, HiddenOK, FoundOK, LoadedOK, LedgerOK
  <1>. QED BY <1>2, <1>4 DEF IInv

LEMMA StepInv == IInv /\ [Next]_vars => IInv'
  <1>. SUFFICES ASSUME IInv, [Next]_vars PROVE IInv'
    OBVIOUS
  <1>1. CASE Mutate
    BY <1>1, MutateStep
  <1>2. ASSUME NEW r \in Reads, Ask(r) \/ Fail(r)
        PROVE  IInv'
    BY <1>2, BeginStep, FailStep
  <1>3. ASSUME NEW r \in Reads, Step(r)
        PROVE  IInv'
    BY <1>3, FindDocumentStep, RequireCandidateStep, FindCandidateDocumentsStep,
       FindExpiringDocumentsStep, LoadCurrentVersionsStep, LoadVersionsStep, AppendAuditStep,
       CommitStep, AnswerStep DEF Step
  <1>4. CASE UNCHANGED vars
    BY <1>4, StutterStep
  <1>. QED BY <1>1, <1>2, <1>3, <1>4 DEF Next

LEMMA Invariance == Spec => []IInv
  BY InitInv, StepInv, PTL DEF Spec

-----------------------------------------------------------------------------

(* For any number of reads, candidates, documents and versions: the        *)
(* variables have their types, and what getComplianceDocument and the      *)
(* lists answer, and have in the ledger, was true of each document at one  *)
(* moment, though it is read by two statements between which it may be     *)
(* corrected or approved, also beneath a candidate removed by then.        *)
THEOREM OfOneMoment == Spec => []ReadsInv
  <1>1. IInv => DocumentIsOfOneMoment
    <2>. SUFFICES ASSUME IInv PROVE DocumentIsOfOneMoment
      OBVIOUS
    <2>1. ASSUME NEW r \in Reads, Answered(r, {"get", "list", "expiring"})
          PROVE  read[r].items \subseteq during[r]
      BY <2>1 DEF IInv, ReadOK, LoadedOK, Answered, Running
    <2>2. ASSUME NEW e \in audit, read[e.read].op # "history"
          PROVE  e.items \subseteq during[e.read]
      <3>1. e.read \in Reads
        BY DEF IInv, TypeOK
      <3>2. /\ read[e.read].pc \in {"committed", "answered"}
            /\ e.items = read[e.read].items
        BY <3>1 DEF IInv, ReadOK, LedgerOK
      <3>. QED BY <2>2, <3>1, <3>2 DEF IInv, ReadOK, LoadedOK
    <2>. QED BY <2>1, <2>2 DEF DocumentIsOfOneMoment
  <1>2. IInv => ReadsInv
    BY <1>1 DEF IInv, ReadsInv
  <1>. QED BY <1>2, Invariance, PTL

(* Of a document removed before a read began, or whose candidate was, the  *)
(* read answers nothing and leaves nothing in the ledger, though a list    *)
(* looks at the candidate and at the documents by two statements.          *)
THEOREM RemovedAreHidden == Spec => []RemovedStaysHidden
  <1>1. IInv => RemovedStaysHidden
    <2>. SUFFICES ASSUME IInv PROVE RemovedStaysHidden
      OBVIOUS
    <2>1. ASSUME NEW r \in Reads, read[r].pc \in {"committed", "answered"}
          PROVE  \A item \in read[r].items : item.document \notin hidden[r]
      BY <2>1 DEF IInv, ReadOK, LoadedOK
    <2>2. ASSUME NEW e \in audit
          PROVE  \A item \in e.items : item.document \notin hidden[e.read]
      <3>1. e.read \in Reads
        BY DEF IInv, TypeOK
      <3>2. /\ read[e.read].pc \in {"committed", "answered"}
            /\ e.items = read[e.read].items
        BY <3>1 DEF IInv, ReadOK, LedgerOK
      <3>. QED BY <2>1, <3>1, <3>2
    <2>. QED BY <2>1, <2>2 DEF RemovedStaysHidden
  <1>. QED BY <1>1, Invariance, PTL

(* listComplianceDocumentVersions never fails for a document it has found, *)
(* and answers with the versions from the first on, without a gap, up to   *)
(* the one it marks as current or beyond.                                  *)
THEOREM CompleteHistories == Spec => []HistoryHoldsItsCurrent
  <1>1. ASSUME IInv, NEW r \in Reads, Answered(r, {"history"})
        PROVE  LET d == read[r].row
                   numbers == {item.current : item \in read[r].items}
               IN  read[r].found[d] \in numbers /\ numbers = 1..Max(numbers)
    <2>1. Gapless(read[r].items, read[r].found[read[r].row])
      BY <1>1 DEF IInv, ReadOK, LoadedOK, Answered, Running
    <2>2. PICK n \in 1..MaxVersions : /\ {item.current : item \in read[r].items} = 1..n
                                      /\ read[r].found[read[r].row] \in 1..n
      BY <2>1 DEF Gapless
    <2>3. Max(1..n) = n
      BY MaxOfNumbers, MaxVersionsAssumption
    <2>. QED BY <2>2, <2>3
  <1>2. IInv => HistoryHoldsItsCurrent
    BY <1>1 DEF IInv, ReadOK, AskOK, HistoryHoldsItsCurrent
  <1>. QED BY <1>2, Invariance, PTL

(* listExpiringComplianceDocuments answers with no document for an older   *)
(* version of it that expires, whatever is corrected while it reads.       *)
THEOREM ExpiringAreCurrent == Spec => []ExpiringByCurrentVersion
  <1>1. IInv => ExpiringByCurrentVersion
    BY DEF IInv, ReadOK, ExpiringByCurrentVersion, LoadedOK, Answered, Running
  <1>. QED BY <1>1, Invariance, PTL

-----------------------------------------------------------------------------

(* The page of a document.  DocumentView is taken as an instance, its rows *)
(* being named as those of DocumentReads are.                              *)

CONSTANTS Document, Candidate, MaxRefreshes  \* as in DocumentView

VARIABLES view, write, refresh               \* as in DocumentView

Page == INSTANCE DocumentView

(* What a DTO says is true of the rows.  An approval is never taken back,  *)
(* so that it then stays true.                                             *)
IsTrue(dto) ==
  /\ dto.version \in 1..Page!Versions
  /\ dto.status = "APPROVED" => history[Document][dto.version].status = "APPROVED"

(* The page shows what is true.  Until it is complete it has no control,   *)
(* and nothing has been asked of the API.                                  *)
ShownOK ==
  /\ view.pc \in {"opened", "shown"} => IsTrue(view.document)
  /\ view.pc \in {"opening", "opened"} =>
       ~view.correcting /\ \A c \in Page!Controls : write[c].state = "none"

(* An approval was asked for beside a draft, which the page still shows,   *)
(* and what came of it is not behind the page.                             *)
ApprovalOK ==
  view.pc = "shown" /\ write["approve"].state # "none" =>
    /\ view.document.status = "DRAFT"
    /\ write["approve"].state = "done" =>
         /\ IsTrue(write["approve"].result)
         /\ write["approve"].result.status = "APPROVED"
         /\ write["approve"].result.version >= view.document.version

(* A correction was asked for beside an approved version, and what came of *)
(* it is ahead of the page.                                                *)
CorrectionOK ==
  view.pc = "shown" /\ write["correct"].state # "none" =>
    /\ view.document.status = "APPROVED"
    /\ write["correct"].state = "done" =>
         /\ IsTrue(write["correct"].result)
         /\ write["correct"].result.version > view.document.version

PageInv == /\ Page!TypeOK
           /\ Page!Versions <= MaxVersions
           /\ ShownOK /\ ApprovalOK /\ CorrectionOK

(* Names for the types, which the steps below change field by field. *)
PageRows == [{Document} -> Seq(VersionType)]

Views == [pc : {"opening", "opened", "shown", "gone"}, document : Page!Dto,
          listed : 0..MaxVersions, loading : BOOLEAN, error : BOOLEAN,
          correcting : BOOLEAN, submitting : BOOLEAN]

Writes == [state : {"none", "pending", "admitted", "done"}, result : Page!Dto]

Refreshes == [state : {"none", "asked", "read"}, listed : 0..MaxVersions]

LEMMA PageTypes ==
  Page!TypeOK <=>
    /\ history \in PageRows
    /\ removed \subseteq {Document} /\ gone \subseteq {Candidate}
    /\ admitted \subseteq {Document}
    /\ view \in Views
    /\ view.correcting => view.document.status = "APPROVED"
    /\ write \in [Page!Controls -> Writes]
    /\ refresh \in [Page!Slots -> Refreshes]
  BY DEF Page!TypeOK, PageRows, VersionType, Statuses, Views, Writes, Refreshes

-----------------------------------------------------------------------------

(* What is true of a version stays true of it. *)
TruthKept ==
  /\ history' \in PageRows /\ removed' \subseteq {Document}
  /\ gone' \subseteq {Candidate} /\ admitted' \subseteq {Document}
  /\ Page!Versions <= Page!Versions'
  /\ \A n \in 1..Page!Versions : history[Document][n].status = "APPROVED" =>
                             history'[Document][n].status = "APPROVED"

(* A draft is a new version; an approval changes the current one only.     *)
LEMMA DraftKeeps ==
  ASSUME Page!TypeOK, NEW by \in {"create", "addVersion", "correct"},
         Page!Mutations!Draft(Document, by)
  PROVE  TruthKept /\ Page!Versions' = Page!Versions + 1
  <1>1. history[Document] \in Seq(VersionType)
    BY PageTypes DEF PageRows
  <1>2. PICK v \in VersionType : v = [status |-> "DRAFT", by |-> by]
    BY DEF VersionType, Statuses
  <1>3. /\ history' = [history EXCEPT ![Document] = Append(@, v)] /\ removed' = removed
        /\ gone' = gone /\ admitted' \subseteq {Document}
    BY <1>2, PageTypes DEF Page!Mutations!Draft, Page!Mutations!Commit
  <1>4. history'[Document] = Append(history[Document], v) /\ history' \in PageRows
    BY <1>1, <1>3, PageTypes DEF PageRows
  <1>. QED BY <1>1, <1>3, <1>4, PageTypes DEF TruthKept, Page!Versions

LEMMA ApproveKeeps ==
  ASSUME Page!TypeOK, Page!Mutations!Approve(Document)
  PROVE  /\ TruthKept /\ Page!Versions' = Page!Versions /\ Page!Versions # 0
         /\ history'[Document][Page!Versions].status = "APPROVED"
  <1>1. history[Document] \in Seq(VersionType)
    BY PageTypes DEF PageRows
  <1>2. history[Document] # <<>> /\ removed' = removed
        /\ history' = [history EXCEPT ![Document][Len(history[Document])].status = "APPROVED"]
        /\ gone' = gone /\ admitted' \subseteq {Document}
    BY PageTypes DEF Page!Mutations!Approve, Page!Mutations!Active, Page!Mutations!Commit
  <1>3. PICK n \in 1..Len(history[Document]) : n = Len(history[Document])
    BY <1>1, <1>2
  <1>4. PICK v \in VersionType : v = history[Document][n]
    BY <1>1, <1>3
  <1>5. PICK a : a = [v EXCEPT !.status = "APPROVED"]
    OBVIOUS
  <1>6. a \in VersionType /\ a.status = "APPROVED"
    BY <1>5 DEF VersionType, Statuses
  <1>7. history'[Document] = [history[Document] EXCEPT ![n] = a]
    BY <1>2, <1>3, <1>4, <1>5, PageTypes DEF PageRows
  <1>8. /\ history'[Document] \in Seq(VersionType)
        /\ Len(history'[Document]) = Len(history[Document])
        /\ history'[Document][n] = a
        /\ \A i \in 1..Len(history[Document]) : i # n =>
             history'[Document][i] = history[Document][i]
    BY <1>1, <1>3, <1>6, <1>7
  <1>9. history' \in PageRows
    BY <1>2, <1>8, PageTypes DEF PageRows
  <1>. QED BY <1>1, <1>2, <1>3, <1>6, <1>8, <1>9, PageTypes DEF TruthKept, Page!Versions

LEMMA MutateKeeps ==
  ASSUME Page!TypeOK, Page!Mutate
  PROVE  TruthKept
  <1>1. CASE \E by \in {"create", "addVersion", "correct"} : Page!Mutations!Draft(Document, by)
    BY <1>1, DraftKeeps
  <1>2. CASE Page!Mutations!Approve(Document)
    BY <1>2, ApproveKeeps
  <1>3. ASSUME history' = history, removed' \subseteq {Document},
               gone' \subseteq {Candidate}, admitted' \subseteq {Document}
        PROVE  TruthKept
    <2>1. history[Document] \in Seq(VersionType)
      BY PageTypes DEF PageRows
    <2>. QED BY <1>3, <2>1, PageTypes DEF TruthKept, Page!Versions
  <1>4. CASE Page!Mutations!Remove(Document)
    BY <1>3, <1>4, PageTypes DEF Page!Mutations!Remove, Page!Mutations!Commit
  <1>5. CASE Page!Mutations!Admit(Document) \/ Page!Mutations!GiveUp(Document)
    BY <1>3, <1>5, PageTypes DEF Page!Mutations!Admit, Page!Mutations!GiveUp
  <1>6. CASE Page!Mutations!RemoveCandidate(Candidate)
    BY <1>3, <1>6, PageTypes DEF Page!Mutations!RemoveCandidate
  <1>. QED BY <1>1, <1>2, <1>4, <1>5, <1>6
           DEF Page!Mutate, Page!Mutations!Mutation, Page!Mutations!Create,
               Page!Mutations!AddVersion, Page!Mutations!Correct

LEMMA TrueKept ==
  ASSUME Page!TypeOK, TruthKept
  PROVE  \A dto : IsTrue(dto) => IsTrue(dto)'
  <1>1. Page!Versions \in Nat /\ Page!Versions' \in Nat
    BY PageTypes DEF PageRows, TruthKept, Page!Versions
  <1>. QED BY <1>1 DEF IsTrue, TruthKept

-----------------------------------------------------------------------------

(* A step of the page alone. *)
LEMMA PageAloneStep ==
  ASSUME PageInv, UNCHANGED Page!rows, NEW v \in Views, view' = v,
         v.correcting => v.document.status = "APPROVED",
         write' \in [Page!Controls -> Writes], refresh' \in [Page!Slots -> Refreshes],
         (ShownOK /\ ApprovalOK /\ CorrectionOK)'
  PROVE  PageInv'
  <1>1. Page!TypeOK'
    BY DEF PageInv, Page!rows, Page!TypeOK, Views, Writes, Refreshes
  <1>2. (Page!Versions <= MaxVersions)'
    BY DEF PageInv, Page!rows, Page!Versions
  <1>. QED BY <1>1, <1>2 DEF PageInv

LEMMA PageInitInv == Page!Init => PageInv
  <1>. SUFFICES ASSUME Page!Init PROVE PageInv
    OBVIOUS
  <1>1. Page!NoDto \in Page!Dto /\ 0 \in 0..MaxVersions
    BY MaxVersionsAssumption DEF Page!NoDto, Page!Dto
  <1>2. history = [d \in {Document} |-> <<>>] /\ removed = {} /\ gone = {} /\ admitted = {}
    BY DEF Page!Init, Page!Mutations!Init
  <1>3. history \in PageRows /\ Page!Versions = 0
    BY <1>2 DEF PageRows, Page!Versions
  <1>4. view \in Views /\ view.pc = "opening" /\ ~view.correcting
    BY <1>1 DEF Page!Init, Page!Opening, Views
  <1>5. /\ write \in [Page!Controls -> Writes]
        /\ \A c \in Page!Controls : write[c].state = "none"
        /\ refresh \in [Page!Slots -> Refreshes]
    BY <1>1 DEF Page!Init, Page!Unasked, Page!NoRefresh, Writes, Refreshes
  <1>6. Page!TypeOK
    BY <1>2, <1>3, <1>4, <1>5, PageTypes
  <1>. QED BY <1>3, <1>4, <1>5, <1>6, MaxVersionsAssumption
           DEF PageInv, ShownOK, ApprovalOK, CorrectionOK

(* The work of others: what the page relies on stays true. *)
LEMMA OthersStep ==
  ASSUME PageInv, Page!Mutate
  PROVE  PageInv'
  <1>1. TruthKept /\ view' = view /\ write' = write /\ refresh' = refresh
    BY MutateKeeps DEF PageInv, Page!Mutate
  <1>2. Page!TypeOK' /\ (Page!Versions <= MaxVersions)'
    BY <1>1 DEF PageInv, Page!TypeOK, TruthKept, PageRows, VersionType, Statuses,
                Page!Mutate, Page!Versions
  <1>3. \A dto : IsTrue(dto) => IsTrue(dto)'
    BY <1>1, TrueKept DEF PageInv
  <1>4. IsTrue(view.document) => IsTrue(view.document)'
    <2>1. PICK dto : dto = view.document
      OBVIOUS
    <2>. QED BY <2>1, <1>1, <1>3 DEF IsTrue
  <1>5. \A c \in Page!Controls : IsTrue(write[c].result) => IsTrue(write[c].result)'
    <2>1. SUFFICES ASSUME NEW c \in Page!Controls
                   PROVE  IsTrue(write[c].result) => IsTrue(write[c].result)'
      OBVIOUS
    <2>2. PICK dto : dto = write[c].result
      OBVIOUS
    <2>. QED BY <2>2, <1>1, <1>3 DEF IsTrue
  <1>6. ShownOK'
    BY <1>1, <1>4 DEF PageInv, ShownOK
  <1>7. ApprovalOK' /\ CorrectionOK'
    BY <1>1, <1>5 DEF PageInv, ApprovalOK, CorrectionOK, Page!Controls
  <1>. QED BY <1>2, <1>6, <1>7 DEF PageInv

(* The API carries out a write: its result is true from then on. *)
LEMMA ApiStep ==
  ASSUME PageInv, TruthKept, (Page!Versions <= MaxVersions)', view' = view, refresh' = refresh,
         NEW c \in Page!Controls, NEW w \in Writes, write[c].state = "admitted",
         write' = [write EXCEPT ![c] = w], w.state = "done", IsTrue(w.result)',
         c = "approve" => w.result.status = "APPROVED" /\ w.result.version >= Page!Versions,
         c = "correct" => w.result.version > Page!Versions
  PROVE  PageInv'
  <1>1. Page!TypeOK'
    BY DEF PageInv, Page!TypeOK, TruthKept, PageRows, VersionType, Statuses, Writes
  <1>2. write'[c] = w /\ \A b \in Page!Controls \ {c} : write'[b] = write[b]
    BY DEF PageInv, Page!TypeOK
  <1>3. \A dto : IsTrue(dto) => IsTrue(dto)'
    BY TrueKept DEF PageInv
  <1>4. PICK dto \in Page!Dto : dto = view.document
    BY PageTypes DEF PageInv, Views
  <1>5. PICK n \in Nat : n = Page!Versions
    BY PageTypes DEF PageInv, PageRows, Page!Versions
  <1>6. view.pc \in {"opened", "shown"} => IsTrue(view.document)' /\ dto.version <= n
    BY <1>3, <1>4, <1>5 DEF PageInv, ShownOK, IsTrue
  <1>7. w.result \in Page!Dto
    BY DEF Writes
  <1>8. ShownOK'
    BY <1>2, <1>6 DEF PageInv, ShownOK
  <1>9. ASSUME NEW b \in Page!Controls \ {c}
        PROVE  IsTrue(write[b].result) => IsTrue(write[b].result)'
    <2>1. PICK e : e = write[b].result
      OBVIOUS
    <2>. QED BY <2>1, <1>2, <1>3 DEF IsTrue
  <1>10. ApprovalOK'
    <2>1. CASE c = "approve"
      <3>1. view.pc = "shown" => w.result.version >= dto.version
        BY <2>1, <1>5, <1>6, <1>7 DEF Page!Dto
      <3>. QED BY <3>1, <2>1, <1>2, <1>4 DEF PageInv, ApprovalOK, IsTrue
    <2>2. CASE c # "approve"
      BY <2>2, <1>2, <1>9 DEF PageInv, ApprovalOK, Page!Controls
    <2>. QED BY <2>1, <2>2
  <1>11. CorrectionOK'
    <2>1. CASE c = "correct"
      <3>1. view.pc = "shown" => w.result.version > dto.version
        BY <2>1, <1>5, <1>6, <1>7 DEF Page!Dto
      <3>. QED BY <3>1, <2>1, <1>2, <1>4 DEF PageInv, CorrectionOK, IsTrue
    <2>2. CASE c # "correct"
      BY <2>2, <1>2, <1>9 DEF PageInv, CorrectionOK, Page!Controls
    <2>. QED BY <2>1, <2>2
  <1>. QED BY <1>1, <1>8, <1>10, <1>11 DEF PageInv

LEMMA ApiApprovesStep ==
  ASSUME PageInv, Page!ApiApproves
  PROVE  PageInv'
  <1>1. /\ TruthKept /\ Page!Versions' = Page!Versions /\ Page!Versions # 0
        /\ history'[Document][Page!Versions].status = "APPROVED"
    BY ApproveKeeps DEF PageInv, Page!ApiApproves
  <1>2. PICK n \in 1..MaxVersions : n = Page!Versions
    BY <1>1, PageTypes, MaxVersionsAssumption DEF PageInv, PageRows, Page!Versions
  <1>3. PICK w : /\ w = [state |-> "done", result |-> [version |-> n, status |-> "APPROVED"]]
                 /\ write' = [write EXCEPT !["approve"] = w]
    BY <1>2 DEF Page!ApiApproves
  <1>4. w \in Writes /\ w.state = "done" /\ w.result.version = n /\ w.result.status = "APPROVED"
    BY <1>2, <1>3, MaxVersionsAssumption DEF Writes, Page!Dto
  <1>5. IsTrue(w.result)'
    BY <1>1, <1>2, <1>4 DEF IsTrue
  <1>6. /\ view' = view /\ refresh' = refresh /\ write["approve"].state = "admitted"
        /\ (Page!Versions <= MaxVersions)' /\ "approve" \in Page!Controls
    BY <1>1 DEF PageInv, Page!ApiApproves, Page!Controls
  <1>7. w.result.version >= Page!Versions
    BY <1>2, <1>4
  <1>. QED BY <1>1, <1>3, <1>4, <1>5, <1>6, <1>7, ApiStep

LEMMA ApiCorrectsStep ==
  ASSUME PageInv, Page!ApiCorrects
  PROVE  PageInv'
  <1>1. TruthKept /\ Page!Versions' = Page!Versions + 1
    BY DraftKeeps DEF PageInv, Page!ApiCorrects, Page!Mutations!Correct
  <1>2. PICK n \in 1..MaxVersions : n = Page!Versions + 1
    BY PageTypes, MaxVersionsAssumption DEF PageInv, Page!ApiCorrects, PageRows, Page!Versions
  <1>3. PICK w : /\ w = [state |-> "done", result |-> [version |-> n, status |-> "DRAFT"]]
                 /\ write' = [write EXCEPT !["correct"] = w]
    BY <1>2 DEF Page!ApiCorrects
  <1>4. w \in Writes /\ w.state = "done" /\ w.result.version = n /\ w.result.status = "DRAFT"
    BY <1>2, <1>3, MaxVersionsAssumption DEF Writes, Page!Dto
  <1>5. IsTrue(w.result)'
    BY <1>1, <1>2, <1>4 DEF IsTrue
  <1>6. n > Page!Versions /\ (Page!Versions <= MaxVersions)'
    BY <1>1, <1>2, PageTypes DEF PageInv, PageRows, Page!Versions
  <1>7. view' = view /\ refresh' = refresh /\ write["correct"].state = "admitted"
        /\ "correct" \in Page!Controls
    BY DEF Page!ApiCorrects, Page!Controls
  <1>. QED BY <1>1, <1>3, <1>4, <1>5, <1>6, <1>7, ApiStep

(* The API takes up what was asked, or is rolled back: it is still to come. *)
LEMMA ApiTriesStep ==
  ASSUME PageInv, NEW c \in Page!Controls, Page!ApiAdmits(c) \/ Page!ApiGivesUp(c)
  PROVE  PageInv'
  <1>1. PICK state \in {"pending", "admitted"} : write' = [write EXCEPT ![c].state = state]
    BY DEF Page!ApiAdmits, Page!ApiGivesUp
  <1>2. PICK w \in Writes : w = write[c]
    BY PageTypes DEF PageInv
  <1>3. PICK x : x = [w EXCEPT !.state = state]
    OBVIOUS
  <1>4. /\ x \in Writes /\ x.state = state /\ x.result = w.result
        /\ write' = [write EXCEPT ![c] = x]
    BY <1>1, <1>2, <1>3 DEF Writes
  <1>5. /\ write' \in [Page!Controls -> Writes]
        /\ \A b \in Page!Controls : /\ write'[b].result = write[b].result
                                    /\ write'[b].state = "done" => write[b].state = "done"
                                    /\ write[b].state = "none" <=> write'[b].state = "none"
    <2>1. write[c].state \in {"pending", "admitted"}
      BY DEF Page!ApiAdmits, Page!ApiGivesUp
    <2>. QED BY <1>2, <1>4, <2>1, PageTypes DEF PageInv
  <1>6. /\ history' = history /\ removed' = removed /\ gone' = gone
        /\ admitted' \subseteq {Document} /\ view' = view /\ refresh' = refresh
    BY PageTypes
       DEF PageInv, Page!ApiAdmits, Page!ApiGivesUp, Page!Mutations!Admit, Page!Mutations!GiveUp
  <1>7. Page!TypeOK' /\ (Page!Versions <= MaxVersions)'
    BY <1>5, <1>6 DEF PageInv, Page!TypeOK, Page!Versions, Writes
  <1>8. ASSUME NEW b \in Page!Controls
        PROVE  IsTrue(write[b].result)' <=> IsTrue(write[b].result)
    <2>1. PICK d : d = write[b].result
      OBVIOUS
    <2>. QED BY <2>1, <1>5, <1>6 DEF IsTrue, Page!Versions
  <1>9. ShownOK'
    BY <1>5, <1>6 DEF PageInv, ShownOK, IsTrue, Page!Versions
  <1>10. ApprovalOK' /\ CorrectionOK'
    BY <1>5, <1>6, <1>8 DEF PageInv, ApprovalOK, CorrectionOK, Page!Controls
  <1>. QED BY <1>7, <1>9, <1>10 DEF PageInv

-----------------------------------------------------------------------------

(* The truth of a DTO is a matter of the rows. *)
LEMMA SameTruth ==
  ASSUME PageInv, UNCHANGED Page!rows
  PROVE  \A dto : IsTrue(dto)' <=> IsTrue(dto)
  BY DEF Page!rows, IsTrue, Page!Versions

LEMMA OpenDocumentStep ==
  ASSUME PageInv, Page!OpenDocument
  PROVE  PageInv'
  <1>1. PICK n \in 1..MaxVersions : n = Page!Versions
    BY PageTypes DEF PageInv, Page!OpenDocument, Page!Visible, Page!Mutations!Visible,
                     Page!Mutations!Active, Page!Versions, PageRows
  <1>2. PICK v \in VersionType : v = history[Document][n]
    BY <1>1, PageTypes DEF PageInv, Page!Versions, PageRows
  <1>3. PICK dto : dto = [version |-> n, status |-> v.status]
    OBVIOUS
  <1>4. dto \in Page!Dto /\ dto.version = n /\ dto.status = v.status
    BY <1>1, <1>2, <1>3, MaxVersionsAssumption DEF Page!Dto, VersionType, Statuses
  <1>5. PICK p \in Views : p = view
    BY PageTypes DEF PageInv
  <1>6. view' = [p EXCEPT !.pc = "opened", !.document = dto]
    BY <1>1, <1>2, <1>3, <1>5
       DEF Page!OpenDocument, Page!Status, Page!Versions, Page!Mutations!Current
  <1>7. PICK q : q = [p EXCEPT !.pc = "opened", !.document = dto]
    OBVIOUS
  <1>8. /\ q \in Views /\ q.pc = "opened" /\ q.document = dto
        /\ q.correcting = p.correcting /\ ~q.correcting
    BY <1>4, <1>5, <1>7 DEF Views, PageInv, ShownOK, Page!OpenDocument
  <1>9. IsTrue(dto)
    BY <1>1, <1>2, <1>4 DEF IsTrue
  <1>10. UNCHANGED Page!rows /\ write' = write /\ refresh' = refresh
    BY DEF Page!OpenDocument
  <1>11. IsTrue(dto)'
    BY <1>9, <1>10, SameTruth
  <1>12. (ShownOK /\ ApprovalOK /\ CorrectionOK)'
    <2>1. IsTrue(view.document)'
      BY <1>6, <1>7, <1>8, <1>11 DEF IsTrue
    <2>. QED BY <2>1, <1>5, <1>6, <1>7, <1>8, <1>10
             DEF PageInv, ShownOK, ApprovalOK, CorrectionOK, Page!OpenDocument
  <1>13. write' \in [Page!Controls -> Writes] /\ refresh' \in [Page!Slots -> Refreshes]
    BY <1>10, PageTypes DEF PageInv
  <1>. QED BY <1>6, <1>7, <1>8, <1>10, <1>12, <1>13, PageAloneStep

(* A step that leaves the document on the page, or the page itself, as it  *)
(* is, and the writes with it.                                             *)
LEMMA SamePage ==
  ASSUME PageInv, UNCHANGED Page!rows, write' = write, refresh' \in [Page!Slots -> Refreshes],
         NEW v \in Views, view' = v, v.document = view.document,
         \/ v.pc \in {view.pc, "gone"}
         \/ view.pc = "opened" /\ v.pc = "shown",
         \/ v.correcting = view.correcting
         \/ v.pc = "shown" /\ v.document.status = "APPROVED"
  PROVE  PageInv'
  <1>1. PICK dto : dto = view.document
    OBVIOUS
  <1>2. IsTrue(view.document)' <=> IsTrue(view.document)
    <2>1. IsTrue(dto)' <=> IsTrue(dto)
      BY SameTruth
    <2>. QED BY <1>1, <2>1 DEF IsTrue
  <1>3. \A c \in Page!Controls : IsTrue(write[c].result)' <=> IsTrue(write[c].result)
    BY DEF Page!rows, IsTrue, Page!Versions
  <1>4. v.pc \in {"opening", "opened", "shown", "gone"}
    BY DEF Views
  <1>5. (v.correcting => v.document.status = "APPROVED")
    BY DEF PageInv, Page!TypeOK
  <1>6. ShownOK'
    BY <1>2, <1>4 DEF PageInv, ShownOK
  <1>7. ApprovalOK' /\ CorrectionOK'
    BY <1>3, <1>4 DEF PageInv, ShownOK, ApprovalOK, CorrectionOK, Page!Controls
  <1>8. write' \in [Page!Controls -> Writes]
    BY PageTypes DEF PageInv
  <1>. QED BY <1>5, <1>6, <1>7, <1>8, PageAloneStep DEF Page!rows

LEMMA OpenHistoryStep ==
  ASSUME PageInv, Page!OpenHistory
  PROVE  PageInv'
  <1>1. PICK p \in Views : p = view
    BY PageTypes DEF PageInv
  <1>2. PICK n \in 0..MaxVersions : n = Page!Versions
    BY PageTypes, MaxVersionsAssumption DEF PageInv, Page!Versions, PageRows
  <1>3. /\ p.pc = "opened" /\ UNCHANGED Page!rows /\ write' = write /\ refresh' = refresh
        /\ \/ view' = [p EXCEPT !.pc = "shown", !.listed = n]
           \/ view' = [p EXCEPT !.pc = "shown", !.error = TRUE]
    BY <1>1, <1>2 DEF Page!OpenHistory
  <1>4. /\ view' \in Views /\ view'.pc = "shown" /\ view'.document = p.document
        /\ view'.correcting = p.correcting
    BY <1>1, <1>2, <1>3 DEF Views
  <1>5. PICK q \in Views : q = view'
    BY <1>4
  <1>6. /\ view' = q /\ q.document = view.document /\ view.pc = "opened" /\ q.pc = "shown"
        /\ q.correcting = view.correcting
        /\ UNCHANGED Page!rows /\ write' = write /\ refresh' \in [Page!Slots -> Refreshes]
    BY <1>1, <1>3, <1>4, <1>5, PageTypes DEF PageInv
  <1>. QED BY <1>6, SamePage

LEMMA LeaveStep ==
  ASSUME PageInv, Page!Leave
  PROVE  PageInv'
  <1>1. PICK p \in Views : p = view
    BY PageTypes DEF PageInv
  <1>2. /\ UNCHANGED Page!rows /\ write' = write /\ refresh' = refresh
        /\ view' = [p EXCEPT !.pc = "gone"]
    BY <1>1 DEF Page!Leave
  <1>3. /\ view' \in Views /\ view'.pc = "gone" /\ view'.document = p.document
        /\ view'.correcting = p.correcting
    BY <1>1, <1>2 DEF Views
  <1>4. PICK q \in Views : q = view'
    BY <1>3
  <1>5. /\ view' = q /\ q.document = view.document /\ q.pc = "gone"
        /\ q.correcting = view.correcting
        /\ UNCHANGED Page!rows /\ write' = write /\ refresh' \in [Page!Slots -> Refreshes]
    BY <1>1, <1>2, <1>3, <1>4, PageTypes DEF PageInv
  <1>. QED BY <1>5, SamePage

LEMMA ShowCorrectionStep ==
  ASSUME PageInv, Page!ShowCorrection
  PROVE  PageInv'
  <1>1. PICK p \in Views : p = view
    BY PageTypes DEF PageInv
  <1>2. /\ UNCHANGED Page!rows /\ write' = write /\ refresh' = refresh
        /\ view' = [p EXCEPT !.correcting = TRUE]
        /\ p.pc = "shown" /\ p.document.status = "APPROVED"
    BY <1>1 DEF Page!ShowCorrection, Page!CanCorrect
  <1>3. view' \in Views /\ view'.pc = "shown" /\ view'.document = p.document
    BY <1>1, <1>2 DEF Views
  <1>4. PICK q \in Views : q = view'
    BY <1>3
  <1>5. /\ view' = q /\ q.document = view.document /\ q.pc = view.pc
        /\ q.pc = "shown" /\ q.document.status = "APPROVED"
        /\ UNCHANGED Page!rows /\ write' = write /\ refresh' \in [Page!Slots -> Refreshes]
    BY <1>1, <1>2, <1>3, <1>4, PageTypes DEF PageInv
  <1>. QED BY <1>5, SamePage

LEMMA SubmissionFailsStep ==
  ASSUME PageInv, Page!SubmissionFails
  PROVE  PageInv'
  <1>1. PICK p \in Views : p = view
    BY PageTypes DEF PageInv
  <1>2. /\ UNCHANGED Page!rows /\ write' = write /\ refresh' = refresh
        /\ view' = [p EXCEPT !.submitting = FALSE]
    BY <1>1 DEF Page!SubmissionFails
  <1>3. /\ view' \in Views /\ view'.pc = p.pc /\ view'.document = p.document
        /\ view'.correcting = p.correcting
    BY <1>1, <1>2 DEF Views
  <1>4. PICK q \in Views : q = view'
    BY <1>3
  <1>5. /\ view' = q /\ q.document = view.document /\ q.pc = view.pc
        /\ q.correcting = view.correcting
        /\ UNCHANGED Page!rows /\ write' = write /\ refresh' \in [Page!Slots -> Refreshes]
    BY <1>1, <1>2, <1>3, <1>4, PageTypes DEF PageInv
  <1>. QED BY <1>5, SamePage

LEMMA ReadHistoryStep ==
  ASSUME PageInv, NEW s \in Page!Slots, Page!ReadHistory(s)
  PROVE  PageInv'
  <1>1. PICK p \in Views : p = view
    BY PageTypes DEF PageInv
  <1>2. PICK n \in 0..MaxVersions : n = Page!Versions
    BY PageTypes, MaxVersionsAssumption DEF PageInv, Page!Versions, PageRows
  <1>3. [state |-> "read", listed |-> n] \in Refreshes
    BY <1>2 DEF Refreshes
  <1>4. /\ UNCHANGED Page!rows /\ view' = view /\ write' = write
        /\ refresh' \in [Page!Slots -> Refreshes]
    BY <1>2, <1>3, PageTypes DEF PageInv, Page!ReadHistory
  <1>5. view' = p /\ p.document = view.document /\ p.pc = view.pc
        /\ p.correcting = view.correcting /\ UNCHANGED Page!rows /\ write' = write
    BY <1>1, <1>4
  <1>. QED BY <1>4, <1>5, SamePage

LEMMA RefreshEndStep ==
  ASSUME PageInv, NEW s \in Page!Slots, Page!RefreshSucceeds(s) \/ Page!RefreshFails(s)
  PROVE  PageInv'
  <1>1. PICK p \in Views : p = view
    BY PageTypes DEF PageInv
  <1>2. PICK n \in 0..MaxVersions : n = refresh[s].listed
    BY PageTypes DEF PageInv, Refreshes
  <1>3. /\ UNCHANGED Page!rows /\ write' = write
        /\ refresh' = [refresh EXCEPT ![s] = Page!NoRefresh]
        /\ \/ view' = [p EXCEPT !.listed = n, !.loading = FALSE]
           \/ view' = [p EXCEPT !.error = TRUE, !.loading = FALSE]
    BY <1>1, <1>2 DEF Page!RefreshSucceeds, Page!RefreshFails
  <1>4. /\ view' \in Views /\ view'.pc = p.pc /\ view'.document = p.document
        /\ view'.correcting = p.correcting
    BY <1>1, <1>2, <1>3 DEF Views
  <1>5. Page!NoRefresh \in Refreshes
    BY MaxVersionsAssumption DEF Page!NoRefresh, Refreshes
  <1>6. refresh' \in [Page!Slots -> Refreshes]
    BY <1>3, <1>5, PageTypes DEF PageInv
  <1>7. PICK q \in Views : q = view'
    BY <1>4
  <1>8. /\ view' = q /\ q.document = view.document /\ q.pc = view.pc
        /\ q.correcting = view.correcting
        /\ UNCHANGED Page!rows /\ write' = write /\ refresh' \in [Page!Slots -> Refreshes]
    BY <1>1, <1>3, <1>4, <1>6, <1>7, PageTypes DEF PageInv
  <1>. QED BY <1>8, SamePage

-----------------------------------------------------------------------------

LEMMA UnaskedTyped == Page!Unasked \in Writes /\ Page!Unasked.state = "none"
  BY MaxVersionsAssumption DEF Page!Unasked, Page!NoDto, Writes, Page!Dto

(* A control whose form is taken away forgets what it asked for. *)
LEMMA HideCorrectionStep ==
  ASSUME PageInv, Page!HideCorrection
  PROVE  PageInv'
  <1>1. PICK p \in Views : p = view
    BY PageTypes DEF PageInv
  <1>2. /\ UNCHANGED <<Page!rows, refresh>> /\ view' = [p EXCEPT !.correcting = FALSE]
        /\ p.pc = "shown" /\ write' = [write EXCEPT !["correct"] = Page!Unasked]
    BY <1>1 DEF Page!HideCorrection, Page!CanCorrect
  <1>3. PICK q \in Views : q = view'
    BY <1>1, <1>2 DEF Views
  <1>4. q.pc = "shown" /\ q.document = p.document /\ ~q.correcting
    BY <1>1, <1>2, <1>3 DEF Views
  <1>5. /\ write' \in [Page!Controls -> Writes] /\ write'["correct"].state = "none"
        /\ write'["approve"] = write["approve"]
    BY <1>2, UnaskedTyped, PageTypes DEF PageInv, Page!Controls
  <1>6. \A dto : IsTrue(dto)' <=> IsTrue(dto)
    BY <1>2, SameTruth
  <1>7. PICK d \in Page!Dto, w \in Writes : d = p.document /\ w = write["approve"]
    BY <1>1, PageTypes DEF PageInv, Views, Page!Controls
  <1>8. (IsTrue(view.document))'
    BY <1>1, <1>2, <1>3, <1>4, <1>6, <1>7 DEF PageInv, ShownOK, IsTrue
  <1>9. (IsTrue(write["approve"].result))' <=> IsTrue(write["approve"].result)
    BY <1>2, <1>5 DEF IsTrue, Page!rows, Page!Versions
  <1>10. (ShownOK /\ ApprovalOK /\ CorrectionOK)'
    BY <1>1, <1>2, <1>3, <1>4, <1>5, <1>8, <1>9
       DEF PageInv, ShownOK, ApprovalOK, CorrectionOK
  <1>11. refresh' \in [Page!Slots -> Refreshes]
    BY <1>2, PageTypes DEF PageInv
  <1>. QED BY <1>2, <1>3, <1>4, <1>5, <1>10, <1>11, PageAloneStep

(* A control that is asked again keeps what it has asked for. *)
LEMMA SubmitStep ==
  ASSUME PageInv, Page!Approve \/ Page!Correct
  PROVE  PageInv'
  <1>1. PICK p \in Views : p = view
    BY PageTypes DEF PageInv
  <1>2. PICK c \in Page!Controls :
          /\ p.pc = "shown"
          /\ c = "approve" => p.document.status = "DRAFT"
          /\ c = "correct" => p.document.status = "APPROVED"
          /\ Page!Submit(c)
    BY <1>1 DEF Page!Approve, Page!Correct, Page!CanApprove, Page!CanCorrect, Page!Controls
  <1>3. PICK w \in Writes : w = write[c]
    BY PageTypes DEF PageInv
  <1>4. PICK x : x = [w EXCEPT !.state = IF w.state = "none" THEN "pending" ELSE w.state]
    OBVIOUS
  <1>5. /\ x \in Writes /\ x.result = w.result
        /\ x.state = IF w.state = "none" THEN "pending" ELSE w.state
    BY <1>4 DEF Writes
  <1>6. /\ UNCHANGED <<Page!rows, refresh>> /\ view' = [p EXCEPT !.submitting = TRUE]
        /\ write' = [write EXCEPT ![c] = x]
    BY <1>1, <1>2, <1>3, <1>4 DEF Page!Submit
  <1>7. PICK q \in Views : q = view'
    BY <1>1, <1>6 DEF Views
  <1>8. q.pc = "shown" /\ q.document = p.document /\ q.correcting = p.correcting
    BY <1>1, <1>2, <1>6, <1>7 DEF Views
  <1>9. /\ write' \in [Page!Controls -> Writes] /\ write'[c] = x
        /\ \A b \in Page!Controls \ {c} : write'[b] = write[b]
    BY <1>5, <1>6, PageTypes DEF PageInv
  <1>10. \A b \in Page!Controls :
           /\ write'[b].result = write[b].result
           /\ write'[b].state = "done" => write[b].state = "done"
           /\ b # c /\ write'[b].state # "none" => write[b].state # "none"
    BY <1>3, <1>5, <1>9
  <1>11. \A b \in Page!Controls : IsTrue(write[b].result)' <=> IsTrue(write[b].result)
    <2>1. history' = history
      BY <1>6 DEF Page!rows
    <2>2. SUFFICES ASSUME NEW b \in Page!Controls
                   PROVE  IsTrue(write[b].result)' <=> IsTrue(write[b].result)
      OBVIOUS
    <2>3. PICK d : d = write[b].result
      OBVIOUS
    <2>4. write'[b].result = d
      BY <1>10, <2>3
    <2>. QED BY <2>1, <2>3, <2>4 DEF IsTrue, Page!Versions
  <1>12. IsTrue(view.document)'
    BY <1>1, <1>2, <1>6, <1>7, <1>8 DEF PageInv, ShownOK, IsTrue, Page!rows, Page!Versions
  <1>13. ShownOK'
    BY <1>7, <1>8, <1>12 DEF ShownOK
  <1>14. ApprovalOK'
    <2>1. write'["approve"].state # "none" => p.document.status = "DRAFT"
      BY <1>1, <1>2, <1>10 DEF PageInv, ApprovalOK, Page!Controls
    <2>2. write'["approve"].state = "done" =>
            /\ IsTrue(write["approve"].result)'
            /\ write'["approve"].result.status = "APPROVED"
            /\ write'["approve"].result.version >= p.document.version
      BY <1>1, <1>2, <1>10, <1>11 DEF PageInv, ApprovalOK, Page!Controls
    <2>. QED BY <1>7, <1>8, <2>1, <2>2 DEF ApprovalOK
  <1>15. CorrectionOK'
    <2>1. write'["correct"].state # "none" => p.document.status = "APPROVED"
      BY <1>1, <1>2, <1>10 DEF PageInv, CorrectionOK, Page!Controls
    <2>2. write'["correct"].state = "done" =>
            /\ IsTrue(write["correct"].result)'
            /\ write'["correct"].result.version > p.document.version
      BY <1>1, <1>2, <1>10, <1>11 DEF PageInv, CorrectionOK, Page!Controls
    <2>. QED BY <1>7, <1>8, <2>1, <2>2 DEF CorrectionOK
  <1>16. q.correcting => q.document.status = "APPROVED"
    BY <1>1, <1>8 DEF PageInv, Page!TypeOK
  <1>17. refresh' \in [Page!Slots -> Refreshes]
    BY <1>6, PageTypes DEF PageInv
  <1>. QED BY <1>6, <1>7, <1>9, <1>13, <1>14, <1>15, <1>16, <1>17, PageAloneStep

(* An answer brings the page forward; it rests on a result that is true    *)
(* and on the other control having nothing to come.                        *)
LEMMA PageAnswerStep ==
  ASSUME PageInv, UNCHANGED Page!rows, NEW c \in Page!Controls, Page!Succeed(c),
         write' = [write EXCEPT ![c] = Page!Unasked],
         IsTrue(write[c].result),
         \A b \in Page!Controls \ {c} : write[b].state = "none"
  PROVE  PageInv' /\ view'.document = write[c].result
  <1>1. PICK p \in Views : p = view
    BY PageTypes DEF PageInv
  <1>2. PICK d \in Page!Dto : d = write[c].result
    BY PageTypes DEF PageInv, Writes
  <1>3. view' = [p EXCEPT !.document = d, !.submitting = FALSE, !.correcting = FALSE,
                          !.listed = 0, !.error = FALSE, !.loading = TRUE]
    BY <1>1, <1>2 DEF Page!Succeed
  <1>4. 0 \in 0..MaxVersions /\ p.pc = "shown"
    BY <1>1, MaxVersionsAssumption DEF Page!Succeed
  <1>5. PICK q \in Views : q = view'
    BY <1>1, <1>2, <1>3, <1>4 DEF Views
  <1>6. q.pc = "shown" /\ q.document = d /\ ~q.correcting
    BY <1>1, <1>2, <1>3, <1>4, <1>5 DEF Views
  <1>7. /\ write' \in [Page!Controls -> Writes]
        /\ \A b \in Page!Controls : write'[b].state = "none"
    BY UnaskedTyped, PageTypes DEF PageInv
  <1>8. refresh' \in [Page!Slots -> Refreshes]
    <2>1. PICK s \in Page!Slots : refresh' = [refresh EXCEPT ![s].state = "asked"]
      BY DEF Page!Succeed
    <2>2. PICK f \in Refreshes : f = refresh[s]
      BY PageTypes DEF PageInv
    <2>3. PICK g : g = [f EXCEPT !.state = "asked"]
      OBVIOUS
    <2>4. g \in Refreshes
      BY <2>2, <2>3 DEF Refreshes
    <2>5. refresh' = [refresh EXCEPT ![s] = g]
      BY <2>1, <2>2, <2>3
    <2>. QED BY <2>4, <2>5, PageTypes DEF PageInv
  <1>9. IsTrue(view.document)'
    <2>1. IsTrue(d) /\ history' = history
      BY <1>2 DEF Page!rows
    <2>. QED BY <1>5, <1>6, <2>1 DEF IsTrue, Page!Versions
  <1>10. (ShownOK /\ ApprovalOK /\ CorrectionOK)'
    BY <1>5, <1>6, <1>7, <1>9 DEF ShownOK, ApprovalOK, CorrectionOK, Page!Controls
  <1>11. PageInv'
    BY <1>5, <1>6, <1>7, <1>8, <1>10, PageAloneStep
  <1>. QED BY <1>2, <1>5, <1>6, <1>11

LEMMA ApprovedStep ==
  ASSUME PageInv, Page!Approved
  PROVE  /\ PageInv'
         /\ view'.document.version >= view.document.version
         /\ view.document.status = "DRAFT"
  <1>1. /\ view.pc = "shown" /\ view.document.status = "DRAFT" /\ Page!Succeed("approve")
        /\ write' = [write EXCEPT !["approve"] = Page!Unasked] /\ UNCHANGED Page!rows
        /\ write["approve"].state = "done"
    BY DEF Page!Approved, Page!CanApprove, Page!Succeed
  <1>2. /\ IsTrue(write["approve"].result)
        /\ write["approve"].result.version >= view.document.version
    BY <1>1 DEF PageInv, ApprovalOK
  <1>3. write["correct"].state = "none"
    BY <1>1 DEF PageInv, CorrectionOK
  <1>4. /\ "approve" \in Page!Controls
        /\ \A b \in Page!Controls \ {"approve"} : write[b].state = "none"
    BY <1>3 DEF Page!Controls
  <1>. QED BY <1>1, <1>2, <1>4, PageAnswerStep

LEMMA CorrectedStep ==
  ASSUME PageInv, Page!Corrected
  PROVE  /\ PageInv'
         /\ view'.document.version > view.document.version
  <1>1. /\ view.pc = "shown" /\ view.document.status = "APPROVED" /\ Page!Succeed("correct")
        /\ write' = [write EXCEPT !["correct"] = Page!Unasked] /\ UNCHANGED Page!rows
        /\ write["correct"].state = "done"
    BY DEF Page!Corrected, Page!CanCorrect, Page!Succeed
  <1>2. /\ IsTrue(write["correct"].result)
        /\ write["correct"].result.version > view.document.version
    BY <1>1 DEF PageInv, CorrectionOK
  <1>3. write["approve"].state = "none"
    BY <1>1 DEF PageInv, ApprovalOK
  <1>4. /\ "correct" \in Page!Controls
        /\ \A b \in Page!Controls \ {"correct"} : write[b].state = "none"
    BY <1>3 DEF Page!Controls
  <1>. QED BY <1>1, <1>2, <1>4, PageAnswerStep

LEMMA PageStutterStep ==
  ASSUME PageInv, UNCHANGED Page!vars
  PROVE  PageInv'
  <1>1. UNCHANGED Page!rows /\ view' = view /\ write' = write /\ refresh' = refresh
    BY DEF Page!vars
  <1>2. PICK q \in Views : q = view
    BY PageTypes DEF PageInv
  <1>3. /\ view' = q /\ q.document = view.document /\ q.pc = view.pc
        /\ q.correcting = view.correcting /\ refresh' \in [Page!Slots -> Refreshes]
    BY <1>1, <1>2, PageTypes DEF PageInv
  <1>. QED BY <1>1, <1>3, SamePage

LEMMA PageStepInv == PageInv /\ [Page!Next]_(Page!vars) => PageInv'
  <1>. SUFFICES ASSUME PageInv, [Page!Next]_(Page!vars) PROVE PageInv'
    OBVIOUS
  <1>1. CASE Page!Mutate
    BY <1>1, OthersStep
  <1>2. CASE Page!OpenDocument
    BY <1>2, OpenDocumentStep
  <1>3. CASE Page!OpenHistory
    BY <1>3, OpenHistoryStep
  <1>4. CASE Page!User
    BY <1>4, LeaveStep, ShowCorrectionStep, HideCorrectionStep, SubmitStep DEF Page!User
  <1>5. CASE Page!ApiApproves
    BY <1>5, ApiApprovesStep
  <1>6. CASE Page!ApiCorrects
    BY <1>6, ApiCorrectsStep
  <1>7. CASE Page!Answers
    BY <1>7, ApprovedStep, CorrectedStep, SubmissionFailsStep DEF Page!Answers
  <1>8. CASE \E s \in Page!Slots :
                Page!ReadHistory(s) \/ Page!RefreshSucceeds(s) \/ Page!RefreshFails(s)
    BY <1>8, ReadHistoryStep, RefreshEndStep
  <1>9. CASE UNCHANGED Page!vars
    BY <1>9, PageStutterStep
  <1>10. CASE \E c \in Page!Controls : Page!ApiAdmits(c) \/ Page!ApiGivesUp(c)
    BY <1>10, ApiTriesStep
  <1>. QED BY <1>1, <1>2, <1>3, <1>4, <1>5, <1>6, <1>7, <1>8, <1>9, <1>10 DEF Page!Next

LEMMA PageInvariance == Page!Spec => []PageInv
  BY PageInitInv, PageStepInv, PTL DEF Page!Spec

LEMMA PageInvImplies == PageInv => Page!ViewInv
  <1>. SUFFICES ASSUME PageInv PROVE Page!NothingOptimistic
    BY DEF PageInv, Page!ViewInv
  <1>1. history[Document] \in Seq(VersionType)
    BY PageTypes DEF PageInv, PageRows
  <1>. QED BY <1>1 DEF PageInv, ShownOK, IsTrue, Page!Versions, Page!NothingOptimistic

(* The variables have their types, and what the page says of the document  *)
(* is true of the server's: an approval is shown once it is done, never    *)
(* before, whoever else works on the document (docs/architecture.md:53).   *)
THEOREM NeverOptimistic == Page!Spec => []Page!ViewInv
  BY PageInvariance, PageInvImplies, PTL

LEMMA ShownForward ==
  ASSUME PageInv, [Page!Next]_(Page!vars), view.pc = "shown"
  PROVE  \/ view'.document.version > view.document.version
         \/ /\ view'.document.version = view.document.version
            /\ view.document.status = "APPROVED" => view'.document.status = "APPROVED"
  <1>1. PICK p \in Views : p = view
    BY PageTypes DEF PageInv
  <1>2. p.document.version \in Nat
    BY <1>1 DEF Views, Page!Dto
  <1>3. CASE Page!Approved
    <2>1. /\ PageInv' /\ view'.document.version >= p.document.version
          /\ view.document.status = "DRAFT"
      BY <1>1, <1>3, ApprovedStep
    <2>2. view'.document.version \in Nat
      BY <2>1 DEF PageInv, Page!TypeOK, Page!Dto
    <2>. QED BY <1>1, <1>2, <2>1, <2>2
  <1>4. CASE Page!Corrected
    BY <1>4, CorrectedStep
  <1>5. CASE view'.document = view.document
    BY <1>5
  <1>6. /\ Page!Mutate \/ Page!ApiApproves \/ Page!ApiCorrects => view' = view
        /\ \A c \in Page!Controls : Page!ApiAdmits(c) \/ Page!ApiGivesUp(c) => view' = view
    BY DEF Page!Mutate, Page!ApiApproves, Page!ApiCorrects, Page!ApiAdmits, Page!ApiGivesUp
  <1>7. ~Page!OpenDocument /\ ~Page!OpenHistory
    BY DEF Page!OpenDocument, Page!OpenHistory
  <1>8. Page!User => view'.document = p.document
    BY <1>1 DEF Page!User, Page!Leave, Page!ShowCorrection, Page!HideCorrection,
                Page!Approve, Page!Correct, Page!Submit, Views
  <1>9. Page!SubmissionFails => view'.document = p.document
    BY <1>1 DEF Page!SubmissionFails, Views
  <1>10. ASSUME NEW s \in Page!Slots,
                Page!ReadHistory(s) \/ Page!RefreshSucceeds(s) \/ Page!RefreshFails(s)
         PROVE  view'.document = p.document
    BY <1>1, <1>10 DEF Page!ReadHistory, Page!RefreshSucceeds, Page!RefreshFails, Views
  <1>11. UNCHANGED Page!vars => view' = view
    BY DEF Page!vars
  <1>. QED BY <1>1, <1>3, <1>4, <1>5, <1>6, <1>7, <1>8, <1>9, <1>10, <1>11
           DEF Page!Next, Page!Answers

(* The page never goes back to an older version, nor from an approved one  *)
(* to a draft of the same number, whatever answers are replayed to its     *)
(* controls after lost ones (onApproved, onCorrected).                     *)
THEOREM PageGoesForward == Page!Spec => Page!ShownNeverRegresses
  BY PageInvariance, ShownForward, PTL DEF Page!Spec, Page!ShownNeverRegresses

=============================================================================
