---------------------- MODULE DocumentLifecycleProofs ----------------------
(***************************************************************************)
(* Theorems about DocumentLifecycle, for every set of transactions,        *)
(* candidates and documents and any number of versions: the versions form  *)
(* a line, audit events tell what was changed, and the interleaved         *)
(* transactions implement the atomic operations of DocumentHistory.        *)
(***************************************************************************)
EXTENDS DocumentLifecycle, SequenceTheorems, TLAPS

-----------------------------------------------------------------------------
(* The inductive invariant. *)

LineOK(d) ==
  /\ document[d].current = Len(versions[d])
  /\ \A i \in 1..Len(versions[d]) : /\ versions[d][i].number = i
                                    /\ versions[d][i].supersedes = i - 1

(* A document has versions from its creation on. *)
RowOK(d) == document[d].state = "absent" <=> Len(versions[d]) = 0

(* What a transaction has found out stays true until it ends: of a         *)
(* document because it holds the lock, of one to create because its        *)
(* identifier is new.                                                      *)
Knows(c, op, d) ==
  /\ op = "create" => /\ document[d].state = "absent"
                      /\ txn[c].read = Absent /\ txn[c].count = 0
  /\ txn[c].pc \in {"locked", "staged"} /\ op \in DocumentOps => document[d].state = "active"
  /\ txn[c].pc = "staged" /\ op \in DocumentOps =>
       txn[c].read = Dto(d) /\ txn[c].count = Len(versions[d]) /\ Allowed(op, d)

TxnOK(c) ==
  /\ txn[c].pc = "idle" => txn[c].op = None
  /\ txn[c].pc # "idle" => txn[c].op \in Ops
  /\ txn[c].op = "removeCandidate" => txn[c].row \in Candidates
  /\ txn[c].op \in DocumentOps \cup {"create"} => txn[c].row \in Documents
  /\ txn[c].pc = "checked" => txn[c].op = "create"
  /\ txn[c].pc = "locked" => txn[c].op \in DocumentOps
  /\ \A op \in Ops, d \in Documents : txn[c].op = op /\ txn[c].row = d => Knows(c, op, d)

(* A document is written by one transaction at a time. *)
Writes(c, d) == HoldsDocument(c, d) \/ (txn[c].op = "create" /\ txn[c].row = d)

OneWriter == \A b, c \in Calls : \A d \in Documents : Writes(b, d) /\ Writes(c, d) => b = c

DocumentsOK == \A d \in Documents : LineOK(d) /\ RowOK(d)

TxnsOK == \A c \in Calls : TxnOK(c)

IInv == TypeOK /\ DocumentsOK /\ TxnsOK /\ OneWriter

-----------------------------------------------------------------------------

LEMMA InvInit == Init => IInv
<1> SUFFICES ASSUME Init PROVE IInv
  OBVIOUS
<1>1. TypeOK
  <2>2. 0 \in 0..MaxVersions
    BY MaxVersionsAssumption
  <2>1. Absent \in DtoType
    BY <2>2 DEF Absent, DtoType
  <2>3. Idle \in [pc : {"idle", "begun", "checked", "locked", "staged"},
                  op : Ops \cup {None}, row : Documents \cup Candidates \cup {None},
                  read : DtoType, count : 0..MaxVersions]
    BY <2>1, <2>2 DEF Idle
  <2>4. <<>> \in Seq(VersionType)
    OBVIOUS
  <2> QED
    BY <2>1, <2>2, <2>3, <2>4 DEF Init, TypeOK
<1>2. DocumentsOK
  BY DEF Init, DocumentsOK, LineOK, RowOK
<1>3. TxnsOK
  BY NoneAssumption DEF Init, TxnsOK, TxnOK, Knows, Idle, Ops, DocumentOps
<1>4. OneWriter
  BY NoneAssumption DEF Init, OneWriter, Writes, HoldsDocument, Idle, Ops, DocumentOps
<1> QED
  BY <1>1, <1>2, <1>3, <1>4 DEF IInv

-----------------------------------------------------------------------------
(* Steps that write no row of a document. *)

Unwritten == UNCHANGED <<document, versions, requested>>

TxnType == [pc : {"idle", "begun", "checked", "locked", "staged"}, op : Ops \cup {None},
            row : Documents \cup Candidates \cup {None},
            read : DtoType, count : 0..MaxVersions]

LEMMA DtoUnwritten ==
  ASSUME Unwritten, NEW op \in Ops, NEW d \in Documents
  PROVE  Dto(d)' = Dto(d) /\ (Allowed(op, d) => Allowed(op, d)')
<1>1. Dto(d)' = Dto(d)
  BY DEF Dto, Unwritten
<1> QED
  BY <1>1 DEF Allowed, Unwritten

LEMMA IdleTyped == Idle \in TxnType
<1>1. 0 \in 0..MaxVersions
  BY MaxVersionsAssumption
<1> QED
  BY <1>1 DEF Idle, TxnType, Absent, DtoType

LEMMA TxnStep ==
  ASSUME IInv, NEW c \in Calls, NEW t \in TxnType,
         txn' = [txn EXCEPT ![c] = t], Unwritten,
         candidate' \in [Candidates -> {"active", "removed"}], UNCHANGED audit,
         TxnOK(c)',
         \A d \in Documents : Writes(c, d)' => \A b \in Calls \ {c} : ~Writes(b, d)
  PROVE  IInv'
<1>1. TypeOK'
  BY DEF IInv, TypeOK, TxnType, Unwritten
<1>2. \A b \in Calls \ {c} : txn'[b] = txn[b]
  BY DEF IInv, TypeOK
<1>3. DocumentsOK'
  BY DEF IInv, DocumentsOK, LineOK, RowOK, Unwritten
<1>4. TxnsOK'
  <2> SUFFICES ASSUME NEW b \in Calls, b # c PROVE TxnOK(b)'
    BY DEF TxnsOK
  <2>1. TxnOK(b) /\ txn'[b] = txn[b]
    BY <1>2 DEF IInv, TxnsOK
  <2>2. \A op \in Ops, d \in Documents : Dto(d)' = Dto(d) /\ (Allowed(op, d) => Allowed(op, d)')
    BY DtoUnwritten
  <2>3. \A op \in Ops, d \in Documents : Knows(b, op, d) => Knows(b, op, d)'
    BY <2>1, <2>2 DEF Knows, Unwritten
  <2> QED
    BY <2>1, <2>3 DEF TxnOK
<1>5. OneWriter'
  <2>1. \A b \in Calls \ {c} : \A d \in Documents : Writes(b, d)' <=> Writes(b, d)
    BY <1>2 DEF Writes, HoldsDocument
  <2> QED
    BY <2>1 DEF IInv, OneWriter
<1> QED
  BY <1>1, <1>3, <1>4, <1>5 DEF IInv

(* A transaction may end at any time. *)
LEMMA EndStep ==
  ASSUME IInv, NEW c \in Calls, End(c), Unwritten,
         candidate' \in [Candidates -> {"active", "removed"}], UNCHANGED audit
  PROVE  IInv'
<1>1. txn'[c] = Idle
  BY DEF End, IInv, TypeOK
<1>2. TxnOK(c)'
  BY <1>1, NoneAssumption DEF TxnOK, Knows, Idle, Ops, DocumentOps
<1>3. \A d \in Documents : ~Writes(c, d)'
  BY <1>1, NoneAssumption DEF Writes, HoldsDocument, Idle, Ops, DocumentOps
<1> QED
  BY <1>2, <1>3, IdleTyped, TxnStep DEF End

LEMMA BeginStep == ASSUME IInv, NEW c \in Calls, Begin(c) PROVE IInv'
<1>1. PICK op \in Ops :
      \E row \in (IF op = "removeCandidate" THEN Candidates ELSE Documents) :
        /\ op = "create" => /\ document[row].state = "absent"
                            /\ \A b \in Calls : ~(txn[b].op = "create" /\ txn[b].row = row)
        /\ txn' = [txn EXCEPT ![c] = [Idle EXCEPT !.pc = "begun", !.op = op, !.row = row]]
  BY DEF Begin
<1>2. PICK row \in (IF op = "removeCandidate" THEN Candidates ELSE Documents) :
        /\ op = "create" => /\ document[row].state = "absent"
                            /\ \A b \in Calls : ~(txn[b].op = "create" /\ txn[b].row = row)
        /\ txn' = [txn EXCEPT ![c] = [Idle EXCEPT !.pc = "begun", !.op = op, !.row = row]]
  BY <1>1
<1> DEFINE t == [Idle EXCEPT !.pc = "begun", !.op = op, !.row = row]
<1>3. t \in TxnType
  BY IdleTyped DEF TxnType
<1>4. t.pc = "begun" /\ t.op = op /\ t.row = row /\ t.read = Absent /\ t.count = 0
  BY DEF Idle
<1> HIDE DEF t
<1>5. txn' = [txn EXCEPT ![c] = t]
  BY <1>2 DEF t
<1>6. txn'[c] = t
  BY <1>5 DEF IInv, TypeOK
<1>7. Unwritten /\ UNCHANGED <<candidate, audit>>
  BY DEF Begin, Rows, Unwritten
<1>8. TxnOK(c)'
  BY <1>2, <1>4, <1>6, <1>7 DEF TxnOK, Knows, Unwritten, Ops, DocumentOps
<1>9. ASSUME NEW d \in Documents, Writes(c, d)', NEW b \in Calls \ {c} PROVE ~Writes(b, d)
  <2>1. op = "create" /\ row = d
    BY <1>4, <1>6, <1>9 DEF Writes, HoldsDocument
  <2>2. document[d].state = "absent" /\ ~(txn[b].op = "create" /\ txn[b].row = d)
    BY <2>1, <1>2
  <2>3. TxnOK(b)
    BY DEF IInv, TxnsOK
  <2> QED
    BY <2>2, <2>3 DEF TxnOK, Knows, Writes, HoldsDocument, Ops
<1> QED
  BY <1>3, <1>5, <1>7, <1>8, <1>9, TxnStep DEF IInv, TypeOK

LEMMA DtoTyped == ASSUME IInv, NEW d \in Documents PROVE Dto(d) \in DtoType
<1>1. /\ document[d] \in [state : {"absent", "active", "removed"}, current : 0..MaxVersions]
      /\ versions[d] \in Seq(VersionType) /\ document[d].current = Len(versions[d])
  BY DEF IInv, TypeOK, DocumentsOK, LineOK
<1>2. CASE document[d].current = 0
  BY <1>1, <1>2 DEF Dto, DtoType
<1>3. CASE document[d].current # 0
  <2>1. document[d].current \in 1..Len(versions[d])
    BY <1>1, <1>3, MaxVersionsAssumption
  <2>2. versions[d][document[d].current] \in VersionType
    BY <1>1, <2>1
  <2> QED
    BY <1>1, <1>3, <2>2 DEF Dto, DtoType, VersionType
<1> QED
  BY <1>2, <1>3

(* A creation or the removal of a candidate goes on. *)
LEMMA GotoStep ==
  ASSUME IInv, NEW c \in Calls, NEW pc \in {"checked", "staged"}, Goto(c, pc),
         txn[c].pc # "idle", txn[c].op \in {"create", "removeCandidate"},
         pc = "checked" => txn[c].op = "create", UNCHANGED Rows
  PROVE  IInv'
<1> DEFINE t == [txn[c] EXCEPT !.pc = pc]
<1>1. t \in TxnType /\ txn' = [txn EXCEPT ![c] = t] /\ txn'[c] = t
  BY DEF IInv, TypeOK, TxnType, Goto
<1>2. /\ t.pc = pc /\ t.op = txn[c].op /\ t.row = txn[c].row
      /\ t.read = txn[c].read /\ t.count = txn[c].count
  BY DEF IInv, TypeOK
<1> HIDE DEF t
<1>3. TxnOK(c) /\ Unwritten /\ UNCHANGED <<candidate, audit>>
  BY DEF IInv, TxnsOK, Rows, Unwritten
<1>4. TxnOK(c)'
  BY <1>1, <1>2, <1>3 DEF TxnOK, Knows, DocumentOps, Unwritten
<1>5. \A d \in Documents : Writes(c, d)' => Writes(c, d)
  BY <1>1, <1>2 DEF Writes, HoldsDocument, DocumentOps
<1> QED
  BY <1>1, <1>3, <1>4, <1>5, TxnStep DEF IInv, TypeOK, OneWriter

LEMMA LockDocumentStep == ASSUME IInv, NEW c \in Calls, LockDocument(c) PROVE IInv'
<1>1. Unwritten /\ UNCHANGED <<candidate, audit>> /\ TxnOK(c)
  BY DEF IInv, TxnsOK, LockDocument, Rows, Unwritten
<1> DEFINE d == txn[c].row
           t == [txn[c] EXCEPT !.pc = "locked"]
<1>2. CASE document[d].state # "active"
  BY <1>1, <1>2, EndStep DEF LockDocument, IInv, TypeOK
<1>3. CASE document[d].state = "active"
  <2>1. t \in TxnType /\ txn' = [txn EXCEPT ![c] = t] /\ txn'[c] = t
    BY <1>3 DEF IInv, TypeOK, TxnType, LockDocument, Goto
  <2>2. t.pc = "locked" /\ t.op = txn[c].op /\ t.row = txn[c].row
    BY DEF IInv, TypeOK
  <2> HIDE DEF t
  <2>3. t.op \in DocumentOps
    BY <2>2 DEF LockDocument
  <2>4. TxnOK(c)'
    BY <1>1, <1>3, <2>1, <2>2, <2>3 DEF TxnOK, Knows, DocumentOps, Ops, Unwritten
  <2>5. ASSUME NEW e \in Documents, Writes(c, e)', NEW b \in Calls \ {c} PROVE ~Writes(b, e)
    <3>1. e = d
      BY <2>1, <2>2, <2>5 DEF Writes, HoldsDocument
    <3>2. ~HoldsDocument(b, e)
      BY <3>1 DEF LockDocument
    <3>3. TxnOK(b)
      BY DEF IInv, TxnsOK
    <3> QED
      BY <1>3, <3>1, <3>2, <3>3 DEF Writes, TxnOK, Knows, Ops
  <2> QED
    BY <1>1, <2>1, <2>4, <2>5, TxnStep DEF IInv, TypeOK
<1> QED
  BY <1>2, <1>3

LEMMA ReadCurrentStep == ASSUME IInv, NEW c \in Calls, ReadCurrent(c) PROVE IInv'
<1> DEFINE d == txn[c].row
           t == [txn[c] EXCEPT !.pc = "staged", !.read = Dto(d), !.count = Len(versions[d])]
<1>1. Unwritten /\ UNCHANGED <<candidate, audit>> /\ TxnOK(c) /\ txn[c].pc = "locked"
  BY DEF IInv, TxnsOK, ReadCurrent, Rows, Unwritten
<1>2. d \in Documents /\ txn[c].op \in DocumentOps
  BY <1>1 DEF TxnOK
<1>3. CASE ~(/\ document[d].state = "active"
             /\ candidate[CandidateOf[d]] = "active"
             /\ Allowed(txn[c].op, d))
  BY <1>1, <1>3, EndStep DEF ReadCurrent, IInv, TypeOK
<1>4. CASE /\ document[d].state = "active"
           /\ candidate[CandidateOf[d]] = "active"
           /\ Allowed(txn[c].op, d)
  <2>1. Dto(d) \in DtoType /\ Len(versions[d]) \in 0..MaxVersions
    BY <1>2, DtoTyped DEF IInv, TypeOK, DocumentsOK, LineOK
  <2>2. t \in TxnType /\ txn' = [txn EXCEPT ![c] = t] /\ txn'[c] = t
    BY <1>4, <2>1 DEF IInv, TypeOK, TxnType, ReadCurrent
  <2>3. /\ t.pc = "staged" /\ t.op = txn[c].op /\ t.row = d
        /\ t.read = Dto(d) /\ t.count = Len(versions[d])
    BY DEF IInv, TypeOK
  <2> HIDE DEF t
  <2>4. \A op \in Ops, e \in Documents : Dto(e)' = Dto(e) /\ (Allowed(op, e) => Allowed(op, e)')
    BY <1>1, DtoUnwritten
  <2>5. \A op \in Ops, e \in Documents : t.op = op /\ t.row = e => Knows(c, op, e)'
    BY <1>1, <1>2, <1>4, <2>2, <2>3, <2>4 DEF Knows, DocumentOps, Unwritten
  <2>6. TxnOK(c)'
    BY <1>1, <1>2, <2>2, <2>3, <2>5 DEF TxnOK, DocumentOps, Ops
  <2>7. \A e \in Documents : Writes(c, e)' => Writes(c, e)
    BY <1>1, <1>2, <2>2, <2>3 DEF Writes, HoldsDocument, DocumentOps
  <2> QED
    BY <1>1, <2>2, <2>6, <2>7, TxnStep DEF IInv, TypeOK, OneWriter
<1> QED
  BY <1>3, <1>4

-----------------------------------------------------------------------------
(* Steps that write the rows of a document and end their transaction. *)

LEMMA StagedFacts ==
  ASSUME IInv, NEW c \in Calls, txn[c].pc = "staged", txn[c].op \in DocumentOps \cup {"create"}
  PROVE  LET d == txn[c].row IN
         /\ d \in Documents /\ Writes(c, d)
         /\ txn[c].read = Dto(d) /\ txn[c].count = Len(versions[d])
         /\ txn[c].op = "create" => document[d].state = "absent" /\ Len(versions[d]) = 0
         /\ txn[c].op \in DocumentOps =>
              /\ document[d].state = "active" /\ Allowed(txn[c].op, d)
              /\ Len(versions[d]) # 0
<1> DEFINE d == txn[c].row
<1>1. TxnOK(c) /\ txn[c].op \in Ops
  BY DEF IInv, TxnsOK, Ops
<1>2. d \in Documents /\ Knows(c, txn[c].op, d)
  BY <1>1 DEF TxnOK
<1>3. LineOK(d) /\ RowOK(d)
  BY <1>2 DEF IInv, DocumentsOK
<1>4. CASE txn[c].op = "create"
  <2>1. Dto(d) = Absent
    <3>1. document[d] \in [state : {"absent", "active", "removed"}, current : 0..MaxVersions]
      BY <1>2 DEF IInv, TypeOK
    <3> QED
      BY <1>2, <1>3, <1>4, <3>1 DEF Dto, Absent, Knows, RowOK, LineOK
  <2> QED
    BY <1>2, <1>3, <1>4, <2>1 DEF Knows, RowOK, Writes, DocumentOps
<1>5. CASE txn[c].op \in DocumentOps
  BY <1>2, <1>3, <1>5 DEF Knows, RowOK, Writes, HoldsDocument, DocumentOps
<1> QED
  BY <1>4, <1>5

LEMMA CommitStep ==
  ASSUME IInv, NEW c \in Calls, NEW d \in Documents, Writes(c, d), End(c), TypeOK',
         \A e \in Documents \ {d} : /\ document'[e] = document[e]
                                    /\ versions'[e] = versions[e]
                                    /\ requested'[e] = requested[e],
         LineOK(d)', RowOK(d)'
  PROVE  IInv'
<1>1. txn'[c] = Idle /\ \A b \in Calls \ {c} : txn'[b] = txn[b]
  BY DEF End, IInv, TypeOK
<1>2. DocumentsOK'
  BY DEF IInv, DocumentsOK, LineOK, RowOK
<1>3. TxnOK(c)'
  BY <1>1, NoneAssumption DEF TxnOK, Knows, Idle, Ops, DocumentOps
<1>4. ASSUME NEW b \in Calls, b # c PROVE TxnOK(b)'
  <2>1. TxnOK(b) /\ txn'[b] = txn[b] /\ ~Writes(b, d)
    BY <1>1, <1>4 DEF IInv, TxnsOK, OneWriter
  <2>2. ASSUME NEW op \in Ops, NEW e \in Documents, txn[b].op = op, txn[b].row = e
        PROVE  Knows(b, op, e)'
    <3>1. Knows(b, op, e)
      BY <2>1, <2>2 DEF TxnOK
    <3>2. CASE e = d
      BY <2>1, <2>2, <3>2 DEF Knows, Writes, HoldsDocument
    <3>3. CASE e # d
      <4>1. /\ document'[e] = document[e] /\ versions'[e] = versions[e]
            /\ requested'[e] = requested[e]
        BY <3>3
      <4>2. Dto(e)' = Dto(e)
        BY <4>1 DEF Dto
      <4>3. Allowed(op, e) => Allowed(op, e)'
        BY <4>1, <4>2 DEF Allowed
      <4> QED
        BY <2>1, <3>1, <4>1, <4>2, <4>3 DEF Knows
    <3> QED
      BY <3>2, <3>3
  <2> QED
    BY <2>1, <2>2 DEF TxnOK
<1>5. OneWriter'
  <2>1. \A e \in Documents : ~Writes(c, e)'
    BY <1>1, NoneAssumption DEF Writes, HoldsDocument, Idle, Ops, DocumentOps
  <2>2. \A b \in Calls \ {c} : \A e \in Documents : Writes(b, e)' <=> Writes(b, e)
    BY <1>1 DEF Writes, HoldsDocument
  <2> QED
    BY <2>1, <2>2 DEF IInv, OneWriter
<1> QED
  BY <1>2, <1>3, <1>4, <1>5 DEF IInv, TxnsOK

Others(d) == \A e \in Documents \ {d} : /\ document'[e] = document[e]
                                        /\ versions'[e] = versions[e]
                                        /\ requested'[e] = requested[e]
                                        /\ audit'[e] = audit[e]

LEMMA SelectNewVersionRows ==
  ASSUME IInv, NEW c \in Calls, txn[c].pc = "staged",
         txn[c].op \in {"create", "addVersion", "correct"}, SelectNewVersion(c),
         NEW d \in Documents, d = txn[c].row
  PROVE  LET v == [number |-> Len(versions[d]) + 1, supersedes |-> Len(versions[d]),
                   status |-> "DRAFT", by |-> txn[c].op]
         IN /\ v \in VersionType /\ versions[d] \in Seq(VersionType)
            /\ Len(versions[d]) + 1 \in 1..MaxVersions
            /\ versions'[d] = Append(versions[d], v)
            /\ document'[d] = [state |-> "active", current |-> Len(versions[d]) + 1]
            /\ audit'[d] = [before |-> Dto(d), after |-> Dto(d)']
            /\ Others(d) /\ requested' = requested
<1> DEFINE v == [number |-> Len(versions[d]) + 1, supersedes |-> Len(versions[d]),
                 status |-> "DRAFT", by |-> txn[c].op]
           place == Len(versions[d]) + 1
<1>1. /\ txn[c].read = Dto(d) /\ txn[c].count = Len(versions[d])
      /\ txn[c].op \in DocumentOps => Allowed(txn[c].op, d)
      /\ txn[c].op = "create" => Len(versions[d]) = 0
  BY StagedFacts DEF DocumentOps
<1>2. /\ versions[d] \in Seq(VersionType) /\ Len(versions[d]) \in Nat
      /\ document[d].current = Len(versions[d])
  BY DEF IInv, TypeOK, DocumentsOK, LineOK
<1>3. Len(versions[d]) < MaxVersions
  <2>1. CASE txn[c].op = "create"
    BY <1>1, <2>1, MaxVersionsAssumption
  <2>2. CASE txn[c].op = "addVersion"
    BY <1>1, <2>2 DEF Allowed, DocumentOps
  <2>3. CASE txn[c].op = "correct"
    BY <1>1, <2>3 DEF Allowed, DocumentOps
  <2> QED
    BY <2>1, <2>2, <2>3
<1>4. NewVersion(c) = v
  BY <1>1, <1>2 DEF NewVersion, Dto
<1>5. v \in VersionType
  BY <1>2, <1>3, MaxVersionsAssumption DEF VersionType, Statuses
<1> HIDE DEF v
<1>6. /\ versions' = [versions EXCEPT ![d] = Append(versions[d], v)]
      /\ document' = [document EXCEPT ![d] = [state |-> "active", current |-> place]]
      /\ audit' = [audit EXCEPT ![d] = [before |-> Dto(d),
                     after |-> [state |-> "active", current |-> place, status |-> "DRAFT"]]]
      /\ requested' = requested
  BY <1>1, <1>4 DEF SelectNewVersion, Audited
<1>7. /\ versions'[d] = Append(versions[d], v)
      /\ document'[d] = [state |-> "active", current |-> place]
      /\ audit'[d] = [before |-> Dto(d),
                      after |-> [state |-> "active", current |-> place, status |-> "DRAFT"]]
      /\ Others(d)
  BY <1>6 DEF IInv, TypeOK, Others
<1>8. v.status = "DRAFT"
  BY DEF v
<1>9. Dto(d)' = [state |-> "active", current |-> place, status |-> "DRAFT"]
  <2>1. versions'[d][place] = v
    BY <1>2, <1>5, <1>7
  <2> QED
    BY <1>2, <1>7, <1>8, <2>1 DEF Dto
<1> QED
  BY <1>2, <1>3, <1>5, <1>6, <1>7, <1>9, MaxVersionsAssumption DEF v

LEMMA SelectNewVersionStep ==
  ASSUME IInv, NEW c \in Calls, txn[c].pc = "staged",
         txn[c].op \in {"create", "addVersion", "correct"}, SelectNewVersion(c)
  PROVE  IInv'
<1>1. PICK d \in Documents : d = txn[c].row
  BY StagedFacts DEF DocumentOps
<1> DEFINE v == [number |-> Len(versions[d]) + 1, supersedes |-> Len(versions[d]),
                 status |-> "DRAFT", by |-> txn[c].op]
           place == Len(versions[d]) + 1
<1>2. /\ v \in VersionType /\ versions[d] \in Seq(VersionType)
      /\ place \in 1..MaxVersions
      /\ versions'[d] = Append(versions[d], v)
      /\ document'[d] = [state |-> "active", current |-> place]
      /\ Others(d) /\ requested' = requested
  BY <1>1, SelectNewVersionRows
<1>3. v.number = place /\ v.supersedes = Len(versions[d])
  OBVIOUS
<1> HIDE DEF v
<1>4. Append(versions[d], v) \in Seq(VersionType) /\ Len(versions'[d]) = place
  BY <1>2
<1>5. TypeOK'
  <2>1. versions' \in [Documents -> Seq(VersionType)]
    BY <1>2, <1>4 DEF IInv, TypeOK, SelectNewVersion, Others
  <2>2. document' \in [Documents -> [state : {"absent", "active", "removed"},
                                     current : 0..MaxVersions]]
    BY <1>1, <1>2 DEF IInv, TypeOK, SelectNewVersion
  <2>3. audit' \in [Documents -> [before : DtoType, after : DtoType]]
    <3>1. txn[c].read \in DtoType
      BY DEF IInv, TypeOK
    <3>2. [state |-> "active", current |-> place, status |-> "DRAFT"] \in DtoType
      BY <1>2 DEF DtoType, Statuses
    <3> QED
      BY <1>1, <3>1, <3>2 DEF IInv, TypeOK, SelectNewVersion, Audited
  <2>4. txn' \in [Calls -> TxnType]
    BY IdleTyped DEF IInv, TypeOK, SelectNewVersion, End, TxnType
  <2> QED
    BY <1>2, <2>1, <2>2, <2>3, <2>4 DEF IInv, TypeOK, TxnType, SelectNewVersion
<1>6. LineOK(d)'
  <2>1. \A i \in 1..Len(versions[d]) : versions'[d][i] = versions[d][i]
    BY <1>2
  <2>2. versions'[d][place] = v
    BY <1>2
  <2>3. \A i \in 1..Len(versions[d]) : /\ versions[d][i].number = i
                                       /\ versions[d][i].supersedes = i - 1
    BY DEF IInv, DocumentsOK, LineOK
  <2> QED
    BY <1>2, <1>3, <1>4, <2>1, <2>2, <2>3 DEF LineOK
<1>7. RowOK(d)'
  BY <1>2, <1>4 DEF RowOK
<1>8. Writes(c, d) /\ End(c)
  BY <1>1, StagedFacts DEF DocumentOps, SelectNewVersion
<1> QED
  BY <1>2, <1>5, <1>6, <1>7, <1>8, CommitStep DEF Others

(* An approval replaces the status of the current version. *)
LEMMA ApproveRows ==
  ASSUME IInv, NEW c \in Calls, Approve(c), NEW d \in Documents, d = txn[c].row
  PROVE  /\ versions[d] \in Seq(VersionType) /\ versions'[d] \in Seq(VersionType)
         /\ Len(versions[d]) \in Nat \ {0} /\ document[d].current = Len(versions[d])
         /\ Len(versions'[d]) = Len(versions[d])
         /\ \A i \in 1..Len(versions[d]) :
              /\ versions'[d][i].number = versions[d][i].number
              /\ versions'[d][i].supersedes = versions[d][i].supersedes
              /\ versions'[d][i].by = versions[d][i].by
              /\ versions'[d][i].status = IF i = Len(versions[d]) THEN "APPROVED"
                                          ELSE versions[d][i].status
         /\ \A e \in Documents \ {d} : versions'[e] = versions[e]
         /\ versions' \in [Documents -> Seq(VersionType)]
<1>1. /\ txn[c].read = Dto(d) /\ Len(versions[d]) # 0
      /\ txn[c].pc = "staged" /\ txn[c].op = "approve"
  BY StagedFacts DEF Approve, Staged, DocumentOps
<1>2. /\ versions[d] \in Seq(VersionType) /\ Len(versions[d]) \in Nat \ {0}
      /\ document[d].current = Len(versions[d])
  BY <1>1 DEF IInv, TypeOK, DocumentsOK, LineOK
<1> DEFINE k == Len(versions[d])
           w == [versions[d][k] EXCEPT !.status = "APPROVED"]
<1>3. txn[c].read.current = k
  BY <1>1, <1>2 DEF Dto
<1>4. k \in 1..Len(versions[d]) /\ versions[d][k] \in VersionType
  BY <1>2
<1>5. w \in VersionType
  BY <1>4 DEF VersionType, Statuses
<1>6. /\ w.number = versions[d][k].number /\ w.supersedes = versions[d][k].supersedes
       /\ w.by = versions[d][k].by /\ w.status = "APPROVED"
  BY <1>4 DEF VersionType
<1> HIDE DEF w
<1>7. versions' = [versions EXCEPT ![d] = [versions[d] EXCEPT ![k] = w]]
  BY <1>3 DEF Approve, w
<1>8. versions'[d] = [versions[d] EXCEPT ![k] = w]
  BY <1>7 DEF IInv, TypeOK
<1>9. /\ versions'[d] \in Seq(VersionType) /\ Len(versions'[d]) = Len(versions[d])
      /\ \A i \in 1..Len(versions[d]) : versions'[d][i] = IF i = k THEN w ELSE versions[d][i]
  BY <1>2, <1>4, <1>5, <1>8, ExceptSeq
<1>10. /\ versions' \in [Documents -> Seq(VersionType)]
      /\ \A e \in Documents \ {d} : versions'[e] = versions[e]
  BY <1>7, <1>8, <1>9 DEF IInv, TypeOK
<1> QED
  BY <1>2, <1>9, <1>10, <1>6

LEMMA ApproveStep == ASSUME IInv, NEW c \in Calls, Approve(c) PROVE IInv'
<1>1. PICK d \in Documents : d = txn[c].row
  BY StagedFacts DEF DocumentOps, Approve, Staged
<1>2. /\ Writes(c, d) /\ txn[c].read = Dto(d) /\ document[d].state = "active"
  BY <1>1, StagedFacts DEF DocumentOps, Approve, Staged
<1>3. /\ End(c) /\ UNCHANGED <<candidate, document, requested>>
      /\ audit' = [audit EXCEPT ![d] = [before |-> txn[c].read,
                                        after |-> [txn[c].read EXCEPT !.status = "APPROVED"]]]
  BY <1>1 DEF Approve, Audited
<1>4. TypeOK'
  <2>1. txn[c].read \in DtoType
    BY DEF IInv, TypeOK
  <2>2. [txn[c].read EXCEPT !.status = "APPROVED"] \in DtoType
    BY <2>1 DEF DtoType, Statuses
  <2>3. audit' \in [Documents -> [before : DtoType, after : DtoType]]
    BY <1>3, <2>1, <2>2 DEF IInv, TypeOK
  <2>4. txn' \in [Calls -> TxnType]
    BY <1>3, IdleTyped DEF IInv, TypeOK, End, TxnType
  <2> QED
    BY <1>1, <1>3, <2>3, <2>4, ApproveRows DEF IInv, TypeOK, TxnType
<1>5. LineOK(d)' /\ RowOK(d)'
  <2>1. LineOK(d) /\ RowOK(d)
    BY DEF IInv, DocumentsOK
  <2> QED
    BY <1>1, <1>3, <2>1, ApproveRows DEF LineOK, RowOK
<1> QED
  BY <1>1, <1>2, <1>3, <1>4, <1>5, ApproveRows, CommitStep

LEMMA RemoveDocumentStep == ASSUME IInv, NEW c \in Calls, RemoveDocument(c) PROVE IInv'
<1>1. PICK d \in Documents : d = txn[c].row
  BY StagedFacts DEF DocumentOps, RemoveDocument, Staged
<1>2. /\ Writes(c, d) /\ txn[c].read = Dto(d) /\ document[d].state = "active"
  BY <1>1, StagedFacts DEF DocumentOps, RemoveDocument, Staged
<1>3. /\ End(c) /\ UNCHANGED <<candidate, versions, requested>>
      /\ document' = [document EXCEPT ![d].state = "removed"]
      /\ audit' = [audit EXCEPT ![d] = [before |-> txn[c].read,
                                        after |-> [txn[c].read EXCEPT !.state = "removed"]]]
  BY <1>1 DEF RemoveDocument, Audited
<1>4. TypeOK'
  <2>1. txn[c].read \in DtoType
    BY DEF IInv, TypeOK
  <2>2. [txn[c].read EXCEPT !.state = "removed"] \in DtoType
    BY <2>1 DEF DtoType
  <2>3. audit' \in [Documents -> [before : DtoType, after : DtoType]]
    BY <1>3, <2>1, <2>2 DEF IInv, TypeOK
  <2>4. txn' \in [Calls -> TxnType]
    BY <1>3, IdleTyped DEF IInv, TypeOK, End, TxnType
  <2>5. document' \in [Documents -> [state : {"absent", "active", "removed"},
                                     current : 0..MaxVersions]]
    BY <1>3 DEF IInv, TypeOK
  <2> QED
    BY <1>3, <2>3, <2>4, <2>5 DEF IInv, TypeOK, TxnType
<1>5. document'[d].state = "removed" /\ document'[d].current = document[d].current
  BY <1>3 DEF IInv, TypeOK
<1>6. LineOK(d)' /\ RowOK(d)'
  BY <1>2, <1>3, <1>5 DEF IInv, DocumentsOK, LineOK, RowOK
<1>7. \A e \in Documents \ {d} : document'[e] = document[e]
  BY <1>3 DEF IInv, TypeOK
<1> QED
  BY <1>2, <1>3, <1>4, <1>6, <1>7, CommitStep

LEMMA RequestVerificationStep ==
  ASSUME IInv, NEW c \in Calls, RequestVerification(c) PROVE IInv'
<1>1. PICK d \in Documents : d = txn[c].row
  BY StagedFacts DEF DocumentOps, RequestVerification, Staged
<1>2. /\ Writes(c, d) /\ txn[c].read = Dto(d) /\ Len(versions[d]) # 0
  BY <1>1, StagedFacts DEF DocumentOps, RequestVerification, Staged
<1>3. /\ End(c) /\ UNCHANGED <<candidate, document, versions, audit>>
      /\ requested' = [requested EXCEPT ![d] = @ \cup {txn[c].read.current}]
  BY <1>1 DEF RequestVerification
<1>4. txn[c].read.current \in 1..MaxVersions
  <2>1. document[d].current \in 0..MaxVersions /\ document[d].current = Len(versions[d])
    BY DEF IInv, TypeOK, DocumentsOK, LineOK
  <2> QED
    BY <1>2, <2>1, MaxVersionsAssumption DEF Dto
<1>5. TypeOK'
  <2>1. txn' \in [Calls -> TxnType]
    BY <1>3, IdleTyped DEF IInv, TypeOK, End, TxnType
  <2>2. requested' \in [Documents -> SUBSET (1..MaxVersions)]
    BY <1>3, <1>4 DEF IInv, TypeOK
  <2> QED
    BY <1>3, <2>1, <2>2 DEF IInv, TypeOK, TxnType
<1>6. LineOK(d)' /\ RowOK(d)'
  BY <1>3 DEF IInv, DocumentsOK, LineOK, RowOK
<1>7. \A e \in Documents \ {d} : requested'[e] = requested[e]
  BY <1>3 DEF IInv, TypeOK
<1> QED
  BY <1>2, <1>3, <1>5, <1>6, <1>7, CommitStep

-----------------------------------------------------------------------------

LEMMA InvStep == IInv /\ [Next]_vars => IInv'
<1> SUFFICES ASSUME IInv, [Next]_vars PROVE IInv'
  OBVIOUS
<1>1. CASE UNCHANGED vars
  <2>1. Unwritten /\ UNCHANGED <<candidate, audit, txn>>
    BY <1>1 DEF vars, Unwritten
  <2>2. TypeOK' /\ DocumentsOK' /\ OneWriter'
    BY <2>1 DEF Unwritten, IInv, TypeOK, DocumentsOK, LineOK, RowOK, OneWriter, Writes,
                HoldsDocument
  <2>3. ASSUME NEW b \in Calls PROVE TxnOK(b)'
    <3>1. TxnOK(b)
      BY DEF IInv, TxnsOK
    <3>2. \A op \in Ops, d \in Documents : Knows(b, op, d) => Knows(b, op, d)'
      BY <2>1, DtoUnwritten DEF Knows, Unwritten
    <3> QED
      BY <2>1, <3>1, <3>2 DEF TxnOK
  <2> QED
    BY <2>2, <2>3 DEF IInv, TxnsOK
<1>2. CASE Next
  <2>1. PICK c \in Calls :
          \/ Begin(c)
          \/ LockDocument(c) \/ ReadCurrent(c)
          \/ AddVersion(c) \/ Approve(c) \/ Correct(c) \/ RemoveDocument(c)
          \/ RequestVerification(c)
          \/ RequireCandidate(c) \/ InsertDocument(c) \/ Create(c)
          \/ LockCandidate(c) \/ RemoveCandidate(c)
          \/ Rollback(c)
    BY <1>2 DEF Next
  <2>2. CASE Begin(c) \/ LockDocument(c) \/ ReadCurrent(c)
    BY <2>2, BeginStep, LockDocumentStep, ReadCurrentStep
  <2>3. CASE AddVersion(c) \/ Correct(c) \/ Create(c)
    BY <2>3, SelectNewVersionStep DEF AddVersion, Correct, Create, Staged
  <2>4. CASE Approve(c) \/ RemoveDocument(c) \/ RequestVerification(c)
    BY <2>4, ApproveStep, RemoveDocumentStep, RequestVerificationStep
  <2>5. CASE Rollback(c)
    BY <2>5, EndStep DEF Rollback, Rows, Unwritten, IInv, TypeOK
  <2>6. CASE RequireCandidate(c)
    <3>1. UNCHANGED Rows /\ txn[c].op = "create" /\ txn[c].pc = "begun"
      BY <2>6 DEF RequireCandidate
    <3>2. CASE Goto(c, "checked")
      BY <3>1, <3>2, GotoStep
    <3>3. CASE End(c)
      BY <3>1, <3>3, EndStep DEF Rows, Unwritten, IInv, TypeOK
    <3> QED
      BY <2>6, <3>2, <3>3 DEF RequireCandidate
  <2>7. CASE InsertDocument(c)
    <3>1. TxnOK(c)
      BY DEF IInv, TxnsOK
    <3> QED
      BY <2>7, <3>1, GotoStep DEF InsertDocument, TxnOK
  <2>8. CASE LockCandidate(c)
    <3>1. UNCHANGED Rows /\ txn[c].op = "removeCandidate" /\ txn[c].pc = "begun"
      BY <2>8 DEF LockCandidate
    <3>2. CASE Goto(c, "staged")
      BY <3>1, <3>2, GotoStep
    <3>3. CASE End(c)
      BY <3>1, <3>3, EndStep DEF Rows, Unwritten, IInv, TypeOK
    <3> QED
      BY <2>8, <3>2, <3>3 DEF LockCandidate
  <2>9. CASE RemoveCandidate(c)
    <3>1. candidate' \in [Candidates -> {"active", "removed"}]
      BY <2>9 DEF RemoveCandidate, IInv, TypeOK
    <3> QED
      BY <2>9, <3>1, EndStep DEF RemoveCandidate, Unwritten
  <2> QED
    BY <2>1, <2>2, <2>3, <2>4, <2>5, <2>6, <2>7, <2>8, <2>9
<1> QED
  BY <1>1, <1>2

LEMMA Invariance == Spec => []IInv
<1> QED
  BY InvInit, InvStep, PTL DEF Spec

-----------------------------------------------------------------------------
(* What one step does to one document. *)

Kept(d) == /\ document'[d] = document[d] /\ versions'[d] = versions[d]
           /\ requested'[d] = requested[d] /\ audit'[d] = audit[d]

Last(d) == versions[d][Len(versions[d])]

(* A new version, with the origin its predecessor justifies. *)
Appended(d) ==
  /\ Len(versions'[d]) = Len(versions[d]) + 1
  /\ \A i \in 1..Len(versions[d]) : versions'[d][i] = versions[d][i]
  /\ requested'[d] = requested[d]
  /\ document[d].state # "removed"
  /\ versions'[d][Len(versions[d]) + 1].by = "create" <=> Len(versions[d]) = 0
  /\ Len(versions[d]) # 0 =>
       (versions'[d][Len(versions[d]) + 1].by = "correct" <=> Last(d).status = "APPROVED")

Approved(d) ==
  /\ Len(versions[d]) # 0 /\ Len(versions'[d]) = Len(versions[d])
  /\ \A i \in 1..Len(versions[d]) :
       /\ versions'[d][i].number = versions[d][i].number
       /\ versions'[d][i].supersedes = versions[d][i].supersedes
       /\ versions'[d][i].by = versions[d][i].by
       /\ versions'[d][i].status = IF i = Len(versions[d]) THEN "APPROVED"
                                   ELSE versions[d][i].status
  /\ document[d].state = "active" /\ document'[d] = document[d]
  /\ requested'[d] = requested[d]

Removed(d) == /\ document[d].state = "active" /\ document'[d].state = "removed"
              /\ versions'[d] = versions[d] /\ requested'[d] = requested[d]

Requested(d) ==
  /\ d \in RightToWork /\ document[d].state = "active" /\ Len(versions[d]) # 0
  /\ Last(d).status = "APPROVED"
  /\ requested'[d] = requested[d] \cup {Len(versions[d])}
  /\ document'[d] = document[d] /\ versions'[d] = versions[d] /\ audit'[d] = audit[d]

Told(d) == audit'[d] = [before |-> Dto(d), after |-> Dto(d)']

Change(d) == \/ Kept(d)
             \/ Appended(d) /\ Told(d)
             \/ Approved(d) /\ Told(d)
             \/ Removed(d) /\ Told(d)
             \/ Requested(d)

LEMMA LastIsCurrent ==
  ASSUME IInv, NEW d \in Documents, Len(versions[d]) # 0
  PROVE  Last(d).status = Dto(d).status /\ Dto(d).status \in Statuses
<1>1. /\ versions[d] \in Seq(VersionType) /\ document[d].current = Len(versions[d])
      /\ Len(versions[d]) \in 1..Len(versions[d])
  BY DEF IInv, TypeOK, DocumentsOK, LineOK
<1>2. Last(d) \in VersionType
  BY <1>1 DEF Last
<1> QED
  BY <1>1, <1>2 DEF Last, Dto, VersionType

LEMMA SelectNewVersionChange ==
  ASSUME IInv, NEW c \in Calls, txn[c].pc = "staged",
         txn[c].op \in {"create", "addVersion", "correct"}, SelectNewVersion(c)
  PROVE  \A e \in Documents : Change(e)
<1>1. PICK d \in Documents : d = txn[c].row
  BY StagedFacts DEF DocumentOps
<1> DEFINE v == [number |-> Len(versions[d]) + 1, supersedes |-> Len(versions[d]),
                 status |-> "DRAFT", by |-> txn[c].op]
<1>2. /\ v \in VersionType /\ versions[d] \in Seq(VersionType)
      /\ versions'[d] = Append(versions[d], v)
      /\ Told(d) /\ Others(d) /\ requested' = requested
  BY <1>1, SelectNewVersionRows DEF Told
<1>3. v.by = txn[c].op
  OBVIOUS
<1> HIDE DEF v
<1>4. /\ Len(versions'[d]) = Len(versions[d]) + 1
      /\ \A i \in 1..Len(versions[d]) : versions'[d][i] = versions[d][i]
      /\ versions'[d][Len(versions[d]) + 1].by = txn[c].op
  BY <1>2, <1>3
<1>5. /\ txn[c].op = "create" => document[d].state = "absent" /\ Len(versions[d]) = 0
      /\ txn[c].op # "create" => /\ document[d].state = "active" /\ Len(versions[d]) # 0
                                 /\ Allowed(txn[c].op, d)
  BY <1>1, StagedFacts DEF DocumentOps
<1>6. ASSUME Len(versions[d]) # 0
      PROVE  txn[c].op = "correct" <=> Last(d).status = "APPROVED"
  <2>1. Last(d).status = Dto(d).status
    BY <1>6, LastIsCurrent
  <2>2. CASE txn[c].op = "correct"
    BY <1>5, <2>1, <2>2 DEF Allowed
  <2>3. CASE txn[c].op = "addVersion"
    BY <1>5, <2>1, <2>3 DEF Allowed
  <2> QED
    BY <1>5, <1>6, <2>2, <2>3
<1>7. Appended(d)
  BY <1>2, <1>4, <1>5, <1>6 DEF Appended
<1> QED
  BY <1>2, <1>7 DEF Change, Others, Kept

LEMMA ApproveChange ==
  ASSUME IInv, NEW c \in Calls, Approve(c) PROVE \A e \in Documents : Change(e)
<1>1. PICK d \in Documents : d = txn[c].row
  BY StagedFacts DEF DocumentOps, Approve, Staged
<1>2. /\ txn[c].read = Dto(d) /\ document[d].state = "active"
      /\ UNCHANGED <<document, requested>>
  BY <1>1, StagedFacts DEF DocumentOps, Approve, Staged
<1>3. audit' = [audit EXCEPT ![d] = [before |-> Dto(d),
                                     after |-> [Dto(d) EXCEPT !.status = "APPROVED"]]]
  BY <1>1, <1>2 DEF Approve, Audited
<1>4. /\ document[d].current = Len(versions[d]) /\ Len(versions[d]) \in Nat \ {0}
      /\ versions'[d][Len(versions[d])].status = "APPROVED"
  BY <1>1, ApproveRows
<1>5. Dto(d)' = [Dto(d) EXCEPT !.status = "APPROVED"]
  BY <1>2, <1>4 DEF Dto
<1>6. Told(d) /\ Others(d)
  BY <1>1, <1>2, <1>3, <1>5, ApproveRows DEF IInv, TypeOK, Others, Told
<1>7. Approved(d)
  BY <1>1, <1>2, <1>4, ApproveRows DEF Approved
<1> QED
  BY <1>6, <1>7 DEF Change, Others, Kept

LEMMA RemoveDocumentChange ==
  ASSUME IInv, NEW c \in Calls, RemoveDocument(c) PROVE \A e \in Documents : Change(e)
<1>1. PICK d \in Documents : d = txn[c].row
  BY StagedFacts DEF DocumentOps, RemoveDocument, Staged
<1>2. /\ txn[c].read = Dto(d) /\ document[d].state = "active"
      /\ UNCHANGED <<versions, requested>>
  BY <1>1, StagedFacts DEF DocumentOps, RemoveDocument, Staged
<1>3. /\ document' = [document EXCEPT ![d].state = "removed"]
      /\ audit' = [audit EXCEPT ![d] = [before |-> Dto(d),
                                        after |-> [Dto(d) EXCEPT !.state = "removed"]]]
  BY <1>1, <1>2 DEF RemoveDocument, Audited
<1>4. document'[d].state = "removed" /\ document'[d].current = document[d].current
  BY <1>3 DEF IInv, TypeOK
<1>5. Dto(d)' = [Dto(d) EXCEPT !.state = "removed"]
  BY <1>2, <1>4 DEF Dto
<1>6. Told(d) /\ Others(d) /\ Removed(d)
  BY <1>2, <1>3, <1>4, <1>5 DEF IInv, TypeOK, Others, Told, Removed
<1> QED
  BY <1>6 DEF Change, Others, Kept

LEMMA RequestVerificationChange ==
  ASSUME IInv, NEW c \in Calls, RequestVerification(c) PROVE \A e \in Documents : Change(e)
<1>1. PICK d \in Documents : d = txn[c].row
  BY StagedFacts DEF DocumentOps, RequestVerification, Staged
<1>2. /\ txn[c].read = Dto(d) /\ document[d].state = "active" /\ Len(versions[d]) # 0
      /\ Allowed("requestVerification", d) /\ UNCHANGED <<document, versions, audit>>
  BY <1>1, StagedFacts DEF DocumentOps, RequestVerification, Staged
<1>3. d \in RightToWork /\ Last(d).status = "APPROVED"
  BY <1>2, LastIsCurrent DEF Allowed
<1>4. Dto(d).current = Len(versions[d])
  BY DEF IInv, DocumentsOK, LineOK, Dto
<1>5. requested' = [requested EXCEPT ![d] = @ \cup {Len(versions[d])}]
  BY <1>1, <1>2, <1>4 DEF RequestVerification
<1>6. Requested(d) /\ Others(d)
  BY <1>2, <1>3, <1>5 DEF IInv, TypeOK, Requested, Others
<1> QED
  BY <1>6 DEF Change, Others, Kept

LEMMA StepChanges == ASSUME IInv, [Next]_vars PROVE \A d \in Documents : Change(d)
<1>1. ASSUME UNCHANGED <<document, versions, requested, audit>>
      PROVE  \A d \in Documents : Change(d)
  BY <1>1 DEF Change, Kept
<1>2. CASE UNCHANGED vars
  BY <1>1, <1>2 DEF vars
<1>3. ASSUME NEW c \in Calls, AddVersion(c) \/ Correct(c) \/ Create(c)
      PROVE  \A d \in Documents : Change(d)
  BY <1>3, SelectNewVersionChange DEF AddVersion, Correct, Create, Staged
<1>4. CASE Next
  BY <1>1, <1>3, <1>4, ApproveChange, RemoveDocumentChange, RequestVerificationChange
  DEF Next, Begin, LockDocument, ReadCurrent, RequireCandidate, InsertDocument,
      LockCandidate, RemoveCandidate, Rollback, Rows
<1> QED
  BY <1>2, <1>4

-----------------------------------------------------------------------------
(* What the history of the documents has led to. *)

(* The audit event that came last shows the document as it is. *)
LedgerIsCurrent == \A d \in Documents : audit[d].after = Dto(d)

HInv == OriginsAreJustified /\ RequestsAreForApproved /\ LedgerIsCurrent

LEMMA HInvInit == Init => HInv
<1> SUFFICES ASSUME Init PROVE HInv
  OBVIOUS
<1>1. \A d \in Documents : versions[d] = <<>> /\ requested[d] = {}
  BY DEF Init
<1>2. LedgerIsCurrent
  BY DEF Init, LedgerIsCurrent, Dto, Absent
<1> QED
  BY <1>1, <1>2 DEF HInv, OriginsAreJustified, RequestsAreForApproved

LEMMA HInvStep == IInv /\ HInv /\ [Next]_vars => HInv'
<1> SUFFICES ASSUME IInv, HInv, [Next]_vars, NEW d \in Documents
             PROVE  /\ \A i \in 1..Len(versions'[d]) :
                         /\ versions'[d][i].by = "create" <=> i = 1
                         /\ i > 1 => (versions'[d][i].by = "correct" <=>
                                        versions'[d][i - 1].status = "APPROVED")
                    /\ \A n \in requested'[d] : /\ d \in RightToWork
                                                /\ n \in 1..Len(versions'[d])
                                                /\ versions'[d][n].status = "APPROVED"
                    /\ audit'[d].after = Dto(d)'
  BY DEF HInv, OriginsAreJustified, RequestsAreForApproved, LedgerIsCurrent
<1>1. /\ \A i \in 1..Len(versions[d]) :
           /\ versions[d][i].by = "create" <=> i = 1
           /\ i > 1 => (versions[d][i].by = "correct" <=>
                          versions[d][i - 1].status = "APPROVED")
      /\ \A n \in requested[d] : /\ d \in RightToWork
                                 /\ n \in 1..Len(versions[d])
                                 /\ versions[d][n].status = "APPROVED"
      /\ audit[d].after = Dto(d)
  BY DEF HInv, OriginsAreJustified, RequestsAreForApproved, LedgerIsCurrent
<1>2. Len(versions[d]) \in Nat
  BY DEF IInv, TypeOK
<1>3. CASE Kept(d)
  BY <1>1, <1>3 DEF Kept, Dto
<1>4. CASE Appended(d) /\ Told(d)
  <2>1. ASSUME NEW i \in 1..Len(versions'[d])
        PROVE  /\ versions'[d][i].by = "create" <=> i = 1
               /\ i > 1 => (versions'[d][i].by = "correct" <=>
                              versions'[d][i - 1].status = "APPROVED")
    <3>1. CASE i \in 1..Len(versions[d])
      <4>1. i > 1 => i - 1 \in 1..Len(versions[d])
        BY <1>2, <3>1
      <4> QED
        BY <1>1, <1>4, <3>1, <4>1 DEF Appended
    <3>2. CASE i = Len(versions[d]) + 1
      <4>1. i > 1 => /\ Len(versions[d]) # 0 /\ i - 1 = Len(versions[d])
                     /\ i - 1 \in 1..Len(versions[d])
        BY <1>2, <3>2
      <4>2. i = 1 <=> Len(versions[d]) = 0
        BY <1>2, <3>2
      <4> QED
        BY <1>4, <3>2, <4>1, <4>2 DEF Appended, Last
    <3> QED
      BY <1>2, <1>4, <3>1, <3>2 DEF Appended
  <2>2. 1..Len(versions[d]) \subseteq 1..Len(versions'[d])
    BY <1>2, <1>4 DEF Appended
  <2> QED
    BY <1>1, <1>4, <2>1, <2>2 DEF Appended, Told
<1>5. CASE Approved(d) /\ Told(d)
  <2>1. ASSUME NEW i \in 1..Len(versions[d]), i > 1
        PROVE  versions'[d][i - 1].status = versions[d][i - 1].status
    <3>1. i - 1 \in 1..Len(versions[d]) /\ i - 1 # Len(versions[d])
      BY <1>2, <2>1
    <3> QED
      BY <1>5, <3>1 DEF Approved
  <2> QED
    BY <1>1, <1>5, <2>1 DEF Approved, Told
<1>6. CASE Removed(d) /\ Told(d)
  BY <1>1, <1>6 DEF Removed, Told
<1>7. CASE Requested(d)
  <2>1. Len(versions[d]) \in 1..Len(versions[d])
    BY <1>2, <1>7 DEF Requested
  <2> QED
    BY <1>1, <1>7, <2>1 DEF Requested, Last, Dto
<1> QED
  BY <1>3, <1>4, <1>5, <1>6, <1>7, StepChanges DEF Change

LEMMA Histories == Spec => []HInv
<1> QED
  BY HInvInit, HInvStep, Invariance, PTL DEF Spec

(* Whatever transactions do to the rows of a document, the rows keep their *)
(* types and its versions form a line, so that                             *)
(* addComplianceDocumentVersion may take the next number from the count of *)
(* those it found; a version that follows an approved one is a correction  *)
(* and no other is; and verification was requested of approved versions.   *)
THEOREM VersionsAreALine == Spec => []DocumentsInv
<1>1. IInv /\ HInv => DocumentsInv
  BY DEF IInv, DocumentsOK, LineOK, HInv, DocumentsInv, VersionsFormALine
<1> QED
  BY <1>1, Invariance, Histories, PTL

(* Every change of a document is told by its audit event, as it was when   *)
(* the transaction found it and as it is when it commits, whatever the     *)
(* other transactions did meanwhile.                                       *)
THEOREM AuditIsTrue == Spec => AuditTellsTheTruth
<1>1. IInv /\ [Next]_vars =>
        [\A d \in Documents :
           audit'[d] # audit[d] \/ Dto(d)' # Dto(d) =>
             audit'[d] = [before |-> Dto(d), after |-> Dto(d)']]_vars
  <2> SUFFICES ASSUME IInv, [Next]_vars, NEW d \in Documents,
                      audit'[d] # audit[d] \/ Dto(d)' # Dto(d)
               PROVE  audit'[d] = [before |-> Dto(d), after |-> Dto(d)']
    OBVIOUS
  <2>1. Change(d)
    BY StepChanges
  <2> QED
    BY <2>1 DEF Change, Kept, Requested, Told, Dto
<1> QED
  BY <1>1, Invariance, PTL DEF Spec, AuditTellsTheTruth

(* The audit events of a document form a chain: each begins with the state *)
(* that the one before it ended with, so none is missing between them.     *)
THEOREM AuditEventsFormAChain ==
  Spec => [][\A d \in Documents :
               audit'[d] # audit[d] => audit'[d].before = audit[d].after]_vars
<1>1. IInv /\ HInv /\ [Next]_vars =>
        [\A d \in Documents :
           audit'[d] # audit[d] => audit'[d].before = audit[d].after]_vars
  <2> SUFFICES ASSUME IInv, HInv, [Next]_vars, NEW d \in Documents, audit'[d] # audit[d]
               PROVE  audit'[d].before = audit[d].after
    OBVIOUS
  <2>1. Change(d) /\ audit[d].after = Dto(d)
    BY StepChanges DEF HInv, LedgerIsCurrent
  <2> QED
    BY <2>1 DEF Change, Kept, Requested, Told
<1> QED
  BY <1>1, Invariance, Histories, PTL DEF Spec

(* An approved version never changes again, and neither does any version   *)
(* that is not the last: the row locks see to it, without the trigger that *)
(* forbids it.                                                             *)
THEOREM ApprovedVersionsStay ==
  Spec => [][\A d \in Documents : \A i \in 1..Len(versions[d]) :
               versions[d][i].status = "APPROVED" \/ i < Len(versions[d]) =>
                 versions'[d][i] = versions[d][i]]_vars
<1> DEFINE Stays(d) == \A i \in 1..Len(versions[d]) :
             versions[d][i].status = "APPROVED" \/ i < Len(versions[d]) =>
               versions'[d][i] = versions[d][i]
<1>1. ASSUME IInv, IInv', NEW d \in Documents, Change(d) PROVE Stays(d)
  <2>1. /\ versions[d] \in Seq(VersionType) /\ versions'[d] \in Seq(VersionType)
        /\ Len(versions[d]) \in Nat
    BY <1>1 DEF IInv, TypeOK
  <2>2. CASE Kept(d) \/ Appended(d) \/ Removed(d) \/ Requested(d)
    BY <2>2 DEF Kept, Appended, Removed, Requested
  <2>3. CASE Approved(d)
    <3> SUFFICES ASSUME NEW i \in 1..Len(versions[d]),
                        versions[d][i].status = "APPROVED" \/ i < Len(versions[d])
                 PROVE  versions'[d][i] = versions[d][i]
      OBVIOUS
    <3>1. versions[d][i] \in VersionType /\ versions'[d][i] \in VersionType
      BY <2>1, <2>3 DEF Approved
    <3>2. /\ versions'[d][i].number = versions[d][i].number
          /\ versions'[d][i].supersedes = versions[d][i].supersedes
          /\ versions'[d][i].by = versions[d][i].by
          /\ versions'[d][i].status = versions[d][i].status
      BY <2>1, <2>3 DEF Approved
    <3> QED
      BY <3>1, <3>2 DEF VersionType
  <2> QED
    BY <1>1, <2>2, <2>3 DEF Change
<1>2. IInv /\ IInv' /\ [Next]_vars =>
        [\A d \in Documents : \A i \in 1..Len(versions[d]) :
           versions[d][i].status = "APPROVED" \/ i < Len(versions[d]) =>
             versions'[d][i] = versions[d][i]]_vars
  BY <1>1, StepChanges
<1> QED
  BY <1>2, Invariance, PTL DEF Spec

(* A removed document is never written again, not even by a transaction    *)
(* that waited for the removal to commit, and its last audit event stays   *)
(* that of the removal.                                                    *)
THEOREM RemovedDocumentsStay ==
  Spec => [][\A d \in Documents : document[d].state = "removed" =>
               /\ document'[d] = document[d] /\ versions'[d] = versions[d]
               /\ requested'[d] = requested[d] /\ audit'[d] = audit[d]]_vars
<1>1. IInv /\ [Next]_vars =>
        [\A d \in Documents : document[d].state = "removed" =>
           /\ document'[d] = document[d] /\ versions'[d] = versions[d]
           /\ requested'[d] = requested[d] /\ audit'[d] = audit[d]]_vars
  <2> SUFFICES ASSUME IInv, [Next]_vars, NEW d \in Documents, document[d].state = "removed"
               PROVE  Kept(d)
    BY DEF Kept
  <2>1. Change(d)
    BY StepChanges
  <2> QED
    BY <2>1 DEF Change, Appended, Approved, Removed, Requested
<1> QED
  BY <1>1, Invariance, PTL DEF Spec

-----------------------------------------------------------------------------
(* What History sees of a document: its versions without their numbers.    *)

Shape(s) == [i \in 1..Len(s) |-> [status |-> s[i].status, by |-> s[i].by]]

Seen == [d \in Documents |-> Shape(versions[d])]

RemovedDocuments == {d \in Documents : document[d].state = "removed"}

RemovedCandidates == {p \in Candidates : candidate[p] = "removed"}

Admitted == {d \in Documents : \E c \in Calls : txn[c].row = d /\ HasLooked(c)}

ShapeType == [status : Statuses, by : {"create", "addVersion", "correct"}]

LEMMA ShapeSeq ==
  ASSUME NEW s \in Seq(VersionType)
  PROVE  /\ Shape(s) \in Seq(ShapeType) /\ Len(Shape(s)) = Len(s)
         /\ \A i \in 1..Len(s) : Shape(s)[i] = [status |-> s[i].status, by |-> s[i].by]
<1>1. ASSUME NEW i \in 1..Len(s) PROVE [status |-> s[i].status, by |-> s[i].by] \in ShapeType
  <2>1. s[i] \in VersionType
    OBVIOUS
  <2> QED
    BY <2>1 DEF VersionType, ShapeType
<1>2. Len(s) \in Nat
  OBVIOUS
<1>3. Shape(s) \in [1..Len(s) -> ShapeType]
  BY <1>1 DEF Shape
<1>4. Shape(s) \in Seq(ShapeType) /\ DOMAIN Shape(s) = 1..Len(s)
  BY <1>2, <1>3
<1> QED
  BY <1>2, <1>4 DEF Shape

LEMMA ShapeAppend ==
  ASSUME NEW s \in Seq(VersionType), NEW v \in VersionType
  PROVE  Shape(Append(s, v)) = Append(Shape(s), [status |-> v.status, by |-> v.by])
<1> DEFINE w == [status |-> v.status, by |-> v.by]
           t == Append(s, v)
           u == Append(Shape(s), w)
<1>1. /\ t \in Seq(VersionType) /\ Len(t) = Len(s) + 1 /\ t[Len(s) + 1] = v
      /\ \A i \in 1..Len(s) : t[i] = s[i]
  OBVIOUS
<1>2. w \in ShapeType
  BY DEF VersionType, ShapeType
<1>3. Shape(s) \in Seq(ShapeType) /\ Len(Shape(s)) = Len(s) /\ Len(s) \in Nat
  BY ShapeSeq
<1>4. /\ Shape(t) \in Seq(ShapeType) /\ Len(Shape(t)) = Len(s) + 1
      /\ \A i \in 1..Len(s) + 1 : Shape(t)[i] = [status |-> t[i].status, by |-> t[i].by]
  BY <1>1, ShapeSeq
<1> HIDE DEF w, t
<1>5. /\ u \in Seq(ShapeType) /\ Len(u) = Len(s) + 1 /\ u[Len(s) + 1] = w
      /\ \A i \in 1..Len(s) : u[i] = Shape(s)[i]
  BY <1>2, <1>3
<1>6. ASSUME NEW i \in 1..Len(s) + 1 PROVE Shape(t)[i] = u[i]
  <2>1. CASE i = Len(s) + 1
    BY <1>1, <1>3, <1>4, <1>5, <2>1 DEF w
  <2>2. CASE i \in 1..Len(s)
    BY <1>1, <1>3, <1>4, <1>5, <2>2, ShapeSeq
  <2> QED
    BY <1>3, <2>1, <2>2
<1>7. Shape(t) = u
  BY <1>4, <1>5, <1>6, SeqEqual
<1> QED
  BY <1>7 DEF t, w

LEMMA ShapeApprove ==
  ASSUME NEW s \in Seq(VersionType), NEW t \in Seq(VersionType), Len(s) \in Nat \ {0},
         Len(t) = Len(s),
         \A i \in 1..Len(s) : /\ t[i].by = s[i].by
                              /\ t[i].status = IF i = Len(s) THEN "APPROVED" ELSE s[i].status
  PROVE  Shape(t) = [Shape(s) EXCEPT ![Len(Shape(s))].status = "APPROVED"]
<1> DEFINE k == Len(s)
           w == [Shape(s)[k] EXCEPT !.status = "APPROVED"]
           u == [Shape(s) EXCEPT ![k] = w]
<1>1. /\ Shape(s) \in Seq(ShapeType) /\ Len(Shape(s)) = k
      /\ \A i \in 1..k : Shape(s)[i] = [status |-> s[i].status, by |-> s[i].by]
  BY ShapeSeq
<1>2. /\ Shape(t) \in Seq(ShapeType) /\ Len(Shape(t)) = k
      /\ \A i \in 1..k : Shape(t)[i] = [status |-> t[i].status, by |-> t[i].by]
  BY ShapeSeq
<1>3. w = [status |-> "APPROVED", by |-> s[k].by] /\ w \in ShapeType
  <2>1. k \in 1..k /\ s[k] \in VersionType
    OBVIOUS
  <2>2. Shape(s)[k] = [status |-> s[k].status, by |-> s[k].by]
    BY <1>1, <2>1
  <2>3. w = [status |-> "APPROVED", by |-> s[k].by]
    BY <2>2
  <2> QED
    BY <2>1, <2>3 DEF ShapeType, Statuses, VersionType
<1> HIDE DEF w
<1>4. /\ u \in Seq(ShapeType) /\ Len(u) = k
      /\ \A i \in 1..k : u[i] = IF i = k THEN w ELSE Shape(s)[i]
  BY <1>1, <1>3, ExceptSeq
<1> HIDE DEF u
<1>5. ASSUME NEW i \in 1..k PROVE Shape(t)[i] = u[i]
  <2>1. CASE i = k
    BY <1>2, <1>3, <1>4, <2>1
  <2>2. CASE i # k
    BY <1>1, <1>2, <1>4, <2>2
  <2> QED
    BY <2>1, <2>2
<1>6. Shape(t) = u
  BY <1>2, <1>4, <1>5, SeqEqual
<1> QED
  BY <1>1, <1>6 DEF w, u

(* A document that is written has versions, and its last one is current. *)
LEMMA SeenCurrent ==
  ASSUME IInv, NEW d \in Documents
  PROVE  /\ Seen[d] = Shape(versions[d]) /\ Len(Seen[d]) = Len(versions[d])
         /\ document[d].state = "absent" <=> Seen[d] = <<>>
         /\ Len(versions[d]) # 0 => Seen[d][Len(Seen[d])].status = Dto(d).status
         /\ Len(versions[d]) # 0 => Seen[d][Len(Seen[d])].status \in Statuses
         /\ Dto(d).current = Len(Seen[d])
<1>1. versions[d] \in Seq(VersionType) /\ LineOK(d) /\ RowOK(d)
  BY DEF IInv, TypeOK, DocumentsOK
<1>2. /\ Shape(versions[d]) \in Seq(ShapeType)
      /\ Len(Shape(versions[d])) = Len(versions[d]) /\ Len(versions[d]) \in Nat
      /\ \A i \in 1..Len(versions[d]) :
           Shape(versions[d])[i] = [status |-> versions[d][i].status, by |-> versions[d][i].by]
  BY <1>1, ShapeSeq
<1>3. Seen[d] = Shape(versions[d])
  BY DEF Seen
<1>4. Shape(versions[d]) = <<>> <=> Len(versions[d]) = 0
  BY <1>2
<1>5. ASSUME Len(versions[d]) # 0
      PROVE  /\ Shape(versions[d])[Len(versions[d])].status = versions[d][Len(versions[d])].status
             /\ Shape(versions[d])[Len(versions[d])] \in ShapeType
  <2>1. PICK k \in 1..Len(versions[d]) : k = Len(versions[d])
    BY <1>2, <1>5
  <2>2. Shape(versions[d])[k] = [status |-> versions[d][k].status, by |-> versions[d][k].by]
    BY <1>2
  <2>3. versions[d][k] \in VersionType
    BY <1>1
  <2>4. Shape(versions[d])[k] \in ShapeType
    BY <2>2, <2>3 DEF VersionType, ShapeType
  <2> QED
    BY <2>1, <2>2, <2>4
<1> QED
  BY <1>1, <1>2, <1>3, <1>4, <1>5 DEF LineOK, RowOK, Dto, ShapeType

(* A look at a candidate is by the one writer of a document, and ends with *)
(* its transaction.                                                        *)
LEMMA LookerWrites ==
  ASSUME NEW c \in Calls, HasLooked(c)
  PROVE  Writes(c, txn[c].row)
  BY DEF HasLooked, Writes, HoldsDocument

LEMMA LookEnds ==
  ASSUME IInv, NEW c \in Calls, NEW d \in Documents, txn[c].row = d, HasLooked(c), End(c)
  PROVE  d \in Admitted /\ Admitted' = Admitted \ {d}
<1>1. txn'[c] = Idle /\ \A b \in Calls \ {c} : txn'[b] = txn[b]
  BY DEF End, IInv, TypeOK
<1>2. ~HasLooked(c)'
  BY <1>1, NoneAssumption DEF HasLooked, Idle, Ops
<1>3. \A b \in Calls \ {c} : HasLooked(b)' <=> HasLooked(b)
  BY <1>1 DEF HasLooked
<1>4. \A b \in Calls \ {c} : HasLooked(b) => txn[b].row # d
  BY LookerWrites DEF IInv, OneWriter
<1> QED
  BY <1>1, <1>2, <1>3, <1>4 DEF Admitted

LEMMA LookBegins ==
  ASSUME IInv, NEW c \in Calls, NEW d \in Documents, Writes(c, d), ~HasLooked(c),
         txn[c].row = d, \A b \in Calls \ {c} : txn'[b] = txn[b],
         txn'[c].row = d, HasLooked(c)'
  PROVE  d \notin Admitted /\ Admitted' = Admitted \cup {d}
<1>1. \A b \in Calls \ {c} : HasLooked(b)' <=> HasLooked(b)
  BY DEF HasLooked
<1>2. \A b \in Calls \ {c} : HasLooked(b) => txn[b].row # d
  BY LookerWrites DEF IInv, OneWriter
<1> QED
  BY <1>1, <1>2 DEF Admitted

LEMMA LookStays ==
  ASSUME NEW c \in Calls, \A b \in Calls \ {c} : txn'[b] = txn[b],
         HasLooked(c)' <=> HasLooked(c), HasLooked(c) => txn'[c].row = txn[c].row
  PROVE  Admitted' = Admitted
<1>1. \A b \in Calls \ {c} : HasLooked(b)' <=> HasLooked(b)
  BY DEF HasLooked
<1> QED
  BY <1>1 DEF Admitted

(* The variables of History, in these terms. *)
LEMMA HistoryVars ==
  UNCHANGED <<Seen, RemovedDocuments, requested, RemovedCandidates, Admitted>>
    <=> UNCHANGED History!vars
  BY DEF History!vars, Seen, RemovedDocuments, RemovedCandidates, Admitted, Shape

LEMMA HistoryCommit ==
  ASSUME NEW d \in Documents
  PROVE  History!Commit(d) <=> /\ d \in Admitted /\ Admitted' = Admitted \ {d}
                               /\ RemovedCandidates' = RemovedCandidates
  BY DEF History!Commit, Admitted, RemovedCandidates

(* A transaction that ends has committed what it looked at its candidate for. *)
LEMMA Commits ==
  ASSUME IInv, NEW c \in Calls, NEW d \in Documents, txn[c].row = d, txn[c].pc = "staged",
         txn[c].op \in DocumentOps \cup {"create"}, End(c), candidate' = candidate
  PROVE  History!Commit(d)
<1>1. HasLooked(c)
  BY DEF HasLooked
<1>2. RemovedCandidates' = RemovedCandidates
  BY DEF RemovedCandidates
<1> QED
  BY <1>1, <1>2, LookEnds, HistoryCommit

(* The operations of History, in these terms. *)
LEMMA HistoryOps ==
  ASSUME NEW d \in Documents
  PROVE  /\ History!Active(d) <=> Seen[d] # <<>> /\ d \notin RemovedDocuments
         /\ History!Current(d) = Seen[d][Len(Seen[d])]
         /\ History!Create(d) <=> Seen[d] = <<>> /\ History!Draft(d, "create")
         /\ \A by : History!Draft(d, by) <=>
              /\ History!Commit(d)
              /\ Seen' = [Seen EXCEPT ![d] = Append(@, [status |-> "DRAFT", by |-> by])]
              /\ UNCHANGED <<RemovedDocuments, requested>>
<1>1. History!Active(d) <=> Seen[d] # <<>> /\ d \notin RemovedDocuments
  BY DEF History!Active, Seen, RemovedDocuments, Shape
<1>2. History!Current(d) = Seen[d][Len(Seen[d])]
  BY DEF History!Current, Seen, Shape
<1>3. History!Create(d) <=> Seen[d] = <<>> /\ History!Draft(d, "create")
  BY DEF History!Create, Seen, Shape
<1>4. \A by : History!Draft(d, by) <=>
              /\ History!Commit(d)
              /\ Seen' = [Seen EXCEPT ![d] = Append(@, [status |-> "DRAFT", by |-> by])]
              /\ UNCHANGED <<RemovedDocuments, requested>>
  BY DEF History!Draft, Seen, RemovedDocuments, Shape
<1> QED
  BY <1>1, <1>2, <1>3, <1>4

(* The steps that commit are the operations of History. *)
LEMMA NewVersionIsDraft ==
  ASSUME IInv, NEW c \in Calls, txn[c].pc = "staged",
         txn[c].op \in {"create", "addVersion", "correct"}, SelectNewVersion(c)
  PROVE  History!Next
<1>1. PICK d \in Documents : d = txn[c].row
  BY StagedFacts DEF DocumentOps
<1>2. /\ txn[c].op = "create" => Len(versions[d]) = 0 /\ document[d].state = "absent"
      /\ txn[c].op \in DocumentOps => /\ document[d].state = "active"
                                      /\ Allowed(txn[c].op, d) /\ Len(versions[d]) # 0
  BY <1>1, StagedFacts DEF DocumentOps
<1> DEFINE v == [number |-> Len(versions[d]) + 1, supersedes |-> Len(versions[d]),
                 status |-> "DRAFT", by |-> txn[c].op]
           w == [status |-> "DRAFT", by |-> txn[c].op]
<1>3. /\ v \in VersionType /\ versions[d] \in Seq(VersionType)
      /\ versions'[d] = Append(versions[d], v)
      /\ document'[d] = [state |-> "active", current |-> Len(versions[d]) + 1]
      /\ Others(d) /\ requested' = requested
  BY <1>1, SelectNewVersionRows
<1>4. Shape(versions'[d]) = Append(Shape(versions[d]), w)
  <2>1. Shape(Append(versions[d], v)) = Append(Shape(versions[d]), [status |-> v.status, by |-> v.by])
    BY <1>3, ShapeAppend
  <2> QED
    BY <1>3, <2>1
<1>5. Seen' = [Seen EXCEPT ![d] = Append(@, w)]
  BY <1>3, <1>4 DEF Seen, Others, Shape
<1>6. RemovedDocuments' = RemovedDocuments /\ d \notin RemovedDocuments
  BY <1>2, <1>3 DEF RemovedDocuments, Others, DocumentOps
<1>12. History!Commit(d)
  BY <1>1, Commits DEF SelectNewVersion, DocumentOps
<1>7. ASSUME NEW by, txn[c].op = by PROVE History!Draft(d, by)
  BY <1>3, <1>5, <1>6, <1>7, <1>12, HistoryOps
<1>8. /\ txn[c].op = "create" => Seen[d] = <<>>
      /\ txn[c].op \in {"addVersion", "correct"} => Seen[d] # <<>>
      /\ txn[c].op = "addVersion" => Seen[d][Len(Seen[d])].status = "DRAFT"
      /\ txn[c].op = "correct" => Seen[d][Len(Seen[d])].status = "APPROVED"
  <2>1. CASE txn[c].op = "create"
    BY <1>2, <2>1, SeenCurrent
  <2>2. CASE txn[c].op = "addVersion"
    <3>1. Len(versions[d]) # 0 /\ document[d].state = "active" /\ Dto(d).status # "APPROVED"
      BY <1>2, <2>2 DEF Allowed, DocumentOps
    <3> QED
      BY <2>2, <3>1, SeenCurrent DEF Statuses
  <2>3. CASE txn[c].op = "correct"
    <3>1. Len(versions[d]) # 0 /\ document[d].state = "active" /\ Dto(d).status = "APPROVED"
      BY <1>2, <2>3 DEF Allowed, DocumentOps
    <3> QED
      BY <2>3, <3>1, SeenCurrent
  <2> QED
    BY <2>1, <2>2, <2>3
<1>9. CASE txn[c].op = "create"
  <2>1. History!Draft(d, "create")
    BY <1>7, <1>9
  <2> QED
    BY <1>8, <1>9, <2>1, HistoryOps DEF History!Next, History!Mutation
<1>10. CASE txn[c].op = "addVersion"
  <2>1. History!Draft(d, "addVersion")
    BY <1>7, <1>10
  <2> QED
    BY <1>6, <1>8, <1>10, <2>1, HistoryOps
    DEF History!Next, History!Mutation, History!AddVersion
<1>11. CASE txn[c].op = "correct"
  <2>1. History!Draft(d, "correct")
    BY <1>7, <1>11
  <2> QED
    BY <1>6, <1>8, <1>11, <2>1, HistoryOps
    DEF History!Next, History!Mutation, History!Correct
<1> QED
  BY <1>9, <1>10, <1>11

LEMMA ApprovalApproves == ASSUME IInv, NEW c \in Calls, Approve(c) PROVE History!Next
<1>1. PICK d \in Documents : d = txn[c].row
  BY StagedFacts DEF DocumentOps, Approve, Staged
<1>2. document[d].state = "active" /\ UNCHANGED <<document, requested>>
  BY <1>1, StagedFacts DEF DocumentOps, Approve, Staged
<1>3. Shape(versions'[d]) = [Shape(versions[d]) EXCEPT ![Len(Shape(versions[d]))].status = "APPROVED"]
  <2>1. /\ versions[d] \in Seq(VersionType) /\ versions'[d] \in Seq(VersionType)
        /\ Len(versions[d]) \in Nat \ {0} /\ Len(versions'[d]) = Len(versions[d])
        /\ \A i \in 1..Len(versions[d]) :
             /\ versions'[d][i].by = versions[d][i].by
             /\ versions'[d][i].status = IF i = Len(versions[d]) THEN "APPROVED"
                                         ELSE versions[d][i].status
    BY <1>1, ApproveRows
  <2> QED
    BY <2>1, ShapeApprove
<1>4. Seen' = [Seen EXCEPT ![d][Len(Seen[d])].status = "APPROVED"]
  <2>1. Seen[d] = Shape(versions[d])
    BY DEF Seen
  <2>2. Seen'[d] = [Seen[d] EXCEPT ![Len(Seen[d])].status = "APPROVED"]
    BY <1>3, <2>1 DEF Seen
  <2>3. \A e \in Documents \ {d} : versions'[e] = versions[e]
    BY <1>1, ApproveRows
  <2>4. \A e \in Documents \ {d} : Seen'[e] = Seen[e]
    BY <2>3 DEF Seen, Shape
  <2> QED
    BY <2>2, <2>4 DEF Seen
<1>5. RemovedDocuments' = RemovedDocuments /\ d \notin RemovedDocuments
  BY <1>2 DEF RemovedDocuments
<1>6. Seen[d] # <<>>
  BY <1>2, SeenCurrent
<1>8. History!Commit(d)
  BY <1>1, Commits DEF Approve, Staged, DocumentOps
<1>7. History!Approve(d) <=> /\ History!Active(d) /\ History!Commit(d)
                             /\ Seen' = [Seen EXCEPT ![d][Len(Seen[d])].status = "APPROVED"]
                             /\ UNCHANGED <<RemovedDocuments, requested>>
  BY DEF History!Approve, Seen, RemovedDocuments, Shape
<1> QED
  BY <1>2, <1>4, <1>5, <1>6, <1>7, <1>8, HistoryOps DEF History!Next, History!Mutation

LEMMA RemovalRemoves == ASSUME IInv, NEW c \in Calls, RemoveDocument(c) PROVE History!Next
<1>1. PICK d \in Documents : d = txn[c].row
  BY StagedFacts DEF DocumentOps, RemoveDocument, Staged
<1>2. document[d].state = "active" /\ UNCHANGED <<versions, requested>>
  BY <1>1, StagedFacts DEF DocumentOps, RemoveDocument, Staged
<1>3. document' = [document EXCEPT ![d].state = "removed"]
  BY <1>1 DEF RemoveDocument
<1>4. \A e \in Documents : document'[e].state = IF e = d THEN "removed" ELSE document[e].state
  BY <1>3 DEF IInv, TypeOK
<1>5. RemovedDocuments' = RemovedDocuments \cup {d} /\ d \notin RemovedDocuments
  BY <1>2, <1>4 DEF RemovedDocuments
<1>6. Seen' = Seen /\ Seen[d] # <<>>
  BY <1>2, SeenCurrent DEF Seen, Shape
<1>8. History!Commit(d)
  BY <1>1, Commits DEF RemoveDocument, Staged, DocumentOps
<1>7. History!Remove(d) <=> /\ History!Active(d) /\ History!Commit(d)
                            /\ RemovedDocuments' = RemovedDocuments \cup {d}
                            /\ UNCHANGED <<Seen, requested>>
  BY DEF History!Remove, Seen, RemovedDocuments, Shape
<1> QED
  BY <1>2, <1>5, <1>6, <1>7, <1>8, HistoryOps DEF History!Next, History!Mutation

LEMMA RequestIsForCurrent ==
  ASSUME IInv, NEW c \in Calls, RequestVerification(c) PROVE History!Next
<1>1. PICK d \in Documents : d = txn[c].row
  BY StagedFacts DEF DocumentOps, RequestVerification, Staged
<1>2. /\ document[d].state = "active" /\ UNCHANGED <<document, versions>>
      /\ txn[c].read = Dto(d) /\ Len(versions[d]) # 0
      /\ d \in RightToWork /\ Dto(d).status = "APPROVED" /\ Dto(d).current \notin requested[d]
  BY <1>1, StagedFacts DEF DocumentOps, RequestVerification, Staged, Allowed
<1>3. requested' = [requested EXCEPT ![d] = @ \cup {Len(Seen[d])}]
  BY <1>1, <1>2, SeenCurrent DEF RequestVerification
<1>4. RemovedDocuments' = RemovedDocuments /\ d \notin RemovedDocuments /\ Seen' = Seen
  BY <1>2 DEF RemovedDocuments, Seen, Shape
<1>5. /\ Seen[d] # <<>> /\ Seen[d][Len(Seen[d])].status = "APPROVED"
      /\ Len(Seen[d]) \notin requested[d]
  BY <1>2, SeenCurrent
<1>7. History!Commit(d)
  BY <1>1, Commits DEF RequestVerification, Staged, DocumentOps
<1>6. History!RequestVerification(d) <=>
        /\ d \in RightToWork /\ History!Active(d) /\ History!Commit(d)
        /\ History!Current(d).status = "APPROVED"
        /\ Len(Seen[d]) \notin requested[d]
        /\ requested' = [requested EXCEPT ![d] = @ \cup {Len(Seen[d])}]
        /\ UNCHANGED <<Seen, RemovedDocuments>>
  BY DEF History!RequestVerification, Seen, RemovedDocuments, Shape
<1> QED
  BY <1>2, <1>3, <1>4, <1>5, <1>6, <1>7, HistoryOps DEF History!Next

-----------------------------------------------------------------------------
(* The steps that write no document. *)

LEMMA NoLook ==
  ASSUME IInv, NEW c \in Calls, UNCHANGED Rows, ~HasLooked(c), ~HasLooked(c)',
         \A b \in Calls \ {c} : txn'[b] = txn[b]
  PROVE  UNCHANGED History!vars
<1>1. Admitted' = Admitted
  BY LookStays
<1> QED
  BY <1>1, HistoryVars DEF Rows, Seen, RemovedDocuments, RemovedCandidates, Shape

LEMMA EndMoves ==
  ASSUME IInv, NEW c \in Calls, End(c)
  PROVE  /\ txn'[c] = Idle /\ ~HasLooked(c)'
         /\ \A b \in Calls \ {c} : txn'[b] = txn[b]
<1>1. txn'[c] = Idle /\ \A b \in Calls \ {c} : txn'[b] = txn[b]
  BY DEF IInv, TypeOK, End
<1>2. ~HasLooked(c)'
  BY <1>1, NoneAssumption DEF HasLooked, Idle, Ops
<1> QED
  BY <1>1, <1>2

LEMMA GotoMoves ==
  ASSUME IInv, NEW c \in Calls, NEW pc, Goto(c, pc)
  PROVE  /\ txn'[c].pc = pc /\ txn'[c].op = txn[c].op /\ txn'[c].row = txn[c].row
         /\ \A b \in Calls \ {c} : txn'[b] = txn[b]
<1>1. txn \in [Calls -> TxnType]
  BY DEF IInv, TypeOK, TxnType
<1>2. PICK t \in TxnType : t = txn[c]
  BY <1>1
<1>3. txn'[c] = [t EXCEPT !.pc = pc] /\ \A b \in Calls \ {c} : txn'[b] = txn[b]
  BY <1>1, <1>2 DEF Goto
<1>4. txn'[c].pc = pc /\ txn'[c].op = t.op /\ txn'[c].row = t.row
  BY <1>3 DEF TxnType
<1> QED
  BY <1>2, <1>3, <1>4

LEMMA BeginLooksNot ==
  ASSUME IInv, NEW c \in Calls, Begin(c) PROVE UNCHANGED History!vars
<1>1. /\ txn[c].pc = "idle" /\ txn'[c].pc = "begun" /\ UNCHANGED Rows
      /\ \A b \in Calls \ {c} : txn'[b] = txn[b]
  BY DEF Begin, Idle, IInv, TypeOK
<1> QED
  BY <1>1, NoLook DEF HasLooked

LEMMA LockLooksNot ==
  ASSUME IInv, NEW c \in Calls, LockDocument(c) \/ LockCandidate(c)
  PROVE  UNCHANGED History!vars
<1>1. /\ txn[c].pc = "begun" /\ UNCHANGED Rows
      /\ \/ End(c)
         \/ txn[c].op \in DocumentOps /\ Goto(c, "locked")
         \/ txn[c].op = "removeCandidate" /\ Goto(c, "staged")
  BY DEF LockDocument, LockCandidate
<1>2. ~HasLooked(c)
  BY <1>1 DEF HasLooked
<1>3. CASE End(c)
  BY <1>1, <1>2, <1>3, EndMoves, NoLook
<1>4. CASE txn[c].op \in DocumentOps /\ Goto(c, "locked")
  <2>1. txn'[c].pc = "locked" /\ \A b \in Calls \ {c} : txn'[b] = txn[b]
    BY <1>4, GotoMoves
  <2>2. ~HasLooked(c)'
    BY <2>1 DEF HasLooked
  <2> QED
    BY <1>1, <1>2, <2>1, <2>2, NoLook
<1>5. CASE txn[c].op = "removeCandidate" /\ Goto(c, "staged")
  <2>1. txn'[c].op = "removeCandidate" /\ \A b \in Calls \ {c} : txn'[b] = txn[b]
    BY <1>5, GotoMoves
  <2>2. ~HasLooked(c)'
    BY <2>1 DEF HasLooked, DocumentOps
  <2> QED
    BY <1>1, <1>2, <2>1, <2>2, NoLook
<1> QED
  BY <1>1, <1>3, <1>4, <1>5

(* Looking at the candidate is Admit. *)
LEMMA LookAdmits ==
  ASSUME IInv, NEW c \in Calls, NEW d \in Documents, txn[c].row = d, Writes(c, d),
         ~HasLooked(c), UNCHANGED Rows, candidate[CandidateOf[d]] = "active",
         \A b \in Calls \ {c} : txn'[b] = txn[b], txn'[c].row = d, HasLooked(c)'
  PROVE  History!Next
<1>1. d \notin Admitted /\ Admitted' = Admitted \cup {d}
  BY LookBegins
<1>2. CandidateOf[d] \notin RemovedCandidates
  BY DEF RemovedCandidates
<1>3. UNCHANGED <<Seen, RemovedDocuments, requested, RemovedCandidates>>
  BY DEF Rows, Seen, RemovedDocuments, RemovedCandidates, Shape
<1>4. History!Admit(d) <=>
        /\ CandidateOf[d] \notin RemovedCandidates
        /\ d \notin Admitted /\ Admitted' = Admitted \cup {d}
        /\ UNCHANGED <<Seen, RemovedDocuments, requested, RemovedCandidates>>
  BY DEF History!Admit, Seen, RemovedDocuments, RemovedCandidates, Admitted, Shape
<1> QED
  BY <1>1, <1>2, <1>3, <1>4 DEF History!Next

LEMMA ReadCurrentAdmits ==
  ASSUME IInv, NEW c \in Calls, ReadCurrent(c)
  PROVE  History!Next \/ UNCHANGED History!vars
<1>1. txn[c].pc = "locked" /\ UNCHANGED Rows /\ ~HasLooked(c)
  BY DEF ReadCurrent, HasLooked
<1>2. PICK d \in Documents : d = txn[c].row /\ txn[c].op \in DocumentOps
  BY <1>1 DEF IInv, TxnsOK, TxnOK
<1>3. Writes(c, d)
  BY <1>1, <1>2 DEF Writes, HoldsDocument
<1>4. CASE End(c)
  BY <1>1, <1>4, EndMoves, NoLook
<1>5. CASE ~End(c)
  <2>1. /\ candidate[CandidateOf[d]] = "active"
        /\ txn' = [txn EXCEPT ![c].pc = "staged", ![c].read = Dto(d), ![c].count = Len(versions[d])]
    BY <1>2, <1>5 DEF ReadCurrent
  <2>2. txn[c] \in TxnType /\ txn \in [Calls -> TxnType]
    BY DEF IInv, TypeOK, TxnType
  <2>3. /\ txn'[c].pc = "staged" /\ txn'[c].op = txn[c].op /\ txn'[c].row = d
        /\ \A b \in Calls \ {c} : txn'[b] = txn[b]
    BY <1>2, <2>1, <2>2 DEF TxnType
  <2>4. HasLooked(c)'
    BY <1>2, <2>3 DEF HasLooked
  <2> QED
    BY <1>1, <1>2, <1>3, <2>1, <2>3, <2>4, LookAdmits
<1> QED
  BY <1>4, <1>5

LEMMA RequireCandidateAdmits ==
  ASSUME IInv, NEW c \in Calls, RequireCandidate(c)
  PROVE  History!Next \/ UNCHANGED History!vars
<1>1. txn[c].pc = "begun" /\ txn[c].op = "create" /\ UNCHANGED Rows /\ ~HasLooked(c)
  BY DEF RequireCandidate, HasLooked
<1>2. PICK d \in Documents : d = txn[c].row
  BY <1>1 DEF IInv, TxnsOK, TxnOK
<1>3. Writes(c, d)
  BY <1>1, <1>2 DEF Writes
<1>4. CASE End(c)
  BY <1>1, <1>4, EndMoves, NoLook
<1>5. CASE ~End(c)
  <2>1. candidate[CandidateOf[d]] = "active" /\ Goto(c, "checked")
    BY <1>2, <1>5 DEF RequireCandidate
  <2>2. /\ txn'[c].pc = "checked" /\ txn'[c].op = "create" /\ txn'[c].row = d
        /\ \A b \in Calls \ {c} : txn'[b] = txn[b]
    BY <1>1, <1>2, <2>1, GotoMoves
  <2>3. HasLooked(c)'
    BY <2>2 DEF HasLooked
  <2> QED
    BY <1>1, <1>2, <1>3, <2>1, <2>2, <2>3, LookAdmits
<1> QED
  BY <1>4, <1>5

LEMMA InsertionStutters ==
  ASSUME IInv, NEW c \in Calls, InsertDocument(c) PROVE UNCHANGED History!vars
<1>1. txn[c].pc = "checked" /\ Goto(c, "staged") /\ UNCHANGED Rows /\ txn[c].op = "create"
  BY DEF InsertDocument, IInv, TxnsOK, TxnOK
<1>2. /\ txn'[c].pc = "staged" /\ txn'[c].op = "create" /\ txn'[c].row = txn[c].row
      /\ \A b \in Calls \ {c} : txn'[b] = txn[b]
  BY <1>1, GotoMoves
<1>3. HasLooked(c) /\ HasLooked(c)'
  BY <1>1, <1>2 DEF HasLooked
<1>4. Admitted' = Admitted
  BY <1>2, <1>3, LookStays
<1> QED
  BY <1>1, <1>4, HistoryVars DEF Rows, Seen, RemovedDocuments, RemovedCandidates, Shape

LEMMA RollbackGivesUp ==
  ASSUME IInv, NEW c \in Calls, Rollback(c)
  PROVE  History!Next \/ UNCHANGED History!vars
<1>1. End(c) /\ UNCHANGED Rows
  BY DEF Rollback
<1>2. CASE ~HasLooked(c)
  BY <1>1, <1>2, EndMoves, NoLook
<1>3. CASE HasLooked(c)
  <2>1. PICK d \in Documents : d = txn[c].row
    BY <1>3 DEF HasLooked, IInv, TxnsOK, TxnOK
  <2>2. d \in Admitted /\ Admitted' = Admitted \ {d}
    BY <1>1, <1>3, <2>1, LookEnds
  <2>3. UNCHANGED <<Seen, RemovedDocuments, requested, RemovedCandidates>>
    BY <1>1 DEF Rows, Seen, RemovedDocuments, RemovedCandidates, Shape
  <2>4. History!GiveUp(d) <=>
          /\ d \in Admitted /\ Admitted' = Admitted \ {d}
          /\ UNCHANGED <<Seen, RemovedDocuments, requested, RemovedCandidates>>
    BY DEF History!GiveUp, Seen, RemovedDocuments, RemovedCandidates, Admitted, Shape
  <2> QED
    BY <2>2, <2>3, <2>4 DEF History!Next
<1> QED
  BY <1>2, <1>3

LEMMA CandidateRemovalRemoves ==
  ASSUME IInv, NEW c \in Calls, RemoveCandidate(c)
  PROVE  History!Next \/ UNCHANGED History!vars
<1>1. PICK p \in Candidates : p = txn[c].row /\ txn[c].op = "removeCandidate"
  BY DEF RemoveCandidate, Staged, IInv, TxnsOK, TxnOK
<1>2. candidate' = [candidate EXCEPT ![p] = "removed"] /\ UNCHANGED <<document, versions, requested>>
  BY <1>1 DEF RemoveCandidate
<1>3. RemovedCandidates' = RemovedCandidates \cup {p}
  BY <1>2 DEF RemovedCandidates, IInv, TypeOK
<1>4. /\ End(c) /\ ~HasLooked(c)
  BY <1>1 DEF RemoveCandidate, HasLooked, DocumentOps
<1>5. Admitted' = Admitted
  BY <1>4, EndMoves, LookStays
<1>6. UNCHANGED <<Seen, RemovedDocuments, requested, Admitted>>
  BY <1>2, <1>5 DEF Seen, RemovedDocuments, Shape
<1>7. History!RemoveCandidate(p) <=>
        /\ p \notin RemovedCandidates /\ RemovedCandidates' = RemovedCandidates \cup {p}
        /\ UNCHANGED <<Seen, RemovedDocuments, requested, Admitted>>
  BY DEF History!RemoveCandidate, Seen, RemovedDocuments, RemovedCandidates, Admitted, Shape
<1>8. CASE p \in RemovedCandidates
  BY <1>3, <1>6, <1>8, HistoryVars
<1> QED
  BY <1>3, <1>6, <1>7, <1>8 DEF History!Next

(* The interleaved transactions of compliance-document.service.ts behave   *)
(* like its operations done one at a time on each document, which commit   *)
(* after a look at the candidate that found it active.                     *)
THEOREM DocumentsAreAtomic == Spec => ImplementsDocumentHistory
<1>1. Init => History!Init
  <2> SUFFICES ASSUME Init PROVE History!Init
    OBVIOUS
  <2>1. Seen = [d \in Documents |-> <<>>]
    BY DEF Init, Seen, Shape
  <2>2. RemovedDocuments = {} /\ requested = [d \in Documents |-> {}]
    BY DEF Init, RemovedDocuments
  <2>3. RemovedCandidates = {} /\ Admitted = {}
    BY NoneAssumption DEF Init, RemovedCandidates, Admitted, HasLooked, Idle, Ops
  <2>4. History!Init <=> /\ Seen = [d \in Documents |-> <<>>]
                         /\ RemovedDocuments = {} /\ requested = [d \in Documents |-> {}]
                         /\ RemovedCandidates = {} /\ Admitted = {}
    BY DEF History!Init, Seen, RemovedDocuments, RemovedCandidates, Admitted, Shape
  <2> QED
    BY <2>1, <2>2, <2>3, <2>4
<1>2. IInv /\ [Next]_vars => [History!Next]_History!vars
  <2> SUFFICES ASSUME IInv, [Next]_vars PROVE History!Next \/ UNCHANGED History!vars
    OBVIOUS
  <2>1. CASE UNCHANGED vars
    <3>1. UNCHANGED <<Seen, RemovedDocuments, requested, RemovedCandidates, Admitted>>
      BY <2>1 DEF vars, Seen, RemovedDocuments, RemovedCandidates, Admitted, HasLooked, Shape
    <3> QED
      BY <3>1, HistoryVars
  <2>2. ASSUME NEW c \in Calls, AddVersion(c) \/ Correct(c) \/ Create(c) PROVE History!Next
    BY <2>2, NewVersionIsDraft DEF AddVersion, Correct, Create, Staged
  <2>3. CASE Next
    BY <2>2, <2>3, ApprovalApproves, RemovalRemoves, RequestIsForCurrent,
       BeginLooksNot, LockLooksNot, ReadCurrentAdmits, RequireCandidateAdmits,
       InsertionStutters, CandidateRemovalRemoves, RollbackGivesUp
    DEF Next
  <2> QED
    BY <2>1, <2>3
<1> QED
  BY <1>1, <1>2, Invariance, PTL DEF Spec, ImplementsDocumentHistory, History!Spec

=============================================================================
