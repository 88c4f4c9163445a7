----------------------- MODULE CandidateRecordsProofs -----------------------
(***************************************************************************)
(* Theorems about CandidateRecords, for every set of transactions,         *)
(* candidates, extractions, columns and values: profiles have their        *)
(* evidence, decisions are audited as they were made, and the interleaved  *)
(* transactions implement the atomic operations of CandidateHistory.       *)
(***************************************************************************)
EXTENDS CandidateRecords, TLAPS

-----------------------------------------------------------------------------
(* The inductive invariant. *)

ExtractionOps == DecisionOps \cup {"createExtraction"}

(* What a transaction has been asked for, and how far each kind can be.    *)
Shape(c) ==
  LET op == txn[c].op
      pc == txn[c].pc
  IN /\ pc = "idle" <=> op = None
     /\ op \in CandidateOps => txn[c].row \in Candidates
     /\ op \in ExtractionOps => txn[c].row \in Extractions
     /\ op \in Ops => txn[c].input \in InputsOf(op)
     /\ pc = "checked" => op \in {"updateCandidate", "createExtraction"}
     /\ pc = "extracted" => op = "createExtraction"
     /\ pc = "locked" => op \in DecisionOps
     /\ pc = "accepted" => op = "confirm"

(* What a transaction has found out and may rely on: of a row because it   *)
(* holds its lock, or because the row is its own and new.                  *)
KnowsCandidate(c, op, p) ==
  /\ op = "createCandidate" => candidate[p] = Absent
  /\ op = "updateCandidate" /\ txn[c].pc \in {"checked", "staged"} =>
       txn[c].read \in CandidateType
  /\ op \in {"updateCandidate", "removeCandidate"} /\ txn[c].pc = "staged" => Active(p)
  /\ op = "removeCandidate" /\ txn[c].pc = "staged" => txn[c].read = candidate[p]

KnowsExtraction(c, op, x) ==
  /\ op = "createExtraction" =>
       /\ extraction[x] = Unproposed
       /\ txn[c].pc \in {"checked", "extracted", "staged"} =>
            candidate[CandidateOf[x]].state # "absent"
  /\ op \in DecisionOps =>
       /\ txn[c].pc = "locked" => extraction[x].status # None
       /\ txn[c].pc \in {"accepted", "staged"} =>
            extraction[x].status = "PROPOSED" /\ txn[c].read = extraction[x]

Knows(c) ==
  \A op \in Ops : txn[c].op = op =>
    /\ op \in CandidateOps => \A p \in Candidates : txn[c].row = p => KnowsCandidate(c, op, p)
    /\ op \in ExtractionOps => \A x \in Extractions : txn[c].row = x => KnowsExtraction(c, op, x)

(* A row is written by one transaction at a time. *)
WritesCandidate(c, p) ==
  /\ txn[c].row = p
  /\ \/ txn[c].op = "createCandidate"
     \/ txn[c].op \in {"updateCandidate", "removeCandidate"} /\ txn[c].pc = "staged"

WritesExtraction(c, x) ==
  HoldsExtraction(c, x) \/ (txn[c].op = "createExtraction" /\ txn[c].row = x)

OneWriter ==
  \A b, c \in Calls :
    /\ \A p \in Candidates : WritesCandidate(b, p) /\ WritesCandidate(c, p) => b = c
    /\ \A x \in Extractions : WritesExtraction(b, x) /\ WritesExtraction(c, x) => b = c

TxnsOK == \A c \in Calls : Shape(c) /\ Knows(c)

IInv == TypeOK /\ TxnsOK /\ OneWriter /\ ProfileHasEvidence

-----------------------------------------------------------------------------
(* Types. *)

TxnType == [pc : {"idle", "begun", "checked", "extracted", "locked", "accepted", "staged"},
            op : Ops \cup {None},
            row : Candidates \cup Extractions \cup {None},
            input : Given \cup Values \cup {None},
            read : CandidateType \cup ExtractionType]

AuditOK ==
  \/ audit = None
  \/ audit \in [record : Candidates, before : CandidateType, after : CandidateType]
  \/ audit \in [record : Extractions, before : ExtractionType, after : ExtractionType]

LEMMA IdleTyped ==
  /\ Absent \in CandidateType /\ Unproposed \in ExtractionType /\ Idle \in TxnType
  /\ Idle.pc = "idle" /\ Idle.op = None /\ Idle.row = None /\ Idle.input = None
<1>1. Absent \in CandidateType /\ Unproposed \in ExtractionType
  BY DEF Absent, Unproposed, CandidateType, ExtractionType
<1> QED
  BY <1>1 DEF Idle, TxnType

LEMMA OpsApart ==
  /\ None \notin Ops /\ Ops = CandidateOps \cup ExtractionOps
  /\ CandidateOps \cap ExtractionOps = {}
BY NoRequestAssumption DEF Ops, CandidateOps, ExtractionOps, DecisionOps

LEMMA FullIsGiven == [Fields -> Values] \subseteq Given
<1>1. Fields \in (SUBSET Fields) \ {{}}
  BY FieldsAssumption
<1> QED
  BY <1>1 DEF Given

LEMMA InputsTyped == ASSUME NEW op \in Ops PROVE InputsOf(op) \subseteq Given \cup Values \cup {None}
  BY FullIsGiven DEF InputsOf

LEMMA MergeTyped ==
  ASSUME NEW data \in [Fields -> Values], NEW given \in Given
  PROVE  Merge(data, given) \in [Fields -> Values]
<1>1. PICK S \in SUBSET Fields : given \in [S -> Values]
  BY DEF Given
<1> QED
  BY <1>1 DEF Merge

LEMMA InvInit == Init => IInv
<1> SUFFICES ASSUME Init PROVE IInv
  OBVIOUS
<1>1. TypeOK
  BY IdleTyped DEF Init, TypeOK, TxnType
<1>2. TxnsOK
  BY IdleTyped, OpsApart DEF Init, TxnsOK, Shape, Knows
<1>3. OneWriter
  BY IdleTyped, OpsApart
     DEF Init, OneWriter, WritesCandidate, WritesExtraction, HoldsExtraction, Ops, CandidateOps,
         ExtractionOps, DecisionOps
<1>4. ProfileHasEvidence
  BY DEF Init, ProfileHasEvidence
<1> QED
  BY <1>1, <1>2, <1>3, <1>4 DEF IInv

-----------------------------------------------------------------------------
(* Steps that write no row. *)

LEMMA TxnStep ==
  ASSUME IInv, NEW c \in Calls, NEW t \in TxnType, txn' = [txn EXCEPT ![c] = t],
         UNCHANGED Rows, Shape(c)', Knows(c)',
         \A p \in Candidates : WritesCandidate(c, p)' =>
           \A b \in Calls \ {c} : ~WritesCandidate(b, p),
         \A x \in Extractions : WritesExtraction(c, x)' =>
           \A b \in Calls \ {c} : ~WritesExtraction(b, x)
  PROVE  IInv'
<1>1. TypeOK'
  BY DEF IInv, TypeOK, TxnType, Rows
<1>2. \A b \in Calls \ {c} : txn'[b] = txn[b]
  BY DEF IInv, TypeOK
<1>3. ProfileHasEvidence'
  BY DEF IInv, ProfileHasEvidence, Rows
<1>4. TxnsOK'
  <2> SUFFICES ASSUME NEW b \in Calls, b # c PROVE Shape(b)' /\ Knows(b)'
    BY DEF TxnsOK
  <2>1. Shape(b) /\ Knows(b) /\ txn'[b] = txn[b]
    BY <1>2 DEF IInv, TxnsOK
  <2>2. Shape(b)'
    BY <2>1 DEF Shape
  <2>3. Knows(b)'
    BY <2>1 DEF Knows, KnowsCandidate, KnowsExtraction, Active, Rows
  <2> QED
    BY <2>2, <2>3
<1>5. OneWriter'
  <2>1. \A b \in Calls \ {c} :
          /\ \A p \in Candidates : WritesCandidate(b, p)' <=> WritesCandidate(b, p)
          /\ \A x \in Extractions : WritesExtraction(b, x)' <=> WritesExtraction(b, x)
    BY <1>2 DEF WritesCandidate, WritesExtraction, HoldsExtraction
  <2> QED
    BY <2>1 DEF IInv, OneWriter
<1> QED
  BY <1>1, <1>3, <1>4, <1>5 DEF IInv

(* An idle transaction knows nothing and holds nothing. *)
LEMMA IdleKnows ==
  ASSUME IInv, NEW c \in Calls, End(c)
  PROVE  /\ txn'[c] = Idle /\ Shape(c)' /\ Knows(c)'
         /\ \A p \in Candidates : ~WritesCandidate(c, p)'
         /\ \A x \in Extractions : ~WritesExtraction(c, x)'
<1>1. txn'[c] = Idle
  BY DEF End, IInv, TypeOK
<1>2. Shape(c)' /\ Knows(c)'
  BY <1>1, IdleTyped, OpsApart DEF Shape, Knows
<1>3. /\ \A p \in Candidates : ~WritesCandidate(c, p)'
      /\ \A x \in Extractions : ~WritesExtraction(c, x)'
  BY <1>1, IdleTyped, OpsApart
     DEF WritesCandidate, WritesExtraction, HoldsExtraction, Ops, CandidateOps, ExtractionOps,
         DecisionOps
<1> QED
  BY <1>1, <1>2, <1>3

(* A transaction may end at any time. *)
LEMMA EndStep == ASSUME IInv, NEW c \in Calls, End(c), UNCHANGED Rows PROVE IInv'
  BY IdleKnows, IdleTyped, TxnStep DEF End

(* A step of a transaction that goes on: what changes is its pc, and what  *)
(* it has read.                                                            *)
Moves(c, pc, read) == \/ txn' = [txn EXCEPT ![c].pc = pc, ![c].read = read]
                      \/ txn' = [txn EXCEPT ![c].pc = pc] /\ read = txn[c].read

PCs == {"begun", "checked", "extracted", "locked", "accepted", "staged"}

LEMMA GoOn ==
  ASSUME IInv, NEW c \in Calls, NEW read \in CandidateType \cup ExtractionType,
         NEW pc \in PCs, Moves(c, pc, read)
  PROVE  \E t \in TxnType :
           /\ txn' = [txn EXCEPT ![c] = t] /\ txn'[c] = t
           /\ t.pc = pc /\ t.read = read
           /\ t.op = txn[c].op /\ t.row = txn[c].row /\ t.input = txn[c].input
<1>1. txn \in [Calls -> TxnType]
  BY DEF IInv, TypeOK, TxnType
<1> DEFINE t == [txn[c] EXCEPT !.pc = pc, !.read = read]
<1>2. txn[c] \in TxnType
  BY <1>1
<1>3. /\ t \in TxnType /\ t.pc = pc /\ t.read = read
      /\ t.op = txn[c].op /\ t.row = txn[c].row /\ t.input = txn[c].input
  BY <1>2 DEF TxnType, PCs
<1>4. txn' = [txn EXCEPT ![c] = t]
  <2>1. ASSUME txn' = [txn EXCEPT ![c].pc = pc, ![c].read = read]
        PROVE  txn' = [txn EXCEPT ![c] = t]
    BY <1>1, <2>1
  <2>2. ASSUME txn' = [txn EXCEPT ![c].pc = pc], read = txn[c].read
        PROVE  txn' = [txn EXCEPT ![c] = t]
    <3>1. t = [txn[c] EXCEPT !.pc = pc]
      BY <1>2, <2>2 DEF TxnType
    <3> QED
      BY <1>1, <2>2, <3>1
  <2> QED
    BY <2>1, <2>2 DEF Moves
<1>5. txn'[c] = t
  BY <1>1, <1>4
<1> QED
  BY <1>3, <1>4, <1>5

(* A request that starts. *)
LEMMA BeginStep == ASSUME IInv, NEW c \in Calls, Begin(c) PROVE IInv'
<1>1. PICK op \in Ops : \E row \in RowsOf(op), input \in InputsOf(op) :
        /\ op \in {"createCandidate", "createExtraction"} => Fresh(op, row)
        /\ txn' = [txn EXCEPT ![c] = [Idle EXCEPT !.pc = "begun", !.op = op, !.row = row,
                                                  !.input = input]]
  BY DEF Begin
<1>2. PICK row \in RowsOf(op), input \in InputsOf(op) :
        /\ op \in {"createCandidate", "createExtraction"} => Fresh(op, row)
        /\ txn' = [txn EXCEPT ![c] = [Idle EXCEPT !.pc = "begun", !.op = op, !.row = row,
                                                  !.input = input]]
  BY <1>1
<1> DEFINE t == [Idle EXCEPT !.pc = "begun", !.op = op, !.row = row, !.input = input]
<1>3. /\ row \in Candidates \cup Extractions
      /\ op \in CandidateOps => row \in Candidates
      /\ op \in ExtractionOps => row \in Extractions
  BY OpsApart DEF RowsOf
<1>4. /\ t \in TxnType
      /\ t.pc = "begun" /\ t.op = op /\ t.row = row /\ t.input = input
  BY <1>3, IdleTyped, InputsTyped DEF TxnType
<1>5. txn' = [txn EXCEPT ![c] = t] /\ txn'[c] = t
  BY <1>2 DEF IInv, TypeOK
<1> HIDE DEF t
<1>6. Shape(c)'
  BY <1>3, <1>4, <1>5, OpsApart DEF Shape
<1>7. /\ op = "createCandidate" => candidate[row] = Absent
      /\ op = "createExtraction" => extraction[row] = Unproposed
      /\ op \in {"createCandidate", "createExtraction"} =>
           \A b \in Calls : ~(txn[b].op = op /\ txn[b].row = row)
  BY <1>2 DEF Fresh
<1>8. UNCHANGED Rows /\ UNCHANGED <<candidate, extraction>>
  BY DEF Begin, Rows
<1>9. Knows(c)'
  BY <1>4, <1>5, <1>7, <1>8, OpsApart DEF Knows, KnowsCandidate, KnowsExtraction
<1>10. ASSUME NEW p \in Candidates, WritesCandidate(c, p)', NEW b \in Calls \ {c}
       PROVE  ~WritesCandidate(b, p)
  <2>1. op = "createCandidate" /\ row = p
    BY <1>4, <1>5, <1>10 DEF WritesCandidate
  <2>2. candidate[p] = Absent /\ ~(txn[b].op = op /\ txn[b].row = row)
    BY <1>7, <2>1
  <2>3. ASSUME txn[b].op \in {"updateCandidate", "removeCandidate"}, txn[b].pc = "staged",
               txn[b].row = p
        PROVE  FALSE
    <3>1. Active(p)
      BY <2>3 DEF IInv, TxnsOK, Knows, KnowsCandidate, Ops, CandidateOps
    <3> QED
      BY <2>2, <3>1 DEF Active, Absent
  <2> QED
    BY <2>1, <2>2, <2>3 DEF WritesCandidate
<1>11. ASSUME NEW x \in Extractions, WritesExtraction(c, x)', NEW b \in Calls \ {c}
       PROVE  ~WritesExtraction(b, x)
  <2>1. op = "createExtraction" /\ row = x
    BY <1>4, <1>5, <1>11 DEF WritesExtraction, HoldsExtraction
  <2>2. extraction[x] = Unproposed /\ ~(txn[b].op = op /\ txn[b].row = row)
    BY <1>7, <2>1
  <2>3. ASSUME HoldsExtraction(b, x) PROVE extraction[x].status # None
    <3>1. txn[b].op \in DecisionOps /\ txn[b].op \in Ops /\ txn[b].op \in ExtractionOps
      BY <2>3 DEF HoldsExtraction, Ops, ExtractionOps
    <3>2. KnowsExtraction(b, txn[b].op, x)
      BY <2>3, <3>1 DEF HoldsExtraction, IInv, TxnsOK, Knows
    <3> QED
      BY <2>3, <3>1, <3>2, NoneAssumption DEF HoldsExtraction, KnowsExtraction
  <2> QED
    BY <2>1, <2>2, <2>3 DEF WritesExtraction, Unproposed
<1> QED
  BY <1>4, <1>5, <1>6, <1>8, <1>9, <1>10, <1>11, TxnStep

-----------------------------------------------------------------------------
(* The statements of the candidate service. *)

LEMMA ReadBeforeStep == ASSUME IInv, NEW c \in Calls, ReadBefore(c) PROVE IInv'
<1>1. CASE End(c)
  BY <1>1, EndStep DEF ReadBefore
<1>2. CASE ~End(c)
  <2>1. PICK p \in Candidates : txn[c].row = p
    BY DEF ReadBefore, At, IInv, TxnsOK, Shape, CandidateOps
  <2>2. PICK read \in CandidateType : candidate[p] = read
    BY DEF IInv, TypeOK
  <2>3. /\ txn[c].op = "updateCandidate" /\ UNCHANGED Rows
        /\ txn' = [txn EXCEPT ![c].pc = "checked", ![c].read = read]
    BY <1>2, <2>1, <2>2 DEF ReadBefore, At
  <2>31. Moves(c, "checked", read) /\ "checked" \in PCs
    BY <2>3 DEF Moves, PCs
  <2>4. PICK t \in TxnType :
          /\ txn' = [txn EXCEPT ![c] = t] /\ txn'[c] = t
          /\ t.pc = "checked" /\ t.read = read
          /\ t.op = txn[c].op /\ t.row = txn[c].row /\ t.input = txn[c].input
    BY <2>31, GoOn
  <2>5. Shape(c)'
    BY <2>3, <2>4, OpsApart DEF IInv, TxnsOK, Shape, CandidateOps, ExtractionOps, DecisionOps, Ops
  <2>6. Knows(c)'
    BY <2>1, <2>3, <2>4
       DEF Knows, KnowsCandidate, CandidateOps, ExtractionOps, DecisionOps
  <2>7. /\ \A q \in Candidates : ~WritesCandidate(c, q)'
        /\ \A x \in Extractions : ~WritesExtraction(c, x)'
    BY <2>3, <2>4 DEF WritesCandidate, WritesExtraction, HoldsExtraction
  <2> QED
    BY <2>3, <2>4, <2>5, <2>6, <2>7, TxnStep
<1> QED
  BY <1>1, <1>2

(* updateMany finds no other writer of the row. *)
LEMMA WriteCandidateStep == ASSUME IInv, NEW c \in Calls, WriteCandidate(c) PROVE IInv'
<1>1. CASE End(c)
  BY <1>1, EndStep DEF WriteCandidate
<1>2. CASE ~End(c)
  <2>1. PICK p \in Candidates : txn[c].row = p
    BY DEF WriteCandidate, At, IInv, TxnsOK, Shape, CandidateOps
  <2>2. PICK read \in CandidateType : txn[c].read = read
    BY <2>1 DEF WriteCandidate, At, IInv, TxnsOK, Knows, KnowsCandidate, Ops, CandidateOps
  <2>3. /\ txn[c].op = "updateCandidate" /\ UNCHANGED Rows /\ Active(p)
        /\ CandidateFree(c, p, {"update", "noKeyUpdate"})
        /\ Moves(c, "staged", read) /\ "staged" \in PCs
    BY <1>2, <2>1, <2>2 DEF WriteCandidate, At, Updatable, Goto, Moves, PCs
  <2>4. PICK t \in TxnType :
          /\ txn' = [txn EXCEPT ![c] = t] /\ txn'[c] = t
          /\ t.pc = "staged" /\ t.read = read
          /\ t.op = txn[c].op /\ t.row = txn[c].row /\ t.input = txn[c].input
    BY <2>3, GoOn
  <2>5. Shape(c)'
    BY <2>3, <2>4, OpsApart DEF IInv, TxnsOK, Shape, CandidateOps, ExtractionOps, DecisionOps, Ops
  <2>6. Knows(c)'
    BY <2>1, <2>3, <2>4
       DEF Knows, KnowsCandidate, Active, Rows, CandidateOps, ExtractionOps, DecisionOps
  <2>7. ASSUME NEW q \in Candidates, WritesCandidate(c, q)', NEW b \in Calls \ {c}
        PROVE  ~WritesCandidate(b, q)
    <3>1. q = p
      BY <2>1, <2>4, <2>7 DEF WritesCandidate
    <3>2. ~HoldsCandidate(b, p, "update") /\ ~HoldsCandidate(b, p, "noKeyUpdate")
      BY <2>3 DEF CandidateFree
    <3>3. ASSUME txn[b].op = "createCandidate", txn[b].row = p PROVE FALSE
      <4>1. candidate[p] = Absent
        BY <3>3 DEF IInv, TxnsOK, Knows, KnowsCandidate, Ops, CandidateOps
      <4> QED
        BY <2>3, <4>1 DEF Active, Absent
    <3> QED
      BY <3>1, <3>2, <3>3 DEF WritesCandidate, HoldsCandidate
  <2>8. \A x \in Extractions : ~WritesExtraction(c, x)'
    BY <2>3, <2>4 DEF WritesExtraction, HoldsExtraction, DecisionOps
  <2> QED
    BY <2>3, <2>4, <2>5, <2>6, <2>7, <2>8, TxnStep
<1> QED
  BY <1>1, <1>2

(* FOR UPDATE finds no other writer of the row. *)
LEMMA LockCandidateStep == ASSUME IInv, NEW c \in Calls, LockCandidate(c) PROVE IInv'
<1>1. CASE End(c)
  BY <1>1, EndStep DEF LockCandidate
<1>2. CASE ~End(c)
  <2>1. PICK p \in Candidates : txn[c].row = p
    BY DEF LockCandidate, At, IInv, TxnsOK, Shape, CandidateOps
  <2>2. PICK read \in CandidateType : candidate[p] = read
    BY DEF IInv, TypeOK
  <2>3. /\ txn[c].op = "removeCandidate" /\ UNCHANGED Rows /\ Active(p)
        /\ CandidateFree(c, p, {"update", "noKeyUpdate", "keyShare"})
        /\ Moves(c, "staged", read) /\ "staged" \in PCs
    BY <1>2, <2>1, <2>2 DEF LockCandidate, At, Moves, PCs
  <2>4. PICK t \in TxnType :
          /\ txn' = [txn EXCEPT ![c] = t] /\ txn'[c] = t
          /\ t.pc = "staged" /\ t.read = read
          /\ t.op = txn[c].op /\ t.row = txn[c].row /\ t.input = txn[c].input
    BY <2>3, GoOn
  <2>5. Shape(c)'
    BY <2>3, <2>4, OpsApart DEF IInv, TxnsOK, Shape, CandidateOps, ExtractionOps, DecisionOps, Ops
  <2>6. Knows(c)'
    BY <2>1, <2>2, <2>3, <2>4
       DEF Knows, KnowsCandidate, Active, Rows, CandidateOps, ExtractionOps, DecisionOps
  <2>7. ASSUME NEW q \in Candidates, WritesCandidate(c, q)', NEW b \in Calls \ {c}
        PROVE  ~WritesCandidate(b, q)
    <3>1. q = p
      BY <2>1, <2>4, <2>7 DEF WritesCandidate
    <3>2. ~HoldsCandidate(b, p, "update") /\ ~HoldsCandidate(b, p, "noKeyUpdate")
      BY <2>3 DEF CandidateFree
    <3>3. ASSUME txn[b].op = "createCandidate", txn[b].row = p PROVE FALSE
      <4>1. candidate[p] = Absent
        BY <3>3 DEF IInv, TxnsOK, Knows, KnowsCandidate, Ops, CandidateOps
      <4> QED
        BY <2>3, <4>1 DEF Active, Absent
    <3> QED
      BY <3>1, <3>2, <3>3 DEF WritesCandidate, HoldsCandidate
  <2>8. \A x \in Extractions : ~WritesExtraction(c, x)'
    BY <2>3, <2>4 DEF WritesExtraction, HoldsExtraction, DecisionOps
  <2> QED
    BY <2>3, <2>4, <2>5, <2>6, <2>7, <2>8, TxnStep
<1> QED
  BY <1>1, <1>2

-----------------------------------------------------------------------------
(* The statements of the CV extraction service. *)

(* A creation that goes on still owns its new row, and knows of its        *)
(* candidate what it knew, or what it has just read.                       *)
LEMMA CreationStep ==
  ASSUME IInv, NEW c \in Calls, txn[c].op = "createExtraction", UNCHANGED Rows,
         NEW pc \in {"checked", "extracted", "staged"}, Goto(c, pc),
         candidate[CandidateOf[txn[c].row]].state # "absent"
  PROVE  IInv'
<1>1. PICK x \in Extractions : txn[c].row = x
  BY DEF IInv, TxnsOK, Shape, ExtractionOps
<1>2. PICK read \in CandidateType \cup ExtractionType : txn[c].read = read
  BY DEF IInv, TypeOK
<1>3. Moves(c, pc, read) /\ pc \in PCs
  BY <1>2 DEF Goto, Moves, PCs
<1>4. PICK t \in TxnType :
        /\ txn' = [txn EXCEPT ![c] = t] /\ txn'[c] = t
        /\ t.pc = pc /\ t.read = read
        /\ t.op = txn[c].op /\ t.row = txn[c].row /\ t.input = txn[c].input
  BY <1>3, GoOn
<1>5. Shape(c)'
  BY <1>4, OpsApart DEF IInv, TxnsOK, Shape, CandidateOps, ExtractionOps, DecisionOps, Ops
<1>6. extraction[x] = Unproposed
  BY <1>1 DEF IInv, TxnsOK, Knows, KnowsExtraction, Ops, ExtractionOps
<1>7. Knows(c)'
  BY <1>1, <1>4, <1>6
     DEF Knows, KnowsExtraction, Rows, CandidateOps, ExtractionOps, DecisionOps
<1>8. \A q \in Candidates : ~WritesCandidate(c, q)'
  BY <1>4 DEF WritesCandidate
<1>9. ASSUME NEW y \in Extractions, WritesExtraction(c, y)', NEW b \in Calls \ {c}
      PROVE  ~WritesExtraction(b, y)
  <2>1. WritesExtraction(c, y)
    BY <1>4, <1>9 DEF WritesExtraction, HoldsExtraction, DecisionOps
  <2> QED
    BY <2>1 DEF IInv, OneWriter
<1> QED
  BY <1>4, <1>5, <1>7, <1>8, <1>9, TxnStep

LEMMA CreationSteps ==
  ASSUME IInv, NEW c \in Calls,
         RequireCandidate(c) \/ ProviderExtracts(c) \/ InsertExtraction(c)
  PROVE  IInv'
<1>1. PICK x \in Extractions : txn[c].row = x
  BY DEF RequireCandidate, ProviderExtracts, InsertExtraction, At, IInv, TxnsOK, Shape,
         ExtractionOps
<1>2. CASE End(c)
  BY <1>2, EndStep DEF RequireCandidate, ProviderExtracts, InsertExtraction
<1>3. CASE RequireCandidate(c) /\ ~End(c)
  <2>1. candidate[CandidateOf[txn[c].row]].state # "absent"
    BY <1>3 DEF RequireCandidate, Active
  <2>2. txn[c].op = "createExtraction" /\ UNCHANGED Rows /\ Goto(c, "checked")
    BY <1>3 DEF RequireCandidate, At
  <2> QED
    BY <2>1, <2>2, CreationStep
<1>4. CASE (ProviderExtracts(c) \/ InsertExtraction(c)) /\ ~End(c)
  <2>1. candidate[CandidateOf[txn[c].row]].state # "absent"
    BY <1>1, <1>4
       DEF ProviderExtracts, InsertExtraction, At, IInv, TxnsOK, Knows, KnowsExtraction,
           Ops, ExtractionOps
  <2>2. txn[c].op = "createExtraction" /\ UNCHANGED Rows
    BY <1>4 DEF ProviderExtracts, InsertExtraction, At
  <2>3. Goto(c, "extracted") \/ Goto(c, "staged")
    BY <1>4 DEF ProviderExtracts, InsertExtraction
  <2> QED
    BY <2>1, <2>2, <2>3, CreationStep
<1> QED
  BY <1>2, <1>3, <1>4

(* FOR UPDATE finds no other decision of the extraction, and finds the row *)
(* of an extraction that has been committed.                               *)
LEMMA LockExtractionStep == ASSUME IInv, NEW c \in Calls, LockExtraction(c) PROVE IInv'
<1>1. CASE End(c)
  BY <1>1, EndStep DEF LockExtraction
<1>2. CASE ~End(c)
  <2>1. PICK x \in Extractions : txn[c].row = x
    BY DEF LockExtraction, IInv, TxnsOK, Shape, ExtractionOps
  <2>2. PICK read \in CandidateType \cup ExtractionType : txn[c].read = read
    BY DEF IInv, TypeOK
  <2>3. /\ txn[c].op \in DecisionOps /\ UNCHANGED Rows
        /\ \A b \in Calls \ {c} : ~HoldsExtraction(b, x)
        /\ extraction[x].status # None
    BY <1>2, <2>1 DEF LockExtraction
  <2>31. Moves(c, "locked", read) /\ "locked" \in PCs
    BY <1>2, <2>2 DEF LockExtraction, Goto, Moves, PCs
  <2>4. PICK t \in TxnType :
          /\ txn' = [txn EXCEPT ![c] = t] /\ txn'[c] = t
          /\ t.pc = "locked" /\ t.read = read
          /\ t.op = txn[c].op /\ t.row = txn[c].row /\ t.input = txn[c].input
    BY <2>31, GoOn
  <2>5. Shape(c)'
    BY <2>3, <2>4, OpsApart DEF IInv, TxnsOK, Shape, CandidateOps, ExtractionOps, DecisionOps, Ops
  <2>6. Knows(c)'
    BY <2>1, <2>3, <2>4
       DEF Knows, KnowsExtraction, Rows, CandidateOps, ExtractionOps, DecisionOps
  <2>7. \A q \in Candidates : ~WritesCandidate(c, q)'
    BY <2>3, <2>4 DEF WritesCandidate, DecisionOps
  <2>8. ASSUME NEW y \in Extractions, WritesExtraction(c, y)', NEW b \in Calls \ {c}
        PROVE  ~WritesExtraction(b, y)
    <3>1. y = x
      BY <2>1, <2>3, <2>4, <2>8 DEF WritesExtraction, HoldsExtraction, DecisionOps
    <3>2. ASSUME txn[b].op = "createExtraction", txn[b].row = x PROVE FALSE
      <4>1. extraction[x] = Unproposed
        BY <3>2 DEF IInv, TxnsOK, Knows, KnowsExtraction, Ops, ExtractionOps
      <4> QED
        BY <2>3, <4>1 DEF Unproposed
    <3> QED
      BY <2>3, <3>1, <3>2 DEF WritesExtraction
  <2> QED
    BY <2>3, <2>4, <2>5, <2>6, <2>7, <2>8, TxnStep
<1> QED
  BY <1>1, <1>2

(* A decision that goes on still holds its extraction, which is proposed.  *)
LEMMA DecisionStep ==
  ASSUME IInv, NEW c \in Calls, NEW x \in Extractions, txn[c].op \in DecisionOps,
         txn[c].row = x, UNCHANGED Rows, HoldsExtraction(c, x),
         NEW read \in ExtractionType, extraction[x] = read, read.status = "PROPOSED",
         NEW pc \in {"accepted", "staged"}, Moves(c, pc, read),
         pc = "accepted" => txn[c].op = "confirm"
  PROVE  IInv'
<1>1. pc \in PCs
  BY DEF PCs
<1>2. PICK t \in TxnType :
        /\ txn' = [txn EXCEPT ![c] = t] /\ txn'[c] = t
        /\ t.pc = pc /\ t.read = read
        /\ t.op = txn[c].op /\ t.row = txn[c].row /\ t.input = txn[c].input
  BY <1>1, GoOn
<1>3. Shape(c)'
  BY <1>2, OpsApart DEF IInv, TxnsOK, Shape, CandidateOps, ExtractionOps, DecisionOps, Ops
<1>4. Knows(c)'
  BY <1>2 DEF Knows, KnowsExtraction, Rows, CandidateOps, ExtractionOps, DecisionOps
<1>5. \A q \in Candidates : ~WritesCandidate(c, q)'
  BY <1>2 DEF WritesCandidate, DecisionOps
<1>6. ASSUME NEW y \in Extractions, WritesExtraction(c, y)', NEW b \in Calls \ {c}
      PROVE  ~WritesExtraction(b, y)
  <2>1. y = x
    BY <1>2, <1>6 DEF WritesExtraction, HoldsExtraction
  <2>2. WritesExtraction(c, x)
    BY DEF WritesExtraction
  <2> QED
    BY <2>1, <2>2 DEF IInv, OneWriter
<1> QED
  BY <1>2, <1>3, <1>4, <1>5, <1>6, TxnStep

LEMMA ReadExtractionStep == ASSUME IInv, NEW c \in Calls, ReadExtraction(c) PROVE IInv'
<1>1. CASE End(c)
  BY <1>1, EndStep DEF ReadExtraction
<1>2. CASE ~End(c)
  <2>0. txn[c].op \in DecisionOps
    BY DEF ReadExtraction, IInv, TxnsOK, Shape
  <2>1. PICK x \in Extractions : txn[c].row = x
    BY <2>0 DEF IInv, TxnsOK, Shape, ExtractionOps
  <2>2. PICK read \in ExtractionType : extraction[x] = read
    BY DEF IInv, TypeOK
  <2>3. /\ UNCHANGED Rows /\ HoldsExtraction(c, x) /\ read.status = "PROPOSED"
    BY <1>2, <2>0, <2>1, <2>2 DEF ReadExtraction, HoldsExtraction, Decidable
  <2>4. CASE txn[c].op = "confirm"
    <3>1. Moves(c, "accepted", read)
      BY <1>2, <2>1, <2>2, <2>4 DEF ReadExtraction, Moves
    <3> QED
      BY <2>0, <2>1, <2>2, <2>3, <2>4, <3>1, DecisionStep
  <2>5. CASE txn[c].op # "confirm"
    <3>1. Moves(c, "staged", read)
      BY <1>2, <2>1, <2>2, <2>5 DEF ReadExtraction, Moves
    <3> QED
      BY <2>0, <2>1, <2>2, <2>3, <3>1, DecisionStep
  <2> QED
    BY <2>4, <2>5
<1> QED
  BY <1>1, <1>2

LEMMA UpsertProfileStep == ASSUME IInv, NEW c \in Calls, UpsertProfile(c) PROVE IInv'
<1>0. txn[c].op \in DecisionOps /\ txn[c].pc = "accepted"
  BY DEF UpsertProfile, At, DecisionOps
<1>1. PICK x \in Extractions : txn[c].row = x
  BY <1>0 DEF IInv, TxnsOK, Shape, ExtractionOps
<1>2. PICK read \in ExtractionType : extraction[x] = read
  BY DEF IInv, TypeOK
<1>3. txn[c].read = read /\ read.status = "PROPOSED"
  BY <1>0, <1>1, <1>2 DEF IInv, TxnsOK, Knows, KnowsExtraction, Ops, ExtractionOps
<1>4. UNCHANGED Rows /\ HoldsExtraction(c, x) /\ Moves(c, "staged", read)
  BY <1>0, <1>1, <1>3 DEF UpsertProfile, HoldsExtraction, Goto, Moves
<1> QED
  BY <1>0, <1>1, <1>2, <1>3, <1>4, DecisionStep

-----------------------------------------------------------------------------
(* Commits. *)

LEMMA CandidateCommit ==
  ASSUME IInv, NEW c \in Calls, NEW p \in Candidates, WritesCandidate(c, p),
         NEW new \in CandidateType, new.state # "absent",
         candidate' = [candidate EXCEPT ![p] = new],
         audit' \in [record : Candidates, before : CandidateType, after : CandidateType],
         End(c), UNCHANGED <<extraction, profile>>
  PROVE  IInv'
<1>1. TypeOK'
  <2>1. txn' \in [Calls -> TxnType]
    BY IdleTyped DEF End, IInv, TypeOK, TxnType
  <2>2. candidate' \in [Candidates -> CandidateType]
    BY DEF IInv, TypeOK
  <2> QED
    BY <2>1, <2>2 DEF IInv, TypeOK, TxnType
<1>2. \A b \in Calls \ {c} : txn'[b] = txn[b]
  BY DEF End, IInv, TypeOK
<1>3. candidate'[p] = new /\ \A q \in Candidates \ {p} : candidate'[q] = candidate[q]
  BY DEF IInv, TypeOK
<1>4. ProfileHasEvidence'
  BY DEF IInv, ProfileHasEvidence
<1>5. TxnsOK'
  <2> SUFFICES ASSUME NEW b \in Calls, b # c PROVE Shape(b)' /\ Knows(b)'
    BY IdleKnows DEF TxnsOK
  <2>1. Shape(b) /\ Knows(b) /\ txn'[b] = txn[b] /\ ~WritesCandidate(b, p)
    BY <1>2 DEF IInv, TxnsOK, OneWriter
  <2>2. Shape(b)'
    BY <2>1 DEF Shape
  <2>3. ASSUME NEW op \in CandidateOps, txn[b].op = op, NEW q \in Candidates, txn[b].row = q
        PROVE  KnowsCandidate(b, op, q)'
    <3>1. KnowsCandidate(b, op, q)
      BY <2>1, <2>3 DEF Knows, Ops
    <3>2. CASE q = p
      BY <2>1, <2>3, <3>1, <3>2 DEF KnowsCandidate, WritesCandidate
    <3>3. CASE q # p
      BY <1>3, <2>1, <3>1, <3>3 DEF KnowsCandidate, Active
    <3> QED
      BY <3>2, <3>3
  <2>4. ASSUME NEW op \in ExtractionOps, txn[b].op = op, NEW x \in Extractions, txn[b].row = x
        PROVE  KnowsExtraction(b, op, x)'
    <3>1. KnowsExtraction(b, op, x)
      BY <2>1, <2>4 DEF Knows, Ops, ExtractionOps
    <3>2. candidate[CandidateOf[x]].state # "absent" =>
            candidate'[CandidateOf[x]].state # "absent"
      BY <1>3, CandidateOfAssumption
    <3> QED
      BY <2>1, <3>1, <3>2 DEF KnowsExtraction
  <2>5. Knows(b)'
    BY <2>1, <2>3, <2>4 DEF Knows
  <2> QED
    BY <2>2, <2>5
<1>6. OneWriter'
  <2>1. \A b \in Calls \ {c} :
          /\ \A q \in Candidates : WritesCandidate(b, q)' <=> WritesCandidate(b, q)
          /\ \A x \in Extractions : WritesExtraction(b, x)' <=> WritesExtraction(b, x)
    BY <1>2 DEF WritesCandidate, WritesExtraction, HoldsExtraction
  <2> QED
    BY <2>1, IdleKnows DEF IInv, OneWriter
<1> QED
  BY <1>1, <1>4, <1>5, <1>6 DEF IInv

LEMMA ExtractionCommit ==
  ASSUME IInv, NEW c \in Calls, NEW x \in Extractions, WritesExtraction(c, x),
         extraction[x].status # "ACCEPTED",
         NEW new \in ExtractionType,
         extraction' = [extraction EXCEPT ![x] = new],
         audit' \in [record : Extractions, before : ExtractionType, after : ExtractionType],
         End(c), UNCHANGED candidate,
         \/ UNCHANGED profile
         \/ /\ new.status = "ACCEPTED"
            /\ profile' = [profile EXCEPT ![CandidateOf[x]] =
                             [source |-> x, output |-> new.output]]
  PROVE  IInv'
<1>1. TypeOK'
  <2>1. txn' \in [Calls -> TxnType]
    BY IdleTyped DEF End, IInv, TypeOK, TxnType
  <2>2. extraction' \in [Extractions -> ExtractionType]
    BY DEF IInv, TypeOK
  <2>3. profile' \in [Candidates -> ProfileType \cup {None}]
    <3>1. new.status = "ACCEPTED" => new.output \in Values
      BY NoneAssumption DEF ExtractionType
    <3>2. new.status = "ACCEPTED" => [source |-> x, output |-> new.output] \in ProfileType
      BY <3>1 DEF ProfileType
    <3> QED
      BY <3>2 DEF IInv, TypeOK
  <2> QED
    BY <2>1, <2>2, <2>3 DEF IInv, TypeOK, TxnType
<1>2. \A b \in Calls \ {c} : txn'[b] = txn[b]
  BY DEF End, IInv, TypeOK
<1>3. extraction'[x] = new /\ \A y \in Extractions \ {x} : extraction'[y] = extraction[y]
  BY DEF IInv, TypeOK
<1>4. ProfileHasEvidence'
  <2> SUFFICES ASSUME NEW p \in Candidates, profile'[p] # None
               PROVE  /\ CandidateOf[profile'[p].source] = p
                      /\ extraction'[profile'[p].source] =
                           [status |-> "ACCEPTED", output |-> profile'[p].output]
    BY DEF ProfileHasEvidence
  <2>1. CASE profile'[p] = profile[p]
    <3>1. /\ profile[p] \in ProfileType
          /\ CandidateOf[profile[p].source] = p
          /\ extraction[profile[p].source] =
               [status |-> "ACCEPTED", output |-> profile[p].output]
      BY <2>1 DEF IInv, TypeOK, ProfileHasEvidence
    <3>2. profile[p].source \in Extractions \ {x}
      BY <3>1 DEF ProfileType
    <3> QED
      BY <1>3, <2>1, <3>1, <3>2
  <2>2. CASE profile'[p] # profile[p]
    <3>1. /\ new.status = "ACCEPTED" /\ p = CandidateOf[x]
          /\ profile'[p] = [source |-> x, output |-> new.output]
      BY <2>2 DEF IInv, TypeOK
    <3>2. new = [status |-> "ACCEPTED", output |-> new.output]
      BY <3>1, NoneAssumption DEF ExtractionType
    <3> QED
      BY <1>3, <3>1, <3>2
  <2> QED
    BY <2>1, <2>2
<1>5. TxnsOK'
  <2> SUFFICES ASSUME NEW b \in Calls, b # c PROVE Shape(b)' /\ Knows(b)'
    BY IdleKnows DEF TxnsOK
  <2>1. Shape(b) /\ Knows(b) /\ txn'[b] = txn[b] /\ ~WritesExtraction(b, x)
    BY <1>2 DEF IInv, TxnsOK, OneWriter
  <2>2. Shape(b)'
    BY <2>1 DEF Shape
  <2>3. ASSUME NEW op \in CandidateOps, txn[b].op = op, NEW q \in Candidates, txn[b].row = q
        PROVE  KnowsCandidate(b, op, q)'
    <3>1. KnowsCandidate(b, op, q)
      BY <2>1, <2>3 DEF Knows, Ops
    <3> QED
      BY <2>1, <3>1 DEF KnowsCandidate, Active
  <2>4. ASSUME NEW op \in ExtractionOps, txn[b].op = op, NEW y \in Extractions, txn[b].row = y
        PROVE  KnowsExtraction(b, op, y)'
    <3>1. KnowsExtraction(b, op, y)
      BY <2>1, <2>4 DEF Knows, Ops, ExtractionOps
    <3>2. CASE y = x
      <4>1. op # "createExtraction" /\ op \in DecisionOps
        BY <2>1, <2>4, <3>2 DEF WritesExtraction, ExtractionOps
      <4>2. txn[b].pc \notin {"locked", "accepted", "staged"}
        BY <2>1, <2>4, <3>2, <4>1 DEF WritesExtraction, HoldsExtraction
      <4> QED
        BY <2>1, <4>1, <4>2 DEF KnowsExtraction
    <3>3. CASE y # x
      BY <1>3, <2>1, <3>1, <3>3 DEF KnowsExtraction
    <3> QED
      BY <3>2, <3>3
  <2>5. Knows(b)'
    BY <2>1, <2>3, <2>4 DEF Knows
  <2> QED
    BY <2>2, <2>5
<1>6. OneWriter'
  <2>1. \A b \in Calls \ {c} :
          /\ \A q \in Candidates : WritesCandidate(b, q)' <=> WritesCandidate(b, q)
          /\ \A y \in Extractions : WritesExtraction(b, y)' <=> WritesExtraction(b, y)
    BY <1>2 DEF WritesCandidate, WritesExtraction, HoldsExtraction
  <2> QED
    BY <2>1, IdleKnows DEF IInv, OneWriter
<1> QED
  BY <1>1, <1>4, <1>5, <1>6 DEF IInv

(* What each of the six commits does, to which row. *)
CandidateChange(c, p, new) ==
  /\ txn[c].row = p /\ WritesCandidate(c, p)
  /\ new \in CandidateType /\ new.state # "absent"
  /\ candidate' = [candidate EXCEPT ![p] = new]
  /\ audit' \in [record : Candidates, before : CandidateType, after : CandidateType]
  /\ new.state # candidate[p].state =>
       audit' = [record |-> p, before |-> candidate[p], after |-> new]
  /\ End(c) /\ UNCHANGED <<extraction, profile>>

ExtractionChange(c, x, new) ==
  /\ txn[c].row = x /\ WritesExtraction(c, x)
  /\ extraction[x].status # "ACCEPTED" /\ new \in ExtractionType
  /\ extraction' = [extraction EXCEPT ![x] = new]
  /\ audit' = [record |-> x, before |-> extraction[x], after |-> new]
  /\ End(c) /\ UNCHANGED candidate
  /\ \/ UNCHANGED profile
     \/ /\ new.status = "ACCEPTED"
        /\ profile' = [profile EXCEPT ![CandidateOf[x]] =
                         [source |-> x, output |-> new.output]]

LEMMA CreateCandidateFacts ==
  ASSUME IInv, NEW c \in Calls, CreateCandidate(c)
  PROVE  \E p \in Candidates, input \in [Fields -> Values] :
           /\ txn[c].op = "createCandidate" /\ txn[c].input = input /\ candidate[p] = Absent
           /\ CandidateChange(c, p, [state |-> "active", data |-> input])
<1>1. txn[c].op = "createCandidate" /\ txn[c].op \in CandidateOps /\ txn[c].op \in Ops
  BY DEF CreateCandidate, At, CandidateOps, Ops
<1>2. PICK p \in Candidates : txn[c].row = p
  BY <1>1 DEF IInv, TxnsOK, Shape
<1>3. PICK input \in [Fields -> Values] : txn[c].input = input
  BY <1>1 DEF IInv, TxnsOK, Shape, InputsOf
<1> DEFINE new == [state |-> "active", data |-> input]
<1>4. new \in CandidateType /\ new.state # "absent"
  BY DEF CandidateType
<1>5. candidate[p] = Absent
  BY <1>1, <1>2 DEF IInv, TxnsOK, Knows, KnowsCandidate
<1>6. /\ candidate' = [candidate EXCEPT ![p] = new]
      /\ audit' = [record |-> p, before |-> candidate[p], after |-> new]
      /\ End(c) /\ UNCHANGED <<extraction, profile>>
  BY <1>2, <1>3, <1>5 DEF CreateCandidate, Audited
<1>7. audit' \in [record : Candidates, before : CandidateType, after : CandidateType]
  BY <1>4, <1>6 DEF IInv, TypeOK
<1>8. WritesCandidate(c, p)
  BY <1>1, <1>2 DEF WritesCandidate
<1>9. CandidateChange(c, p, new)
  BY <1>2, <1>4, <1>6, <1>7, <1>8 DEF CandidateChange
<1> QED
  BY <1>1, <1>3, <1>5, <1>9

LEMMA UpdateCandidateFacts ==
  ASSUME IInv, NEW c \in Calls, UpdateCandidate(c)
  PROVE  \E p \in Candidates, input \in Given, data \in [Fields -> Values] :
           /\ txn[c].op = "updateCandidate" /\ txn[c].input = input
           /\ candidate[p] = [state |-> "active", data |-> data]
           /\ CandidateChange(c, p, [state |-> "active", data |-> Merge(data, input)])
<1>1. /\ txn[c].op = "updateCandidate" /\ txn[c].pc = "staged"
      /\ txn[c].op \in CandidateOps /\ txn[c].op \in Ops
  BY DEF UpdateCandidate, At, CandidateOps, Ops
<1>2. PICK p \in Candidates : txn[c].row = p
  BY <1>1 DEF IInv, TxnsOK, Shape
<1>3. PICK input \in Given : txn[c].input = input
  BY <1>1 DEF IInv, TxnsOK, Shape, InputsOf
<1>4. Active(p) /\ txn[c].read \in CandidateType
  BY <1>1, <1>2 DEF IInv, TxnsOK, Knows, KnowsCandidate
<1>5. PICK data \in [Fields -> Values] : candidate[p] = [state |-> "active", data |-> data]
  BY <1>4 DEF IInv, TypeOK, CandidateType, Active
<1> DEFINE new == [state |-> "active", data |-> Merge(data, input)]
<1>6. new \in CandidateType /\ new.state # "absent" /\ new.state = candidate[p].state
  BY <1>5, MergeTyped DEF CandidateType
<1>7. /\ candidate' = [candidate EXCEPT ![p] = new]
      /\ audit' = [record |-> p, before |-> txn[c].read, after |-> new]
      /\ End(c) /\ UNCHANGED <<extraction, profile>>
  <2>1. new = [candidate[p] EXCEPT !.data = UpdatedData(c)]
    BY <1>2, <1>3, <1>5 DEF UpdatedData
  <2> QED
    BY <1>2, <2>1 DEF UpdateCandidate, Audited
<1>8. audit' \in [record : Candidates, before : CandidateType, after : CandidateType]
  BY <1>4, <1>6, <1>7
<1>9. WritesCandidate(c, p)
  BY <1>1, <1>2 DEF WritesCandidate
<1>10. CandidateChange(c, p, new)
  BY <1>2, <1>6, <1>7, <1>8, <1>9 DEF CandidateChange
<1> QED
  BY <1>1, <1>3, <1>5, <1>10

LEMMA RemoveCandidateFacts ==
  ASSUME IInv, NEW c \in Calls, RemoveCandidate(c)
  PROVE  \E p \in Candidates, data \in [Fields -> Values] :
           /\ txn[c].op = "removeCandidate"
           /\ candidate[p] = [state |-> "active", data |-> data]
           /\ CandidateChange(c, p, [state |-> "removed", data |-> data])
<1>1. /\ txn[c].op = "removeCandidate" /\ txn[c].pc = "staged"
      /\ txn[c].op \in CandidateOps /\ txn[c].op \in Ops
  BY DEF RemoveCandidate, At, CandidateOps, Ops
<1>2. PICK p \in Candidates : txn[c].row = p
  BY <1>1 DEF IInv, TxnsOK, Shape
<1>3. Active(p) /\ txn[c].read = candidate[p]
  BY <1>1, <1>2 DEF IInv, TxnsOK, Knows, KnowsCandidate
<1>4. PICK data \in [Fields -> Values] : candidate[p] = [state |-> "active", data |-> data]
  BY <1>3 DEF IInv, TypeOK, CandidateType, Active
<1> DEFINE new == [state |-> "removed", data |-> data]
<1>5. new \in CandidateType /\ new.state # "absent"
  BY DEF CandidateType
<1>6. /\ candidate' = [candidate EXCEPT ![p] = new]
      /\ audit' = [record |-> p, before |-> candidate[p], after |-> new]
      /\ End(c) /\ UNCHANGED <<extraction, profile>>
  <2>1. new = [candidate[p] EXCEPT !.state = "removed"]
    BY <1>4
  <2> QED
    BY <1>2, <1>3, <2>1 DEF RemoveCandidate, Audited
<1>7. audit' \in [record : Candidates, before : CandidateType, after : CandidateType]
  BY <1>5, <1>6 DEF IInv, TypeOK
<1>8. WritesCandidate(c, p)
  BY <1>1, <1>2 DEF WritesCandidate
<1>9. CandidateChange(c, p, new)
  BY <1>2, <1>5, <1>6, <1>7, <1>8 DEF CandidateChange
<1> QED
  BY <1>1, <1>4, <1>9

LEMMA CreateExtractionFacts ==
  ASSUME IInv, NEW c \in Calls, CreateExtraction(c)
  PROVE  \E x \in Extractions :
           /\ txn[c].op = "createExtraction"
           /\ extraction[x] = Unproposed /\ candidate[CandidateOf[x]].state # "absent"
           /\ UNCHANGED profile
           /\ ExtractionChange(c, x, [status |-> "PROPOSED", output |-> None])
<1>1. /\ txn[c].op = "createExtraction" /\ txn[c].pc = "staged"
      /\ txn[c].op \in ExtractionOps /\ txn[c].op \in Ops
  BY DEF CreateExtraction, At, ExtractionOps, Ops
<1>2. PICK x \in Extractions : txn[c].row = x
  BY <1>1 DEF IInv, TxnsOK, Shape
<1>3. extraction[x] = Unproposed /\ candidate[CandidateOf[x]].state # "absent"
  BY <1>1, <1>2 DEF IInv, TxnsOK, Knows, KnowsExtraction
<1> DEFINE new == [status |-> "PROPOSED", output |-> None]
<1>4. new \in ExtractionType
  BY DEF ExtractionType
<1>5. /\ extraction' = [extraction EXCEPT ![x] = new]
      /\ audit' = [record |-> x, before |-> extraction[x], after |-> new]
      /\ End(c) /\ UNCHANGED <<candidate, profile>>
  BY <1>2, <1>3 DEF CreateExtraction, Audited
<1>6. WritesExtraction(c, x) /\ extraction[x].status # "ACCEPTED"
  BY <1>1, <1>2, <1>3, NoneAssumption DEF WritesExtraction, Unproposed
<1>7. ExtractionChange(c, x, new)
  BY <1>2, <1>4, <1>5, <1>6 DEF ExtractionChange
<1> QED
  BY <1>1, <1>3, <1>5, <1>7

LEMMA DecisionFacts ==
  ASSUME IInv, NEW c \in Calls, txn[c].pc = "staged", txn[c].op \in DecisionOps
  PROVE  \E x \in Extractions :
           /\ txn[c].row = x /\ WritesExtraction(c, x)
           /\ extraction[x].status = "PROPOSED" /\ txn[c].read = extraction[x]
<1>1. txn[c].op \in ExtractionOps /\ txn[c].op \in Ops
  BY DEF ExtractionOps, Ops
<1>2. PICK x \in Extractions : txn[c].row = x
  BY <1>1 DEF IInv, TxnsOK, Shape
<1>3. extraction[x].status = "PROPOSED" /\ txn[c].read = extraction[x]
  BY <1>1, <1>2 DEF IInv, TxnsOK, Knows, KnowsExtraction
<1>4. WritesExtraction(c, x)
  BY <1>2 DEF WritesExtraction, HoldsExtraction
<1> QED
  BY <1>2, <1>3, <1>4

LEMMA ConfirmFacts ==
  ASSUME IInv, NEW c \in Calls, Confirm(c)
  PROVE  \E x \in Extractions, output \in Values :
           /\ txn[c].op = "confirm" /\ txn[c].input = output
           /\ extraction[x].status = "PROPOSED"
           /\ profile' = [profile EXCEPT ![CandidateOf[x]] = [source |-> x, output |-> output]]
           /\ ExtractionChange(c, x, [status |-> "ACCEPTED", output |-> output])
<1>1. /\ txn[c].op = "confirm" /\ txn[c].pc = "staged"
      /\ txn[c].op \in DecisionOps /\ txn[c].op \in Ops
  BY DEF Confirm, At, DecisionOps, Ops
<1>2. PICK x \in Extractions : /\ txn[c].row = x /\ WritesExtraction(c, x)
                               /\ extraction[x].status = "PROPOSED"
                               /\ txn[c].read = extraction[x]
  BY <1>1, DecisionFacts
<1>3. PICK output \in Values : txn[c].input = output
  BY <1>1 DEF IInv, TxnsOK, Shape, InputsOf
<1> DEFINE new == [status |-> "ACCEPTED", output |-> output]
<1>4. new \in ExtractionType
  BY DEF ExtractionType
<1>5. /\ extraction' = [extraction EXCEPT ![x] = new]
      /\ audit' = [record |-> x, before |-> extraction[x], after |-> new]
      /\ End(c) /\ UNCHANGED candidate
      /\ profile' = [profile EXCEPT ![CandidateOf[x]] = [source |-> x, output |-> output]]
  BY <1>2, <1>3 DEF Confirm, Decide, Audited
<1>6. ExtractionChange(c, x, new)
  BY <1>2, <1>4, <1>5 DEF ExtractionChange
<1> QED
  BY <1>1, <1>2, <1>3, <1>5, <1>6

LEMMA RejectFacts ==
  ASSUME IInv, NEW c \in Calls, Reject(c)
  PROVE  \E x \in Extractions :
           /\ txn[c].op = "reject" /\ extraction[x].status = "PROPOSED" /\ UNCHANGED profile
           /\ ExtractionChange(c, x, [status |-> "REJECTED", output |-> None])
<1>1. /\ txn[c].op = "reject" /\ txn[c].pc = "staged" /\ txn[c].op \in DecisionOps
  BY DEF Reject, At, DecisionOps
<1>2. PICK x \in Extractions : /\ txn[c].row = x /\ WritesExtraction(c, x)
                               /\ extraction[x].status = "PROPOSED"
                               /\ txn[c].read = extraction[x]
  BY <1>1, DecisionFacts
<1> DEFINE new == [status |-> "REJECTED", output |-> None]
<1>3. new \in ExtractionType
  BY DEF ExtractionType
<1>4. /\ extraction' = [extraction EXCEPT ![x] = new]
      /\ audit' = [record |-> x, before |-> extraction[x], after |-> new]
      /\ End(c) /\ UNCHANGED <<candidate, profile>>
  BY <1>2 DEF Reject, Decide, Audited
<1>5. ExtractionChange(c, x, new)
  BY <1>2, <1>3, <1>4 DEF ExtractionChange
<1> QED
  BY <1>1, <1>2, <1>4, <1>5

(* Every commit changes one row. *)
CandidateCommits(c) == CreateCandidate(c) \/ UpdateCandidate(c) \/ RemoveCandidate(c)

ExtractionCommits(c) == CreateExtraction(c) \/ Confirm(c) \/ Reject(c)

LEMMA CommitsChange ==
  ASSUME IInv, NEW c \in Calls
  PROVE  /\ CandidateCommits(c) => \E p \in Candidates : \E new : CandidateChange(c, p, new)
         /\ ExtractionCommits(c) => \E x \in Extractions : \E new : ExtractionChange(c, x, new)
BY CreateCandidateFacts, UpdateCandidateFacts, RemoveCandidateFacts, CreateExtractionFacts,
   ConfirmFacts, RejectFacts DEF CandidateCommits, ExtractionCommits

LEMMA CommitStep ==
  ASSUME IInv, NEW c \in Calls, CandidateCommits(c) \/ ExtractionCommits(c)
  PROVE  IInv'
<1>1. CASE CandidateCommits(c)
  <2>1. PICK p \in Candidates : \E new : CandidateChange(c, p, new)
    BY <1>1, CommitsChange
  <2>2. PICK new : CandidateChange(c, p, new)
    BY <2>1
  <2> QED
    BY <2>2, CandidateCommit DEF CandidateChange
<1>2. CASE ExtractionCommits(c)
  <2>1. PICK x \in Extractions : \E new : ExtractionChange(c, x, new)
    BY <1>2, CommitsChange
  <2>2. PICK new : ExtractionChange(c, x, new)
    BY <2>1
  <2>3. new \in ExtractionType /\ extraction[x] \in ExtractionType
    BY <2>2 DEF ExtractionChange, IInv, TypeOK
  <2>4. audit' \in [record : Extractions, before : ExtractionType, after : ExtractionType]
    BY <2>2, <2>3 DEF ExtractionChange
  <2> QED
    BY <2>2, <2>4, ExtractionCommit DEF ExtractionChange
<1> QED
  BY <1>1, <1>2

LEMMA InvStep == IInv /\ [Next]_vars => IInv'
<1> SUFFICES ASSUME IInv, [Next]_vars PROVE IInv'
  OBVIOUS
<1>1. CASE UNCHANGED vars
  BY <1>1 DEF vars, IInv, TypeOK, TxnsOK, Shape, Knows, KnowsCandidate, KnowsExtraction, Active,
              OneWriter, WritesCandidate, WritesExtraction, HoldsExtraction, ProfileHasEvidence
<1>2. CASE Next
  <2> PICK c \in Calls :
        \/ Begin(c)
        \/ CandidateCommits(c) \/ ExtractionCommits(c)
        \/ ReadBefore(c) \/ WriteCandidate(c) \/ LockCandidate(c)
        \/ RequireCandidate(c) \/ ProviderExtracts(c) \/ InsertExtraction(c)
        \/ LockExtraction(c) \/ ReadExtraction(c) \/ UpsertProfile(c)
        \/ Rollback(c)
    BY <1>2 DEF Next, CandidateCommits, ExtractionCommits
  <2>1. CASE Rollback(c)
    BY <2>1, EndStep DEF Rollback
  <2> QED
    BY <2>1, BeginStep, CommitStep, ReadBeforeStep, WriteCandidateStep, LockCandidateStep,
       CreationSteps, LockExtractionStep, ReadExtractionStep, UpsertProfileStep
<1> QED
  BY <1>1, <1>2

LEMMA Invariance == Spec => []IInv
  BY InvInit, InvStep, PTL DEF Spec

-----------------------------------------------------------------------------
(* The theorems. *)

(* The variables have their types, and a profile is what its source         *)
(* extraction was confirmed with, however confirmations, rejections and     *)
(* removals interleave.                                                     *)
THEOREM ProfilesHaveEvidence == Spec => []CandidatesInv
<1>1. IInv => CandidatesInv
  BY DEF IInv, CandidatesInv
<1> QED
  BY <1>1, Invariance, PTL

(* The ledger has each decision, and each removal, with the state it found  *)
(* at its commit: the row a decision has read is the row it changes.        *)
THEOREM DecisionsAudited == Spec => DecisionsAreAudited
<1> DEFINE Ok == /\ \A x \in Extractions : extraction'[x] # extraction[x] =>
                      audit' = [record |-> x, before |-> extraction[x], after |-> extraction'[x]]
                 /\ \A p \in Candidates : candidate'[p].state # candidate[p].state =>
                      audit' = [record |-> p, before |-> candidate[p], after |-> candidate'[p]]
<1>1. IInv /\ [Next]_vars => [Ok]_vars
  <2> SUFFICES ASSUME IInv, Next PROVE Ok
    OBVIOUS
  <2>1. PICK c \in Calls : CandidateCommits(c) \/ ExtractionCommits(c)
                             \/ UNCHANGED <<candidate, extraction>>
    BY DEF Next, CandidateCommits, ExtractionCommits, Begin, ReadBefore, WriteCandidate,
           LockCandidate, RequireCandidate, ProviderExtracts, InsertExtraction, LockExtraction,
           ReadExtraction, UpsertProfile, Rollback, Rows
  <2>2. CASE UNCHANGED <<candidate, extraction>>
    BY <2>2
  <2>3. CASE CandidateCommits(c)
    <3>1. PICK p \in Candidates : \E new : CandidateChange(c, p, new)
      BY <2>3, CommitsChange
    <3>2. PICK new : CandidateChange(c, p, new)
      BY <3>1
    <3>3. \A q \in Candidates : candidate'[q] = IF q = p THEN new ELSE candidate[q]
      BY <3>2 DEF CandidateChange, IInv, TypeOK
    <3> QED
      BY <3>2, <3>3 DEF CandidateChange
  <2>4. CASE ExtractionCommits(c)
    <3>1. PICK x \in Extractions : \E new : ExtractionChange(c, x, new)
      BY <2>4, CommitsChange
    <3>2. PICK new : ExtractionChange(c, x, new)
      BY <3>1
    <3>3. \A y \in Extractions : extraction'[y] = IF y = x THEN new ELSE extraction[y]
      BY <3>2 DEF ExtractionChange, IInv, TypeOK
    <3> QED
      BY <3>2, <3>3 DEF ExtractionChange
  <2> QED
    BY <2>1, <2>2, <2>3, <2>4
<1> QED
  BY <1>1, Invariance, PTL DEF Spec, DecisionsAreAudited

(* What one step does to a candidate and to an extraction. *)
CandidateMoves(p) ==
  \/ candidate'[p] = candidate[p]
  \/ /\ audit'.record = p /\ audit'.after = candidate'[p]
     /\ \/ candidate[p].state = "absent" /\ candidate'[p].state = "active"
        \/ candidate[p].state = "active" /\ candidate'[p].state = "active"
        \/ /\ candidate[p].state = "active" /\ candidate'[p].state = "removed"
           /\ candidate'[p].data = candidate[p].data

ExtractionMoves(x) ==
  \/ extraction'[x] = extraction[x]
  \/ /\ extraction[x].status = None /\ extraction'[x].status = "PROPOSED"
     /\ candidate[CandidateOf[x]].state # "absent"
  \/ extraction[x].status = "PROPOSED" /\ extraction'[x].status \in {"ACCEPTED", "REJECTED"}

LEMMA CandidateCommitMoves ==
  ASSUME IInv, NEW c \in Calls, CandidateCommits(c), NEW p \in Candidates
  PROVE  CandidateMoves(p) /\ UNCHANGED extraction
<1>1. ASSUME NEW q \in Candidates, NEW new, CandidateChange(c, q, new),
             audit' = [record |-> q, before |-> audit'.before, after |-> new],
             \/ candidate[q].state = "absent" /\ new.state = "active"
             \/ candidate[q].state = "active" /\ new.state = "active"
             \/ /\ candidate[q].state = "active" /\ new.state = "removed"
                /\ new.data = candidate[q].data
      PROVE  CandidateMoves(p) /\ UNCHANGED extraction
  <2>1. candidate' = [candidate EXCEPT ![q] = new] /\ UNCHANGED extraction
    BY <1>1 DEF CandidateChange
  <2>2. candidate'[p] = IF p = q THEN new ELSE candidate[p]
    BY <2>1 DEF IInv, TypeOK
  <2>3. audit'.record = q /\ audit'.after = new
    BY <1>1
  <2> QED
    BY <1>1, <2>1, <2>2, <2>3 DEF CandidateMoves
<1>2. CASE CreateCandidate(c)
  <2>1. PICK q \in Candidates, input \in [Fields -> Values] :
          /\ candidate[q] = Absent
          /\ CandidateChange(c, q, [state |-> "active", data |-> input])
    BY <1>2, CreateCandidateFacts
  <2>2. candidate[q].state = "absent"
    BY <2>1 DEF Absent
  <2>3. audit' = [record |-> q, before |-> candidate[q],
                  after |-> [state |-> "active", data |-> input]]
    BY <2>1, <2>2 DEF CandidateChange
  <2> QED
    BY <1>1, <2>1, <2>2, <2>3
<1>3. CASE UpdateCandidate(c)
  <2>1. PICK q \in Candidates, input \in Given, data \in [Fields -> Values] :
          /\ candidate[q] = [state |-> "active", data |-> data]
          /\ CandidateChange(c, q, [state |-> "active", data |-> Merge(data, input)])
    BY <1>3, UpdateCandidateFacts
  <2>2. /\ candidate' = [candidate EXCEPT ![q] = [state |-> "active", data |-> Merge(data, input)]]
        /\ txn[c].row = q
    BY <2>1 DEF CandidateChange
  <2>3. candidate'[q] = [state |-> "active", data |-> Merge(data, input)]
    BY <2>2 DEF IInv, TypeOK
  <2>4. audit' = [record |-> q, before |-> txn[c].read, after |-> candidate'[q]]
    <3>1. audit' = [record |-> q, before |-> txn[c].read,
                    after |-> [candidate[q] EXCEPT !.data = UpdatedData(c)]]
      BY <1>3, <2>2 DEF UpdateCandidate, Audited
    <3>2. candidate'[q] = [candidate[q] EXCEPT !.data = UpdatedData(c)]
      BY <1>3, <2>2 DEF UpdateCandidate, IInv, TypeOK
    <3> QED
      BY <3>1, <3>2
  <2> QED
    BY <1>1, <2>1, <2>3, <2>4
<1>4. CASE RemoveCandidate(c)
  <2>1. PICK q \in Candidates, data \in [Fields -> Values] :
          /\ candidate[q] = [state |-> "active", data |-> data]
          /\ CandidateChange(c, q, [state |-> "removed", data |-> data])
    BY <1>4, RemoveCandidateFacts
  <2>2. audit' = [record |-> q, before |-> candidate[q],
                  after |-> [state |-> "removed", data |-> data]]
    BY <2>1 DEF CandidateChange
  <2> QED
    BY <1>1, <2>1, <2>2
<1> QED
  BY <1>2, <1>3, <1>4 DEF CandidateCommits

LEMMA ExtractionCommitMoves ==
  ASSUME IInv, NEW c \in Calls, ExtractionCommits(c), NEW x \in Extractions
  PROVE  ExtractionMoves(x) /\ UNCHANGED candidate
<1>1. ASSUME NEW y \in Extractions, NEW new, ExtractionChange(c, y, new),
             \/ /\ extraction[y].status = None /\ new.status = "PROPOSED"
                /\ candidate[CandidateOf[y]].state # "absent"
             \/ extraction[y].status = "PROPOSED" /\ new.status \in {"ACCEPTED", "REJECTED"}
      PROVE  ExtractionMoves(x) /\ UNCHANGED candidate
  <2>1. extraction' = [extraction EXCEPT ![y] = new] /\ UNCHANGED candidate
    BY <1>1 DEF ExtractionChange
  <2>2. extraction'[x] = IF x = y THEN new ELSE extraction[x]
    BY <2>1 DEF IInv, TypeOK
  <2> QED
    BY <1>1, <2>1, <2>2 DEF ExtractionMoves
<1>2. CASE CreateExtraction(c)
  <2>1. PICK y \in Extractions :
          /\ extraction[y] = Unproposed /\ candidate[CandidateOf[y]].state # "absent"
          /\ ExtractionChange(c, y, [status |-> "PROPOSED", output |-> None])
    BY <1>2, CreateExtractionFacts
  <2>2. extraction[y].status = None
    BY <2>1 DEF Unproposed
  <2> QED
    BY <1>1, <2>1, <2>2
<1>3. CASE Confirm(c)
  <2>1. PICK y \in Extractions, output \in Values :
          /\ extraction[y].status = "PROPOSED"
          /\ ExtractionChange(c, y, [status |-> "ACCEPTED", output |-> output])
    BY <1>3, ConfirmFacts
  <2> QED
    BY <1>1, <2>1
<1>4. CASE Reject(c)
  <2>1. PICK y \in Extractions :
          /\ extraction[y].status = "PROPOSED"
          /\ ExtractionChange(c, y, [status |-> "REJECTED", output |-> None])
    BY <1>4, RejectFacts
  <2> QED
    BY <1>1, <2>1
<1> QED
  BY <1>2, <1>3, <1>4 DEF ExtractionCommits

LEMMA StepMoves ==
  ASSUME IInv, [Next]_vars
  PROVE  /\ \A p \in Candidates : CandidateMoves(p)
         /\ \A x \in Extractions : ExtractionMoves(x)
         /\ UNCHANGED candidate \/ UNCHANGED extraction
<1>1. CASE UNCHANGED <<candidate, extraction>>
  BY <1>1 DEF CandidateMoves, ExtractionMoves
<1>2. ASSUME NEW c \in Calls, CandidateCommits(c) \/ ExtractionCommits(c)
      PROVE  /\ \A p \in Candidates : CandidateMoves(p)
             /\ \A x \in Extractions : ExtractionMoves(x)
             /\ UNCHANGED candidate \/ UNCHANGED extraction
  <2>1. CASE CandidateCommits(c)
    <3>1. UNCHANGED extraction
      BY <2>1, CommitsChange DEF CandidateChange
    <3> QED
      BY <2>1, <3>1, CandidateCommitMoves DEF ExtractionMoves
  <2>2. CASE ExtractionCommits(c)
    <3>1. UNCHANGED candidate
      BY <2>2, CommitsChange DEF ExtractionChange
    <3> QED
      BY <2>2, <3>1, ExtractionCommitMoves DEF CandidateMoves
  <2> QED
    BY <1>2, <2>1, <2>2
<1> QED
  BY <1>1, <1>2
  DEF Next, CandidateCommits, ExtractionCommits, Begin, ReadBefore, WriteCandidate,
      LockCandidate, RequireCandidate, ProviderExtracts, InsertExtraction, LockExtraction,
      ReadExtraction, UpsertProfile, Rollback, Rows, vars

(* A removed candidate is never written again, and neither is a decided    *)
(* extraction: an update that has read a candidate before its removal, and *)
(* a decision that has waited for another one, end without a trace.        *)
THEOREM DecidedRowsStay ==
  Spec => [][/\ \A p \in Candidates : candidate[p].state = "removed" =>
                  candidate'[p] = candidate[p]
             /\ \A x \in Extractions : extraction[x].status \in {"ACCEPTED", "REJECTED"} =>
                  extraction'[x] = extraction[x]]_vars
<1>1. IInv /\ [Next]_vars =>
        [/\ \A p \in Candidates : candidate[p].state = "removed" =>
              candidate'[p] = candidate[p]
         /\ \A x \in Extractions : extraction[x].status \in {"ACCEPTED", "REJECTED"} =>
              extraction'[x] = extraction[x]]_vars
  BY StepMoves, NoneAssumption DEF CandidateMoves, ExtractionMoves
<1> QED
  BY <1>1, Invariance, PTL DEF Spec

(* The event of a change of a candidate names it and ends with what the    *)
(* candidate is after the commit.  Of the two images of an update only the *)
(* one before it can be out of date.                                       *)
THEOREM AfterImagesAreTrue ==
  Spec => [][\A p \in Candidates : candidate'[p] # candidate[p] =>
               audit'.record = p /\ audit'.after = candidate'[p]]_vars
<1>1. IInv /\ [Next]_vars =>
        [\A p \in Candidates : candidate'[p] # candidate[p] =>
           audit'.record = p /\ audit'.after = candidate'[p]]_vars
  BY StepMoves DEF CandidateMoves
<1> QED
  BY <1>1, Invariance, PTL DEF Spec

(* A candidate is created before anything is extracted for it, and is kept *)
(* when it is removed.                                                     *)
ExtractionsHaveCandidates ==
  \A x \in Extractions : extraction[x].status # None =>
    candidate[CandidateOf[x]].state # "absent"

(* No extraction, and so no profile, is without its candidate, though the  *)
(* candidate is looked at before the provider is awaited and not again.    *)
THEOREM NoOrphanedExtraction == Spec => []ExtractionsHaveCandidates
<1>1. Init => ExtractionsHaveCandidates
  BY DEF Init, ExtractionsHaveCandidates, Unproposed
<1>2. IInv /\ ExtractionsHaveCandidates /\ [Next]_vars => ExtractionsHaveCandidates'
  <2> SUFFICES ASSUME IInv, ExtractionsHaveCandidates, [Next]_vars, NEW x \in Extractions,
                      extraction'[x].status # None
               PROVE  candidate'[CandidateOf[x]].state # "absent"
    BY DEF ExtractionsHaveCandidates
  <2>1. PICK p \in Candidates : p = CandidateOf[x]
    BY CandidateOfAssumption
  <2>2. CandidateMoves(p) /\ ExtractionMoves(x)
    BY StepMoves
  <2>3. candidate[p].state # "absent"
    BY <2>1, <2>2, NoneAssumption DEF ExtractionMoves, ExtractionsHaveCandidates
  <2> QED
    BY <2>1, <2>2, <2>3 DEF CandidateMoves
<1> QED
  BY <1>1, <1>2, Invariance, PTL DEF Spec

(* What a transaction waits for: the lock of a candidate, of an extraction *)
(* or of a profile that another one holds.                                 *)
Waits(c) ==
  \/ /\ At(c, "checked", "updateCandidate")
     /\ ~CandidateFree(c, txn[c].row, {"update", "noKeyUpdate"})
  \/ /\ At(c, "begun", "removeCandidate")
     /\ ~CandidateFree(c, txn[c].row, {"update", "noKeyUpdate", "keyShare"})
  \/ /\ At(c, "extracted", "createExtraction")
     /\ ~CandidateFree(c, CandidateOf[txn[c].row], {"update"})
  \/ /\ txn[c].pc = "begun" /\ txn[c].op \in DecisionOps
     /\ \E b \in Calls \ {c} : HoldsExtraction(b, txn[c].row)
  \/ /\ At(c, "accepted", "confirm")
     /\ \/ \E b \in Calls \ {c} : HoldsProfile(b, CandidateOf[txn[c].row])
        \/ /\ profile[CandidateOf[txn[c].row]] = None
           /\ ~CandidateFree(c, CandidateOf[txn[c].row], {"update"})

(* Whenever a transaction waits, one of those that hold something does not *)
(* wait for anything.                                                      *)
NoDeadlock ==
  \A c \in Calls : Waits(c) =>
    \E b \in Calls : txn[b].pc \in {"locked", "accepted", "staged"} /\ ~Waits(b)

(* The lock of an extraction is taken first, that of a profile or of a     *)
(* candidate last, so in no state, however many there are, do the          *)
(* transactions of the two services wait for one another in a circle.      *)
LEMMA NobodyWaitsInACircle == NoDeadlock
<1>1. ASSUME NEW b \in Calls, txn[b].pc \in {"locked", "staged"} PROVE ~Waits(b)
  BY <1>1 DEF Waits, At
<1>2. ASSUME NEW b \in Calls, NEW p, NEW modes, ~CandidateFree(b, p, modes)
      PROVE  \E a \in Calls : txn[a].pc = "staged"
  BY <1>2 DEF CandidateFree, HoldsCandidate
<1>3. ASSUME NEW b \in Calls, At(b, "accepted", "confirm"), Waits(b)
      PROVE  \E a \in Calls : txn[a].pc = "staged"
  BY <1>2, <1>3 DEF Waits, At, HoldsProfile
<1>4. ASSUME NEW c \in Calls, Waits(c)
      PROVE  \E b \in Calls : txn[b].pc \in {"locked", "accepted", "staged"} /\ ~Waits(b)
  <2>1. PICK b \in Calls : txn[b].pc \in {"locked", "accepted", "staged"}
    BY <1>2, <1>4 DEF Waits, At, HoldsExtraction, HoldsProfile
  <2>2. CASE ~Waits(b)
    BY <2>1, <2>2
  <2>3. CASE Waits(b)
    <3>1. PICK a \in Calls : txn[a].pc = "staged"
      BY <1>1, <1>3, <2>1, <2>3 DEF Waits, At
    <3> QED
      BY <1>1, <3>1
  <2> QED
    BY <2>2, <2>3
<1> QED
  BY <1>4 DEF NoDeadlock

-----------------------------------------------------------------------------
(* The refinement. *)

(* What History sees of the state. *)
Asked == [c \in Calls |->
            IF txn[c].pc = "idle" THEN None
            ELSE [op |-> txn[c].op, row |-> txn[c].row, input |-> txn[c].input]]
Data == [p \in Candidates |-> candidate[p].data]
Gone == {p \in Candidates : candidate[p].state = "removed"}
Proposal == [x \in Extractions |-> extraction[x].status]

Seen == <<Asked, Data, Gone, Proposal, profile>>

(* The operations of History, in these terms. *)
LEMMA HistoryStates ==
  /\ History!Init <=> /\ Asked = [c \in Calls |-> None] /\ Data = [p \in Candidates |-> None]
                      /\ Gone = {} /\ Proposal = [x \in Extractions |-> None]
                      /\ profile = [p \in Candidates |-> None]
  /\ UNCHANGED History!vars <=> UNCHANGED Seen
  /\ \A c \in Calls :
       /\ History!Ask(c) <=> /\ Asked[c] = None
                             /\ \E request \in History!Requests :
                                  Asked' = [Asked EXCEPT ![c] = request]
                             /\ UNCHANGED <<Data, Gone, Proposal, profile>>
       /\ History!Drop(c) <=> /\ Asked' = [Asked EXCEPT ![c] = None]
                              /\ UNCHANGED <<Data, Gone, Proposal, profile>>
       /\ Asked[c] # None /\ History!Serve(c) => History!Next
       /\ Asked[c] # None /\ History!Drop(c) => History!Next
       /\ History!Ask(c) => History!Next
<1>1. History!Init <=> /\ Asked = [c \in Calls |-> None] /\ Data = [p \in Candidates |-> None]
                       /\ Gone = {} /\ Proposal = [x \in Extractions |-> None]
                       /\ profile = [p \in Candidates |-> None]
  BY DEF History!Init, Asked, Data, Gone, Proposal
<1>2. UNCHANGED History!vars <=> UNCHANGED Seen
  BY DEF History!vars, Seen, Asked, Data, Gone, Proposal
<1>3. ASSUME NEW c \in Calls
      PROVE  /\ History!Ask(c) <=> /\ Asked[c] = None
                                   /\ \E request \in History!Requests :
                                        Asked' = [Asked EXCEPT ![c] = request]
                                   /\ UNCHANGED <<Data, Gone, Proposal, profile>>
             /\ History!Drop(c) <=> /\ Asked' = [Asked EXCEPT ![c] = None]
                                    /\ UNCHANGED <<Data, Gone, Proposal, profile>>
  BY DEF History!Ask, History!Drop, History!Finish, Asked, Data, Gone, Proposal
<1>4. ASSUME NEW c \in Calls
      PROVE  /\ Asked[c] # None /\ History!Serve(c) => History!Next
             /\ Asked[c] # None /\ History!Drop(c) => History!Next
             /\ History!Ask(c) => History!Next
  BY DEF History!Next, Asked
<1> QED
  BY <1>1, <1>2, <1>3, <1>4

(* What it is to serve the request of a call. *)
LEMMA HistoryServes ==
  ASSUME NEW c \in Calls, NEW row, NEW input, NEW op \in Ops, Asked[c].op = op,
         Asked[c].row = row, Asked[c].input = input,
         Asked' = [Asked EXCEPT ![c] = None]
  PROVE  /\ /\ op = "createCandidate" /\ Data[row] = None
            /\ Data' = [Data EXCEPT ![row] = input]
            /\ UNCHANGED <<Gone, Proposal, profile>>
            => History!Serve(c)
         /\ /\ op = "updateCandidate" /\ Data[row] # None /\ row \notin Gone
            /\ Data' = [Data EXCEPT ![row] = Merge(Data[row], input)]
            /\ UNCHANGED <<Gone, Proposal, profile>>
            => History!Serve(c)
         /\ /\ op = "removeCandidate" /\ Data[row] # None /\ row \notin Gone
            /\ Gone' = Gone \cup {row}
            /\ UNCHANGED <<Data, Proposal, profile>>
            => History!Serve(c)
         /\ /\ op = "createExtraction" /\ Data[CandidateOf[row]] # None /\ Proposal[row] = None
            /\ Proposal' = [Proposal EXCEPT ![row] = "PROPOSED"]
            /\ UNCHANGED <<Data, Gone, profile>>
            => History!Serve(c)
         /\ /\ op = "confirm" /\ Proposal[row] = "PROPOSED"
            /\ Proposal' = [Proposal EXCEPT ![row] = "ACCEPTED"]
            /\ profile' = [profile EXCEPT ![CandidateOf[row]] =
                             [source |-> row, output |-> input]]
            /\ UNCHANGED <<Data, Gone>>
            => History!Serve(c)
         /\ /\ op = "reject" /\ Proposal[row] = "PROPOSED"
            /\ Proposal' = [Proposal EXCEPT ![row] = "REJECTED"]
            /\ UNCHANGED <<Data, Gone, profile>>
            => History!Serve(c)
<1> DEFINE r == Asked[c].row
           i == Asked[c].input
<1>1. History!Finish(c)
  BY DEF History!Finish, Asked
<1>2. History!Serve(c) <=>
        /\ CASE Asked[c].op = "createCandidate" ->
                  /\ Data[r] = None /\ Data' = [Data EXCEPT ![r] = i]
                  /\ UNCHANGED <<Gone, Proposal, profile>>
             [] Asked[c].op = "updateCandidate" ->
                  /\ Data[r] # None /\ r \notin Gone
                  /\ Data' = [Data EXCEPT ![r] = Merge(Data[r], i)]
                  /\ UNCHANGED <<Gone, Proposal, profile>>
             [] Asked[c].op = "removeCandidate" ->
                  /\ Data[r] # None /\ r \notin Gone
                  /\ Gone' = Gone \cup {r}
                  /\ UNCHANGED <<Data, Proposal, profile>>
             [] Asked[c].op = "createExtraction" ->
                  /\ Data[CandidateOf[r]] # None /\ Proposal[r] = None
                  /\ Proposal' = [Proposal EXCEPT ![r] = "PROPOSED"]
                  /\ UNCHANGED <<Data, Gone, profile>>
             [] Asked[c].op = "confirm" ->
                  /\ Proposal[r] = "PROPOSED"
                  /\ Proposal' = [Proposal EXCEPT ![r] = "ACCEPTED"]
                  /\ profile' = [profile EXCEPT ![CandidateOf[r]] = [source |-> r, output |-> i]]
                  /\ UNCHANGED <<Data, Gone>>
             [] Asked[c].op = "reject" ->
                  /\ Proposal[r] = "PROPOSED"
                  /\ Proposal' = [Proposal EXCEPT ![r] = "REJECTED"]
                  /\ UNCHANGED <<Data, Gone, profile>>
        /\ History!Finish(c)
  BY DEF History!Serve, History!CreateCandidate, History!UpdateCandidate, History!Active,
         History!RemoveCandidate, History!Propose, History!Accept, History!Reject, Merge,
         Asked, Data, Gone, Proposal
<1>3. r = row /\ i = input
  OBVIOUS
<1> HIDE DEF r, i
<1> QED
  BY <1>1, <1>2, <1>3

(* An open request is not None, and ends when its transaction does. *)
LEMMA AskedOpen ==
  ASSUME IInv, NEW c \in Calls, txn[c].pc # "idle"
  PROVE  /\ txn[c].op \in Ops /\ Asked[c] # None
         /\ Asked[c].op = txn[c].op /\ Asked[c].row = txn[c].row
         /\ Asked[c].input = txn[c].input
<1>1. Shape(c) /\ txn[c] \in TxnType
  BY DEF IInv, TypeOK, TxnType, TxnsOK
<1>2. txn[c].op \in Ops
  BY <1>1 DEF Shape, TxnType
<1>3. txn[c].row \in Candidates \cup Extractions
  BY <1>1, <1>2, OpsApart DEF Shape
<1>4. txn[c].input \in Given \cup Values \cup {None}
  BY <1>1 DEF TxnType
<1>5. Asked[c] = [op |-> txn[c].op, row |-> txn[c].row, input |-> txn[c].input]
  BY DEF Asked
<1>6. Asked[c] \in [op : Ops, row : Candidates \cup Extractions,
                    input : Given \cup Values \cup {None}]
  BY <1>2, <1>3, <1>4, <1>5
<1> QED
  BY <1>2, <1>5, <1>6, NoRequestAssumption

LEMMA AskedEnds ==
  ASSUME IInv, NEW c \in Calls, End(c) PROVE Asked' = [Asked EXCEPT ![c] = None]
<1>1. txn'[c].pc = "idle" /\ \A b \in Calls \ {c} : txn'[b] = txn[b]
  BY IdleKnows, IdleTyped DEF End, IInv, TypeOK
<1> QED
  BY <1>1 DEF Asked

LEMMA SameSeen ==
  ASSUME IInv, UNCHANGED Rows PROVE UNCHANGED <<Data, Gone, Proposal, profile>>
BY DEF Rows, Data, Gone, Proposal

(* A request that starts is asked. *)
LEMMA BeginAsks == ASSUME IInv, NEW c \in Calls, Begin(c) PROVE History!Next
<1>0. PICK op \in Ops : \E row \in RowsOf(op), input \in InputsOf(op) :
        txn' = [txn EXCEPT ![c] = [Idle EXCEPT !.pc = "begun", !.op = op, !.row = row,
                                               !.input = input]]
  BY DEF Begin
<1>1. PICK row \in RowsOf(op), input \in InputsOf(op) :
        txn' = [txn EXCEPT ![c] = [Idle EXCEPT !.pc = "begun", !.op = op, !.row = row,
                                               !.input = input]]
  BY <1>0
<1> DEFINE t == [Idle EXCEPT !.pc = "begun", !.op = op, !.row = row, !.input = input]
           request == [op |-> op, row |-> row, input |-> input]
<1>2. t.pc = "begun" /\ t.op = op /\ t.row = row /\ t.input = input
  BY DEF Idle
<1>3. txn'[c] = t /\ \A b \in Calls \ {c} : txn'[b] = txn[b]
  BY <1>1 DEF IInv, TypeOK
<1>4. Asked' = [Asked EXCEPT ![c] = request]
  <2> HIDE DEF t
  <2> QED
    BY <1>2, <1>3 DEF Asked
<1>5. Asked[c] = None
  BY DEF Begin, Asked
<1>6. request \in History!Requests
  <2>1. Given \subseteq History!Partial
    BY DEF Given, History!Partial
  <2>2. CASE op \in CandidateOps
    BY <2>1, <2>2 DEF History!Requests, RowsOf, InputsOf, CandidateOps
  <2>3. CASE op \in ExtractionOps
    BY <2>3, OpsApart DEF History!Requests, RowsOf, InputsOf, ExtractionOps, DecisionOps
  <2> QED
    BY <2>2, <2>3, OpsApart
<1>7. UNCHANGED <<Data, Gone, Proposal, profile>>
  BY SameSeen DEF Begin
<1>8. \E q \in History!Requests : Asked' = [Asked EXCEPT ![c] = q]
  BY <1>4, <1>6
<1> QED
  BY <1>5, <1>7, <1>8, HistoryStates

(* A transaction that ends without a write drops its request. *)
LEMMA EndDrops ==
  ASSUME IInv, NEW c \in Calls, txn[c].pc # "idle", End(c), UNCHANGED Rows
  PROVE  History!Next
BY AskedOpen, AskedEnds, SameSeen, HistoryStates

(* A statement that is not the last one shows nothing. *)
Carries(c) == /\ txn[c].pc # "idle" /\ UNCHANGED Rows
              /\ \E pc \in PCs : \/ \E read : txn' = [txn EXCEPT ![c].pc = pc, ![c].read = read]
                                 \/ txn' = [txn EXCEPT ![c].pc = pc]

LEMMA CarriesNothing == ASSUME IInv, NEW c \in Calls, Carries(c) PROVE UNCHANGED Seen
<1>1. PICK pc \in PCs : \/ \E read : txn' = [txn EXCEPT ![c].pc = pc, ![c].read = read]
                        \/ txn' = [txn EXCEPT ![c].pc = pc]
  BY DEF Carries
<1>2. txn \in [Calls -> TxnType]
  BY DEF IInv, TypeOK, TxnType
<1>3. /\ txn'[c].pc = pc /\ txn'[c].op = txn[c].op /\ txn'[c].row = txn[c].row
      /\ txn'[c].input = txn[c].input
      /\ \A b \in Calls \ {c} : txn'[b] = txn[b]
  <2>1. ASSUME NEW read, txn' = [txn EXCEPT ![c].pc = pc, ![c].read = read]
        PROVE  /\ txn'[c].pc = pc /\ txn'[c].op = txn[c].op /\ txn'[c].row = txn[c].row
               /\ txn'[c].input = txn[c].input
               /\ \A b \in Calls \ {c} : txn'[b] = txn[b]
    BY <1>2, <2>1 DEF TxnType
  <2> QED
    BY <1>1, <1>2, <2>1 DEF TxnType
<1>4. Asked' = Asked
  BY <1>3 DEF Asked, PCs, Carries
<1> QED
  BY <1>4, SameSeen DEF Seen, Carries

LEMMA StatementsShowNothing ==
  ASSUME IInv, NEW c \in Calls,
         \/ ReadBefore(c) \/ WriteCandidate(c) \/ LockCandidate(c)
         \/ RequireCandidate(c) \/ ProviderExtracts(c) \/ InsertExtraction(c)
         \/ LockExtraction(c) \/ ReadExtraction(c) \/ UpsertProfile(c)
         \/ Rollback(c)
  PROVE  History!Next \/ UNCHANGED Seen
<1>1. txn[c].pc # "idle" /\ UNCHANGED Rows
  BY DEF ReadBefore, WriteCandidate, LockCandidate, RequireCandidate, ProviderExtracts,
         InsertExtraction, LockExtraction, ReadExtraction, UpsertProfile, Rollback, At
<1>2. End(c) \/ Carries(c)
  <2>1. CASE ReadBefore(c) \/ LockCandidate(c)
    BY <1>1, <2>1 DEF ReadBefore, LockCandidate, Carries, PCs
  <2>2. CASE ReadExtraction(c)
    BY <1>1, <2>2 DEF ReadExtraction, Carries, PCs
  <2>3. ASSUME NEW pc \in PCs, Goto(c, pc) PROVE Carries(c)
    BY <1>1, <2>3 DEF Goto, Carries
  <2>4. CASE Rollback(c)
    BY <2>4 DEF Rollback
  <2> QED
    BY <2>1, <2>2, <2>3, <2>4
       DEF WriteCandidate, RequireCandidate, ProviderExtracts, InsertExtraction, LockExtraction,
           UpsertProfile, PCs
<1> QED
  BY <1>1, <1>2, EndDrops, CarriesNothing

(* What History sees of a change to a row. *)
LEMMA CandidateChangeSeen ==
  ASSUME IInv, NEW c \in Calls, NEW p \in Candidates, NEW new, CandidateChange(c, p, new)
  PROVE  /\ Data' = [Data EXCEPT ![p] = new.data]
         /\ Gone' = IF new.state = "removed" THEN Gone \cup {p} ELSE Gone \ {p}
         /\ UNCHANGED <<Proposal, profile>>
         /\ Asked' = [Asked EXCEPT ![c] = None]
         /\ txn[c].pc # "idle" /\ txn[c].row = p
<1>1. \A q \in Candidates : candidate'[q] = IF q = p THEN new ELSE candidate[q]
  BY DEF CandidateChange, IInv, TypeOK
<1>2. Data' = [Data EXCEPT ![p] = new.data]
  BY <1>1 DEF Data
<1>3. Gone' = IF new.state = "removed" THEN Gone \cup {p} ELSE Gone \ {p}
  BY <1>1 DEF Gone
<1>4. UNCHANGED <<Proposal, profile>>
  BY DEF CandidateChange, Proposal
<1>5. Asked' = [Asked EXCEPT ![c] = None]
  BY AskedEnds DEF CandidateChange
<1>6. txn[c].pc # "idle"
  BY OpsApart
     DEF CandidateChange, WritesCandidate, IInv, TxnsOK, Shape, Ops, CandidateOps
<1> QED
  BY <1>2, <1>3, <1>4, <1>5, <1>6 DEF CandidateChange

LEMMA ExtractionChangeSeen ==
  ASSUME IInv, NEW c \in Calls, NEW x \in Extractions, NEW new, ExtractionChange(c, x, new)
  PROVE  /\ Proposal' = [Proposal EXCEPT ![x] = new.status]
         /\ UNCHANGED <<Data, Gone>>
         /\ Asked' = [Asked EXCEPT ![c] = None]
         /\ txn[c].pc # "idle" /\ txn[c].row = x
<1>1. \A y \in Extractions : extraction'[y] = IF y = x THEN new ELSE extraction[y]
  BY DEF ExtractionChange, IInv, TypeOK
<1>2. Proposal' = [Proposal EXCEPT ![x] = new.status]
  BY <1>1 DEF Proposal
<1>3. UNCHANGED <<Data, Gone>>
  BY DEF ExtractionChange, Data, Gone
<1>4. Asked' = [Asked EXCEPT ![c] = None]
  BY AskedEnds DEF ExtractionChange
<1>5. txn[c].pc # "idle"
  BY OpsApart
     DEF ExtractionChange, WritesExtraction, HoldsExtraction, IInv, TxnsOK, Shape, Ops
<1> QED
  BY <1>2, <1>3, <1>4, <1>5 DEF ExtractionChange

(* Every commit serves its request. *)
LEMMA CandidateCommitsServe ==
  ASSUME IInv, NEW c \in Calls, CandidateCommits(c) PROVE History!Next
<1> SUFFICES Asked[c] # None /\ History!Serve(c)
  BY HistoryStates
<1>1. CASE CreateCandidate(c)
  <2>1. PICK p \in Candidates, input \in [Fields -> Values] :
          /\ txn[c].op = "createCandidate" /\ txn[c].input = input /\ candidate[p] = Absent
          /\ CandidateChange(c, p, [state |-> "active", data |-> input])
    BY <1>1, CreateCandidateFacts
  <2> DEFINE new == [state |-> "active", data |-> input]
  <2>2. new.state = "active" /\ new.data = input
    OBVIOUS
  <2> HIDE DEF new
  <2>3. /\ Data' = [Data EXCEPT ![p] = input] /\ Gone' = Gone \ {p}
        /\ UNCHANGED <<Proposal, profile>> /\ Asked' = [Asked EXCEPT ![c] = None]
        /\ txn[c].pc # "idle" /\ txn[c].row = p
    <3>1. CandidateChange(c, p, new)
      BY <2>1 DEF new
    <3> QED
      BY <2>2, <3>1, CandidateChangeSeen
  <2>4. Data[p] = None /\ p \notin Gone
    BY <2>1 DEF Data, Gone, Absent
  <2>5. Gone' = Gone
    BY <2>3, <2>4
  <2>6. /\ "createCandidate" \in Ops /\ Asked[c] # None /\ Asked[c].op = "createCandidate"
        /\ Asked[c].row = p /\ Asked[c].input = input
    BY <2>1, <2>3, AskedOpen
  <2> QED
    BY <2>3, <2>4, <2>5, <2>6, HistoryServes
<1>2. CASE UpdateCandidate(c)
  <2>1. PICK p \in Candidates, input \in Given, data \in [Fields -> Values] :
          /\ txn[c].op = "updateCandidate" /\ txn[c].input = input
          /\ candidate[p] = [state |-> "active", data |-> data]
          /\ CandidateChange(c, p, [state |-> "active", data |-> Merge(data, input)])
    BY <1>2, UpdateCandidateFacts
  <2> DEFINE new == [state |-> "active", data |-> Merge(data, input)]
  <2>2. new.state = "active" /\ new.data = Merge(data, input)
    OBVIOUS
  <2> HIDE DEF new
  <2>3. /\ Data' = [Data EXCEPT ![p] = Merge(data, input)] /\ Gone' = Gone \ {p}
        /\ UNCHANGED <<Proposal, profile>> /\ Asked' = [Asked EXCEPT ![c] = None]
        /\ txn[c].pc # "idle" /\ txn[c].row = p
    <3>1. CandidateChange(c, p, new)
      BY <2>1 DEF new
    <3> QED
      BY <2>2, <3>1, CandidateChangeSeen
  <2>4. Data[p] = data /\ data # None /\ p \notin Gone
    BY <2>1, NoneAssumption DEF Data, Gone
  <2>5. Gone' = Gone /\ Merge(Data[p], input) = Merge(data, input)
    BY <2>3, <2>4 DEF Merge
  <2>6. /\ "updateCandidate" \in Ops /\ Asked[c] # None /\ Asked[c].op = "updateCandidate"
        /\ Asked[c].row = p /\ Asked[c].input = input
    BY <2>1, <2>3, AskedOpen
  <2> QED
    BY <2>3, <2>4, <2>5, <2>6, HistoryServes
<1>3. CASE RemoveCandidate(c)
  <2>1. PICK p \in Candidates, data \in [Fields -> Values] :
          /\ txn[c].op = "removeCandidate"
          /\ candidate[p] = [state |-> "active", data |-> data]
          /\ CandidateChange(c, p, [state |-> "removed", data |-> data])
    BY <1>3, RemoveCandidateFacts
  <2> DEFINE new == [state |-> "removed", data |-> data]
  <2>2. new.state = "removed" /\ new.data = data
    OBVIOUS
  <2> HIDE DEF new
  <2>3. /\ Data' = [Data EXCEPT ![p] = data] /\ Gone' = Gone \cup {p}
        /\ UNCHANGED <<Proposal, profile>> /\ Asked' = [Asked EXCEPT ![c] = None]
        /\ txn[c].pc # "idle" /\ txn[c].row = p
    <3>1. CandidateChange(c, p, new)
      BY <2>1 DEF new
    <3> QED
      BY <2>2, <3>1, CandidateChangeSeen
  <2>4. Data[p] = data /\ data # None /\ p \notin Gone
    BY <2>1, NoneAssumption DEF Data, Gone
  <2>5. Data' = Data
    BY <2>3, <2>4 DEF Data
  <2>6. PICK input : txn[c].input = input
    OBVIOUS
  <2>7. /\ "removeCandidate" \in Ops /\ Asked[c] # None /\ Asked[c].op = "removeCandidate"
        /\ Asked[c].row = p /\ Asked[c].input = input
    BY <2>1, <2>3, <2>6, AskedOpen
  <2> QED
    BY <2>3, <2>4, <2>5, <2>7, HistoryServes
<1> QED
  BY <1>1, <1>2, <1>3 DEF CandidateCommits

LEMMA ExtractionCommitsServe ==
  ASSUME IInv, NEW c \in Calls, ExtractionCommits(c) PROVE History!Next
<1> SUFFICES Asked[c] # None /\ History!Serve(c)
  BY HistoryStates
<1>1. CASE CreateExtraction(c)
  <2>1. PICK x \in Extractions :
          /\ txn[c].op = "createExtraction"
          /\ extraction[x] = Unproposed /\ candidate[CandidateOf[x]].state # "absent"
          /\ UNCHANGED profile
          /\ ExtractionChange(c, x, [status |-> "PROPOSED", output |-> None])
    BY <1>1, CreateExtractionFacts
  <2>2. /\ Proposal' = [Proposal EXCEPT ![x] = "PROPOSED"] /\ UNCHANGED <<Data, Gone>>
        /\ Asked' = [Asked EXCEPT ![c] = None] /\ txn[c].pc # "idle" /\ txn[c].row = x
    BY <2>1, ExtractionChangeSeen
  <2>3. Proposal[x] = None
    BY <2>1 DEF Proposal, Unproposed
  <2>4. Data[CandidateOf[x]] # None
    <3>1. CandidateOf[x] \in Candidates
      BY CandidateOfAssumption
    <3>2. candidate[CandidateOf[x]].data \in [Fields -> Values]
      BY <2>1, <3>1 DEF IInv, TypeOK, CandidateType
    <3> QED
      BY <3>1, <3>2, NoneAssumption DEF Data
  <2>5. PICK input : txn[c].input = input
    OBVIOUS
  <2>6. /\ "createExtraction" \in Ops /\ Asked[c] # None /\ Asked[c].op = "createExtraction"
        /\ Asked[c].row = x /\ Asked[c].input = input
    BY <2>1, <2>2, <2>5, AskedOpen
  <2> QED
    BY <2>1, <2>2, <2>3, <2>4, <2>6, HistoryServes
<1>2. CASE Confirm(c)
  <2>1. PICK x \in Extractions, output \in Values :
          /\ txn[c].op = "confirm" /\ txn[c].input = output
          /\ extraction[x].status = "PROPOSED"
          /\ profile' = [profile EXCEPT ![CandidateOf[x]] = [source |-> x, output |-> output]]
          /\ ExtractionChange(c, x, [status |-> "ACCEPTED", output |-> output])
    BY <1>2, ConfirmFacts
  <2>2. /\ Proposal' = [Proposal EXCEPT ![x] = "ACCEPTED"] /\ UNCHANGED <<Data, Gone>>
        /\ Asked' = [Asked EXCEPT ![c] = None] /\ txn[c].pc # "idle" /\ txn[c].row = x
    BY <2>1, ExtractionChangeSeen
  <2>3. Proposal[x] = "PROPOSED"
    BY <2>1 DEF Proposal
  <2>4. /\ "confirm" \in Ops /\ Asked[c] # None /\ Asked[c].op = "confirm"
        /\ Asked[c].row = x /\ Asked[c].input = output
    BY <2>1, <2>2, AskedOpen
  <2> QED
    BY <2>1, <2>2, <2>3, <2>4, HistoryServes
<1>3. CASE Reject(c)
  <2>1. PICK x \in Extractions :
          /\ txn[c].op = "reject" /\ extraction[x].status = "PROPOSED" /\ UNCHANGED profile
          /\ ExtractionChange(c, x, [status |-> "REJECTED", output |-> None])
    BY <1>3, RejectFacts
  <2>2. /\ Proposal' = [Proposal EXCEPT ![x] = "REJECTED"] /\ UNCHANGED <<Data, Gone>>
        /\ Asked' = [Asked EXCEPT ![c] = None] /\ txn[c].pc # "idle" /\ txn[c].row = x
    BY <2>1, ExtractionChangeSeen
  <2>3. Proposal[x] = "PROPOSED"
    BY <2>1 DEF Proposal
  <2>4. PICK input : txn[c].input = input
    OBVIOUS
  <2>5. /\ "reject" \in Ops /\ Asked[c] # None /\ Asked[c].op = "reject"
        /\ Asked[c].row = x /\ Asked[c].input = input
    BY <2>1, <2>2, <2>4, AskedOpen
  <2> QED
    BY <2>1, <2>2, <2>3, <2>5, HistoryServes
<1> QED
  BY <1>1, <1>2, <1>3 DEF ExtractionCommits

(* The interleaved transactions of candidate.service.ts and                 *)
(* cv-extraction.service.ts behave like their operations done one at a      *)
(* time: updates of different columns lose nothing, a removed candidate is  *)
(* never written again, and a proposal is decided once.                     *)
THEOREM CandidatesAreAtomic == Spec => ImplementsCandidateHistory
<1>1. Init => History!Init
  <2> SUFFICES ASSUME Init PROVE History!Init
    OBVIOUS
  <2>1. Asked = [c \in Calls |-> None]
    BY IdleTyped DEF Init, Asked
  <2>2. /\ Data = [p \in Candidates |-> None] /\ Gone = {}
        /\ Proposal = [x \in Extractions |-> None] /\ profile = [p \in Candidates |-> None]
    BY DEF Init, Data, Gone, Proposal, Absent, Unproposed
  <2> QED
    BY <2>1, <2>2, HistoryStates
<1>2. IInv /\ [Next]_vars => [History!Next]_History!vars
  <2> SUFFICES ASSUME IInv, [Next]_vars PROVE History!Next \/ UNCHANGED Seen
    BY HistoryStates
  <2>1. CASE UNCHANGED vars
    BY <2>1 DEF vars, Seen, Asked, Data, Gone, Proposal
  <2>2. CASE Next
    <3> PICK c \in Calls :
          \/ Begin(c)
          \/ CandidateCommits(c) \/ ExtractionCommits(c)
          \/ ReadBefore(c) \/ WriteCandidate(c) \/ LockCandidate(c)
          \/ RequireCandidate(c) \/ ProviderExtracts(c) \/ InsertExtraction(c)
          \/ LockExtraction(c) \/ ReadExtraction(c) \/ UpsertProfile(c)
          \/ Rollback(c)
      BY <2>2 DEF Next, CandidateCommits, ExtractionCommits
    <3> QED
      BY BeginAsks, CandidateCommitsServe, ExtractionCommitsServe, StatementsShowNothing
  <2> QED
    BY <2>1, <2>2
<1> QED
  BY <1>1, <1>2, Invariance, PTL DEF Spec, ImplementsCandidateHistory, History!Spec

=============================================================================
