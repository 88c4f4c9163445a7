------------------------ MODULE WebSubmissionProofs ------------------------
(***************************************************************************)
(* Theorems about WebSubmission, for every set of forms, inputs and        *)
(* sessions and any number of requests.                                    *)
(***************************************************************************)
EXTENDS WebSubmission, TLAPS

-----------------------------------------------------------------------------
(* The inductive invariant.  A request has no key before it is forwarded;  *)
(* one that the API may answer, or was answered with success, has the key  *)
(* of its own contents; a write in the ledger is the only one under that   *)
(* key; and a form in submission waits for a request that has the values   *)
(* it shows.                                                               *)

RequestOK(f, i) ==
  LET q == request[f][i] IN
  /\ q.pc = "routing" => q.key = None /\ q.reply = None
  /\ q.pc = "calling" => q.key # None /\ q.reply \in {None, "failed"}
  /\ q.pc = "calling" \/ q.reply = "written" => q.key = DerivedKey(f, i)
  /\ q.reply = "written" => IsWritten(q.key)
  /\ q.reply # "conflict"

WriteOK(w) ==
  /\ w.at \in DOMAIN request[w.by]
  /\ RequestOf(w).pc = "ended"
  /\ RequestOf(w).key = DerivedKey(w.by, w.at)
  /\ \A v \in ledger : RequestOf(v).key = RequestOf(w).key => v = w

OwnSuccess(f, w) ==
  /\ w \in ledger
  /\ w.by = f
  /\ RequestOf(w).attempt = form[f].attempt
  /\ RequestOf(w).input \in {form[f].input, None}

FormOK(f) ==
  /\ form[f].pc = "submitting" =>
       /\ Len(request[f]) > 0
       /\ Awaited(f).attempt = form[f].attempt
       /\ Awaited(f).input \in {form[f].input, None}
  /\ form[f].kind = "review" /\ form[f].dialog = "confirm" => form[f].pending = form[f].input
  /\ form[f].shown # None => form[f].pc \in {"done", "gone"} /\ OwnSuccess(f, form[f].shown)

IInv ==
  /\ TypeOK
  /\ \A f \in Forms : Len(request[f]) <= MaxRequests
  /\ \A f \in Forms : \A i \in DOMAIN request[f] : RequestOK(f, i)
  /\ \A w \in ledger : WriteOK(w)
  /\ \A f \in Forms : FormOK(f)

-----------------------------------------------------------------------------
(* Requests and keys. *)

LEMMA RequestFacts ==
  ASSUME IInv, NEW f \in Forms, NEW i \in DOMAIN request[f]
  PROVE  /\ request[f][i] \in RequestType
         /\ i \in 1..MaxRequests
         /\ i \in 1..Len(request[f])
         /\ [by |-> f, at |-> i] \in WriteType
<1>1. /\ request[f] \in Seq(RequestType) /\ Len(request[f]) \in Nat
      /\ Len(request[f]) <= MaxRequests /\ i \in 1..Len(request[f])
  BY DEF IInv, TypeOK
<1>2. i \in 1..MaxRequests
  BY <1>1, MaxRequestsAssumption
<1> QED
  BY <1>1, <1>2 DEF WriteType

LEMMA WriteOfRequest ==
  ASSUME IInv, NEW w \in ledger
  PROVE  /\ w \in WriteType /\ w.by \in Forms /\ w.at \in DOMAIN request[w.by]
         /\ w = [by |-> w.by, at |-> w.at]
         /\ RequestOf(w) = request[w.by][w.at]
  BY DEF IInv, TypeOK, WriteType, WriteOK, RequestOf

(* A key names the form and everything that makes a submission the same.   *)
LEMMA KeyNamesSubmission ==
  ASSUME NEW f, NEW i, NEW g, NEW j, DerivedKey(f, i) = DerivedKey(g, j)
  PROVE  f = g /\ SameSubmission(request[f][i], request[g][j])
  BY DEF DerivedKey, SameSubmission

LEMMA SameSubmissionSameKey ==
  ASSUME NEW f, NEW i, NEW j, SameSubmission(request[f][i], request[f][j])
  PROVE  DerivedKey(f, i) = DerivedKey(f, j)
  BY DEF DerivedKey, SameSubmission

(* What is written under the key of a request is a write of the same       *)
(* submission.                                                             *)
LEMMA WrittenIsSame ==
  ASSUME IInv, NEW f, NEW i, IsWritten(DerivedKey(f, i))
  PROVE  LET w == WrittenUnder(DerivedKey(f, i))
         IN  w \in ledger /\ w.by = f /\ SameSubmission(RequestOf(w), request[f][i])
<1>1. PICK w : w = WrittenUnder(DerivedKey(f, i))
  OBVIOUS
<1>2. w \in ledger /\ RequestOf(w).key = DerivedKey(f, i)
  BY <1>1 DEF IsWritten, WrittenUnder
<1>3. DerivedKey(w.by, w.at) = DerivedKey(f, i)
  BY <1>2 DEF IInv, WriteOK
<1> QED
  BY <1>1, <1>2, <1>3, KeyNamesSubmission, WriteOfRequest

-----------------------------------------------------------------------------
(* What the steps leave to be shown. *)

(* A step of a form: nothing is requested or written. *)
LEMMA FormStep ==
  ASSUME IInv, NEW f \in Forms, NEW g \in FormType,
         form' = [form EXCEPT ![f] = g], UNCHANGED <<request, ledger>>,
         cookies' \in Sessions \cup {None},
         FormOK(f)'
  PROVE  IInv'
<1>1. /\ form'[f] = g /\ \A h \in Forms \ {f} : form'[h] = form[h]
      /\ form' \in [Forms -> FormType]
  BY DEF IInv, TypeOK
<1>2. TypeOK'
  BY <1>1 DEF IInv, TypeOK
<1>3. \A h \in Forms : \A i \in DOMAIN request[h] : RequestOK(h, i)'
  BY DEF IInv, RequestOK, DerivedKey, IsWritten, RequestOf
<1>4. \A w \in ledger : WriteOK(w)'
  BY DEF IInv, WriteOK, DerivedKey, RequestOf
<1>5. ASSUME NEW h \in Forms \ {f}
      PROVE  FormOK(h)'
  BY <1>1 DEF IInv, FormOK, OwnSuccess, RequestOf, Awaited
<1> QED
  BY <1>2, <1>3, <1>4, <1>5 DEF IInv

(* An edit: the form stays idle, and what it asks to confirm is what it    *)
(* shows.                                                                  *)
LEMMA EditStep ==
  ASSUME IInv, NEW f \in Forms, NEW g \in FormType, form[f].pc = "idle",
         form' = [form EXCEPT ![f] = g], UNCHANGED <<cookies, request, ledger>>,
         g.pc = "idle", g.shown = form[f].shown,
         g.kind = "review" /\ g.dialog = "confirm" => g.pending = g.input
  PROVE  IInv'
<1>1. form'[f] = g /\ form[f].shown = None
  BY DEF IInv, TypeOK, FormOK
<1>2. FormOK(f)'
  BY <1>1 DEF FormOK
<1> QED
  BY <1>2, FormStep DEF IInv, TypeOK

(* A request that its form sends. *)
LEMMA SendStep ==
  ASSUME IInv, NEW f \in Forms, form[f].pc = "idle", NEW op \in Ops,
         NEW input \in Inputs \cup {None},
         input \in {form[f].input, None}, Send(f, op, input)
  PROVE  /\ IInv'
         /\ Last(request'[f]).op = op
         /\ Last(request'[f]).input = input
         /\ \A h \in Forms \ {f} : request'[h] = request[h]
         /\ \A h \in Forms : \A i \in DOMAIN request[h] : request'[h][i] = request[h][i]
<1> DEFINE q == [op |-> op, input |-> input, attempt |-> form[f].attempt,
                 session |-> cookies, pc |-> "routing", key |-> None, reply |-> None]
           n == Len(request[f]) + 1
<1>1. /\ request' = [request EXCEPT ![f] = Append(@, q)]
      /\ form' = [form EXCEPT ![f].pc = "submitting"]
      /\ Len(request[f]) < MaxRequests
      /\ UNCHANGED <<cookies, ledger>>
  BY DEF Send
<1>2. q \in RequestType
  BY DEF IInv, TypeOK, FormType, RequestType
<1>3. request[f] \in Seq(RequestType)
  BY DEF IInv, TypeOK
<1>4. /\ q.op = op /\ q.input = input /\ q.attempt = form[f].attempt
      /\ q.pc = "routing" /\ q.key = None /\ q.reply = None
  OBVIOUS
<1> HIDE DEF q
<1>5. /\ request'[f] = Append(request[f], q)
      /\ \A h \in Forms \ {f} : request'[h] = request[h]
  BY <1>1 DEF IInv, TypeOK
<1>6. /\ request'[f] \in Seq(RequestType) /\ Len(request'[f]) = n
      /\ request'[f][n] = q
      /\ DOMAIN request'[f] = (DOMAIN request[f]) \cup {n}
      /\ \A i \in DOMAIN request[f] : request'[f][i] = request[f][i]
  BY <1>2, <1>3, <1>5
<1>7. Last(request'[f]) = q
  BY <1>6 DEF Last
<1>8. /\ form'[f] = [form[f] EXCEPT !.pc = "submitting"]
      /\ \A h \in Forms \ {f} : form'[h] = form[h]
  BY <1>1 DEF IInv, TypeOK
<1>9. /\ form'[f].pc = "submitting" /\ form'[f].attempt = form[f].attempt
      /\ form'[f].input = form[f].input /\ form'[f].kind = form[f].kind
      /\ form'[f].dialog = form[f].dialog /\ form'[f].pending = form[f].pending
      /\ form'[f].shown = form[f].shown /\ form'[f] \in FormType
  BY <1>8 DEF IInv, TypeOK, FormType
<1>10. TypeOK'
  <2>1. form' \in [Forms -> FormType]
    BY <1>1, <1>9 DEF IInv, TypeOK
  <2>2. request' \in [Forms -> Seq(RequestType)]
    BY <1>1, <1>5, <1>6 DEF IInv, TypeOK
  <2> QED
    BY <1>1, <2>1, <2>2 DEF IInv, TypeOK
<1>11. \A h \in Forms : Len(request'[h]) <= MaxRequests
  BY <1>1, <1>3, <1>5, <1>6, MaxRequestsAssumption DEF IInv
<1>12. \A h \in Forms : \A i \in DOMAIN request[h] :
         i \in DOMAIN request'[h] /\ request'[h][i] = request[h][i]
  BY <1>5, <1>6
<1>13. \A w \in ledger : RequestOf(w)' = RequestOf(w)
  BY <1>12, WriteOfRequest DEF RequestOf
<1>14. \A k : IsWritten(k) => IsWritten(k)'
  BY <1>1, <1>13 DEF IsWritten
<1>15. ASSUME NEW h \in Forms, NEW i \in DOMAIN request'[h]
       PROVE  RequestOK(h, i)'
  <2>1. CASE h = f /\ i = n
    BY <1>4, <1>6, <2>1, NoneIsNoValue DEF RequestOK, Replies
  <2>2. CASE i \in DOMAIN request[h]
    <3>1. RequestOK(h, i) /\ request'[h][i] = request[h][i]
      BY <1>12, <2>2 DEF IInv
    <3>2. DerivedKey(h, i)' = DerivedKey(h, i)
      BY <3>1 DEF DerivedKey
    <3> QED
      BY <1>14, <3>1, <3>2 DEF RequestOK
  <2> QED
    BY <1>5, <1>6, <1>15, <2>1, <2>2
<1>16. ASSUME NEW w \in ledger
       PROVE  WriteOK(w)'
  <2>1. /\ w.by \in Forms /\ w.at \in DOMAIN request[w.by]
        /\ w.at \in DOMAIN request'[w.by] /\ request'[w.by][w.at] = request[w.by][w.at]
    BY <1>12, WriteOfRequest
  <2>2. DerivedKey(w.by, w.at)' = DerivedKey(w.by, w.at)
    BY <2>1 DEF DerivedKey
  <2> QED
    BY <1>1, <1>13, <2>1, <2>2 DEF IInv, WriteOK
<1>17. ASSUME NEW h \in Forms
       PROVE  FormOK(h)'
  <2>1. FormOK(h)
    BY DEF IInv
  <2>2. CASE h = f
    <3>1. form[f].shown = None
      BY <2>1, <2>2 DEF FormOK
    <3> QED
      BY <1>3, <1>4, <1>6, <1>7, <1>9, <2>1, <2>2, <3>1 DEF FormOK, Awaited
  <2>3. CASE h # f
    BY <1>1, <1>5, <1>8, <1>13, <2>1, <2>3 DEF FormOK, OwnSuccess, Awaited
  <2> QED
    BY <2>2, <2>3
<1> QED
  BY <1>1, <1>4, <1>5, <1>7, <1>10, <1>11, <1>12, <1>15, <1>16, <1>17 DEF IInv

(* A step of a request: what was sent stays what it was, and a write is    *)
(* recorded at most by the request itself, as it ends, under its own key.  *)
LEMMA RequestStep ==
  ASSUME IInv, NEW f \in Forms, NEW i \in DOMAIN request[f], NEW q \in RequestType,
         request[f][i].pc # "ended",
         request' = [request EXCEPT ![f] = [request[f] EXCEPT ![i] = q]],
         UNCHANGED <<cookies, form>>,
         SameSubmission(q, request[f][i]),
         \/ ledger' = ledger
         \/ /\ ledger' = ledger \cup {[by |-> f, at |-> i]}
            /\ q.pc = "ended" /\ q.key = DerivedKey(f, i) /\ ~IsWritten(q.key),
         q.pc # "routing",
         q.pc = "calling" => q.key # None /\ q.reply \in {None, "failed"},
         q.pc = "calling" \/ q.reply = "written" => q.key = DerivedKey(f, i),
         q.reply = "written" =>
           IsWritten(q.key) \/ ledger' = ledger \cup {[by |-> f, at |-> i]},
         q.reply # "conflict"
  PROVE  IInv'
<1> DEFINE x == [by |-> f, at |-> i]
<1>0. x \in WriteType /\ x.by = f /\ x.at = i
  BY RequestFacts
<1>1. request[f] \in Seq(RequestType) /\ i \in 1..Len(request[f]) /\ Len(request[f]) \in Nat
  BY RequestFacts DEF IInv, TypeOK
<1>2. /\ request'[f] = [request[f] EXCEPT ![i] = q]
      /\ \A h \in Forms \ {f} : request'[h] = request[h]
  BY DEF IInv, TypeOK
<1>3. /\ request'[f] \in Seq(RequestType) /\ Len(request'[f]) = Len(request[f])
      /\ DOMAIN request'[f] = DOMAIN request[f]
      /\ request'[f][i] = q
      /\ \A j \in DOMAIN request[f] : j # i => request'[f][j] = request[f][j]
  BY <1>1, <1>2
<1>4. \A h \in Forms : /\ Len(request'[h]) = Len(request[h])
                       /\ DOMAIN request'[h] = DOMAIN request[h]
  BY <1>2, <1>3
<1>5. \A h \in Forms : \A j \in DOMAIN request[h] :
        h # f \/ j # i => request'[h][j] = request[h][j]
  BY <1>2, <1>3
<1>6. \A h \in Forms : \A j \in DOMAIN request[h] :
        SameSubmission(request'[h][j], request[h][j])
  BY <1>3, <1>5, Zenon DEF SameSubmission
<1>7. \A h \in Forms : \A j \in DOMAIN request[h] : DerivedKey(h, j)' = DerivedKey(h, j)
  BY <1>6 DEF DerivedKey, SameSubmission
<1>8. ASSUME NEW w \in ledger
      PROVE  w # x /\ RequestOf(w)' = RequestOf(w)
  <2>1. /\ w.by \in Forms /\ w.at \in DOMAIN request[w.by]
        /\ request[w.by][w.at].pc = "ended"
    BY WriteOfRequest DEF IInv, WriteOK
  <2>2. w.by # f \/ w.at # i
    BY <2>1
  <2> QED
    BY <1>0, <1>5, <2>1, <2>2 DEF RequestOf
<1>9. ledger \subseteq ledger' /\ \A w \in ledger' : w \in ledger \/ w = x
  OBVIOUS
<1>10. \A k : IsWritten(k) => IsWritten(k)'
  BY <1>8, <1>9 DEF IsWritten
<1>11. RequestOf(x)' = q
  BY <1>0, <1>3 DEF RequestOf
<1> HIDE DEF x
<1>12. TypeOK'
  <2>1. request' \in [Forms -> Seq(RequestType)]
    BY <1>2, <1>3 DEF IInv, TypeOK
  <2>2. ledger' \subseteq WriteType
    BY <1>0, <1>9 DEF IInv, TypeOK
  <2> QED
    BY <2>1, <2>2 DEF IInv, TypeOK
<1>13. ASSUME NEW h \in Forms, NEW j \in DOMAIN request'[h]
       PROVE  RequestOK(h, j)'
  <2>1. j \in DOMAIN request[h]
    BY <1>4
  <2>2. CASE h = f /\ j = i
    <3>1. q.reply = "written" => IsWritten(q.key)'
      <4>1. CASE ledger' = ledger \cup {[by |-> f, at |-> i]}
        BY <1>11, <4>1 DEF IsWritten, x
      <4>2. CASE IsWritten(q.key)
        BY <1>10, <4>2
      <4> QED
        BY <4>1, <4>2
    <3>2. request'[h][j] = q /\ DerivedKey(h, j)' = DerivedKey(f, i)
      BY <1>3, <1>7, <2>2
    <3> QED
      BY <3>1, <3>2 DEF RequestOK
  <2>3. CASE h # f \/ j # i
    <3>1. /\ RequestOK(h, j) /\ request'[h][j] = request[h][j]
          /\ DerivedKey(h, j)' = DerivedKey(h, j)
      BY <1>5, <1>7, <2>1, <2>3 DEF IInv
    <3> QED
      BY <1>10, <3>1 DEF RequestOK
  <2> QED
    BY <2>2, <2>3
<1>14. ASSUME NEW w \in ledger'
       PROVE  WriteOK(w)'
  <2>1. CASE w \in ledger
    <3>1. /\ WriteOK(w) /\ RequestOf(w)' = RequestOf(w)
          /\ w.by \in Forms /\ w.at \in DOMAIN request[w.by]
      BY <1>8, <2>1, WriteOfRequest DEF IInv
    <3>2. ASSUME NEW v \in ledger', RequestOf(v)'.key = RequestOf(w)'.key
          PROVE  v = w
      <4>1. CASE v \in ledger
        BY <1>8, <3>1, <3>2, <4>1 DEF WriteOK
      <4>2. CASE v \notin ledger
        <5>1. v = x /\ ~IsWritten(q.key)
          BY <1>9, <4>2
        <5>2. RequestOf(w).key = q.key
          BY <1>11, <3>1, <3>2, <5>1
        <5> QED
          BY <2>1, <5>1, <5>2 DEF IsWritten
      <4> QED
        BY <4>1, <4>2
    <3> QED
      BY <1>4, <1>7, <3>1, <3>2 DEF WriteOK
  <2>2. CASE w \notin ledger
    <3>1. w = x /\ q.pc = "ended" /\ q.key = DerivedKey(f, i) /\ ~IsWritten(q.key)
      BY <1>9, <2>2
    <3>2. ASSUME NEW v \in ledger', RequestOf(v)'.key = RequestOf(w)'.key
          PROVE  v = w
      <4>1. CASE v \in ledger
        BY <1>8, <1>11, <3>1, <3>2, <4>1 DEF IsWritten
      <4>2. CASE v \notin ledger
        BY <1>9, <3>1, <4>2
      <4> QED
        BY <4>1, <4>2
    <3> QED
      BY <1>0, <1>4, <1>7, <1>11, <3>1, <3>2 DEF WriteOK
  <2> QED
    BY <2>1, <2>2
<1>15. ASSUME NEW h \in Forms
       PROVE  FormOK(h)'
  <2>1. FormOK(h) /\ form'[h] = form[h] /\ request[h] \in Seq(RequestType)
    BY DEF IInv, TypeOK
  <2>2. ASSUME Len(request[h]) > 0
        PROVE  /\ Awaited(h)'.attempt = Awaited(h).attempt
               /\ Awaited(h)'.input = Awaited(h).input
    <3>1. Len(request[h]) \in DOMAIN request[h]
      BY <2>1, <2>2
    <3> QED
      BY <1>4, <1>6, <3>1 DEF Awaited, Last, SameSubmission
  <2>3. \A w : OwnSuccess(h, w) => OwnSuccess(h, w)'
    BY <1>8, <1>9, <2>1 DEF OwnSuccess
  <2> QED
    BY <1>4, <2>1, <2>2, <2>3 DEF FormOK
<1> QED
  BY <1>4, <1>12, <1>13, <1>14, <1>15 DEF IInv

-----------------------------------------------------------------------------
(* The user. *)

LEMMA UserStep ==
  ASSUME IInv, NEW f \in Forms, User(f)
  PROVE  IInv'
<1>1. form[f] \in FormType /\ FormOK(f)
  BY DEF IInv, TypeOK
<1>2. ASSUME NEW input \in Inputs, UpdateField(f),
             form' = [form EXCEPT ![f].input = input]
      PROVE  IInv'
  <2>1. PICK g : g = [form[f] EXCEPT !.input = input]
    OBVIOUS
  <2>2. /\ g \in FormType /\ g.pc = form[f].pc /\ g.shown = form[f].shown /\ g.kind = form[f].kind
        /\ form' = [form EXCEPT ![f] = g]
    BY <1>1, <1>2, <2>1 DEF FormType
  <2> QED
    BY <1>2, <2>2, EditStep DEF UpdateField, Usable
<1>3. ASSUME SelectFile(f)
      PROVE  IInv'
  <2>1. PICK file \in Inputs \cup {None} :
          form' = [form EXCEPT ![f].input = file, ![f].attempt = @ + 1]
    BY <1>3 DEF SelectFile
  <2>2. PICK g : g = [form[f] EXCEPT !.input = file, !.attempt = @ + 1]
    OBVIOUS
  <2>3. form[f].attempt + 1 \in 0..MaxSelections
    BY <1>1, <1>3, MaxSelectionsAssumption DEF SelectFile, FormType
  <2>4. /\ g \in FormType /\ g.pc = form[f].pc /\ g.shown = form[f].shown /\ g.kind = form[f].kind
        /\ form' = [form EXCEPT ![f] = g]
    BY <1>1, <2>1, <2>2, <2>3 DEF FormType
  <2> QED
    BY <1>3, <2>4, EditStep DEF SelectFile, Usable
<1>4. ASSUME NEW input \in Inputs, UpdateProfile(f),
             form' = [form EXCEPT ![f].input = input, ![f].dialog = None, ![f].pending = None]
      PROVE  IInv'
  <2>1. PICK g : g = [form[f] EXCEPT !.input = input, !.dialog = None, !.pending = None]
    OBVIOUS
  <2>2. /\ g \in FormType /\ g.pc = form[f].pc /\ g.shown = form[f].shown /\ g.dialog = None
        /\ form' = [form EXCEPT ![f] = g]
    BY <1>1, <1>4, <2>1 DEF FormType
  <2> QED
    BY <1>4, <2>2, NoneIsNoValue, EditStep DEF UpdateProfile, Usable
<1>5. ASSUME ReviewConfirmation(f)
      PROVE  IInv'
  <2>1. PICK g : g = [form[f] EXCEPT !.pending = form[f].input, !.dialog = "confirm"]
    OBVIOUS
  <2>2. /\ g \in FormType /\ g.pc = form[f].pc /\ g.shown = form[f].shown
        /\ g.pending = g.input
        /\ form' = [form EXCEPT ![f] = g]
    BY <1>1, <1>5, <2>1 DEF ReviewConfirmation, FormType
  <2> QED
    BY <1>5, <2>2, EditStep DEF ReviewConfirmation, Usable
<1>6. ASSUME ReviewRejection(f)
      PROVE  IInv'
  <2>1. PICK g : g = [form[f] EXCEPT !.pending = None, !.dialog = "reject"]
    OBVIOUS
  <2>2. /\ g \in FormType /\ g.pc = form[f].pc /\ g.shown = form[f].shown
        /\ g.dialog = "reject"
        /\ form' = [form EXCEPT ![f] = g]
    BY <1>1, <1>6, <2>1 DEF ReviewRejection, FormType
  <2> QED
    BY <1>6, <2>2, EditStep DEF ReviewRejection, Usable
<1>7. ASSUME AskApproval(f)
      PROVE  IInv'
  <2>1. PICK g : g = [form[f] EXCEPT !.dialog = "confirm"]
    OBVIOUS
  <2>2. /\ g \in FormType /\ g.pc = form[f].pc /\ g.shown = form[f].shown /\ g.kind = form[f].kind
        /\ form' = [form EXCEPT ![f] = g]
    BY <1>1, <1>7, <2>1 DEF AskApproval, FormType
  <2> QED
    BY <1>7, <2>2, EditStep DEF AskApproval, Usable
<1>8. ASSUME CancelConfirmation(f)
      PROVE  IInv'
  <2>1. PICK g : g = [form[f] EXCEPT !.pending = None, !.dialog = None]
    OBVIOUS
  <2>2. /\ g \in FormType /\ g.pc = form[f].pc /\ g.shown = form[f].shown
        /\ g.dialog = None
        /\ form' = [form EXCEPT ![f] = g]
    BY <1>1, <1>8, <2>1 DEF CancelConfirmation, FormType
  <2> QED
    BY <1>8, <2>2, NoneIsNoValue, EditStep DEF CancelConfirmation, Usable
<1>9. ASSUME \/ SubmitCandidate(f) \/ SubmitDocument(f) \/ SubmitCorrection(f)
             \/ Approve(f) \/ SubmitCv(f) \/ ConfirmProposal(f) \/ RejectProposal(f)
      PROVE  IInv'
  <2>1. form[f].pc = "idle" /\ form[f].input \in Inputs \cup {None}
    BY <1>1, <1>9 DEF SubmitCandidate, SubmitDocument, SubmitCorrection, Approve, SubmitCv,
                      ConfirmProposal, RejectProposal, Usable, FormType
  <2>2. ConfirmProposal(f) => form[f].pending = form[f].input
    BY <1>1 DEF ConfirmProposal, Usable, FormOK
  <2>3. PICK op \in Ops, input \in {form[f].input, None} : Send(f, op, input)
    BY <1>9, <2>2 DEF SubmitCandidate, SubmitDocument, SubmitCorrection, Approve, SubmitCv,
                      ConfirmProposal, RejectProposal, Ops
  <2> QED
    BY <2>1, <2>3, SendStep
<1>10. ASSUME Leave(f)
       PROVE  IInv'
  <2>1. PICK g : g = [form[f] EXCEPT !.pc = "gone"]
    OBVIOUS
  <2>2. /\ g \in FormType /\ g.pc = "gone" /\ g.shown = form[f].shown /\ g.kind = form[f].kind
        /\ g.dialog = form[f].dialog /\ g.pending = form[f].pending /\ g.input = form[f].input
        /\ g.attempt = form[f].attempt
        /\ form' = [form EXCEPT ![f] = g]
    BY <1>1, <1>10, <2>1 DEF Leave, FormType
  <2>3. form'[f] = g /\ UNCHANGED <<cookies, request, ledger>>
    BY <1>10, <2>2 DEF Leave, IInv, TypeOK
  <2>4. FormOK(f)'
    BY <1>1, <2>2, <2>3 DEF FormOK, OwnSuccess, RequestOf
  <2> QED
    BY <2>2, <2>3, <2>4, FormStep DEF IInv, TypeOK
<1> QED
  BY <1>2, <1>3, <1>4, <1>5, <1>6, <1>7, <1>8, <1>9, <1>10 DEF User, UpdateField, UpdateProfile

LEMMA TimeOutStep ==
  ASSUME IInv, NEW f \in Forms, TimeOut(f)
  PROVE  IInv'
<1>1. form[f] \in FormType /\ FormOK(f)
  BY DEF IInv, TypeOK
<1>2. PICK g : g = [form[f] EXCEPT !.pc = "idle"]
  OBVIOUS
<1>3. /\ g \in FormType /\ g.pc = "idle" /\ g.shown = form[f].shown /\ g.kind = form[f].kind
      /\ g.dialog = form[f].dialog /\ g.pending = form[f].pending /\ g.input = form[f].input
      /\ form' = [form EXCEPT ![f] = g]
  BY <1>1, <1>2 DEF TimeOut, FormType
<1>4. form'[f] = g /\ form[f].shown = None
  BY <1>1, <1>3 DEF TimeOut, FormOK, IInv, TypeOK
<1>5. FormOK(f)'
  BY <1>1, <1>3, <1>4 DEF FormOK
<1> QED
  BY <1>3, <1>5, FormStep DEF TimeOut, IInv, TypeOK

(* The answer of a submission.  Success is taken from the request the form *)
(* waits for, whose key has the values the form shows.                     *)
LEMMA ReceiveStep ==
  ASSUME IInv, NEW f \in Forms, Receive(f)
  PROVE  IInv'
<1>1. form[f] \in FormType /\ FormOK(f) /\ form[f].pc = "submitting"
  BY DEF IInv, TypeOK, Receive
<1>2. PICK n : n = Len(request[f])
  OBVIOUS
<1>3. n \in DOMAIN request[f] /\ Awaited(f) = request[f][n]
  BY <1>1, <1>2 DEF FormOK, IInv, TypeOK, Awaited, Last
<1>4. PICK reply : reply = Awaited(f).reply
  OBVIOUS
<1>5. PICK w : w = IF reply = "written" THEN WrittenUnder(Awaited(f).key) ELSE None
  OBVIOUS
<1>6. PICK pc : pc = CASE reply = "written"      -> "done"
                       [] reply = "unauthorised" -> "gone"
                       [] OTHER                  -> "idle"
  OBVIOUS
<1>7. pc \in {"done", "gone", "idle"} /\ (reply = "written" => pc = "done")
  BY <1>6
<1>8. /\ form' = [form EXCEPT ![f].pc = pc, ![f].shown = w]
      /\ cookies' \in Sessions \cup {None}
      /\ UNCHANGED <<request, ledger>>
  BY <1>4, <1>5, <1>6 DEF Receive, IInv, TypeOK
<1>9. w # None => OwnSuccess(f, w) /\ w \in WriteType /\ pc = "done"
  <2> SUFFICES ASSUME w # None
               PROVE  OwnSuccess(f, w) /\ w \in WriteType /\ pc = "done"
    OBVIOUS
  <2>1. reply = "written" /\ w = WrittenUnder(request[f][n].key)
    BY <1>3, <1>5
  <2>2. request[f][n].key = DerivedKey(f, n) /\ IsWritten(request[f][n].key)
    BY <1>3, <1>4, <2>1 DEF IInv, RequestOK
  <2>3. w \in ledger /\ w.by = f /\ SameSubmission(RequestOf(w), request[f][n])
    BY <2>1, <2>2, WrittenIsSame
  <2> QED
    BY <1>1, <1>3, <1>7, <2>1, <2>3 DEF OwnSuccess, SameSubmission, FormOK, IInv, TypeOK
<1>10. PICK g : g = [form[f] EXCEPT !.pc = pc, !.shown = w]
  OBVIOUS
<1>11. /\ g \in FormType /\ g.pc = pc /\ g.shown = w /\ g.kind = form[f].kind
       /\ g.dialog = form[f].dialog /\ g.pending = form[f].pending /\ g.input = form[f].input
       /\ g.attempt = form[f].attempt
       /\ form' = [form EXCEPT ![f] = g]
  BY <1>1, <1>7, <1>8, <1>9, <1>10 DEF FormType
<1>12. form'[f] = g
  BY <1>11 DEF IInv, TypeOK
<1>13. OwnSuccess(f, w) => OwnSuccess(f, w)'
  BY <1>8, <1>11, <1>12 DEF OwnSuccess, RequestOf
<1>14. FormOK(f)'
  BY <1>1, <1>7, <1>9, <1>11, <1>12, <1>13 DEF FormOK
<1> QED
  BY <1>8, <1>11, <1>14, FormStep

-----------------------------------------------------------------------------
(* The routes and the API. *)

(* An answer to a request that is in its route or at the API. *)
LEMMA EndStep ==
  ASSUME IInv, NEW f \in Forms, NEW i \in DOMAIN request[f], request[f][i].pc # "ended",
         NEW reply \in (Replies \cup {None}) \ {"conflict"},
         request' = [request EXCEPT ![f][i].pc = "ended", ![f][i].reply = reply],
         UNCHANGED <<cookies, form>>,
         \/ ledger' = ledger
         \/ /\ ledger' = ledger \cup {[by |-> f, at |-> i]}
            /\ request[f][i].pc = "calling" /\ ~IsWritten(request[f][i].key),
         reply = "written" => /\ request[f][i].key = DerivedKey(f, i)
                              /\ \/ IsWritten(request[f][i].key)
                                 \/ ledger' = ledger \cup {[by |-> f, at |-> i]}
  PROVE  IInv'
<1>1. request[f][i] \in RequestType /\ RequestOK(f, i) /\ request \in [Forms -> Seq(RequestType)]
  BY RequestFacts DEF IInv, TypeOK
<1>2. PICK q : q = [request[f][i] EXCEPT !.pc = "ended", !.reply = reply]
  OBVIOUS
<1>3. /\ q \in RequestType /\ q.pc = "ended" /\ q.reply = reply /\ q.key = request[f][i].key
      /\ SameSubmission(q, request[f][i])
  BY <1>1, <1>2 DEF RequestType, SameSubmission
<1>4. request' = [request EXCEPT ![f] = [request[f] EXCEPT ![i] = q]]
  BY <1>1, <1>2
<1>5. request[f][i].pc = "calling" => q.key = DerivedKey(f, i)
  BY <1>1, <1>3 DEF RequestOK
<1> QED
  BY <1>3, <1>4, <1>5, RequestStep

LEMMA RouteStep ==
  ASSUME IInv, NEW f \in Forms, NEW i \in DOMAIN request[f], Route(f, i)
  PROVE  IInv'
<1>1. request[f][i] \in RequestType /\ RequestOK(f, i) /\ request \in [Forms -> Seq(RequestType)]
  BY RequestFacts DEF IInv, TypeOK
<1>2. ASSUME RefuseSession(f, i)
      PROVE  IInv'
  <2>1. PICK reply \in {"unauthorised", "failed"} : Reply(f, i, reply)
    BY <1>2 DEF RefuseSession
  <2> QED
    BY <1>2, <2>1, EndStep DEF RefuseSession, Reply, Replies
<1>3. ASSUME Forward(f, i, DerivedKey(f, i))
      PROVE  IInv'
  <2>1. PICK q : q = [request[f][i] EXCEPT !.pc = "calling", !.key = DerivedKey(f, i)]
    OBVIOUS
  <2>0. PICK key : key = DerivedKey(f, i)
    OBVIOUS
  <2>2. DerivedKey(f, i) \in KeyType
    BY <1>1, <1>3 DEF Forward, DerivedKey, KeyType, RequestType
  <2>3. /\ q \in RequestType /\ q.pc = "calling" /\ q.key = DerivedKey(f, i)
        /\ q.reply = request[f][i].reply
        /\ SameSubmission(q, request[f][i]) /\ q.key # None
    BY <1>1, <2>1, <2>2, NoneIsNoRecord DEF RequestType, SameSubmission
  <2>4. q.reply = None
    BY <1>1, <1>3, <2>3 DEF Forward, RequestOK
  <2>5. request' = [request EXCEPT ![f] = [request[f] EXCEPT ![i] = q]]
    <3>1. request' = [request EXCEPT ![f][i].pc = "calling", ![f][i].key = key]
      BY <1>3, <2>0 DEF Forward
    <3>2. q = [request[f][i] EXCEPT !.pc = "calling", !.key = key]
      BY <2>0, <2>1
    <3> QED
      BY <1>1, <3>1, <3>2
  <2> QED
    BY <1>3, <2>3, <2>4, <2>5, NoneIsNoValue, RequestStep DEF Forward, Replies
<1>4. ASSUME ApiTimeOut(f, i)
      PROVE  IInv'
  <2>1. PICK q : q = [request[f][i] EXCEPT !.reply = "failed"]
    OBVIOUS
  <2>2. /\ q \in RequestType /\ q.pc = "calling" /\ q.reply = "failed"
        /\ q.key = request[f][i].key /\ SameSubmission(q, request[f][i]) /\ q.key # None
    BY <1>1, <1>4, <2>1 DEF ApiTimeOut, RequestType, SameSubmission, Replies, RequestOK
  <2>3. q.key = DerivedKey(f, i)
    BY <1>1, <1>4, <2>2 DEF ApiTimeOut, RequestOK
  <2>4. request' = [request EXCEPT ![f] = [request[f] EXCEPT ![i] = q]]
    BY <1>1, <1>4, <2>1 DEF ApiTimeOut
  <2> QED
    BY <1>4, <2>2, <2>3, <2>4, RequestStep DEF ApiTimeOut
<1> QED
  BY <1>2, <1>3, <1>4
     DEF Route, CandidatesRoute, DocumentsRoute, CorrectionsRoute, ApproveRoute,
         CvExtractionsRoute, ConfirmRoute, RejectRoute, CandidateKey, DocumentKey,
         LifecycleKey, CvKey

(* The API never finds a key used for another input. *)
LEMMA NoConflict ==
  ASSUME IInv, NEW f \in Forms, NEW i \in DOMAIN request[f], request[f][i].pc = "calling",
         IsWritten(request[f][i].key)
  PROVE  RequestOf(WrittenUnder(request[f][i].key)).input = request[f][i].input
<1>1. request[f][i].key = DerivedKey(f, i)
  BY DEF IInv, RequestOK
<1> QED
  BY <1>1, WrittenIsSame DEF SameSubmission

LEMMA ApiStep ==
  ASSUME IInv, NEW f \in Forms, NEW i \in DOMAIN request[f], Api(f, i)
  PROVE  IInv'
<1>1. request[f][i] \in RequestType /\ RequestOK(f, i)
  BY RequestFacts DEF IInv
<1>2. ASSUME NEW answer \in Replies \ {"conflict"}, ApiAnswer(f, i, answer),
             \/ ledger' = ledger
             \/ ledger' = ledger \cup {[by |-> f, at |-> i]} /\ ~IsWritten(request[f][i].key),
             answer = "written" => \/ IsWritten(request[f][i].key)
                                   \/ ledger' = ledger \cup {[by |-> f, at |-> i]}
      PROVE  IInv'
  <2>1. PICK reply : reply = IF request[f][i].reply = None THEN answer ELSE request[f][i].reply
    OBVIOUS
  <2>2. request[f][i].pc = "calling" /\ request[f][i].key = DerivedKey(f, i)
    BY <1>1, <1>2 DEF ApiAnswer, RequestOK
  <2>3. /\ request' = [request EXCEPT ![f][i].pc = "ended", ![f][i].reply = reply]
        /\ UNCHANGED <<cookies, form>>
    BY <1>2, <2>1 DEF ApiAnswer, IInv, TypeOK
  <2>4. reply \in (Replies \cup {None}) \ {"conflict"}
    BY <1>1, <1>2, <2>1 DEF RequestType, RequestOK
  <2>5. reply = "written" => \/ IsWritten(request[f][i].key)
                             \/ ledger' = ledger \cup {[by |-> f, at |-> i]}
    BY <1>1, <1>2, <2>1 DEF RequestOK
  <2> QED
    BY <1>2, <2>2, <2>3, <2>4, <2>5, EndStep
<1>3. CASE ApiWrites(f, i)
  BY <1>2, <1>3 DEF ApiWrites, Replies
<1>4. CASE ApiReplays(f, i)
  <2>1. request[f][i].pc = "calling" /\ IsWritten(request[f][i].key)
    BY <1>4 DEF ApiReplays, ApiAnswer
  <2>2. ApiAnswer(f, i, "written") /\ ledger' = ledger
    BY <1>4, <2>1, NoConflict DEF ApiReplays
  <2> QED
    BY <1>2, <2>1, <2>2 DEF Replies
<1>5. CASE ApiRefuses(f, i)
  BY <1>2, <1>5 DEF ApiRefuses, Replies
<1> QED
  BY <1>3, <1>4, <1>5 DEF Api

-----------------------------------------------------------------------------

LEMMA InvInit == Init => IInv
<1> SUFFICES ASSUME Init
             PROVE  IInv
  OBVIOUS
<1>1. ASSUME NEW f \in Forms
      PROVE  /\ form[f] \in FormType /\ form[f].shown = None /\ form[f].pc = "idle"
             /\ form[f].dialog = None
  <2>1. \E kind \in Kinds, input \in Inputs \cup {None} : form[f] = Mounted(kind, input)
    <3>1. form[f] \in {Mounted(kind, None) : kind \in Kinds \ {"correction", "review"}}
             \cup {Mounted(kind, input) : kind \in {"correction", "review"}, input \in Inputs}
      BY DEF Init
    <3>2. CASE form[f] \in {Mounted(kind, None) : kind \in Kinds \ {"correction", "review"}}
      BY <3>2
    <3>3. CASE form[f] \in {Mounted(kind, input) : kind \in {"correction", "review"}, input \in Inputs}
      <4>1. PICK kind \in {"correction", "review"}, input \in Inputs : form[f] = Mounted(kind, input)
        BY <3>3
      <4> QED
        BY <4>1 DEF Kinds
    <3> QED
      BY <3>1, <3>2, <3>3
  <2>2. PICK kind \in Kinds, input \in Inputs \cup {None} : form[f] = Mounted(kind, input)
    BY <2>1
  <2> QED
    BY <2>2, MaxSelectionsAssumption DEF Mounted, FormType
<1>2. form \in [Forms -> FormType]
  BY <1>1 DEF Init
<1>3. TypeOK
  BY <1>2 DEF Init, TypeOK
<1>4. \A f \in Forms : FormOK(f)
  BY <1>1, NoneIsNoValue DEF FormOK
<1>5. \A f \in Forms : Len(request[f]) <= MaxRequests /\ DOMAIN request[f] = {}
  BY MaxRequestsAssumption DEF Init
<1> QED
  BY <1>3, <1>4, <1>5 DEF IInv, Init

LEMMA InvStep == IInv /\ [Next]_vars => IInv'
<1>1. ASSUME IInv, UNCHANGED <<form, request, ledger>>, cookies' \in Sessions \cup {None}
      PROVE  IInv'
  <2>1. /\ TypeOK'
        /\ \A f \in Forms : Len(request[f])' <= MaxRequests
        /\ \A f \in Forms : FormOK(f)'
    BY <1>1 DEF IInv, TypeOK, FormOK, OwnSuccess, RequestOf, Awaited
  <2>2. \A f \in Forms : \A i \in DOMAIN request[f] : RequestOK(f, i)'
    BY <1>1 DEF IInv, RequestOK, DerivedKey, IsWritten, RequestOf
  <2>3. \A w \in ledger : WriteOK(w)'
    BY <1>1 DEF IInv, WriteOK, DerivedKey, RequestOf
  <2> QED
    BY <1>1, <2>1, <2>2, <2>3 DEF IInv
<1>2. IInv /\ (UNCHANGED vars \/ ChangeCookies) => IInv'
  BY <1>1 DEF vars, ChangeCookies, IInv, TypeOK
<1> QED
  BY <1>2, UserStep, ReceiveStep, TimeOutStep, RouteStep, ApiStep DEF Next

LEMMA Invariance == Spec => []IInv
  BY InvInit, InvStep, PTL DEF Spec

(* Forms, requests and writes keep their types; a form never shows a write *)
(* that nobody made.                                                       *)
THEOREM Typing == Spec => []TypeOK
<1>1. IInv => TypeOK
  BY DEF IInv
<1> QED
  BY <1>1, Invariance, PTL

(* However often a form repeats a submission, and whatever is lost or      *)
(* late, the API writes it once.                                           *)
THEOREM OneWritePerSubmission == Spec => []RetriesWriteOnce
<1>1. ASSUME IInv, NEW v \in ledger, NEW w \in ledger, v.by = w.by,
             SameSubmission(RequestOf(v), RequestOf(w))
      PROVE  v = w
  <2>1. DerivedKey(v.by, v.at) = DerivedKey(w.by, w.at)
    BY <1>1, WriteOfRequest, SameSubmissionSameKey
  <2> QED
    BY <1>1, <2>1 DEF IInv, WriteOK
<1>2. IInv => RetriesWriteOnce
  BY <1>1 DEF RetriesWriteOnce
<1> QED
  BY <1>2, Invariance, PTL

(* A form reports success only for a write of its own, made with the       *)
(* values and the file it shows.                                           *)
THEOREM OwnSuccessOnly == Spec => []SuccessIsOwn
<1>1. IInv => SuccessIsOwn
  BY DEF IInv, FormOK, OwnSuccess, SuccessIsOwn
<1> QED
  BY <1>1, Invariance, PTL

(* The derived keys never make the API refuse a key that was used for      *)
(* other values.                                                           *)
THEOREM NoKeyReused == Spec => []KeysAreNeverReused
<1>1. IInv => KeysAreNeverReused
  BY DEF IInv, RequestOK, KeysAreNeverReused
<1> QED
  BY <1>1, Invariance, PTL

-----------------------------------------------------------------------------
(* The action properties: what each step does to the requests. *)

LEMMA RequestEffect ==
  ASSUME TypeOK, NEW f \in Forms, NEW i \in DOMAIN request[f], NEW q,
         request' = [request EXCEPT ![f] = [request[f] EXCEPT ![i] = q]]
  PROVE  /\ request'[f][i] = q
         /\ \A h \in Forms : \A j \in DOMAIN request[h] :
              h # f \/ j # i => request'[h][j] = request[h][j]
         /\ \A h \in Forms : Len(request'[h]) = Len(request[h])
<1>1. request[f] \in Seq(RequestType) /\ i \in 1..Len(request[f]) /\ Len(request[f]) \in Nat
  BY DEF TypeOK
<1>2. /\ request'[f] = [request[f] EXCEPT ![i] = q]
      /\ \A h \in Forms \ {f} : request'[h] = request[h]
  BY DEF TypeOK
<1>3. /\ Len(request'[f]) = Len(request[f]) /\ request'[f][i] = q
      /\ \A j \in DOMAIN request[f] : j # i => request'[f][j] = request[f][j]
  BY <1>1, <1>2
<1> QED
  BY <1>2, <1>3

(* Only the API rejects, and only under a key it has not written. *)
LEMMA OnlyTheApiRejects ==
  ASSUME IInv, NEW f \in Forms, NEW i \in DOMAIN request[f], Route(f, i) \/ Api(f, i)
  PROVE  /\ \A h \in Forms : Len(request'[h]) = Len(request[h])
         /\ \A h \in Forms : \A j \in DOMAIN request[h] :
              request'[h][j].reply = "rejected" =>
                \/ request[h][j].reply = "rejected"
                \/ request[h][j].pc = "calling" /\ ~IsWritten(request[h][j].key)
<1> DEFINE Unwritten == request[f][i].pc = "calling" /\ ~IsWritten(request[f][i].key)
<1>1. request[f][i] \in RequestType /\ request \in [Forms -> Seq(RequestType)]
  BY RequestFacts DEF IInv, TypeOK
<1>2. \E q : /\ request' = [request EXCEPT ![f] = [request[f] EXCEPT ![i] = q]]
             /\ q.reply = "rejected" => request[f][i].reply = "rejected" \/ Unwritten
  <2>1. CASE RefuseSession(f, i)
    <3>1. PICK reply \in {"unauthorised", "failed"} : Reply(f, i, reply)
      BY <2>1 DEF RefuseSession
    <3>2. PICK q : q = [request[f][i] EXCEPT !.pc = "ended", !.reply = reply]
      OBVIOUS
    <3>3. request' = [request EXCEPT ![f] = [request[f] EXCEPT ![i] = q]]
      BY <1>1, <3>1, <3>2 DEF Reply
    <3>4. q.reply = reply
      BY <1>1, <3>2 DEF RequestType
    <3> QED
      BY <3>1, <3>3, <3>4
  <2>2. ASSUME NEW key, Forward(f, i, key)
        PROVE  \E q : /\ request' = [request EXCEPT ![f] = [request[f] EXCEPT ![i] = q]]
                      /\ q.reply = request[f][i].reply
    <3>1. PICK q : q = [request[f][i] EXCEPT !.pc = "calling", !.key = key]
      OBVIOUS
    <3>2. request' = [request EXCEPT ![f] = [request[f] EXCEPT ![i] = q]]
      BY <1>1, <2>2, <3>1 DEF Forward
    <3>3. q.reply = request[f][i].reply
      BY <1>1, <3>1 DEF RequestType
    <3> QED
      BY <3>2, <3>3
  <2>3. CASE ApiTimeOut(f, i)
    <3>1. PICK q : q = [request[f][i] EXCEPT !.reply = "failed"]
      OBVIOUS
    <3>2. request' = [request EXCEPT ![f] = [request[f] EXCEPT ![i] = q]]
      BY <1>1, <2>3, <3>1 DEF ApiTimeOut
    <3>3. q.reply = "failed"
      BY <1>1, <3>1 DEF RequestType
    <3> QED
      BY <3>2, <3>3
  <2>4. CASE Api(f, i)
    <3>1. PICK answer : ApiAnswer(f, i, answer)
                        /\ (answer = "rejected" => ~IsWritten(request[f][i].key))
      BY <2>4 DEF Api, ApiWrites, ApiReplays, ApiRefuses
    <3>2. PICK reply : reply = IF request[f][i].reply = None THEN answer ELSE request[f][i].reply
      OBVIOUS
    <3>3. /\ request' = [request EXCEPT ![f][i].pc = "ended", ![f][i].reply = reply]
          /\ request[f][i].pc = "calling"
      BY <1>1, <3>1, <3>2 DEF ApiAnswer
    <3>4. PICK q : q = [request[f][i] EXCEPT !.pc = "ended", !.reply = reply]
      OBVIOUS
    <3>5. request' = [request EXCEPT ![f] = [request[f] EXCEPT ![i] = q]]
      BY <1>1, <3>3, <3>4
    <3>6. q.reply = reply
      BY <1>1, <3>4 DEF RequestType
    <3> QED
      BY <3>1, <3>2, <3>3, <3>5, <3>6
  <2> QED
    BY <2>1, <2>2, <2>3, <2>4
       DEF Route, CandidatesRoute, DocumentsRoute, CorrectionsRoute, ApproveRoute,
           CvExtractionsRoute, ConfirmRoute, RejectRoute
<1>3. PICK q : /\ request' = [request EXCEPT ![f] = [request[f] EXCEPT ![i] = q]]
               /\ q.reply = "rejected" => request[f][i].reply = "rejected" \/ Unwritten
  BY <1>2
<1>4. /\ request'[f][i] = q
      /\ \A h \in Forms : \A j \in DOMAIN request[h] :
           h # f \/ j # i => request'[h][j] = request[h][j]
      /\ \A h \in Forms : Len(request'[h]) = Len(request[h])
  BY <1>3, RequestEffect DEF IInv
<1> QED
  BY <1>3, <1>4

(* Every step leaves the requests alone, sends one, or is one of theirs. *)
LEMMA RequestSteps ==
  ASSUME IInv, Next
  PROVE  \/ request' = request /\ ledger' = ledger
         \/ \E f \in Forms, op \in Ops, input \in Inputs \cup {None} :
              /\ form[f].pc = "idle" /\ input \in {form[f].input, None}
              /\ op = "confirm" => input = form[f].input
              /\ Send(f, op, input)
         \/ \E f \in Forms : \E i \in DOMAIN request[f] : Route(f, i) \/ Api(f, i)
<1>1. ASSUME NEW f \in Forms,
             \/ SubmitCandidate(f) \/ SubmitDocument(f) \/ SubmitCorrection(f)
             \/ Approve(f) \/ SubmitCv(f) \/ ConfirmProposal(f) \/ RejectProposal(f)
      PROVE  \E op \in Ops, input \in Inputs \cup {None} :
               /\ form[f].pc = "idle" /\ input \in {form[f].input, None}
               /\ op = "confirm" => input = form[f].input
               /\ Send(f, op, input)
  <2>1. form[f].pc = "idle" /\ form[f].input \in Inputs \cup {None}
    BY <1>1 DEF SubmitCandidate, SubmitDocument, SubmitCorrection, Approve, SubmitCv,
                ConfirmProposal, RejectProposal, Usable, IInv, TypeOK, FormType
  <2>2. ConfirmProposal(f) => form[f].pending = form[f].input
    BY DEF ConfirmProposal, Usable, IInv, FormOK
  <2>3. PICK op \in Ops, input \in {form[f].input, None} :
          Send(f, op, input) /\ (op = "confirm" => input = form[f].input)
    BY <1>1, <2>2 DEF SubmitCandidate, SubmitDocument, SubmitCorrection, Approve, SubmitCv,
                      ConfirmProposal, RejectProposal, Ops
  <2> QED
    BY <2>1, <2>3
<1> QED
  BY <1>1 DEF Next, ChangeCookies, User, UpdateField, SelectFile, UpdateProfile,
              ReviewConfirmation, ReviewRejection, AskApproval, CancelConfirmation, Leave,
              Receive, TimeOut

(* A submission that has been written is never refused as not allowed,     *)
(* neither when it is repeated nor when an old request arrives late.       *)
THEOREM NoRefusal == Spec => NoRefusalAfterWrite
<1>1. ASSUME IInv, Next, NEW f \in Forms, NEW i \in DOMAIN request[f],
             request[f][i].reply = None, request'[f][i].reply = "rejected",
             NEW w \in ledger, w.by = f, SameSubmission(RequestOf(w), request[f][i])
      PROVE  FALSE
  <2>1. request[f][i].reply # "rejected"
    BY <1>1, NoneIsNoValue DEF Replies
  <2>2. request[f][i].pc = "calling" /\ ~IsWritten(request[f][i].key)
    <3>1. CASE request' = request
      BY <1>1, <2>1, <3>1
    <3>2. CASE \E g \in Forms, op \in Ops, input \in Inputs \cup {None} :
                 /\ form[g].pc = "idle" /\ input \in {form[g].input, None}
                 /\ Send(g, op, input)
      BY <1>1, <2>1, <3>2, SendStep
    <3>3. CASE \E g \in Forms : \E j \in DOMAIN request[g] : Route(g, j) \/ Api(g, j)
      BY <1>1, <2>1, <3>3, OnlyTheApiRejects
    <3> QED
      BY <1>1, <3>1, <3>2, <3>3, RequestSteps
  <2>3. DerivedKey(f, w.at) = DerivedKey(f, i)
    BY <1>1, WriteOfRequest, SameSubmissionSameKey
  <2>4. RequestOf(w).key = request[f][i].key
    BY <1>1, <2>2, <2>3 DEF IInv, WriteOK, RequestOK
  <2> QED
    BY <1>1, <2>2, <2>4 DEF IsWritten
<1>2. ASSUME IInv, [Next]_vars
      PROVE  [\A f \in Forms : \A i \in DOMAIN request[f] :
                request[f][i].reply = None /\ request'[f][i].reply = "rejected" =>
                  \A w \in ledger : w.by = f => ~SameSubmission(RequestOf(w), request[f][i])]_vars
  BY <1>1, <1>2
<1> QED
  BY <1>2, Invariance, PTL DEF Spec, NoRefusalAfterWrite

(* What a recruiter confirms is the profile on the page at that moment,    *)
(* although the dialog had taken its own copy.                             *)
THEOREM ConfirmsTheShown == Spec => ConfirmsWhatIsShown
<1>1. ASSUME IInv, Next, NEW f \in Forms, Len(request'[f]) > Len(request[f]),
             Last(request'[f]).op = "confirm"
      PROVE  Last(request'[f]).input = form[f].input
  <2>1. Len(request[f]) \in Nat /\ request[f] \in Seq(RequestType)
    BY <1>1 DEF IInv, TypeOK
  <2>2. CASE request' = request
    BY <1>1, <2>1, <2>2
  <2>3. CASE \E g \in Forms, op \in Ops, input \in Inputs \cup {None} :
               /\ form[g].pc = "idle" /\ input \in {form[g].input, None}
               /\ op = "confirm" => input = form[g].input
               /\ Send(g, op, input)
    <3>1. PICK g \in Forms, op \in Ops, input \in Inputs \cup {None} :
               /\ form[g].pc = "idle" /\ input \in {form[g].input, None}
               /\ op = "confirm" => input = form[g].input
               /\ Send(g, op, input)
      BY <2>3
    <3>2. /\ Last(request'[g]).op = op /\ Last(request'[g]).input = input
          /\ \A h \in Forms \ {g} : request'[h] = request[h]
      BY <1>1, <3>1, SendStep
    <3> QED
      BY <1>1, <2>1, <3>1, <3>2
  <2>4. CASE \E g \in Forms : \E j \in DOMAIN request[g] : Route(g, j) \/ Api(g, j)
    BY <1>1, <2>1, <2>4, OnlyTheApiRejects
  <2> QED
    BY <1>1, <2>2, <2>3, <2>4, RequestSteps
<1>2. ASSUME IInv, [Next]_vars
      PROVE  [\A f \in Forms : Len(request'[f]) > Len(request[f]) =>
                (Last(request'[f]).op = "confirm" => Last(request'[f]).input = form[f].input)]_vars
  BY <1>1, <1>2
<1> QED
  BY <1>2, Invariance, PTL DEF Spec, ConfirmsWhatIsShown

-----------------------------------------------------------------------------
(* The API is taken at its word: what it promises is KeyedWrite, with a    *)
(* request for a call and the derived key for its Idempotency-Key.  A call *)
(* is made when its route forwards it; the writer of a key needs no other  *)
(* answer, and an answer nobody reads any more is a failure.               *)

Forwarded(c) == c.at \in DOMAIN request[c.by] /\ RequestOf(c).key # None

AskedBy(c) ==
  IF Forwarded(c) THEN [key |-> RequestOf(c).key, payload |-> RequestOf(c).input] ELSE None

WriteUnder(k) ==
  IF IsWritten(k)
  THEN [payload |-> RequestOf(WrittenUnder(k)).input, body |-> WrittenUnder(k)]
  ELSE None

SaidOf(q) == CASE q.reply = "written"      -> WrittenUnder(q.key)
               [] q.reply = "unauthorised" -> "failed"
               [] OTHER                    -> q.reply

SaidTo(c) ==
  IF Forwarded(c) /\ RequestOf(c).pc = "ended" /\ c \notin ledger THEN SaidOf(RequestOf(c)) ELSE None

Promise == INSTANCE KeyedWrite WITH
             Calls <- WriteType, Keys <- KeyType, Payloads <- Inputs \cup {None},
             asked <- [c \in WriteType |-> AskedBy(c)],
             ledger <- [k \in KeyType |-> WriteUnder(k)],
             said <- [c \in WriteType |-> SaidTo(c)]

LEMMA TheWriteOfAKey ==
  ASSUME IInv, NEW w \in ledger, NEW k, RequestOf(w).key = k
  PROVE  IsWritten(k) /\ WrittenUnder(k) = w
<1>1. PICK v : v = WrittenUnder(k)
  OBVIOUS
<1>2. v \in ledger /\ RequestOf(v).key = k
  BY <1>1 DEF WrittenUnder
<1>3. v = w
  BY <1>2 DEF IInv, WriteOK
<1> QED
  BY <1>1, <1>3 DEF IsWritten

(* The write of a key stays the write of that key. *)
LEMMA WritesStay ==
  ASSUME IInv', NEW k, IsWritten(k), ledger \subseteq ledger',
         \A w \in ledger : RequestOf(w)' = RequestOf(w)
  PROVE  /\ IsWritten(k)' /\ WrittenUnder(k)' = WrittenUnder(k)
         /\ WriteUnder(k)' = WriteUnder(k)
<1>1. PICK w : w = WrittenUnder(k)
  OBVIOUS
<1>2. w \in ledger /\ RequestOf(w).key = k
  BY <1>1 DEF IsWritten, WrittenUnder
<1>3. w \in ledger' /\ RequestOf(w)' = RequestOf(w)
  BY <1>2
<1>4. PICK v : v = WrittenUnder(k)'
  OBVIOUS
<1>5. v \in ledger' /\ RequestOf(v)'.key = k
  BY <1>2, <1>3, <1>4 DEF WrittenUnder
<1>6. v = w
  BY <1>2, <1>3, <1>5 DEF IInv, WriteOK
<1>7. IsWritten(k)' /\ WrittenUnder(k)' = WrittenUnder(k)
  BY <1>1, <1>2, <1>3, <1>4, <1>6 DEF IsWritten
<1> QED
  BY <1>1, <1>3, <1>7 DEF WriteUnder

(* What was asked and said by a request that does not move. *)
LEMMA OthersStay ==
  ASSUME IInv, IInv', NEW c \in WriteType, ledger \subseteq ledger',
         \A w \in ledger : RequestOf(w)' = RequestOf(w),
         c \in ledger' => c \in ledger,
         \/ ~Forwarded(c) /\ ~Forwarded(c)'
         \/ /\ c.at \in DOMAIN request[c.by] /\ c.at \in DOMAIN request'[c.by]
            /\ RequestOf(c)' = RequestOf(c)
  PROVE  AskedBy(c)' = AskedBy(c) /\ SaidTo(c)' = SaidTo(c)
<1>1. CASE ~Forwarded(c) /\ ~Forwarded(c)'
  BY <1>1 DEF AskedBy, SaidTo
<1>2. CASE /\ c.at \in DOMAIN request[c.by] /\ c.at \in DOMAIN request'[c.by]
           /\ RequestOf(c)' = RequestOf(c)
  <2>1. PICK q : q = RequestOf(c)
    OBVIOUS
  <2>2. RequestOf(c)' = q /\ (Forwarded(c)' <=> Forwarded(c)) /\ AskedBy(c)' = AskedBy(c)
    BY <1>2, <2>1 DEF Forwarded, AskedBy
  <2>3. q.reply = "written" => IsWritten(q.key)
    <3>1. c.by \in Forms /\ RequestOK(c.by, c.at)
      BY <1>2 DEF IInv, WriteType
    <3> QED
      BY <2>1, <3>1 DEF RequestOK, RequestOf
  <2>4. q.reply = "written" => WrittenUnder(q.key)' = WrittenUnder(q.key)
    BY <2>3, WritesStay
  <2>5. SaidOf(q)' = SaidOf(q)
    BY <2>4 DEF SaidOf
  <2> QED
    BY <2>1, <2>2, <2>5 DEF SaidTo
<1> QED
  BY <1>1, <1>2

(* Writes alone decide what is kept under the keys. *)
LEMMA KeysStay ==
  ASSUME IInv', NEW k, ledger' = ledger, \A w \in ledger : RequestOf(w)' = RequestOf(w)
  PROVE  WriteUnder(k)' = WriteUnder(k)
<1>1. CASE IsWritten(k)
  BY <1>1, WritesStay
<1>2. CASE ~IsWritten(k)
  <2>1. ~IsWritten(k)'
    BY <1>2 DEF IsWritten
  <2> QED
    BY <1>2, <2>1 DEF WriteUnder
<1> QED
  BY <1>1, <1>2

(* The API does not see what a form and its browser do, nor a request that *)
(* is not forwarded yet.                                                   *)
LEMMA UnseenStep ==
  ASSUME IInv, IInv', ledger' = ledger,
         \A h \in Forms : \A j \in DOMAIN request[h] :
           j \in DOMAIN request'[h] /\ request'[h][j] = request[h][j],
         \A h \in Forms : \A j \in DOMAIN request'[h] :
           j \in DOMAIN request[h] \/ request'[h][j].key = None
  PROVE  UNCHANGED Promise!vars
<1>1. \A w \in ledger : RequestOf(w)' = RequestOf(w)
  BY WriteOfRequest DEF RequestOf
<1>2. ASSUME NEW c \in WriteType
      PROVE  AskedBy(c)' = AskedBy(c) /\ SaidTo(c)' = SaidTo(c)
  <2>1. c.by \in Forms
    BY DEF WriteType
  <2>2. CASE c.at \in DOMAIN request[c.by]
    <3>1. c.at \in DOMAIN request'[c.by] /\ RequestOf(c)' = RequestOf(c)
      BY <2>1, <2>2 DEF RequestOf
    <3> QED
      BY <1>1, <2>2, <3>1, OthersStay
  <2>3. CASE c.at \notin DOMAIN request[c.by]
    <3>1. ~Forwarded(c) /\ ~Forwarded(c)'
      BY <2>1, <2>3 DEF Forwarded, RequestOf
    <3> QED
      BY <1>1, <3>1, OthersStay
  <2> QED
    BY <2>2, <2>3
<1>3. \A k \in KeyType : WriteUnder(k)' = WriteUnder(k)
  BY <1>1, KeysStay
<1> QED
  BY <1>2, <1>3 DEF Promise!vars

(* A request that moves is one call; nothing else is asked, said or, unless *)
(* by its own write, recorded.                                             *)
LEMMA CallStep ==
  ASSUME IInv, IInv', NEW c \in WriteType, c.at \in DOMAIN request[c.by], NEW q,
         request' = [request EXCEPT ![c.by] = [request[c.by] EXCEPT ![c.at] = q]],
         RequestOf(c).pc # "ended",
         ledger' = ledger \/ ledger' = ledger \cup {c}
  PROVE  /\ RequestOf(c)' = q
         /\ Forwarded(c) <=> RequestOf(c).key # None
         /\ Forwarded(c)' <=> q.key # None
         /\ c \notin ledger
         /\ \A w \in ledger : RequestOf(w)' = RequestOf(w)
         /\ \A d \in WriteType \ {c} : AskedBy(d)' = AskedBy(d) /\ SaidTo(d)' = SaidTo(d)
         /\ AskedBy(c) = IF RequestOf(c).key # None
                         THEN [key |-> RequestOf(c).key, payload |-> RequestOf(c).input]
                         ELSE None
         /\ AskedBy(c)' = IF q.key # None THEN [key |-> q.key, payload |-> q.input] ELSE None
         /\ SaidTo(c) = None
<1>0. PICK f, i : f \in Forms /\ i \in DOMAIN request[f] /\ f = c.by /\ i = c.at
  BY DEF WriteType
<1>1. /\ request'[f][i] = q
      /\ \A h \in Forms : \A j \in DOMAIN request[h] :
           h # f \/ j # i => request'[h][j] = request[h][j]
      /\ \A h \in Forms : Len(request'[h]) = Len(request[h])
  <2>1. /\ request' = [request EXCEPT ![f] = [request[f] EXCEPT ![i] = q]]
        /\ f \in Forms /\ i \in DOMAIN request[f] /\ TypeOK
    BY <1>0 DEF IInv
  <2> QED
    BY <2>1, RequestEffect
<1>2. \A h \in Forms : DOMAIN request'[h] = DOMAIN request[h]
  BY <1>1 DEF IInv, TypeOK
<1>3. c.by = f /\ c.at = i /\ RequestOf(c) = request[f][i] /\ RequestOf(c)' = q
  BY <1>0, <1>1 DEF RequestOf
<1>4. (Forwarded(c) <=> request[f][i].key # None) /\ (Forwarded(c)' <=> q.key # None)
  BY <1>2, <1>3 DEF Forwarded
<1>5. c \notin ledger
  BY <1>3 DEF IInv, WriteOK
<1>6. ASSUME NEW d \in WriteType, d # c
      PROVE  /\ d.by \in Forms
             /\ d.at \in DOMAIN request[d.by] => RequestOf(d)' = RequestOf(d)
  <2>1. d = [by |-> d.by, at |-> d.at] /\ d.by \in Forms
    BY DEF WriteType
  <2>2. c = [by |-> f, at |-> i]
    BY <1>3 DEF WriteType
  <2> QED
    BY <1>1, <1>3, <1>6, <2>1, <2>2 DEF RequestOf
<1>7. \A w \in ledger : RequestOf(w)' = RequestOf(w)
  BY <1>5, <1>6, WriteOfRequest
<1>8. ASSUME NEW d \in WriteType, d # c
      PROVE  AskedBy(d)' = AskedBy(d) /\ SaidTo(d)' = SaidTo(d)
  <2>1. \/ ~Forwarded(d) /\ ~Forwarded(d)'
        \/ /\ d.at \in DOMAIN request[d.by] /\ d.at \in DOMAIN request'[d.by]
           /\ RequestOf(d)' = RequestOf(d)
    BY <1>2, <1>6, <1>8 DEF Forwarded
  <2> QED
    BY <1>7, <1>8, <2>1, OthersStay
<1>9. AskedBy(c) = IF request[f][i].key # None
                   THEN [key |-> request[f][i].key, payload |-> request[f][i].input]
                   ELSE None
  BY <1>3, <1>4 DEF AskedBy
<1>10. AskedBy(c)' = IF q.key # None THEN [key |-> q.key, payload |-> q.input] ELSE None
  BY <1>3, <1>4 DEF AskedBy
<1>11. SaidTo(c) = None
  BY <1>3 DEF SaidTo
<1> QED
  BY <1>3, <1>4, <1>5, <1>7, <1>8, <1>9, <1>10, <1>11

(* The routes: a request refused is no call, one that is forwarded is made, *)
(* and one given up is still waiting.                                      *)
LEMMA RouteKeepsPromise ==
  ASSUME IInv, IInv', NEW f \in Forms, NEW i \in DOMAIN request[f], Route(f, i)
  PROVE  [Promise!Next]_(Promise!vars)
<1>1. /\ request[f][i] \in RequestType /\ RequestOK(f, i)
      /\ request \in [Forms -> Seq(RequestType)]
  BY RequestFacts DEF IInv, TypeOK
<1>2. PICK c \in WriteType : /\ c.by = f /\ c.at = i /\ c.at \in DOMAIN request[c.by]
                            /\ RequestOf(c) = request[f][i]
  BY RequestFacts DEF RequestOf
<1>3. ASSUME NEW q, request' = [request EXCEPT ![f] = [request[f] EXCEPT ![i] = q]],
             request[f][i].pc # "ended", q.pc # "ended" \/ q.key = None,
             q.key = request[f][i].key, q.input = request[f][i].input, ledger' = ledger
      PROVE  UNCHANGED Promise!vars
  <2>1. /\ RequestOf(c)' = q
        /\ Forwarded(c)' <=> q.key # None
        /\ \A w \in ledger : RequestOf(w)' = RequestOf(w)
        /\ \A d \in WriteType \ {c} : AskedBy(d)' = AskedBy(d) /\ SaidTo(d)' = SaidTo(d)
        /\ AskedBy(c) = IF RequestOf(c).key # None
                        THEN [key |-> RequestOf(c).key, payload |-> RequestOf(c).input]
                        ELSE None
        /\ AskedBy(c)' = IF q.key # None THEN [key |-> q.key, payload |-> q.input] ELSE None
        /\ SaidTo(c) = None
    BY <1>2, <1>3, CallStep
  <2>2. SaidTo(c)' = None /\ AskedBy(c)' = AskedBy(c)
    BY <1>2, <1>3, <2>1 DEF SaidTo
  <2>3. \A k \in KeyType : WriteUnder(k)' = WriteUnder(k)
    BY <1>3, <2>1, KeysStay
  <2> QED
    BY <2>1, <2>2, <2>3 DEF Promise!vars
<1>4. CASE RefuseSession(f, i)
  <2>1. PICK reply \in {"unauthorised", "failed"} : Reply(f, i, reply)
    BY <1>4 DEF RefuseSession
  <2>2. PICK q : q = [request[f][i] EXCEPT !.pc = "ended", !.reply = reply]
    OBVIOUS
  <2>3. request' = [request EXCEPT ![f] = [request[f] EXCEPT ![i] = q]]
    BY <1>1, <2>1, <2>2 DEF Reply
  <2>4. /\ q.key = request[f][i].key /\ q.input = request[f][i].input
        /\ request[f][i].pc = "routing" /\ q.key = None
    BY <1>1, <1>4, <2>2 DEF RequestType, RefuseSession, RequestOK
  <2> QED
    BY <1>3, <1>4, <2>3, <2>4 DEF RefuseSession
<1>5. CASE ApiTimeOut(f, i)
  <2>1. PICK q : q = [request[f][i] EXCEPT !.reply = "failed"]
    OBVIOUS
  <2>2. request' = [request EXCEPT ![f] = [request[f] EXCEPT ![i] = q]]
    BY <1>1, <1>5, <2>1 DEF ApiTimeOut
  <2>3. /\ q.key = request[f][i].key /\ q.input = request[f][i].input
        /\ request[f][i].pc = "calling" /\ q.pc = "calling"
    BY <1>1, <1>5, <2>1 DEF RequestType, ApiTimeOut
  <2> QED
    BY <1>3, <1>5, <2>2, <2>3 DEF ApiTimeOut
<1>6. ASSUME Forward(f, i, DerivedKey(f, i))
      PROVE  Promise!Ask(c)
  <2>1. PICK key \in KeyType : key = DerivedKey(f, i)
    BY <1>1, <1>6 DEF Forward, DerivedKey, KeyType, RequestType
  <2>2. PICK q : q = [request[f][i] EXCEPT !.pc = "calling", !.key = key]
    OBVIOUS
  <2>3. request' = [request EXCEPT ![f][i].pc = "calling", ![f][i].key = key]
    BY <1>6, <2>1 DEF Forward
  <2>4. request' = [request EXCEPT ![f] = [request[f] EXCEPT ![i] = q]]
    BY <1>1, <2>2, <2>3
  <2>5. /\ q.key = key /\ q.pc = "calling" /\ q.input = request[f][i].input
        /\ request[f][i].pc = "routing" /\ request[f][i].key = None /\ ledger' = ledger
        /\ q.input \in Inputs \cup {None} /\ key # None
    BY <1>1, <1>6, <2>2, NoneIsNoRecord DEF RequestType, Forward, RequestOK
  <2>6. /\ RequestOf(c)' = q
        /\ Forwarded(c)' <=> q.key # None
        /\ \A w \in ledger : RequestOf(w)' = RequestOf(w)
        /\ \A d \in WriteType \ {c} : AskedBy(d)' = AskedBy(d) /\ SaidTo(d)' = SaidTo(d)
        /\ AskedBy(c) = IF RequestOf(c).key # None
                        THEN [key |-> RequestOf(c).key, payload |-> RequestOf(c).input]
                        ELSE None
        /\ AskedBy(c)' = IF q.key # None THEN [key |-> q.key, payload |-> q.input] ELSE None
        /\ SaidTo(c) = None
    BY <1>2, <2>4, <2>5, CallStep
  <2>7. /\ SaidTo(c)' = None
        /\ AskedBy(c) = None /\ AskedBy(c)' = [key |-> key, payload |-> q.input]
    BY <1>2, <2>5, <2>6 DEF SaidTo
  <2>8. \A k \in KeyType : WriteUnder(k)' = WriteUnder(k)
    BY <2>5, <2>6, KeysStay
  <2>9. [d \in WriteType |-> AskedBy(d)'] =
          [[d \in WriteType |-> AskedBy(d)] EXCEPT ![c] = [key |-> key, payload |-> q.input]]
    BY <2>6, <2>7
  <2>10. /\ [d \in WriteType |-> SaidTo(d)'] = [d \in WriteType |-> SaidTo(d)]
         /\ [k \in KeyType |-> WriteUnder(k)'] = [k \in KeyType |-> WriteUnder(k)]
    BY <2>6, <2>7, <2>8
  <2> QED
    BY <2>5, <2>6, <2>7, <2>9, <2>10 DEF Promise!Ask
<1> QED
  BY <1>4, <1>5, <1>6
     DEF Route, CandidatesRoute, DocumentsRoute, CorrectionsRoute, ApproveRoute,
         CvExtractionsRoute, ConfirmRoute, RejectRoute, CandidateKey, DocumentKey,
         LifecycleKey, CvKey, Promise!Next

(* The API: a write is the write of its key, and every other answer tells  *)
(* the truth about it.                                                     *)
LEMMA ApiKeepsPromise ==
  ASSUME IInv, IInv', NEW f \in Forms, NEW i \in DOMAIN request[f], Api(f, i)
  PROVE  Promise!Next
<1>1. /\ request[f][i] \in RequestType /\ RequestOK(f, i)
      /\ request \in [Forms -> Seq(RequestType)]
  BY RequestFacts DEF IInv, TypeOK
<1>2. PICK c \in WriteType : /\ c.by = f /\ c.at = i /\ c.at \in DOMAIN request[c.by]
                            /\ RequestOf(c) = request[f][i] /\ c = [by |-> f, at |-> i]
  BY RequestFacts DEF RequestOf
<1>3. PICK answer \in Replies \ {"conflict"} :
        /\ ApiAnswer(f, i, answer)
        /\ \/ ledger' = ledger \cup {c} /\ ~IsWritten(request[f][i].key)
           \/ /\ ledger' = ledger
              /\ answer = "rejected" => ~IsWritten(request[f][i].key)
              /\ answer \in {"written", "gone"} => IsWritten(request[f][i].key)
  <2>1. CASE ApiWrites(f, i)
    BY <1>2, <2>1 DEF ApiWrites, Replies
  <2>2. CASE ApiReplays(f, i)
    <3>1. request[f][i].pc = "calling" /\ IsWritten(request[f][i].key)
      BY <2>2 DEF ApiReplays, ApiAnswer
    <3>2. ApiAnswer(f, i, "written") /\ ledger' = ledger
      BY <2>2, <3>1, NoConflict DEF ApiReplays
    <3> QED
      BY <3>1, <3>2 DEF Replies
  <2>3. CASE ApiRefuses(f, i)
    BY <2>3 DEF ApiRefuses, Replies
  <2> QED
    BY <2>1, <2>2, <2>3 DEF Api
<1>4. PICK key \in KeyType, input \in Inputs \cup {None} :
        /\ key = request[f][i].key /\ key # None /\ input = request[f][i].input
        /\ request[f][i].pc = "calling" /\ request[f][i].reply \in {None, "failed"}
  BY <1>1, <1>3 DEF ApiAnswer, RequestOK, RequestType
<1>5. PICK reply : reply = IF request[f][i].reply = None THEN answer ELSE request[f][i].reply
  OBVIOUS
<1>6. PICK q : q = [request[f][i] EXCEPT !.pc = "ended", !.reply = reply]
  OBVIOUS
<1>7. /\ request' = [request EXCEPT ![c.by] = [request[c.by] EXCEPT ![c.at] = q]]
      /\ q.pc = "ended" /\ q.reply = reply /\ q.key = key /\ q.input = input
      /\ reply \in {answer, "failed"}
  <2>1. request' = [request EXCEPT ![f][i].pc = "ended", ![f][i].reply = reply]
    BY <1>1, <1>3, <1>5 DEF ApiAnswer
  <2>2. request' = [request EXCEPT ![f] = [request[f] EXCEPT ![i] = q]]
    BY <1>1, <1>6, <2>1
  <2>3. q.pc = "ended" /\ q.reply = reply /\ q.key = key /\ q.input = input
    BY <1>1, <1>4, <1>6 DEF RequestType
  <2> QED
    BY <1>2, <1>4, <1>5, <2>2, <2>3
<1>8. /\ RequestOf(c)' = q
      /\ Forwarded(c)' <=> q.key # None
      /\ c \notin ledger
      /\ \A w \in ledger : RequestOf(w)' = RequestOf(w)
      /\ \A d \in WriteType \ {c} : AskedBy(d)' = AskedBy(d) /\ SaidTo(d)' = SaidTo(d)
      /\ AskedBy(c) = IF RequestOf(c).key # None
                      THEN [key |-> RequestOf(c).key, payload |-> RequestOf(c).input]
                      ELSE None
      /\ AskedBy(c)' = IF q.key # None THEN [key |-> q.key, payload |-> q.input] ELSE None
      /\ SaidTo(c) = None
  BY <1>2, <1>3, <1>4, <1>7, CallStep
<1>9. /\ AskedBy(c) = [key |-> key, payload |-> input] /\ AskedBy(c)' = AskedBy(c)
      /\ AskedBy(c) # None /\ SaidTo(c) = None
  BY <1>2, <1>4, <1>7, <1>8, NoneIsNoRecord
<1>10. [d \in WriteType |-> AskedBy(d)'] = [d \in WriteType |-> AskedBy(d)]
  BY <1>8, <1>9
<1>11. CASE ledger' = ledger \cup {c} /\ ~IsWritten(request[f][i].key)
  <2>1. SaidTo(c)' = None
    BY <1>11 DEF SaidTo
  <2>2. WriteUnder(key) = None
    BY <1>4, <1>11 DEF WriteUnder
  <2>3. \A v \in ledger' : RequestOf(v)'.key = key => v = c
    BY <1>4, <1>8, <1>11 DEF IsWritten
  <2>4. IsWritten(key)' /\ WrittenUnder(key)' = c
    <3>1. c \in ledger' /\ RequestOf(c)'.key = key
      BY <1>7, <1>8, <1>11
    <3> QED
      BY <2>3, <3>1 DEF IsWritten, WrittenUnder
  <2>5. WriteUnder(key)' = [payload |-> input, body |-> c]
    BY <1>7, <1>8, <2>4 DEF WriteUnder
  <2>6. ASSUME NEW k \in KeyType, k # key
        PROVE  WriteUnder(k)' = WriteUnder(k)
    <3>1. CASE IsWritten(k)
      BY <1>8, <1>11, <3>1, WritesStay
    <3>2. CASE ~IsWritten(k)
      <4>1. ~IsWritten(k)'
        BY <1>7, <1>8, <1>11, <2>6, <3>2 DEF IsWritten
      <4> QED
        BY <3>2, <4>1 DEF WriteUnder
    <3> QED
      BY <3>1, <3>2
  <2>7. [k \in KeyType |-> WriteUnder(k)'] =
          [[k \in KeyType |-> WriteUnder(k)] EXCEPT ![key] = [payload |-> input, body |-> c]]
    BY <2>5, <2>6
  <2>8. [d \in WriteType |-> SaidTo(d)'] = [d \in WriteType |-> SaidTo(d)]
    BY <1>8, <2>1
  <2>9. /\ [d \in WriteType |-> AskedBy(d)][c] = [key |-> key, payload |-> input]
        /\ [d \in WriteType |-> AskedBy(d)][c].key = key
        /\ [d \in WriteType |-> AskedBy(d)][c].payload = input
    BY <1>9
  <2>10. Promise!Waiting(c)
    BY <1>9 DEF Promise!Waiting
  <2>11. Promise!Write(c)
    BY <1>10, <2>2, <2>7, <2>8, <2>9, <2>10 DEF Promise!Write
  <2> QED
    BY <2>11 DEF Promise!Next
<1>12. CASE /\ ledger' = ledger
            /\ answer = "rejected" => ~IsWritten(request[f][i].key)
            /\ answer \in {"written", "gone"} => IsWritten(request[f][i].key)
  <2>1. PICK said : said = SaidTo(c)'
    OBVIOUS
  <2>2. said = SaidOf(q)'
    BY <1>4, <1>7, <1>8, <1>12, <2>1 DEF SaidTo
  <2>3. [k \in KeyType |-> WriteUnder(k)'] = [k \in KeyType |-> WriteUnder(k)]
    BY <1>8, <1>12, KeysStay
  <2>4. [d \in WriteType |-> SaidTo(d)'] = [[d \in WriteType |-> SaidTo(d)] EXCEPT ![c] = said]
    BY <1>8, <2>1
  <2>5. ASSUME IsWritten(key)
        PROVE  \E w \in WriteType : /\ w = WrittenUnder(key) /\ w = WrittenUnder(key)'
                                    /\ WriteUnder(key) = [payload |-> input, body |-> w]
                                    /\ WriteUnder(key) # None
    <3>1. PICK w : w = WrittenUnder(key)
      OBVIOUS
    <3>2. w \in ledger /\ RequestOf(w).key = key
      BY <2>5, <3>1 DEF IsWritten, WrittenUnder
    <3>3. w \in WriteType
      BY <3>2, WriteOfRequest
    <3>4. WrittenUnder(key)' = w
      BY <1>8, <1>12, <2>5, <3>1, WritesStay
    <3>5. RequestOf(w).input = input
      BY <1>4, <2>5, <3>1, NoConflict
    <3>6. WriteUnder(key) = [payload |-> input, body |-> w]
      BY <2>5, <3>1, <3>5 DEF WriteUnder
    <3> QED
      BY <3>1, <3>3, <3>4, <3>6, NoneIsNoRecord
  <2>6. CASE reply = "written"
    <3>1. IsWritten(key)
      BY <1>4, <1>7, <1>12, <2>6
    <3>2. PICK w \in WriteType : /\ w = WrittenUnder(key)'
                                 /\ WriteUnder(key) = [payload |-> input, body |-> w]
      BY <2>5, <3>1
    <3>3. said = w
      BY <1>7, <2>2, <2>6, <3>2 DEF SaidOf
    <3>4. Promise!Truthful(c, said)
      BY <1>9, <3>2, <3>3 DEF Promise!Truthful
    <3>5. Promise!Say(c, said)
      BY <1>9, <1>10, <2>3, <2>4, <3>4 DEF Promise!Say, Promise!Waiting
    <3> QED
      BY <3>3, <3>5 DEF Promise!Next
  <2>7. CASE reply # "written"
    <3>1. said = (IF reply = "unauthorised" THEN "failed" ELSE reply)
      BY <1>7, <2>2, <2>7 DEF SaidOf
    <3>2. said \in {"gone", "rejected", "failed"}
      BY <1>7, <2>7, <3>1 DEF Replies
    <3>3. said = "gone" => Promise!Truthful(c, said)
      <4> SUFFICES ASSUME said = "gone"
                   PROVE  Promise!Truthful(c, "gone")
        OBVIOUS
      <4>1. IsWritten(key)
        BY <1>4, <1>7, <1>12, <3>1
      <4>2. PICK w \in WriteType : /\ WriteUnder(key) = [payload |-> input, body |-> w]
                                   /\ WriteUnder(key) # None
        BY <2>5, <4>1
      <4> QED
        BY <1>9, <4>2 DEF Promise!Truthful
    <3>4. said = "rejected" => Promise!Truthful(c, said)
      <4> SUFFICES ASSUME said = "rejected"
                   PROVE  Promise!Truthful(c, "rejected")
        OBVIOUS
      <4>1. ~IsWritten(key)
        BY <1>4, <1>7, <1>12, <3>1
      <4>2. WriteUnder(key) = None
        BY <4>1 DEF WriteUnder
      <4> QED
        BY <1>9, <4>2 DEF Promise!Truthful
    <3>5. said = "failed" => Promise!Truthful(c, said)
      BY DEF Promise!Truthful
    <3>6. Promise!Say(c, said)
      BY <1>9, <1>10, <2>3, <2>4, <3>2, <3>3, <3>4, <3>5 DEF Promise!Say, Promise!Waiting
    <3> QED
      BY <3>2, <3>6 DEF Promise!Next
  <2> QED
    BY <2>6, <2>7
<1> QED
  BY <1>3, <1>11, <1>12

(* What the forms and their routes make the API do is what KeyedWrite      *)
(* promises for any calls, here with the requests as the calls and the     *)
(* derived keys as the Idempotency-Keys: one write per key, shown to every *)
(* repetition, and answers that tell the truth about it.                   *)
THEOREM ApiKeepsItsWord == Spec => Promise!Spec
<1>1. Init => Promise!Init
  <2> SUFFICES ASSUME Init
               PROVE  Promise!Init
    OBVIOUS
  <2>1. \A f \in Forms : DOMAIN request[f] = {}
    BY DEF Init
  <2>2. \A c \in WriteType : ~Forwarded(c)
    BY <2>1 DEF Forwarded, WriteType
  <2>3. \A c \in WriteType : AskedBy(c) = None /\ SaidTo(c) = None
    BY <2>2 DEF AskedBy, SaidTo
  <2>4. \A k \in KeyType : WriteUnder(k) = None
    BY DEF Init, WriteUnder, IsWritten
  <2> QED
    BY <2>3, <2>4 DEF Promise!Init
<1>2. IInv /\ IInv' /\ [Next]_vars => [Promise!Next]_(Promise!vars)
  <2> SUFFICES ASSUME IInv, IInv', [Next]_vars
               PROVE  [Promise!Next]_(Promise!vars)
    OBVIOUS
  <2>1. CASE request' = request /\ ledger' = ledger
    BY <2>1, UnseenStep
  <2>2. ASSUME NEW f \in Forms, NEW op, NEW input, Send(f, op, input)
        PROVE  UNCHANGED Promise!vars
    <3>1. PICK q : q = [op |-> op, input |-> input, attempt |-> form[f].attempt,
                        session |-> cookies, pc |-> "routing", key |-> None, reply |-> None]
      OBVIOUS
    <3>2. /\ request' = [request EXCEPT ![f] = Append(request[f], q)]
          /\ q.key = None /\ ledger' = ledger
      BY <2>2, <3>1 DEF Send
    <3>3. /\ request[f] \in Seq(RequestType) /\ request'[f] = Append(request[f], q)
          /\ \A h \in Forms \ {f} : request'[h] = request[h]
      BY <3>2 DEF IInv, TypeOK
    <3>4. /\ DOMAIN request'[f] = DOMAIN request[f] \cup {Len(request[f]) + 1}
          /\ request'[f][Len(request[f]) + 1] = q
          /\ \A j \in DOMAIN request[f] : request'[f][j] = request[f][j]
      <4>1. PICK s : s = request[f]
        OBVIOUS
      <4>2. /\ s \in Seq(RequestType) /\ request'[f] = Append(s, q) /\ Len(s) \in Nat
            /\ DOMAIN s = 1..Len(s)
        BY <3>3, <4>1
      <4> QED
        BY <4>1, <4>2
    <3> QED
      BY <3>2, <3>3, <3>4, UnseenStep
  <2>3. ASSUME NEW f \in Forms, NEW i \in DOMAIN request[f], Route(f, i) \/ Api(f, i)
        PROVE  [Promise!Next]_(Promise!vars)
    BY <2>3, RouteKeepsPromise, ApiKeepsPromise
  <2> QED
    BY <2>1, <2>2, <2>3, RequestSteps DEF vars
<1> QED
  BY <1>1, <1>2, Invariance, PTL DEF Spec, Promise!Spec

=============================================================================
