------------------------- MODULE TenantAccessProofs -------------------------
(***************************************************************************)
(* Theorems about TenantAccess, for every set of users, tenants, rows,     *)
(* calls and connections: settings end with their transaction, a call sees *)
(* its own tenant only, and acts within a role it has held.                *)
(***************************************************************************)
EXTENDS TenantAccess, TLAPS

-----------------------------------------------------------------------------
(* The inductive invariant. *)

InTransaction == {"begun", "scoped", "executed"}

Contextual == {"inContext", "permitted"} \cup InTransaction

(* What the layers have established of a call, which may no longer be true *)
(* of the database: a role it has held, and that permits its operation.    *)
CallOK(c) ==
  /\ call[c].pc # "idle" => call[c].user \in Users /\ call[c].op \in Ops /\ call[c].row \in Rows
  /\ call[c].pc \notin {"executed", "ended"} => call[c].outcome = "none"
  /\ call[c].pc \in Contextual => call[c].op \in Operations \cup {"memberships"}
  /\ call[c].pc \in {"inContext", "permitted"} => call[c].op \in Operations
  /\ call[c].pc = "authenticated" => call[c].op # "me"
  /\ call[c].pc \in Contextual /\ call[c].op \in Operations =>
       call[c].tenant \in Tenants /\ call[c].role \in held[c]
  /\ call[c].pc \in {"permitted"} \cup InTransaction /\ call[c].op \in Operations =>
       HasPermission(call[c].role, call[c].op)
  /\ call[c].outcome = "ok" /\ call[c].op \in Operations =>
       /\ call[c].tenant \in Tenants /\ call[c].role \in held[c]
       /\ HasPermission(call[c].role, call[c].op)

(* The roles a caller has held include the one of now.                     *)
HeldOK(c) ==
  call[c].pc # "idle" /\ call[c].tenant \in Tenants /\ Member(call[c].user, call[c].tenant)
    => role[call[c].user][call[c].tenant] \in held[c]

(* A connection that serves nobody has no setting; one that serves a call  *)
(* with a setting has the call's.                                          *)
ConnOK(k) ==
  /\ Free(k) => pool[k].tenant \notin Tenants /\ pool[k].actor \notin Users
  /\ ~Free(k) => call[pool[k].serves].pc \in InTransaction
  /\ \A c \in Calls : Serves(k, c, "scoped") =>
       /\ call[c].op \in Operations => pool[k].tenant = call[c].tenant
       /\ call[c].op = "memberships" => pool[k].actor = call[c].user

OneConnection == \A j, k \in Connections :
  pool[j].serves = pool[k].serves /\ ~Free(j) => j = k

CallsOK == \A c \in Calls : CallOK(c) /\ HeldOK(c)

ConnsOK == \A k \in Connections : ConnOK(k)

IInv == TypeOK /\ CallsOK /\ ConnsOK /\ OneConnection /\ WritersAreMembers

-----------------------------------------------------------------------------
(* Facts about the constants and the invariant. *)

(* me, memberships and context are not operations on tenant data.          *)
LEMMA OtherOps ==
  /\ "me" \notin Operations /\ "memberships" \notin Operations
  /\ "context" \notin Operations
  /\ Writes \cap Ops \subseteq Operations
<1>1. TenantOps \cap {"me", "memberships", "context"} = {}
  BY DEF TenantOps, CandidateRoutes, DocumentRoutes, CvExtractionRoutes, VerificationRoutes
<1> QED
  BY <1>1, OperationsAssumption DEF Writes, Ops

LEMMA InvInit == Init => IInv
<1> SUFFICES ASSUME Init PROVE IInv
  OBVIOUS
<1>1. TypeOK
  <2>1. role \in [Users -> [Tenants -> Roles \cup {None, "removed"}]]
    <3>1. Granted \cup {None} \subseteq Roles \cup {None, "removed"}
      BY GrantedAssumption
    <3> QED
      BY <3>1 DEF Init
  <2>2. Idle \in CallType /\ Idle.pc = "idle"
    BY DEF Idle, CallType
  <2>3. Fresh \in ConnectionType
    BY DEF Fresh, ConnectionType
  <2> QED
    BY <2>1, <2>2, <2>3 DEF Init, TypeOK
<1>2. CallsOK
  BY OtherOps DEF Init, CallsOK, CallOK, HeldOK, Idle, Contextual, InTransaction
<1>3. ConnsOK /\ OneConnection
  BY NoneAssumption DEF Init, ConnsOK, ConnOK, OneConnection, Free, Serves, Fresh, Idle
<1>4. WritersAreMembers
  BY DEF Init, WritersAreMembers, Wrote, Idle
<1> QED
  BY <1>1, <1>2, <1>3, <1>4 DEF IInv

(* A connection in a transaction serves a call that is in one.             *)
LEMMA ServedCall ==
  ASSUME IInv, NEW k \in Connections, NEW c \in Calls, pool[k].serves = c
  PROVE  /\ ~Free(k) /\ call[c].pc \in InTransaction
         /\ \A j \in Connections \ {k} : pool[j].serves # c
<1>1. ~Free(k)
  BY NoneAssumption DEF Free
<1>2. call[c].pc \in InTransaction
  BY <1>1 DEF IInv, ConnsOK, ConnOK
<1>3. \A j \in Connections \ {k} : pool[j].serves # c
  BY <1>1 DEF IInv, OneConnection, Free
<1> QED
  BY <1>1, <1>2, <1>3

-----------------------------------------------------------------------------
(* The steps of one call. *)

(* Every such step keeps the types and what holds of the calls, if it does *)
(* so for its own call.                                                    *)
LEMMA CallsStep ==
  ASSUME IInv, NEW c \in Calls, UNCHANGED role,
         pool' \in [Connections -> ConnectionType],
         call' \in [Calls -> CallType], held' \in [Calls -> SUBSET Roles],
         \A d \in Calls \ {c} : call'[d] = call[d] /\ held'[d] = held[d],
         CallOK(c)', HeldOK(c)',
         Wrote(c)' => Member(call'[c].user, call'[c].tenant)
  PROVE  TypeOK' /\ CallsOK' /\ WritersAreMembers'
<1>1. CallsOK'
  BY DEF IInv, CallsOK, CallOK, HeldOK, Member
<1>2. TypeOK'
  <2>1. \A d \in Calls : call'[d].pc \in {"inContext", "permitted"} => call'[d].role \in Roles
    BY <1>1 DEF CallsOK, CallOK, Contextual
  <2> QED
    BY <2>1 DEF IInv, TypeOK
<1>3. WritersAreMembers'
  BY DEF IInv, WritersAreMembers, Wrote, Member
<1> QED
  BY <1>1, <1>2, <1>3

(* A step outside a transaction. *)
LEMMA UnservedStep ==
  ASSUME IInv, NEW c \in Calls, UNCHANGED <<role, pool>>,
         call[c].pc \notin InTransaction,
         call' \in [Calls -> CallType], held' \in [Calls -> SUBSET Roles],
         \A d \in Calls \ {c} : call'[d] = call[d] /\ held'[d] = held[d],
         CallOK(c)', HeldOK(c)',
         Wrote(c)' => Member(call'[c].user, call'[c].tenant)
  PROVE  IInv'
<1>1. \A k \in Connections : pool[k].serves # c
  BY ServedCall
<1>2. ConnsOK'
  <2> SUFFICES ASSUME NEW k \in Connections PROVE ConnOK(k)'
    BY DEF ConnsOK
  <2>1. ConnOK(k) /\ pool[k].serves \in Calls \cup {None}
    BY DEF IInv, ConnsOK, TypeOK, ConnectionType
  <2> QED
    BY <1>1, <2>1 DEF ConnOK, Free, Serves
<1>3. OneConnection'
  BY DEF IInv, OneConnection, Free
<1>4. TypeOK' /\ CallsOK' /\ WritersAreMembers'
  BY CallsStep DEF IInv, TypeOK
<1> QED
  BY <1>2, <1>3, <1>4 DEF IInv

(* A statement of a transaction. *)
LEMMA ServedStep ==
  ASSUME IInv, NEW c \in Calls, NEW k \in Connections, UNCHANGED <<role, held>>,
         pool[k].serves = c, pool'[k].serves = c,
         pool' \in [Connections -> ConnectionType],
         \A j \in Connections \ {k} : pool'[j] = pool[j],
         call' \in [Calls -> CallType],
         \A d \in Calls \ {c} : call'[d] = call[d],
         call'[c].pc \in InTransaction,
         Serves(k, c, "scoped")' =>
           /\ call'[c].op \in Operations => pool'[k].tenant = call'[c].tenant
           /\ call'[c].op = "memberships" => pool'[k].actor = call'[c].user,
         CallOK(c)', HeldOK(c)',
         Wrote(c)' => Member(call'[c].user, call'[c].tenant)
  PROVE  IInv'
<1>1. \A j \in Connections \ {k} : pool[j].serves # c
  BY ServedCall
<1>2. ConnsOK'
  <2> SUFFICES ASSUME NEW j \in Connections PROVE ConnOK(j)'
    BY DEF ConnsOK
  <2>1. CASE j = k
    BY <2>1, NoneAssumption DEF ConnOK, Free, Serves
  <2>2. CASE j # k
    <3>1. ConnOK(j) /\ pool[j].serves \in Calls \cup {None}
      BY DEF IInv, ConnsOK, TypeOK, ConnectionType
    <3> QED
      BY <1>1, <2>2, <3>1 DEF ConnOK, Free, Serves
  <2> QED
    BY <2>1, <2>2
<1>3. OneConnection'
  BY <1>1 DEF IInv, OneConnection, Free
<1>4. TypeOK' /\ CallsOK' /\ WritersAreMembers'
  BY CallsStep DEF IInv, TypeOK
<1> QED
  BY <1>2, <1>3, <1>4 DEF IInv

(* The end of a transaction, whose connection has no setting any more.     *)
LEMMA ReleaseStep ==
  ASSUME IInv, NEW c \in Calls, NEW k \in Connections, UNCHANGED <<role, held>>,
         pool[k].serves = c,
         pool' \in [Connections -> ConnectionType],
         Free(k)', pool'[k].tenant \notin Tenants, pool'[k].actor \notin Users,
         \A j \in Connections \ {k} : pool'[j] = pool[j],
         call' \in [Calls -> CallType],
         \A d \in Calls \ {c} : call'[d] = call[d],
         CallOK(c)', HeldOK(c)',
         Wrote(c)' => Member(call'[c].user, call'[c].tenant)
  PROVE  IInv'
<1>1. \A j \in Connections \ {k} : pool[j].serves # c
  BY ServedCall
<1>2. ConnsOK'
  <2> SUFFICES ASSUME NEW j \in Connections PROVE ConnOK(j)'
    BY DEF ConnsOK
  <2>1. CASE j = k
    BY <2>1, NoneAssumption DEF ConnOK, Free, Serves
  <2>2. CASE j # k
    <3>1. ConnOK(j) /\ pool[j].serves \in Calls \cup {None}
      BY DEF IInv, ConnsOK, TypeOK, ConnectionType
    <3> QED
      BY <1>1, <2>2, <3>1 DEF ConnOK, Free, Serves
  <2> QED
    BY <2>1, <2>2
<1>3. OneConnection'
  BY <1>1 DEF IInv, OneConnection, Free
<1>4. TypeOK' /\ CallsOK' /\ WritersAreMembers'
  BY CallsStep DEF IInv, TypeOK
<1> QED
  BY <1>2, <1>3, <1>4 DEF IInv

(* A call stays well-typed when one of its fields gets a value of its type. *)
LEMMA FieldTypes ==
  ASSUME NEW f \in [Calls -> CallType], NEW c
  PROVE  /\ \A pc \in {"authenticated", "inContext", "permitted", "begun", "scoped",
                      "executed", "ended"} :
              [f EXCEPT ![c].pc = pc] \in [Calls -> CallType]
         /\ \A r \in Roles : [f EXCEPT ![c].role = r] \in [Calls -> CallType]
         /\ \A o \in {"none", "ok", "notFound", "refused", "failed"} :
              [f EXCEPT ![c].outcome = o] \in [Calls -> CallType]
         /\ \A l \in SUBSET Tenants : [f EXCEPT ![c].listed = l] \in [Calls -> CallType]
<1>1. \A pc \in {"authenticated", "inContext", "permitted", "begun", "scoped",
               "executed", "ended"} :
        [f EXCEPT ![c].pc = pc] \in [Calls -> CallType]
  BY DEF CallType
<1>2. \A r \in Roles : [f EXCEPT ![c].role = r] \in [Calls -> CallType]
  BY DEF CallType
<1>3. \A o \in {"none", "ok", "notFound", "refused", "failed"} :
        [f EXCEPT ![c].outcome = o] \in [Calls -> CallType]
  BY DEF CallType
<1>4. \A l \in SUBSET Tenants : [f EXCEPT ![c].listed = l] \in [Calls -> CallType]
  BY DEF CallType
<1> QED
  BY <1>1, <1>2, <1>3, <1>4

(* What the helpers of the actions do to the calls. *)
LEMMA EndEffect ==
  ASSUME TypeOK, NEW c \in Calls,
         NEW outcome \in {"ok", "refused", "failed"}, End(c, outcome)
  PROVE  /\ call' \in [Calls -> CallType]
         /\ \A d \in Calls \ {c} : call'[d] = call[d]
         /\ call'[c].pc = "ended" /\ call'[c].outcome = outcome
         /\ call'[c].user = call[c].user /\ call'[c].tenant = call[c].tenant
         /\ call'[c].op = call[c].op /\ call'[c].row = call[c].row
         /\ call'[c].role = call[c].role
<1>1. PICK f \in [Calls -> CallType] : f = [call EXCEPT ![c].pc = "ended"]
  BY FieldTypes DEF TypeOK
<1>2. [f EXCEPT ![c].outcome = outcome] \in [Calls -> CallType]
  BY FieldTypes
<1>3. call' \in [Calls -> CallType]
  BY <1>1, <1>2 DEF End
<1> QED
  BY <1>3 DEF TypeOK, CallType, End

LEMMA GotoEffect ==
  ASSUME TypeOK, NEW c \in Calls,
         NEW pc \in {"authenticated", "permitted", "begun", "scoped", "ended"}, Goto(c, pc)
  PROVE  /\ call' \in [Calls -> CallType]
         /\ \A d \in Calls \ {c} : call'[d] = call[d]
         /\ call'[c].pc = pc /\ call'[c].outcome = call[c].outcome
         /\ call'[c].user = call[c].user /\ call'[c].tenant = call[c].tenant
         /\ call'[c].op = call[c].op /\ call'[c].row = call[c].row
         /\ call'[c].role = call[c].role
  BY DEF TypeOK, Goto, CallType

(* A call that is turned away. *)
LEMMA RefuseStep ==
  ASSUME IInv, NEW c \in Calls, UNCHANGED <<role, pool, held>>,
         call[c].pc \in {"arrived", "authenticated", "inContext", "permitted"},
         NEW outcome \in {"refused", "failed"}, End(c, outcome)
  PROVE  IInv'
<1>1. /\ call' \in [Calls -> CallType]
      /\ \A d \in Calls \ {c} : call'[d] = call[d]
      /\ call'[c].pc = "ended" /\ call'[c].outcome = outcome
      /\ call'[c].user = call[c].user /\ call'[c].tenant = call[c].tenant
      /\ call'[c].op = call[c].op /\ call'[c].row = call[c].row
  BY EndEffect DEF IInv
<1>2. CallOK(c)' /\ HeldOK(c)'
  BY <1>1 DEF IInv, CallsOK, CallOK, HeldOK, Member, Contextual, InTransaction
<1>3. ~Wrote(c)'
  BY <1>1 DEF Wrote
<1> QED
  BY <1>1, <1>2, <1>3, UnservedStep DEF IInv, TypeOK, InTransaction

LEMMA ArriveStep == ASSUME IInv, NEW c \in Calls, Arrive(c) PROVE IInv'
<1>1. PICK u \in Users, t \in Tenants \cup {None}, op \in Ops, x \in Rows :
        /\ call' = [call EXCEPT ![c] = [Idle EXCEPT !.pc = "arrived", !.user = u, !.tenant = t,
                                                    !.op = op, !.row = x]]
        /\ held' = [held EXCEPT ![c] = IF t = None THEN {} ELSE {role[u][t]} \cap Roles]
  BY DEF Arrive
<1> DEFINE new == [Idle EXCEPT !.pc = "arrived", !.user = u, !.tenant = t, !.op = op, !.row = x]
<1>2. new \in CallType /\ new.pc = "arrived" /\ new.user = u /\ new.tenant = t /\ new.op = op
      /\ new.row = x /\ new.outcome = "none"
  BY DEF Idle, CallType
<1> HIDE DEF new
<1>3. /\ call' \in [Calls -> CallType] /\ call'[c] = new
      /\ held' \in [Calls -> SUBSET Roles]
      /\ \A d \in Calls \ {c} : call'[d] = call[d] /\ held'[d] = held[d]
  BY <1>1, <1>2 DEF IInv, TypeOK, new
<1>4. CallOK(c)'
  BY <1>2, <1>3 DEF CallOK, Contextual, InTransaction
<1>5. HeldOK(c)'
  <2>1. t # None => held'[c] = {role[u][t]} \cap Roles
    BY <1>1 DEF IInv, TypeOK
  <2>2. role' = role /\ (t = None => t \notin Tenants)
    BY NoneAssumption DEF Arrive
  <2> QED
    BY <1>2, <1>3, <2>1, <2>2 DEF HeldOK, Member
<1>6. ~Wrote(c)'
  BY <1>2, <1>3 DEF Wrote
<1> QED
  BY <1>3, <1>4, <1>5, <1>6, UnservedStep DEF Arrive, InTransaction

LEMMA AuthenticateStep == ASSUME IInv, NEW c \in Calls, Authenticate(c) PROVE IInv'
<1>0. call[c].pc = "arrived" /\ UNCHANGED <<role, pool, held>>
  BY DEF Authenticate
<1>1. CASE End(c, "refused")
  BY <1>0, <1>1, RefuseStep
<1>2. CASE call[c].op = "me" /\ End(c, "ok")
  <2>1. /\ call' \in [Calls -> CallType]
        /\ \A d \in Calls \ {c} : call'[d] = call[d]
        /\ call'[c].pc = "ended"
        /\ call'[c].user = call[c].user /\ call'[c].tenant = call[c].tenant
        /\ call'[c].op = "me" /\ call'[c].row = call[c].row
    BY <1>2, EndEffect DEF IInv
  <2>2. CallOK(c)'
    <3>1. call[c].user \in Users /\ call[c].op \in Ops /\ call[c].row \in Rows
      BY <1>0 DEF IInv, CallsOK, CallOK
    <3> QED
      BY <1>2, <2>1, <3>1, OtherOps DEF CallOK, Contextual, InTransaction
  <2>4. HeldOK(c)'
    BY <1>0, <2>1 DEF IInv, CallsOK, HeldOK, Member
  <2>3. "me" \notin Writes
    BY OtherOps DEF Ops
  <2> QED
    BY <1>0, <2>1, <2>2, <2>3, <2>4, UnservedStep DEF IInv, TypeOK, InTransaction, Wrote
<1>3. CASE call[c].op # "me" /\ Goto(c, "authenticated")
  <2>1. /\ call' \in [Calls -> CallType]
        /\ \A d \in Calls \ {c} : call'[d] = call[d]
        /\ call'[c].pc = "authenticated" /\ call'[c].outcome = call[c].outcome
        /\ call'[c].user = call[c].user /\ call'[c].tenant = call[c].tenant
        /\ call'[c].op = call[c].op /\ call'[c].row = call[c].row
    BY <1>3, GotoEffect DEF IInv
  <2>2. CallOK(c)'
    <3>1. call[c].user \in Users /\ call[c].op \in Ops /\ call[c].row \in Rows
          /\ call[c].outcome = "none"
      BY <1>0 DEF IInv, CallsOK, CallOK
    <3> QED
      BY <1>3, <2>1, <3>1 DEF CallOK, Contextual, InTransaction
  <2>3. HeldOK(c)'
    BY <1>0, <2>1 DEF IInv, CallsOK, HeldOK, Member
  <2> QED
    BY <1>0, <2>1, <2>2, <2>3, UnservedStep DEF IInv, TypeOK, InTransaction, Wrote
<1> QED
  BY <1>1, <1>2, <1>3 DEF Authenticate

LEMMA ContextStep == ASSUME IInv, NEW c \in Calls, RequireTenantContext(c) PROVE IInv'
<1>0. /\ call[c].pc = "authenticated" /\ UNCHANGED <<role, pool, held>>
      /\ call[c].op # "memberships"
  BY DEF RequireTenantContext
<1>1. CASE End(c, "refused")
  BY <1>0, <1>1, RefuseStep
<1>2. ASSUME ~End(c, "refused")
      PROVE  IInv'
  <2> DEFINE u == call[c].user
             t == call[c].tenant
             context == call[c].op = "context"
  <2>1. /\ t \in Tenants /\ u \in Users /\ Member(u, t)
        /\ call' = [call EXCEPT ![c].role = role[u][t],
             ![c].pc = IF context THEN "ended" ELSE "inContext",
             ![c].outcome = IF context THEN "ok" ELSE @]
    BY <1>0, <1>2 DEF RequireTenantContext, IInv, TypeOK, CallType, CallsOK, CallOK
  <2>2. role[u][t] \in held[c]
    BY <1>0, <2>1 DEF IInv, CallsOK, HeldOK
  <2>3. /\ call' \in [Calls -> CallType]
        /\ \A d \in Calls \ {c} : call'[d] = call[d]
        /\ call'[c].role = role[u][t]
        /\ call'[c].user = u /\ call'[c].tenant = t
        /\ call'[c].op = call[c].op /\ call'[c].row = call[c].row
        /\ call'[c].pc = (IF context THEN "ended" ELSE "inContext")
        /\ call'[c].outcome = (IF context THEN "ok" ELSE call[c].outcome)
    <3> DEFINE pc == IF context THEN "ended" ELSE "inContext"
               outcome == IF context THEN "ok" ELSE call[c].outcome
    <3>1. PICK f \in [Calls -> CallType] : f = [call EXCEPT ![c].role = role[u][t]]
      BY <2>1, FieldTypes DEF IInv, TypeOK, Member
    <3>2. PICK g \in [Calls -> CallType] : g = [f EXCEPT ![c].pc = pc]
      BY FieldTypes
    <3>3. outcome \in {"none", "ok", "notFound", "refused", "failed"}
      BY DEF IInv, TypeOK, CallType
    <3>4. [g EXCEPT ![c].outcome = outcome] \in [Calls -> CallType]
      BY <3>3, FieldTypes
    <3>5. call' = [g EXCEPT ![c].outcome = outcome]
      BY <2>1, <3>1, <3>2 DEF IInv, TypeOK
    <3>6. g[c].role = role[u][t] /\ g[c].user = u /\ g[c].tenant = t /\ g[c].pc = pc
          /\ g[c].op = call[c].op /\ g[c].row = call[c].row
          /\ \A d \in Calls \ {c} : g[d] = call[d]
      BY <3>1, <3>2 DEF IInv, TypeOK, CallType
    <3> QED
      BY <3>4, <3>5, <3>6 DEF CallType
  <2>4. HeldOK(c)'
    BY <1>0, <2>2, <2>3 DEF HeldOK, Member
  <2>5. CASE context
    <3>1. CallOK(c)'
      BY <1>0, <2>3, <2>5, OtherOps DEF IInv, CallsOK, CallOK, Contextual, InTransaction
    <3>2. ~Wrote(c)'
      BY <2>3, <2>5, OtherOps DEF Wrote, Ops
    <3> QED
      BY <1>0, <2>3, <2>4, <3>1, <3>2, UnservedStep DEF IInv, TypeOK, InTransaction
  <2>6. CASE ~context
    <3>1. call[c].op \in Operations \cup {"me"}
      BY <1>0, <2>6 DEF IInv, CallsOK, CallOK, Ops
    <3>2. call[c].op # "me"
      BY <1>0 DEF IInv, CallsOK, CallOK
    <3>3. CallOK(c)'
      BY <1>0, <2>1, <2>2, <2>3, <2>6, <3>1, <3>2
         DEF IInv, CallsOK, CallOK, Contextual, InTransaction
    <3> QED
      BY <1>0, <2>3, <2>4, <2>6, <3>3, UnservedStep DEF IInv, TypeOK, InTransaction, Wrote
  <2> QED
    BY <2>5, <2>6
<1> QED
  BY <1>1, <1>2

LEMMA PermissionStep == ASSUME IInv, NEW c \in Calls, RequirePermission(c) PROVE IInv'
<1>0. call[c].pc = "inContext" /\ UNCHANGED <<role, pool, held>>
  BY DEF RequirePermission
<1>1. CASE End(c, "refused")
  BY <1>0, <1>1, RefuseStep
<1>2. CASE HasPermission(call[c].role, call[c].op) /\ Goto(c, "permitted")
  <2>1. /\ call' \in [Calls -> CallType]
        /\ \A d \in Calls \ {c} : call'[d] = call[d]
        /\ call'[c].pc = "permitted" /\ call'[c].outcome = call[c].outcome
        /\ call'[c].user = call[c].user /\ call'[c].tenant = call[c].tenant
        /\ call'[c].op = call[c].op /\ call'[c].row = call[c].row
        /\ call'[c].role = call[c].role
    BY <1>2, GotoEffect DEF IInv
  <2>2. CallOK(c)'
    BY <1>0, <1>2, <2>1 DEF IInv, CallsOK, CallOK, HasPermission, Contextual, InTransaction
  <2>3. HeldOK(c)'
    BY <1>0, <2>1 DEF IInv, CallsOK, HeldOK, Member
  <2> QED
    BY <1>0, <2>1, <2>2, <2>3, UnservedStep DEF IInv, TypeOK, InTransaction, Wrote
<1> QED
  BY <1>1, <1>2 DEF RequirePermission

(* The connection taken was nobody's, and the call had none.               *)
LEMMA BeginStep ==
  ASSUME IInv, NEW c \in Calls, NEW k \in Connections, Begin(c, k) PROVE IInv'
<1>0. /\ call[c].pc \in {"authenticated", "permitted"} /\ UNCHANGED <<role, held>>
      /\ call[c].pc = "authenticated" => call[c].op = "memberships"
      /\ Free(k)
  BY DEF Begin
<1>1. /\ call' \in [Calls -> CallType]
      /\ \A d \in Calls \ {c} : call'[d] = call[d]
      /\ call'[c].pc = "begun" /\ call'[c].outcome = call[c].outcome
      /\ call'[c].user = call[c].user /\ call'[c].tenant = call[c].tenant
      /\ call'[c].op = call[c].op /\ call'[c].row = call[c].row
      /\ call'[c].role = call[c].role
  BY GotoEffect DEF Begin, IInv
<1>2. /\ pool' \in [Connections -> ConnectionType] /\ pool'[k].serves = c
      /\ \A j \in Connections \ {k} : pool'[j] = pool[j]
  BY DEF Begin, IInv, TypeOK, ConnectionType
<1>3. \A j \in Connections : pool[j].serves # c
  BY <1>0, ServedCall DEF InTransaction
<1>4. ConnsOK'
  <2> SUFFICES ASSUME NEW j \in Connections PROVE ConnOK(j)'
    BY DEF ConnsOK
  <2>1. CASE j = k
    BY <1>1, <1>2, <2>1, NoneAssumption DEF ConnOK, Free, Serves, InTransaction
  <2>2. CASE j # k
    <3>1. ConnOK(j) /\ pool[j].serves \in Calls \cup {None}
      BY DEF IInv, ConnsOK, TypeOK, ConnectionType
    <3> QED
      BY <1>1, <1>2, <1>3, <2>2, <3>1 DEF ConnOK, Free, Serves
  <2> QED
    BY <2>1, <2>2
<1>5. OneConnection'
  BY <1>2, <1>3 DEF IInv, OneConnection, Free
<1>6. CallOK(c)'
  <2>1. CASE call[c].pc = "permitted"
    BY <1>0, <1>1, <2>1 DEF IInv, CallsOK, CallOK, HasPermission, Contextual, InTransaction
  <2>2. CASE call[c].pc = "authenticated"
    <3>1. call[c].user \in Users /\ call[c].op \in Ops /\ call[c].row \in Rows
          /\ call[c].outcome = "none"
      BY <2>2 DEF IInv, CallsOK, CallOK
    <3> QED
      BY <1>0, <1>1, <2>2, <3>1, OtherOps DEF CallOK, Contextual, InTransaction
  <2> QED
    BY <1>0, <2>1, <2>2
<1>7. HeldOK(c)'
  BY <1>0, <1>1 DEF IInv, CallsOK, HeldOK, Member
<1>8. TypeOK' /\ CallsOK' /\ WritersAreMembers'
  BY <1>0, <1>1, <1>2, <1>6, <1>7, CallsStep DEF IInv, TypeOK, Wrote
<1> QED
  BY <1>4, <1>5, <1>8 DEF IInv

LEMMA SetTenantStep ==
  ASSUME IInv, NEW c \in Calls, NEW k \in Connections, SetTenant(c, k) PROVE IInv'
<1>0. /\ pool[k].serves = c /\ call[c].pc = "begun" /\ call[c].op # "memberships"
      /\ UNCHANGED <<role, held>>
  BY DEF SetTenant, Serves
<1>1. /\ call' \in [Calls -> CallType]
      /\ \A d \in Calls \ {c} : call'[d] = call[d]
      /\ call'[c].pc = "scoped" /\ call'[c].outcome = call[c].outcome
      /\ call'[c].user = call[c].user /\ call'[c].tenant = call[c].tenant
      /\ call'[c].op = call[c].op /\ call'[c].row = call[c].row
      /\ call'[c].role = call[c].role
  BY GotoEffect DEF SetTenant, IInv
<1>2. /\ pool' \in [Connections -> ConnectionType]
      /\ pool'[k].serves = c /\ pool'[k].tenant = call[c].tenant
      /\ \A j \in Connections \ {k} : pool'[j] = pool[j]
  <2>1. call[c].tenant \in Tenants \cup {None, ""}
    BY DEF IInv, TypeOK, CallType
  <2> QED
    BY <1>0, <2>1 DEF SetTenant, IInv, TypeOK, ConnectionType
<1>3. CallOK(c)' /\ HeldOK(c)'
  BY <1>0, <1>1 DEF IInv, CallsOK, CallOK, HeldOK, Member, HasPermission, Contextual,
                    InTransaction
<1> QED
  BY <1>0, <1>1, <1>2, <1>3, ServedStep DEF InTransaction, Wrote

LEMMA SetActorStep ==
  ASSUME IInv, NEW c \in Calls, NEW k \in Connections, SetActor(c, k) PROVE IInv'
<1>0. /\ pool[k].serves = c /\ call[c].pc = "begun" /\ call[c].op = "memberships"
      /\ UNCHANGED <<role, held>>
  BY DEF SetActor, Serves
<1>1. /\ call' \in [Calls -> CallType]
      /\ \A d \in Calls \ {c} : call'[d] = call[d]
      /\ call'[c].pc = "scoped" /\ call'[c].outcome = call[c].outcome
      /\ call'[c].user = call[c].user /\ call'[c].tenant = call[c].tenant
      /\ call'[c].op = call[c].op /\ call'[c].row = call[c].row
      /\ call'[c].role = call[c].role
  BY GotoEffect DEF SetActor, IInv
<1>2. /\ pool' \in [Connections -> ConnectionType]
      /\ pool'[k].serves = c /\ pool'[k].actor = call[c].user
      /\ \A j \in Connections \ {k} : pool'[j] = pool[j]
  <2>1. call[c].user \in Users \cup {None, ""}
    BY DEF IInv, TypeOK, CallType
  <2> QED
    BY <1>0, <2>1 DEF SetActor, IInv, TypeOK, ConnectionType
<1>3. CallOK(c)' /\ HeldOK(c)'
  BY <1>0, <1>1 DEF IInv, CallsOK, CallOK, HeldOK, Member, HasPermission, Contextual,
                    InTransaction
<1> QED
  BY <1>0, <1>1, <1>2, <1>3, OtherOps, ServedStep DEF InTransaction, Wrote

(* What a call gets from its statement, and that it had it permitted.      *)
LEMMA ExecuteEffect ==
  ASSUME IInv, NEW c \in Calls, NEW k \in Connections, Execute(c, k)
  PROVE  /\ call' \in [Calls -> CallType]
         /\ \A d \in Calls \ {c} : call'[d] = call[d]
         /\ call'[c].pc = "executed"
         /\ call'[c].outcome = IF ~Reached(c, k) THEN "notFound"
                               ELSE IF call[c].op \in Writes /\ ~MembershipReferenced(c)
                                    THEN "failed" ELSE "ok"
         /\ call'[c].user = call[c].user /\ call'[c].tenant = call[c].tenant
         /\ call'[c].op = call[c].op /\ call'[c].row = call[c].row
         /\ call'[c].role = call[c].role
         /\ call[c].op \in Operations /\ call[c].tenant \in Tenants
         /\ call[c].role \in held[c] /\ HasPermission(call[c].role, call[c].op)
         /\ pool[k].tenant = call[c].tenant
<1> DEFINE outcome == IF ~Reached(c, k) THEN "notFound"
                      ELSE IF call[c].op \in Writes /\ ~MembershipReferenced(c)
                           THEN "failed" ELSE "ok"
<1>1. call' = [call EXCEPT ![c].pc = "executed", ![c].outcome = outcome]
  BY DEF Execute, Executed
<1>2. outcome \in {"none", "ok", "notFound", "refused", "failed"}
  OBVIOUS
<1> HIDE DEF outcome
<1>3. PICK f \in [Calls -> CallType] : f = [call EXCEPT ![c].pc = "executed"]
  BY FieldTypes DEF IInv, TypeOK
<1>4. [f EXCEPT ![c].outcome = outcome] \in [Calls -> CallType]
  BY <1>2, FieldTypes
<1>5. call' \in [Calls -> CallType]
  BY <1>1, <1>3, <1>4
<1>6. /\ \A d \in Calls \ {c} : call'[d] = call[d]
      /\ call'[c].pc = "executed" /\ call'[c].outcome = outcome
      /\ call'[c].user = call[c].user /\ call'[c].tenant = call[c].tenant
      /\ call'[c].op = call[c].op /\ call'[c].row = call[c].row
      /\ call'[c].role = call[c].role
  BY <1>1 DEF IInv, TypeOK, CallType
<1>7. Serves(k, c, "scoped") /\ call[c].pc = "scoped" /\ call[c].op # "memberships"
  BY DEF Execute, Serves
<1>8. /\ call[c].op \in Operations /\ call[c].tenant \in Tenants
      /\ call[c].role \in held[c] /\ HasPermission(call[c].role, call[c].op)
  BY <1>7 DEF IInv, CallsOK, CallOK, Contextual, InTransaction
<1>9. pool[k].tenant = call[c].tenant
  BY <1>7, <1>8 DEF IInv, ConnsOK, ConnOK
<1> QED
  BY <1>5, <1>6, <1>8, <1>9 DEF outcome

LEMMA ExecuteStep ==
  ASSUME IInv, NEW c \in Calls, NEW k \in Connections, Execute(c, k) PROVE IInv'
<1>0. /\ pool[k].serves = c /\ call[c].pc = "scoped" /\ UNCHANGED <<role, pool, held>>
  BY DEF Execute, Serves
<1>1. /\ call' \in [Calls -> CallType]
      /\ \A d \in Calls \ {c} : call'[d] = call[d]
      /\ call'[c].pc = "executed"
      /\ call'[c].outcome = "ok" => (call[c].op \in Writes => MembershipReferenced(c))
      /\ call'[c].user = call[c].user /\ call'[c].tenant = call[c].tenant
      /\ call'[c].op = call[c].op /\ call'[c].row = call[c].row
      /\ call'[c].role = call[c].role
      /\ call[c].op \in Operations /\ call[c].tenant \in Tenants
      /\ call[c].role \in held[c] /\ HasPermission(call[c].role, call[c].op)
  BY ExecuteEffect
<1>2. CallOK(c)'
  BY <1>0, <1>1 DEF IInv, CallsOK, CallOK, HasPermission, Contextual, InTransaction
<1>3. HeldOK(c)'
  BY <1>0, <1>1 DEF IInv, CallsOK, HeldOK, Member
<1>4. Wrote(c)' => Member(call'[c].user, call'[c].tenant)
  BY <1>0, <1>1 DEF Wrote, MembershipReferenced, Member
<1> QED
  BY <1>0, <1>1, <1>2, <1>3, <1>4, ServedStep DEF IInv, TypeOK, InTransaction, Serves

LEMMA ListEffect ==
  ASSUME IInv, NEW c \in Calls, NEW k \in Connections, ListMemberships(c, k)
  PROVE  /\ call' \in [Calls -> CallType]
         /\ \A d \in Calls \ {c} : call'[d] = call[d]
         /\ call'[c].pc = "executed" /\ call'[c].outcome = "ok"
         /\ call'[c].listed = {t \in Tenants : Member(call[c].user, t)}
         /\ call'[c].user = call[c].user /\ call'[c].tenant = call[c].tenant
         /\ call'[c].op = "memberships" /\ call'[c].row = call[c].row
<1>1. /\ Serves(k, c, "scoped") /\ call[c].pc = "scoped" /\ call[c].op = "memberships"
      /\ Listed(c, k)
  BY DEF ListMemberships, Serves
<1>2. pool[k].actor = call[c].user /\ call[c].user \in Users
  BY <1>1 DEF IInv, ConnsOK, ConnOK, CallsOK, CallOK
<1> DEFINE own == {t \in Tenants : Member(call[c].user, t)}
<1>3. MembershipsOf(k) = own
  BY <1>2 DEF MembershipsOf
<1>4. own \in SUBSET Tenants
  OBVIOUS
<1> HIDE DEF own
<1>5. call' = [call EXCEPT ![c].pc = "executed", ![c].outcome = "ok", ![c].listed = own]
  BY <1>1, <1>3 DEF Listed
<1>6. PICK f \in [Calls -> CallType] : f = [call EXCEPT ![c].pc = "executed"]
  BY FieldTypes DEF IInv, TypeOK
<1>7. PICK g \in [Calls -> CallType] : g = [f EXCEPT ![c].outcome = "ok"]
  BY FieldTypes
<1>8. [g EXCEPT ![c].listed = own] \in [Calls -> CallType]
  BY <1>4, FieldTypes
<1>9. call' \in [Calls -> CallType]
  BY <1>5, <1>6, <1>7, <1>8
<1>10. /\ \A d \in Calls \ {c} : call'[d] = call[d]
       /\ call'[c].pc = "executed" /\ call'[c].outcome = "ok" /\ call'[c].listed = own
       /\ call'[c].user = call[c].user /\ call'[c].tenant = call[c].tenant
       /\ call'[c].op = call[c].op /\ call'[c].row = call[c].row
  BY <1>5 DEF IInv, TypeOK, CallType
<1> QED
  BY <1>1, <1>9, <1>10 DEF own

LEMMA ListStep ==
  ASSUME IInv, NEW c \in Calls, NEW k \in Connections, ListMemberships(c, k) PROVE IInv'
<1>0. /\ pool[k].serves = c /\ call[c].pc = "scoped" /\ UNCHANGED <<role, pool, held>>
  BY DEF ListMemberships, Serves
<1>1. /\ call' \in [Calls -> CallType]
      /\ \A d \in Calls \ {c} : call'[d] = call[d]
      /\ call'[c].pc = "executed" /\ call'[c].outcome = "ok"
      /\ call'[c].user = call[c].user /\ call'[c].tenant = call[c].tenant
      /\ call'[c].op = "memberships" /\ call'[c].row = call[c].row
  BY ListEffect
<1>2. CallOK(c)'
  <2>1. call[c].user \in Users /\ call[c].row \in Rows
    BY <1>0 DEF IInv, CallsOK, CallOK
  <2> QED
    BY <1>1, <2>1, OtherOps DEF CallOK, Ops, Contextual, InTransaction
<1>3. HeldOK(c)'
  BY <1>0, <1>1 DEF IInv, CallsOK, HeldOK, Member
<1>4. ~Wrote(c)'
  BY <1>1, OtherOps DEF Wrote, Ops
<1> QED
  BY <1>0, <1>1, <1>2, <1>3, <1>4, ServedStep DEF IInv, TypeOK, InTransaction, Serves

(* A transaction leaves no setting in its connection.                      *)
LEMMA RevertedEffect ==
  ASSUME TypeOK, NEW k \in Connections, pool' = Reverted(k)
  PROVE  /\ pool' \in [Connections -> ConnectionType]
         /\ Free(k)' /\ pool'[k].tenant \notin Tenants /\ pool'[k].actor \notin Users
         /\ \A j \in Connections \ {k} : pool'[j] = pool[j]
<1>1. \A x : Cleared(x) \in {None, ""}
  BY DEF Cleared
<1>2. Cleared(pool[k].tenant) \notin Tenants /\ Cleared(pool[k].actor) \notin Users
  BY <1>1, NoneAssumption
<1>3. /\ Cleared(pool[k].tenant) \in {None, ""} /\ Cleared(pool[k].actor) \in {None, ""}
  BY <1>1
<1> QED
  BY <1>2, <1>3 DEF TypeOK, Reverted, ConnectionType, Free

LEMMA EndTransactionStep ==
  ASSUME IInv, NEW c \in Calls, NEW k \in Connections, EndTransaction(c, k) PROVE IInv'
<1>0. /\ pool[k].serves = c /\ call[c].pc = "executed" /\ UNCHANGED <<role, held>>
  BY DEF EndTransaction, Serves
<1>1. /\ call' \in [Calls -> CallType]
      /\ \A d \in Calls \ {c} : call'[d] = call[d]
      /\ call'[c].pc = "ended" /\ call'[c].outcome = call[c].outcome
      /\ call'[c].user = call[c].user /\ call'[c].tenant = call[c].tenant
      /\ call'[c].op = call[c].op /\ call'[c].row = call[c].row
      /\ call'[c].role = call[c].role
  BY GotoEffect DEF EndTransaction, IInv
<1>2. /\ pool' \in [Connections -> ConnectionType]
      /\ Free(k)' /\ pool'[k].tenant \notin Tenants /\ pool'[k].actor \notin Users
      /\ \A j \in Connections \ {k} : pool'[j] = pool[j]
  BY RevertedEffect DEF EndTransaction, IInv
<1>3. CallOK(c)' /\ HeldOK(c)'
  BY <1>0, <1>1 DEF IInv, CallsOK, CallOK, HeldOK, Member, HasPermission, Contextual,
                    InTransaction
<1>4. Wrote(c)' => Member(call'[c].user, call'[c].tenant)
  BY <1>0, <1>1 DEF IInv, WritersAreMembers, Wrote
<1> QED
  BY <1>0, <1>1, <1>2, <1>3, <1>4, ReleaseStep

(* A transaction that ends in failure, whatever becomes of its connection. *)
LEMMA FailedTransaction ==
  ASSUME IInv, NEW c \in Calls, NEW k \in Connections, UNCHANGED <<role, held>>,
         pool[k].serves = c, End(c, "failed"),
         pool' \in [Connections -> ConnectionType],
         Free(k)', pool'[k].tenant \notin Tenants, pool'[k].actor \notin Users,
         \A j \in Connections \ {k} : pool'[j] = pool[j]
  PROVE  IInv'
<1>1. /\ call' \in [Calls -> CallType]
      /\ \A d \in Calls \ {c} : call'[d] = call[d]
      /\ call'[c].pc = "ended" /\ call'[c].outcome = "failed"
      /\ call'[c].user = call[c].user /\ call'[c].tenant = call[c].tenant
      /\ call'[c].op = call[c].op /\ call'[c].row = call[c].row
  BY EndEffect DEF IInv
<1>2. call[c].pc \in InTransaction
  BY ServedCall
<1>3. CallOK(c)'
  <2>1. call[c].user \in Users /\ call[c].op \in Ops /\ call[c].row \in Rows
    BY <1>2 DEF IInv, CallsOK, CallOK, InTransaction
  <2> QED
    BY <1>1, <2>1 DEF CallOK, Contextual, InTransaction
<1>4. HeldOK(c)'
  BY <1>1, <1>2 DEF IInv, CallsOK, HeldOK, Member, InTransaction
<1>5. ~Wrote(c)'
  BY <1>1 DEF Wrote
<1> QED
  BY <1>1, <1>3, <1>4, <1>5, ReleaseStep

LEMMA RollbackStep ==
  ASSUME IInv, NEW c \in Calls, NEW k \in Connections, Rollback(c, k) PROVE IInv'
<1>1. /\ pool' \in [Connections -> ConnectionType]
      /\ Free(k)' /\ pool'[k].tenant \notin Tenants /\ pool'[k].actor \notin Users
      /\ \A j \in Connections \ {k} : pool'[j] = pool[j]
  BY RevertedEffect DEF Rollback, IInv
<1> QED
  BY <1>1, FailedTransaction DEF Rollback

LEMMA FailStep == ASSUME IInv, NEW c \in Calls, Fail(c) PROVE IInv'
  BY RefuseStep DEF Fail

-----------------------------------------------------------------------------
(* The steps of nobody's call.                                             *)

LEMMA DisconnectStep ==
  ASSUME IInv, NEW k \in Connections, Disconnect(k) PROVE IInv'
<1>0. Fresh \in ConnectionType /\ Fresh.serves = None /\ Fresh.tenant \notin Tenants
      /\ Fresh.actor \notin Users
  BY NoneAssumption DEF Fresh, ConnectionType
<1>1. /\ pool' \in [Connections -> ConnectionType] /\ pool'[k] = Fresh
      /\ \A j \in Connections \ {k} : pool'[j] = pool[j]
      /\ UNCHANGED <<role, held>>
  BY <1>0 DEF Disconnect, IInv, TypeOK
<1>2. CASE pool[k].serves = None
  <2>1. UNCHANGED call
    BY <1>2 DEF Disconnect
  <2>2. TypeOK' /\ CallsOK' /\ WritersAreMembers'
    BY <1>1, <2>1 DEF IInv, TypeOK, CallsOK, CallOK, HeldOK, WritersAreMembers, Wrote, Member
  <2>3. ConnsOK'
    <3> SUFFICES ASSUME NEW j \in Connections PROVE ConnOK(j)'
      BY DEF ConnsOK
    <3>1. CASE j = k
      BY <1>0, <1>1, <3>1, NoneAssumption DEF ConnOK, Free, Serves
    <3>2. CASE j # k
      <4>1. ConnOK(j)
        BY DEF IInv, ConnsOK
      <4> QED
        BY <1>1, <2>1, <3>2, <4>1 DEF ConnOK, Free, Serves
    <3> QED
      BY <3>1, <3>2
  <2>4. OneConnection'
    BY <1>0, <1>1 DEF IInv, OneConnection, Free
  <2> QED
    BY <2>2, <2>3, <2>4 DEF IInv
<1>3. CASE pool[k].serves # None
  <2>1. PICK c \in Calls : pool[k].serves = c
    BY <1>3 DEF IInv, TypeOK, ConnectionType
  <2>2. End(c, "failed")
    BY <1>3, <2>1 DEF Disconnect
  <2> QED
    BY <1>0, <1>1, <2>1, <2>2, FailedTransaction DEF Free
<1> QED
  BY <1>2, <1>3

(* Connections and calls are as before, and the roles held are more.       *)
LEMMA RolesStep ==
  ASSUME IInv, UNCHANGED <<pool, call>>,
         role' \in [Users -> [Tenants -> Roles \cup {None, "removed"}]],
         held' \in [Calls -> SUBSET Roles],
         \A c \in Calls : held[c] \subseteq held'[c] /\ HeldOK(c)',
         WritersAreMembers'
  PROVE  IInv'
<1>1. CallsOK'
  BY DEF IInv, CallsOK, CallOK, HasPermission
<1>2. ConnsOK' /\ OneConnection'
  BY DEF IInv, ConnsOK, ConnOK, OneConnection, Free, Serves
<1>3. TypeOK'
  BY DEF IInv, TypeOK
<1> QED
  BY <1>1, <1>2, <1>3 DEF IInv

(* A writer is a user with a role in the tenant it wrote in.               *)
LEMMA WriterIsMember ==
  ASSUME IInv, NEW c \in Calls, Wrote(c)
  PROVE  /\ call[c].user \in Users /\ call[c].tenant \in Tenants
         /\ Member(call[c].user, call[c].tenant)
<1>1. call[c].op \in Operations
  BY OtherOps DEF IInv, CallsOK, CallOK, Wrote
<1> QED
  BY <1>1 DEF IInv, CallsOK, CallOK, WritersAreMembers, Wrote

LEMMA SetRoleStep ==
  ASSUME IInv, NEW u \in Users, NEW t \in Tenants, SetRole(u, t) PROVE IInv'
<1>1. PICK r \in Roles : role' = [role EXCEPT ![u][t] = r] /\ HeldAlso(u, t, r)
  BY GrantedAssumption DEF SetRole
<1>2. UNCHANGED <<pool, call>>
  BY DEF SetRole
<1>3. /\ role' \in [Users -> [Tenants -> Roles \cup {None, "removed"}]]
      /\ role'[u][t] = r
      /\ \A v \in Users, s \in Tenants : v # u \/ s # t => role'[v][s] = role[v][s]
  BY <1>1 DEF IInv, TypeOK
<1>4. /\ held' \in [Calls -> SUBSET Roles]
      /\ \A c \in Calls : held[c] \subseteq held'[c]
      /\ \A c \in Calls : call[c].user = u /\ call[c].tenant = t => r \in held'[c]
  BY <1>1 DEF HeldAlso, IInv, TypeOK
<1>5. ASSUME NEW c \in Calls PROVE HeldOK(c)'
  <2>1. HeldOK(c) /\ (call[c].pc # "idle" => call[c].user \in Users)
    BY DEF IInv, CallsOK, CallOK
  <2> QED
    BY <1>2, <1>3, <1>4, <2>1 DEF HeldOK, Member
<1>6. WritersAreMembers'
  <2> SUFFICES ASSUME NEW c \in Calls, Wrote(c)
               PROVE  role'[call[c].user][call[c].tenant] \in Roles
    BY <1>2 DEF WritersAreMembers, Wrote, Member
  <2> QED
    BY <1>3, WriterIsMember DEF Member
<1> QED
  BY <1>2, <1>3, <1>4, <1>5, <1>6, RolesStep

LEMMA RevokeStep ==
  ASSUME IInv, NEW u \in Users, NEW t \in Tenants, Revoke(u, t) PROVE IInv'
<1>1. /\ UNCHANGED <<pool, call, held>>
      /\ ~\E c \in Calls : Wrote(c) /\ call[c].user = u /\ call[c].tenant = t
  BY DEF Revoke
<1>2. /\ role' \in [Users -> [Tenants -> Roles \cup {None, "removed"}]]
      /\ role'[u][t] = "removed"
      /\ \A v \in Users, s \in Tenants : v # u \/ s # t => role'[v][s] = role[v][s]
  BY DEF Revoke, IInv, TypeOK
<1>3. ASSUME NEW c \in Calls PROVE HeldOK(c)'
  <2>1. HeldOK(c) /\ (call[c].pc # "idle" => call[c].user \in Users)
    BY DEF IInv, CallsOK, CallOK
  <2>2. "removed" \notin Roles
    BY DEF Roles
  <2> QED
    BY <1>1, <1>2, <2>1, <2>2 DEF HeldOK, Member
<1>4. WritersAreMembers'
  <2> SUFFICES ASSUME NEW c \in Calls, Wrote(c)
               PROVE  role'[call[c].user][call[c].tenant] \in Roles
    BY <1>1 DEF WritersAreMembers, Wrote, Member
  <2> QED
    BY <1>1, <1>2, WriterIsMember DEF Member
<1> QED
  BY <1>1, <1>2, <1>3, <1>4, RolesStep DEF IInv, TypeOK

-----------------------------------------------------------------------------

LEMMA StutteringStep == ASSUME IInv, UNCHANGED vars PROVE IInv'
  BY DEF IInv, TypeOK, CallsOK, CallOK, HeldOK, ConnsOK, ConnOK, OneConnection,
         WritersAreMembers, Wrote, Member, Free, Serves, vars

LEMMA InvStep == IInv /\ [Next]_vars => IInv'
<1> SUFFICES ASSUME IInv, [Next]_vars PROVE IInv'
  OBVIOUS
<1>1. CASE UNCHANGED vars
  BY <1>1, StutteringStep
<1>2. ASSUME NEW c \in Calls, Arrive(c) \/ Fail(c) PROVE IInv'
  BY <1>2, ArriveStep, FailStep
<1>3. ASSUME NEW c \in Calls, Serve(c) PROVE IInv'
  <2>1. CASE Authenticate(c) \/ RequireTenantContext(c) \/ RequirePermission(c)
    BY <2>1, AuthenticateStep, ContextStep, PermissionStep
  <2>2. ASSUME NEW k \in Connections,
               \/ Begin(c, k) \/ SetTenant(c, k) \/ SetActor(c, k)
               \/ Execute(c, k) \/ ListMemberships(c, k) \/ EndTransaction(c, k)
        PROVE  IInv'
    BY <2>2, BeginStep, SetTenantStep, SetActorStep, ExecuteStep, ListStep,
       EndTransactionStep
  <2> QED
    BY <1>3, <2>1, <2>2 DEF Serve
<1>4. ASSUME NEW c \in Calls, NEW k \in Connections, Rollback(c, k) PROVE IInv'
  BY <1>4, RollbackStep
<1>5. ASSUME NEW k \in Connections, Disconnect(k) PROVE IInv'
  BY <1>5, DisconnectStep
<1>6. ASSUME NEW u \in Users, NEW t \in Tenants, SetRole(u, t) \/ Revoke(u, t) PROVE IInv'
  BY <1>6, SetRoleStep, RevokeStep
<1> QED
  BY <1>1, <1>2, <1>3, <1>4, <1>5, <1>6 DEF Next

LEMMA Invariance == Spec => []IInv
  BY InvInit, InvStep, PTL DEF Spec

(* Every call, connection, role and setting has its type.                  *)
THEOREM Typing == Spec => []TypeOK
<1>1. IInv => TypeOK
  BY DEF IInv
<1> QED
  BY <1>1, Invariance, PTL

(* A connection of the pool that serves nobody carries neither the tenant  *)
(* nor the actor of withTenantTransaction or of                            *)
(* withAuthenticatedActorTransaction.                                      *)
THEOREM SettingsEnd == Spec => []SettingsEndWithTransaction
<1>1. IInv => SettingsEndWithTransaction
  BY DEF IInv, ConnsOK, ConnOK, SettingsEndWithTransaction
<1> QED
  BY <1>1, Invariance, PTL

(* What requirePermission lets through was permitted by a role the caller  *)
(* has held in the tenant since it called.                                 *)
THEOREM WithinRole == Spec => []ActedWithinRole
<1>1. IInv => ActedWithinRole
  BY DEF IInv, CallsOK, CallOK, ActedWithinRole
<1> QED
  BY <1>1, Invariance, PTL

(* The foreign key of idempotency_records keeps every writer a member.     *)
THEOREM Writers == Spec => []WritersAreMembers
<1>1. IInv => WritersAreMembers
  BY DEF IInv
<1> QED
  BY <1>1, Invariance, PTL

(* Only a statement of its transaction brings a call to its answer.        *)
LEMMA ExecutedBy ==
  ASSUME IInv, Next, NEW c \in Calls, call[c].pc = "scoped", call'[c].pc = "executed"
  PROVE  \E k \in Connections : Execute(c, k) \/ ListMemberships(c, k)
<1> USE DEF IInv, TypeOK, CallType
<1>1. ASSUME NEW d \in Calls, Arrive(d) \/ Fail(d) PROVE FALSE
  BY <1>1 DEF Arrive, Fail, End
<1>2. ASSUME NEW d \in Calls,
             Authenticate(d) \/ RequireTenantContext(d) \/ RequirePermission(d)
      PROVE  FALSE
  BY <1>2 DEF Authenticate, RequireTenantContext, RequirePermission, End, Goto
<1>3. ASSUME NEW d \in Calls, NEW k \in Connections,
             \/ Begin(d, k) \/ SetTenant(d, k) \/ SetActor(d, k) \/ EndTransaction(d, k)
             \/ Rollback(d, k)
      PROVE  FALSE
  BY <1>3 DEF Begin, SetTenant, SetActor, EndTransaction, Rollback, Serves, End, Goto
<1>4. ASSUME NEW d \in Calls, NEW k \in Connections, Execute(d, k) \/ ListMemberships(d, k)
      PROVE  d = c
  BY <1>4 DEF Execute, Executed, ListMemberships, Listed
<1>5. ASSUME NEW k \in Connections, Disconnect(k) PROVE FALSE
  BY <1>5 DEF Disconnect, End, ConnectionType
<1>6. ASSUME NEW u \in Users, NEW t \in Tenants, SetRole(u, t) \/ Revoke(u, t) PROVE FALSE
  BY <1>6 DEF SetRole, Revoke
<1> QED
  BY <1>1, <1>2, <1>3, <1>4, <1>5, <1>6 DEF Next, Serve

(* Row policies, and the statements that name the tenant themselves, let a *)
(* call reach exactly the rows of its tenant; the listing of memberships   *)
(* gives exactly those of the caller.                                      *)
THEOREM ExactTenant == Spec => SeesExactlyItsTenant
<1>1. ASSUME IInv, [Next]_vars
      PROVE  [\A c \in Calls : call[c].pc = "scoped" /\ call'[c].pc = "executed" =>
                IF call[c].op = "memberships"
                THEN call'[c].listed = {t \in Tenants : Member(call[c].user, t)}
                ELSE call'[c].outcome = "notFound" <=>
                       call[c].op # "createCandidate"
                         /\ Owner[call[c].row] # call[c].tenant]_vars
  <2> SUFFICES ASSUME Next, NEW c \in Calls, call[c].pc = "scoped",
                      call'[c].pc = "executed"
               PROVE  IF call[c].op = "memberships"
                      THEN call'[c].listed = {t \in Tenants : Member(call[c].user, t)}
                      ELSE call'[c].outcome = "notFound" <=>
                             call[c].op # "createCandidate"
                               /\ Owner[call[c].row] # call[c].tenant
    BY <1>1
  <2>1. PICK k \in Connections : Execute(c, k) \/ ListMemberships(c, k)
    BY <1>1, ExecutedBy
  <2>2. CASE ListMemberships(c, k)
    <3>1. call[c].op = "memberships"
      BY <2>2 DEF ListMemberships
    <3> QED
      BY <1>1, <2>2, <3>1, ListEffect
  <2>3. CASE Execute(c, k)
    <3>1. call[c].op # "memberships" /\ call[c].tenant \in Tenants
          /\ pool[k].tenant = call[c].tenant
          /\ (call'[c].outcome = "notFound" <=> ~Reached(c, k))
      BY <1>1, <2>3, ExecuteEffect DEF Execute
    <3>2. Reached(c, k) <=>
            call[c].op = "createCandidate" \/ Owner[call[c].row] = call[c].tenant
      BY <3>1, NoneAssumption DEF Reached, PolicyAllows
    <3> QED
      BY <3>1, <3>2
  <2> QED
    BY <2>1, <2>2, <2>3
<1> QED
  BY <1>1, Invariance, PTL DEF Spec, SeesExactlyItsTenant

-----------------------------------------------------------------------------
(* The two layers together. *)

(* What was answered or written was a row of the tenant that the call is   *)
(* in, as the policies and the statements have it, for a user who has held *)
(* a role in that tenant that permits it, as the layers before them do.    *)
OwnRow(c) == call[c].op # "createCandidate" => Owner[call[c].row] = call[c].tenant

TenantsAreIsolated ==
  \A c \in Calls : call[c].op \in Operations /\ call[c].outcome = "ok" =>
    /\ OwnRow(c)
    /\ \E r \in held[c] : HasPermission(r, call[c].op)

RowsAreOwn == \A c \in Calls :
  call[c].op \in Operations /\ call[c].outcome = "ok" => OwnRow(c)

(* What a step can do to a call: nothing that matters here, an end without *)
(* success, an operation that is not on tenant data, or its statement.     *)
LEMMA OutcomeSteps ==
  ASSUME IInv, Next, NEW c \in Calls
  PROVE  \/ /\ call'[c].outcome = call[c].outcome /\ call'[c].op = call[c].op
            /\ call'[c].row = call[c].row /\ call'[c].tenant = call[c].tenant
         \/ call'[c].outcome # "ok"
         \/ call'[c].op \notin Operations
         \/ \E k \in Connections : Execute(c, k)
<1>0. TypeOK
  BY DEF IInv
<1>1. ASSUME NEW d \in Calls, Arrive(d) PROVE call'[c] = call[c] \/ call'[c].outcome = "none"
  <2>1. PICK u \in Users, t \in Tenants \cup {None}, op \in Ops, x \in Rows :
          /\ call' = [call EXCEPT ![d] = [Idle EXCEPT !.pc = "arrived", !.user = u, !.tenant = t,
                                                      !.op = op, !.row = x]]
          /\ held' = [held EXCEPT ![d] = IF t = None THEN {} ELSE {role[u][t]} \cap Roles]
    BY <1>1 DEF Arrive
  <2> QED
    BY <1>0, <2>1 DEF TypeOK, Idle
<1>2. ASSUME NEW d \in Calls, NEW outcome \in {"refused", "failed"}, End(d, outcome)
      PROVE  call'[c] = call[c] \/ call'[c].outcome # "ok"
  BY <1>0, <1>2, EndEffect
<1>3. ASSUME NEW d \in Calls,
             NEW pc \in {"authenticated", "permitted", "begun", "scoped", "ended"}, Goto(d, pc)
      PROVE  /\ call'[c].outcome = call[c].outcome /\ call'[c].op = call[c].op
             /\ call'[c].row = call[c].row /\ call'[c].tenant = call[c].tenant
  BY <1>0, <1>3, GotoEffect
<1>4. ASSUME NEW d \in Calls, Authenticate(d)
      PROVE  \/ call'[c] = call[c] \/ call'[c].outcome # "ok" \/ call'[c].op = "me"
             \/ Goto(d, "authenticated")
  <2>1. CASE call[d].op = "me" /\ End(d, "ok")
    BY <1>0, <2>1, EndEffect
  <2> QED
    BY <1>2, <1>4, <2>1 DEF Authenticate
<1>5. ASSUME NEW d \in Calls, RequireTenantContext(d)
      PROVE  \/ call'[c].outcome # "ok" \/ call'[c].op = "context"
             \/ /\ call'[c].outcome = call[c].outcome /\ call'[c].op = call[c].op
                /\ call'[c].row = call[c].row /\ call'[c].tenant = call[c].tenant
  <2>1. CASE End(d, "refused")
    BY <1>2, <2>1
  <2>2. CASE call' = [call EXCEPT ![d].role = role[call[d].user][call[d].tenant],
                  ![d].pc = IF call[d].op = "context" THEN "ended" ELSE "inContext",
                  ![d].outcome = IF call[d].op = "context" THEN "ok" ELSE @]
    BY <1>0, <2>2 DEF TypeOK, CallType
  <2> QED
    BY <1>5, <2>1, <2>2 DEF RequireTenantContext
<1>6. ASSUME NEW d \in Calls, RequirePermission(d)
      PROVE  Goto(d, "permitted") \/ call'[c] = call[c] \/ call'[c].outcome # "ok"
  BY <1>2, <1>6 DEF RequirePermission
<1>7. ASSUME NEW d \in Calls, NEW k \in Connections, Execute(d, k)
      PROVE  d = c \/ call'[c] = call[c]
  BY <1>7, ExecuteEffect
<1>8. ASSUME NEW d \in Calls, NEW k \in Connections, ListMemberships(d, k)
      PROVE  call'[c] = call[c] \/ call'[c].op = "memberships"
  BY <1>8, ListEffect
<1>9. ASSUME NEW k \in Connections, Disconnect(k)
      PROVE  call'[c] = call[c] \/ call'[c].outcome # "ok"
  <2>1. CASE pool[k].serves = None
    BY <1>9, <2>1 DEF Disconnect
  <2>2. CASE pool[k].serves # None
    <3>1. PICK d \in Calls : d = pool[k].serves
      BY <1>0, <2>2 DEF TypeOK, ConnectionType
    <3>2. End(d, "failed")
      BY <1>9, <2>2, <3>1 DEF Disconnect
    <3> QED
      BY <1>2, <3>2
  <2> QED
    BY <2>1, <2>2
<1>10. ASSUME NEW d \in Calls, NEW k \in Connections,
              Begin(d, k) \/ SetTenant(d, k) \/ SetActor(d, k) \/ EndTransaction(d, k)
       PROVE  Goto(d, "begun") \/ Goto(d, "scoped") \/ Goto(d, "ended")
  BY <1>10 DEF Begin, SetTenant, SetActor, EndTransaction
<1>11. ASSUME NEW d \in Calls, NEW k \in Connections, Rollback(d, k)
       PROVE  call'[c] = call[c] \/ call'[c].outcome # "ok"
  BY <1>2, <1>11 DEF Rollback
<1>12. ASSUME NEW u \in Users, NEW t \in Tenants, SetRole(u, t) \/ Revoke(u, t)
       PROVE  call'[c] = call[c]
  BY <1>12 DEF SetRole, Revoke
<1>13. ASSUME NEW d \in Calls, Fail(d) PROVE call'[c] = call[c] \/ call'[c].outcome # "ok"
  BY <1>2, <1>13 DEF Fail
<1>14. ASSUME NEW d \in Calls, Serve(d)
       PROVE  \/ /\ call'[c].outcome = call[c].outcome /\ call'[c].op = call[c].op
                 /\ call'[c].row = call[c].row /\ call'[c].tenant = call[c].tenant
              \/ call'[c].outcome # "ok"
              \/ call'[c].op \notin Operations
              \/ \E k \in Connections : Execute(c, k)
  BY <1>3, <1>4, <1>5, <1>6, <1>7, <1>8, <1>10, <1>14, OtherOps DEF Serve
<1> QED
  BY <1>1, <1>9, <1>11, <1>12, <1>13, <1>14 DEF Next

(* A call that succeeds is one of somebody who may, on a row of the tenant *)
(* it names, whatever other calls its connection has served and whatever   *)
(* becomes of connections, calls and memberships meanwhile.                *)
THEOREM Isolation == Spec => []TenantsAreIsolated
<1>1. Init => RowsAreOwn
  BY DEF Init, Idle, RowsAreOwn
<1>2. IInv /\ RowsAreOwn /\ [Next]_vars => RowsAreOwn'
  <2> SUFFICES ASSUME IInv, RowsAreOwn, Next, NEW c \in Calls,
                      call'[c].op \in Operations, call'[c].outcome = "ok"
               PROVE  OwnRow(c)'
    BY DEF RowsAreOwn, OwnRow, vars
  <2>1. CASE \E k \in Connections : Execute(c, k)
    <3>1. PICK k \in Connections : Execute(c, k)
      BY <2>1
    <3>2. /\ Reached(c, k) /\ call'[c].op = call[c].op /\ call'[c].row = call[c].row
          /\ call'[c].tenant = call[c].tenant
      BY <3>1, ExecuteEffect
    <3> QED
      BY <3>2 DEF Reached, OwnRow
  <2>2. CASE /\ call'[c].outcome = call[c].outcome /\ call'[c].op = call[c].op
             /\ call'[c].row = call[c].row /\ call'[c].tenant = call[c].tenant
    BY <2>2 DEF RowsAreOwn, OwnRow
  <2> QED
    BY <2>1, <2>2, OutcomeSteps
<1>3. IInv /\ RowsAreOwn => TenantsAreIsolated
  BY DEF IInv, CallsOK, CallOK, RowsAreOwn, TenantsAreIsolated
<1> QED
  BY <1>1, <1>2, <1>3, Invariance, PTL DEF Spec

=============================================================================
