---------------------------- MODULE TenantAccess ----------------------------
(***************************************************************************)
(* How a call reaches tenant data: authentication, the tenant context, the *)
(* permission of the route, and a transaction of a pooled connection whose *)
(* settings row-level security reads.  Each layer reads the database anew, *)
(* in a transaction of its own, while the owner of the database changes    *)
(* memberships and roles; connections break and go back to the pool.       *)
(*                                                                         *)
(* What the operations do to their rows is in the other modules: here an   *)
(* operation names one row, and does or does not reach it.                 *)
(***************************************************************************)
EXTENDS Naturals

CONSTANTS
  Users,
  Tenants,
  Rows,         \* rows of tenant tables: candidates, documents, extractions, requests
  Owner,        \* the tenant of each row
  Calls,        \* HTTP calls, each made once
  Connections,  \* the connections of the pool
  Operations,   \* the operations called
  Granted,      \* the roles given to members
  None

-----------------------------------------------------------------------------
(* The policy. *)

Roles == {"ADMIN", "RECRUITER", "COMPLIANCE_OFFICER", "VIEWER"}

AllPermissions ==
  {"candidate:create", "candidate:read", "candidate:update", "candidate:remove",
   "document:create", "document:read", "document:approve", "document:correct",
   "document:remove", "verification:request", "verification:read",
   "ai:extract", "ai:confirm", "audit:read"}

RolePermissions ==
  [ADMIN |-> AllPermissions,
   RECRUITER |-> {"candidate:create", "candidate:read", "candidate:update",
                  "document:create", "document:read", "verification:request",
                  "verification:read", "ai:extract", "ai:confirm"},
   COMPLIANCE_OFFICER |-> {"candidate:read", "document:create", "document:read",
                           "document:approve", "document:correct", "document:remove",
                           "verification:request", "verification:read", "audit:read"},
   VIEWER |-> {"candidate:read", "document:read", "verification:read"}]

CandidateRoutes ==
  [createCandidate |-> "candidate:create", listCandidates |-> "candidate:read",
   getCandidate |-> "candidate:read", updateCandidate |-> "candidate:update",
   removeCandidate |-> "candidate:remove"]

DocumentRoutes ==
  [createComplianceDocument |-> "document:create",
   listCandidateComplianceDocuments |-> "document:read",
   listExpiringComplianceDocuments |-> "document:read",
   getComplianceDocument |-> "document:read",
   addComplianceDocumentVersion |-> "document:create",
   listComplianceDocumentVersions |-> "document:read",
   approveComplianceDocument |-> "document:approve",
   correctComplianceDocument |-> "document:correct",
   removeComplianceDocument |-> "document:remove"]

CvExtractionRoutes ==
  [createCvExtraction |-> "ai:extract", getCvExtraction |-> "ai:extract",
   confirmCvExtraction |-> "ai:confirm", rejectCvExtraction |-> "ai:confirm"]

VerificationRoutes ==
  [requestRightToWorkVerification |-> "verification:request",
   getVerificationRequest |-> "verification:read"]

TenantOps == UNION {DOMAIN CandidateRoutes, DOMAIN DocumentRoutes,
                    DOMAIN CvExtractionRoutes, DOMAIN VerificationRoutes}

RequiredPermission(op) ==
  CASE op \in DOMAIN CandidateRoutes    -> CandidateRoutes[op]
    [] op \in DOMAIN DocumentRoutes     -> DocumentRoutes[op]
    [] op \in DOMAIN CvExtractionRoutes -> CvExtractionRoutes[op]
    [] op \in DOMAIN VerificationRoutes -> VerificationRoutes[op]

HasPermission(role, op) == RequiredPermission(op) \in RolePermissions[role]

Reads == {"listCandidates", "getCandidate", "listCandidateComplianceDocuments",
          "listExpiringComplianceDocuments", "getComplianceDocument",
          "listComplianceDocumentVersions", "getCvExtraction", "getVerificationRequest"}

Writes == TenantOps \ Reads

ASSUME OperationsAssumption == Operations \subseteq TenantOps
ASSUME GrantedAssumption == Granted \subseteq Roles
ASSUME OwnerAssumption == Owner \in [Rows -> Tenants]
ASSUME NoneAssumption == /\ None \notin Users \cup Tenants \cup Calls
                         /\ "" \notin Users \cup Tenants

-----------------------------------------------------------------------------

VARIABLES
  role,  \* the role of each user in each tenant, None, or "removed"
  pool,  \* the settings of each connection, and the call it serves
  call,  \* each call
  held   \* history: the roles a caller has held in the tenant during the call

vars == <<role, pool, call, held>>

(* me, memberships and context are asked for before any tenant data. *)
Ops == Operations \cup {"me", "memberships", "context"}

(* A setting has never been set, is back to the empty string, or names a   *)
(* tenant or a user.                                                       *)
ConnectionType == [tenant : Tenants \cup {None, ""}, actor : Users \cup {None, ""},
                   serves : Calls \cup {None}]

CallType == [pc : {"idle", "arrived", "authenticated", "inContext", "permitted",
                   "begun", "scoped", "executed", "ended"},
             user : Users \cup {None}, tenant : Tenants \cup {None},
             op : Ops \cup {None}, row : Rows \cup {None},
             role : Roles \cup {None},
             outcome : {"none", "ok", "notFound", "refused", "failed"},
             listed : SUBSET Tenants]

TypeOK == /\ role \in [Users -> [Tenants -> Roles \cup {None, "removed"}]]
          /\ pool \in [Connections -> ConnectionType]
          /\ call \in [Calls -> CallType]
          /\ held \in [Calls -> SUBSET Roles]
          /\ \A c \in Calls : call[c].pc \in {"inContext", "permitted"} => call[c].role \in Roles

Idle == [pc |-> "idle", user |-> None, tenant |-> None, op |-> None, row |-> None,
         role |-> None, outcome |-> "none", listed |-> {}]

Fresh == [tenant |-> None, actor |-> None, serves |-> None]

Init == /\ role \in [Users -> [Tenants -> Granted \cup {None}]]
        /\ pool = [k \in Connections |-> Fresh]
        /\ call = [c \in Calls |-> Idle]
        /\ held = [c \in Calls |-> {}]

Member(u, t) == role[u][t] \in Roles

-----------------------------------------------------------------------------
(* The layers before the transaction.                                      *)

End(c, outcome) == call' = [call EXCEPT ![c].pc = "ended", ![c].outcome = outcome]

Goto(c, pc) == call' = [call EXCEPT ![c].pc = pc]

Free(k) == pool[k].serves = None

(* A statement outside a transaction takes a connection while it runs. *)
ConnectionFree == \E k \in Connections : Free(k)

Arrive(c) ==
  /\ call[c].pc = "idle"
  /\ \E u \in Users, t \in Tenants \cup {None}, op \in Ops, x \in Rows :
       /\ call' = [call EXCEPT ![c] = [Idle EXCEPT !.pc = "arrived", !.user = u, !.tenant = t,
                                                   !.op = op, !.row = x]]
       /\ held' = [held EXCEPT ![c] = IF t = None THEN {} ELSE {role[u][t]} \cap Roles]
  /\ UNCHANGED <<role, pool>>

(* The token is missing, expired or forged, or its user is gone. *)
Authenticate(c) ==
  /\ call[c].pc = "arrived"
  /\ \/ End(c, "refused")
     \/ /\ ConnectionFree
        /\ IF call[c].op = "me" THEN End(c, "ok") ELSE Goto(c, "authenticated")
  /\ UNCHANGED <<role, pool, held>>

(* validate_tenant_membership reads past row-level security. *)
RequireTenantContext(c) ==
  LET t == call[c].tenant IN
  /\ call[c].pc = "authenticated"
  /\ call[c].op # "memberships"
  /\ \/ t = None /\ End(c, "refused")
     \/ /\ t # None /\ ConnectionFree
        /\ IF ~Member(call[c].user, t) THEN End(c, "refused")
           ELSE call' = [call EXCEPT ![c].role = role[call[c].user][t],
                  ![c].pc = IF call[c].op = "context" THEN "ended" ELSE "inContext",
                  ![c].outcome = IF call[c].op = "context" THEN "ok" ELSE @]
  /\ UNCHANGED <<role, pool, held>>

(* (bug) The route names no permission. *)
RequireNoPermission(c) ==
  /\ call[c].pc = "inContext"
  /\ Goto(c, "permitted")
  /\ UNCHANGED <<role, pool, held>>

RequirePermission(c) ==
  /\ call[c].pc = "inContext"
  /\ IF HasPermission(call[c].role, call[c].op) THEN Goto(c, "permitted") ELSE End(c, "refused")
  /\ UNCHANGED <<role, pool, held>>

-----------------------------------------------------------------------------
(* The transaction.                                                        *)

Begin(c, k) ==
  /\ \/ call[c].pc = "permitted"
     \/ call[c].pc = "authenticated" /\ call[c].op = "memberships"
  /\ Free(k)
  /\ pool' = [pool EXCEPT ![k].serves = c]
  /\ Goto(c, "begun")
  /\ UNCHANGED <<role, held>>

Serves(k, c, pc) == pool[k].serves = c /\ call[c].pc = pc

SetTenant(c, k) ==
  /\ Serves(k, c, "begun") /\ call[c].op # "memberships"
  /\ pool' = [pool EXCEPT ![k].tenant = call[c].tenant]
  /\ Goto(c, "scoped")
  /\ UNCHANGED <<role, held>>

SetActor(c, k) ==
  /\ Serves(k, c, "begun") /\ call[c].op = "memberships"
  /\ pool' = [pool EXCEPT ![k].actor = call[c].user]
  /\ Goto(c, "scoped")
  /\ UNCHANGED <<role, held>>

(* The policies of the tenant tables: an unset setting, and one that is    *)
(* back to the empty string, match no row.                                 *)
PolicyAllows(t, k) == pool[k].tenant \notin {None, ""} /\ t = pool[k].tenant

(* The statements also name the tenant of the context.  A candidate to     *)
(* create will be a row of it; other operations need a row that is there.  *)
Reached(c, k) ==
  LET t == call[c].tenant
  IN PolicyAllows(t, k) /\ (call[c].op = "createCandidate" \/ Owner[call[c].row] = t)

(* (bug) idempotency_records has no foreign key to the membership. *)
NoForeignKey(c) == TRUE

(* A mutation inserts an idempotency record that names the membership, and *)
(* keeps the membership locked until the transaction ends.                 *)
MembershipReferenced(c) == Member(call[c].user, call[c].tenant)

Executed(c, k) ==
  call' = [call EXCEPT ![c].pc = "executed",
             ![c].outcome = IF ~Reached(c, k) THEN "notFound"
                            ELSE IF call[c].op \in Writes /\ ~MembershipReferenced(c)
                                 THEN "failed" ELSE "ok"]

(* (bug) The handler uses the client of the pool, not the transaction's.   *)
ExecuteOutside(c, k) ==
  /\ Serves(k, c, "scoped") /\ call[c].op # "memberships"
  /\ \E other \in Connections : Free(other) /\ Executed(c, other)
  /\ UNCHANGED <<role, pool, held>>

Execute(c, k) ==
  /\ Serves(k, c, "scoped") /\ call[c].op # "memberships"
  /\ Executed(c, k)
  /\ UNCHANGED <<role, pool, held>>

(* list_current_actor_memberships *)
MembershipsOf(k) == {t \in Tenants : pool[k].actor \in Users /\ Member(pool[k].actor, t)}

Listed(c, k) == call' = [call EXCEPT ![c].pc = "executed", ![c].outcome = "ok",
                                     ![c].listed = MembershipsOf(k)]

(* (bug) As in ExecuteOutside. *)
ListOutside(c, k) ==
  /\ Serves(k, c, "scoped") /\ call[c].op = "memberships"
  /\ \E other \in Connections : Free(other) /\ Listed(c, other)
  /\ UNCHANGED <<role, pool, held>>

ListMemberships(c, k) ==
  /\ Serves(k, c, "scoped") /\ call[c].op = "memberships"
  /\ Listed(c, k)
  /\ UNCHANGED <<role, pool, held>>

Cleared(setting) == IF setting = None THEN None ELSE ""

(* (bug) The settings are those of the session. *)
Kept(k) == [pool EXCEPT ![k].serves = None]

(* The settings are local to the transaction. *)
Reverted(k) == [pool EXCEPT ![k] = [tenant |-> Cleared(pool[k].tenant),
                                    actor |-> Cleared(pool[k].actor), serves |-> None]]

(* Commit, or roll back for a refusal or a failure found on the way. *)
EndTransaction(c, k) ==
  /\ Serves(k, c, "executed")
  /\ pool' = Reverted(k)
  /\ Goto(c, "ended")
  /\ UNCHANGED <<role, held>>

(* A statement fails, or the transaction takes too long. *)
Rollback(c, k) ==
  /\ pool[k].serves = c
  /\ pool' = Reverted(k)
  /\ End(c, "failed")
  /\ UNCHANGED <<role, held>>

(* No connection, or no answer of the database in time, for a statement    *)
(* outside a transaction or for the transaction itself.                    *)
Fail(c) ==
  /\ call[c].pc \in {"arrived", "authenticated", "permitted"}
  /\ End(c, "failed")
  /\ UNCHANGED <<role, pool, held>>

-----------------------------------------------------------------------------
(* Outside.                                                                *)

(* A connection breaks, and another one takes its place. *)
Disconnect(k) ==
  /\ pool' = [pool EXCEPT ![k] = Fresh]
  /\ IF pool[k].serves = None THEN UNCHANGED call ELSE End(pool[k].serves, "failed")
  /\ UNCHANGED <<role, held>>

HeldAlso(u, t, r) ==
  held' = [c \in Calls |-> IF call[c].user = u /\ call[c].tenant = t
                           THEN held[c] \cup {r} ELSE held[c]]

(* A membership is granted, or its role changed.  A user is not given a    *)
(* second membership of a tenant: it would be another one.                 *)
SetRole(u, t) ==
  /\ role[u][t] # "removed"
  /\ \E r \in Granted : role' = [role EXCEPT ![u][t] = r] /\ HeldAlso(u, t, r)
  /\ UNCHANGED <<pool, call>>

Wrote(c) == /\ call[c].op \in Writes
            /\ call[c].pc \in {"executed", "ended"} /\ call[c].outcome = "ok"

(* The foreign key restricts the deletion of a membership. *)
Revoke(u, t) ==
  /\ Member(u, t)
  /\ ~\E c \in Calls : Wrote(c) /\ call[c].user = u /\ call[c].tenant = t
  /\ role' = [role EXCEPT ![u][t] = "removed"]
  /\ UNCHANGED <<pool, call, held>>

Serve(c) == \/ Authenticate(c) \/ RequireTenantContext(c) \/ RequirePermission(c)
            \/ \E k \in Connections :
                 \/ Begin(c, k) \/ SetTenant(c, k) \/ SetActor(c, k)
                 \/ Execute(c, k) \/ ListMemberships(c, k) \/ EndTransaction(c, k)

Next == \/ \E c \in Calls : \/ Arrive(c) \/ Serve(c) \/ Fail(c)
                            \/ \E k \in Connections : Rollback(c, k)
        \/ \E k \in Connections : Disconnect(k)
        \/ \E u \in Users, t \in Tenants : SetRole(u, t) \/ Revoke(u, t)

Spec == Init /\ [][Next]_vars

-----------------------------------------------------------------------------

(* No connection goes back to the pool with the tenant or the actor of the *)
(* transaction it has served, however that ended.                          *)
SettingsEndWithTransaction ==
  \A k \in Connections : Free(k) =>
    pool[k].tenant \notin Tenants /\ pool[k].actor \notin Users

(* A statement reaches the row it names if and only if the row belongs to  *)
(* the tenant of the call, and memberships listed are all those of the     *)
(* caller and of nobody else, whichever connection is used and whichever   *)
(* calls it served before.                                                 *)
SeesExactlyItsTenant ==
  [][\A c \in Calls : call[c].pc = "scoped" /\ call'[c].pc = "executed" =>
       IF call[c].op = "memberships"
       THEN call'[c].listed = {t \in Tenants : Member(call[c].user, t)}
       ELSE call'[c].outcome = "notFound" <=>
              call[c].op # "createCandidate" /\ Owner[call[c].row] # call[c].tenant]_vars

(* What is answered or written in a tenant is answered to or written by a  *)
(* user who, since the call was made, has held a role there that permits   *)
(* it.  The role may have been taken away meanwhile.                       *)
ActedWithinRole ==
  \A c \in Calls : call[c].op \in Operations /\ call[c].outcome = "ok" =>
    \E r \in held[c] : HasPermission(r, call[c].op)

(* Who has written in a tenant is a member of it, then and ever after: a   *)
(* membership taken away during a call keeps the call from writing, and a  *)
(* membership that has written cannot be taken away.                       *)
WritersAreMembers ==
  \A c \in Calls : Wrote(c) => Member(call[c].user, call[c].tenant)

=============================================================================
