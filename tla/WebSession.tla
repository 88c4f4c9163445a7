----------------------------- MODULE WebSession -----------------------------
(***************************************************************************)
(* Signing in and out and choosing a tenant, in the tabs of one browser.   *)
(* The session is two cookies, a token and a tenant, that all tabs share   *)
(* and that any response may change; a page is what one request found, and *)
(* stays on screen when the cookies, the token or the membership behind it *)
(* are gone.                                                               *)
(*                                                                         *)
(* Requests take their cookies with them when they are sent, are answered  *)
(* in steps, and change the cookies when their response arrives.  The old  *)
(* page goes on running until the new one is rendered.                     *)
(***************************************************************************)
EXTENDS Naturals, Sequences

CONSTANTS
  Users,
  Tenants,
  Tabs,
  MaxTokens,   \* bound on the tokens issued
  MaxSteps,    \* bound on the addresses a user enters in a tab
  MaxChanges,  \* bound on the changes of memberships
  None

ASSUME MaxTokensAssumption == MaxTokens \in Nat
ASSUME MaxStepsAssumption == MaxSteps \in Nat
ASSUME MaxChangesAssumption == MaxChanges \in Nat
ASSUME NoneAssumption == None \notin Users \cup Tenants \cup Nat

Paths == {"/", "/sign-in", "/select-tenant"}

VARIABLES
  memberships,  \* the pairs of user and tenant in the database
  tokens,       \* the tokens issued, oldest first
  cookies,      \* the session and tenant cookies of the browser
  tab,          \* what each tab shows
  requests,     \* the requests in flight
  changes       \* the number of changes of memberships

vars == <<memberships, tokens, cookies, tab, requests, changes>>

-----------------------------------------------------------------------------

TokenType == [user : Users, by : Tabs, expired : BOOLEAN]

CookiesType == [token : 1..MaxTokens \cup {None}, tenant : Tenants \cup {None}]

(* ready: the sign-in form accepts input; options: the tenants offered;    *)
(* switchFailed: the tenant switcher shows its message.                    *)
TabType == [page : {"none", "signIn", "selectTenant", "workspace", "error"},
            user : Users \cup {None}, tenant : Tenants \cup {None},
            ready : BOOLEAN, options : (SUBSET Tenants) \cup {None},
            switchFailed : BOOLEAN, entered : 0..MaxSteps]

Kinds == {"page", "prepare", "login", "discover", "select", "switch", "signOut"}

Replies == {"pending", "listed", "ok", "unauthorised", "forbidden", "failed"} \cup Paths

(* asked: the path of a page, the user of a login, the tenant of a choice; *)
(* held: the memberships there have been since the request was sent.       *)
RequestType == [tab : Tabs, kind : Kinds, asked : Paths \cup Users \cup Tenants \cup {None},
                token : 1..MaxTokens \cup {None}, tenant : Tenants \cup {None},
                reply : Replies, options : SUBSET Tenants,
                held : SUBSET (Users \X Tenants)]

TypeOK == /\ memberships \subseteq Users \X Tenants
          /\ tokens \in Seq(TokenType) /\ Len(tokens) <= MaxTokens
          /\ cookies \in CookiesType
          /\ tab \in [Tabs -> TabType]
          /\ \A t \in Tabs : tab[t].page = "workspace" => None \notin {tab[t].user, tab[t].tenant}
          /\ requests \subseteq RequestType
          /\ changes \in 0..MaxChanges

NoCookies == [token |-> None, tenant |-> None]

Shows(page, entered) ==
  [page |-> page, user |-> None, tenant |-> None, ready |-> FALSE, options |-> None,
   switchFailed |-> FALSE, entered |-> entered]

Init == /\ memberships \in SUBSET (Users \X Tenants)
        /\ tokens = <<>>
        /\ cookies = NoCookies
        /\ tab = [t \in Tabs |-> Shows("none", 0)]
        /\ requests = {}
        /\ changes = 0

(* Of the cookies it carries, a request keeps those that are read. *)
Request(t, kind, asked, jar) ==
  [tab |-> t, kind |-> kind, asked |-> asked,
   token |-> IF kind \in {"login", "signOut"} THEN None ELSE jar.token,
   tenant |-> IF asked = "/" THEN jar.tenant ELSE None,
   reply |-> "pending", options |-> {}, held |-> memberships]

InFlight(t, kinds) == {r \in requests : r.tab = t /\ r.kind \in kinds}

(* A tab loads one page at a time. *)
Navigating(t) == InFlight(t, {"page"}) # {}

Load(others, t, path, jar) ==
  requests' = {r \in others : ~(r.tab = t /\ r.kind = "page")}
              \cup {Request(t, "page", path, jar)}

-----------------------------------------------------------------------------
(* The user.  A control is disabled while its own request is in flight.    *)
(* The user does not act on a page that is being left; what is in flight   *)
(* from it may still arrive.                                               *)

Open(t, path) ==
  /\ ~Navigating(t)
  /\ tab[t].entered < MaxSteps
  /\ tab' = [tab EXCEPT ![t].entered = @ + 1]
  /\ Load(requests, t, path, cookies)
  /\ UNCHANGED <<memberships, changes, tokens, cookies>>

Call(t, kind, asked) ==
  /\ ~Navigating(t)
  /\ InFlight(t, {kind}) = {}
  /\ requests' = requests \cup {Request(t, kind, asked, cookies)}
  /\ UNCHANGED <<memberships, changes, tokens, cookies>>

(* (bug) The form accepts input at once. *)
SubmitUnprepared(t) ==
  /\ tab[t].page = "signIn"
  /\ \E u \in Users : Call(t, "login", u)
  /\ UNCHANGED tab

Submit(t) ==
  /\ tab[t].page = "signIn"
  /\ tab[t].ready
  /\ \E u \in Users : Call(t, "login", u)
  /\ UNCHANGED tab

(* "Try again". *)
Discover(t) ==
  /\ tab[t].page = "selectTenant"
  /\ tab[t].options = None
  /\ Call(t, "discover", None)
  /\ UNCHANGED tab

SelectTenant(t) ==
  /\ tab[t].page = "selectTenant"
  /\ tab[t].options # None
  /\ \E tenant \in tab[t].options : Call(t, "select", tenant)
  /\ UNCHANGED tab

SwitchTenant(t) ==
  /\ tab[t].page = "workspace"
  /\ \E tenant \in tab[t].options \ {tab[t].tenant} : Call(t, "switch", tenant)
  /\ tab' = [tab EXCEPT ![t].switchFailed = FALSE]

SignOut(t) ==
  /\ tab[t].page \in {"selectTenant", "workspace"}
  /\ Call(t, "signOut", None)
  /\ UNCHANGED tab

-----------------------------------------------------------------------------
(* The server: the routes and pages of Next.js with the API behind them.   *)

Answer(r, reply, options) ==
  /\ requests' = (requests \ {r}) \cup {[r EXCEPT !.reply = reply, !.options = options]}
  /\ UNCHANGED <<memberships, changes, cookies, tab>>

(* The API accepts the token of the request. *)
Authenticates(r) == r.token # None /\ ~tokens[r.token].expired

TenantsOf(r) == {tenant \in Tenants : <<tokens[r.token].user, tenant>> \in memberships}

IsMember(r, tenant) == <<tokens[r.token].user, tenant>> \in memberships

(* A call to the API fails: the token is refused, or no answer comes in    *)
(* 8 seconds.  The call for the tenant context is also refused to a user   *)
(* who is not a member.                                                    *)
CallFails(r) ==
  \/ r.token # None /\ tokens[r.token].expired /\ Answer(r, "unauthorised", {})
  \/ r.token # None /\ Answer(r, "failed", {})

LogoutRoute(r) ==
  /\ r.kind \in {"prepare", "signOut"} /\ r.reply = "pending"
  /\ Answer(r, "ok", {})
  /\ UNCHANGED tokens

LoginRoute(r) ==
  /\ r.kind = "login" /\ r.reply = "pending"
  /\ \/ /\ Len(tokens) < MaxTokens
        /\ tokens' = Append(tokens, [user |-> r.asked, by |-> r.tab, expired |-> FALSE])
        /\ requests' = (requests \ {r})
                       \cup {[r EXCEPT !.reply = "ok", !.token = Len(tokens) + 1]}
        /\ UNCHANGED <<memberships, changes, cookies, tab>>
     \/ /\ \E reply \in {"unauthorised", "failed"} : Answer(r, reply, {})
        /\ UNCHANGED tokens

MembershipsRoute(r) ==
  /\ r.kind = "discover" /\ r.reply = "pending"
  /\ \/ r.token = None /\ Answer(r, "unauthorised", {})
     \/ Authenticates(r) /\ Answer(r, "ok", TenantsOf(r))
     \/ CallFails(r)
  /\ UNCHANGED tokens

(* The tenant is looked up in the list, then validated as a context.  The  *)
(* role must be the same in both: it may have changed, as the membership   *)
(* may have.                                                               *)
TenantRoute(r) ==
  /\ r.kind \in {"select", "switch"}
  /\ \/ r.reply = "pending" /\ r.token = None /\ Answer(r, "unauthorised", {})
     \/ /\ r.reply = "pending" /\ Authenticates(r)
        /\ Answer(r, IF IsMember(r, r.asked) THEN "listed" ELSE "forbidden", {})
     \/ /\ r.reply = "listed" /\ Authenticates(r)
        /\ \/ IsMember(r, r.asked) /\ Answer(r, "ok", {})
           \/ Answer(r, "forbidden", {})
     \/ r.reply \in {"pending", "listed"} /\ CallFails(r)
  /\ UNCHANGED tokens

Page(r, path) == r.kind = "page" /\ r.asked = path

(* (bug) Whoever has a session cookie is sent to the workspace. *)
SignInPageTrustsCookie(r) ==
  /\ Page(r, "/sign-in") /\ r.reply = "pending"
  /\ Answer(r, IF r.token # None THEN "/" ELSE "ok", {})
  /\ UNCHANGED tokens

(* Any failure of the API is as good as no session. *)
SignInPage(r) ==
  /\ Page(r, "/sign-in") /\ r.reply = "pending"
  /\ \/ Authenticates(r) /\ Answer(r, "/", {})
     \/ Answer(r, "ok", {})
  /\ UNCHANGED tokens

SelectTenantPage(r) ==
  /\ Page(r, "/select-tenant") /\ r.reply = "pending"
  /\ \/ ~Authenticates(r) /\ Answer(r, "/sign-in", {})
     \/ Authenticates(r) /\ Answer(r, "ok", {})
     \/ r.token # None /\ Answer(r, "failed", {})
  /\ UNCHANGED tokens

(* (bug) The tenant of the cookie is taken as it is. *)
LayoutTrustsCookie(r) ==
  /\ Page(r, "/") /\ r.reply = "pending"
  /\ \/ r.token = None /\ Answer(r, "/sign-in", {})
     \/ Authenticates(r) /\ Answer(r, "ok", TenantsOf(r))
  /\ UNCHANGED tokens

(* validateTenantSession asks for the user and the memberships, then for   *)
(* the tenant context; the layout redirects when either is refused.        *)
AuthenticatedLayout(r) ==
  /\ Page(r, "/")
  /\ \/ /\ r.reply = "pending" /\ r.token = None
        /\ Answer(r, "/sign-in", {})
     \/ /\ r.reply = "pending" /\ r.token # None /\ r.tenant = None
        /\ Answer(r, "/select-tenant", {})
     \/ /\ r.reply = "pending" /\ r.tenant # None /\ Authenticates(r)
        /\ IF IsMember(r, r.tenant) THEN Answer(r, "listed", TenantsOf(r))
                                    ELSE Answer(r, "/select-tenant", {})
     \/ /\ r.reply = "listed" /\ Authenticates(r)
        /\ \/ IsMember(r, r.tenant) /\ Answer(r, "ok", r.options)
           \/ Answer(r, "/select-tenant", {})
     \/ /\ r.reply \in {"pending", "listed"}
        /\ r.token # None /\ r.tenant # None
        /\ \/ tokens[r.token].expired /\ Answer(r, "/sign-in", {})
           \/ Answer(r, "failed", {})
  /\ UNCHANGED tokens

Server(r) == \/ LogoutRoute(r) \/ LoginRoute(r) \/ MembershipsRoute(r) \/ TenantRoute(r)
             \/ SignInPage(r) \/ SelectTenantPage(r) \/ AuthenticatedLayout(r)

-----------------------------------------------------------------------------
(* The browser. *)

Answered(r, kinds) == r.kind \in kinds /\ r.reply \notin {"pending", "listed"}

(* What the response does to the cookies: logging in sets the token and    *)
(* drops the tenant, logging out and a 401 of a route drop both, and a     *)
(* choice of tenant sets the tenant.  Pages set no cookie.                 *)
CookiesAfter(r) ==
  CASE r.kind = "page" -> cookies
    [] r.reply = "unauthorised" -> NoCookies
    [] r.kind \in {"prepare", "signOut"} /\ r.reply = "ok" -> NoCookies
    [] r.kind = "login" /\ r.reply = "ok" -> [token |-> r.token, tenant |-> None]
    [] r.kind \in {"select", "switch"} /\ r.reply = "ok" -> [cookies EXCEPT !.tenant = r.asked]
    [] OTHER -> cookies

GoTo(r, path) == /\ Load(requests \ {r}, r.tab, path, CookiesAfter(r))
                 /\ cookies' = CookiesAfter(r)
                 /\ UNCHANGED <<memberships, changes, tokens, tab>>

Stay(r, t) == /\ requests' = requests \ {r}
              /\ cookies' = CookiesAfter(r)
              /\ tab' = [tab EXCEPT ![r.tab] = t]
              /\ UNCHANGED <<memberships, changes, tokens>>

FollowRedirect(r) == /\ Answered(r, {"page"}) /\ r.reply \in Paths
                     /\ GoTo(r, r.reply)

(* The new page ends the requests of the old one, and sends one of its     *)
(* own as it opens.                                                        *)
Render(r, shown, kinds) ==
  /\ tab' = [tab EXCEPT ![r.tab] = shown]
  /\ requests' = {s \in requests : s.tab # r.tab}
                 \cup {Request(r.tab, kind, None, cookies) : kind \in kinds}
  /\ UNCHANGED <<memberships, changes, tokens, cookies>>

RenderPage(r) ==
  /\ Answered(r, {"page"})
  /\ LET blank(page) == Shows(page, tab[r.tab].entered) IN
     \/ /\ r.reply = "ok" /\ r.asked = "/sign-in"
        /\ Render(r, blank("signIn"), {"prepare"})
     \/ /\ r.reply = "ok" /\ r.asked = "/select-tenant"
        /\ Render(r, blank("selectTenant"), {"discover"})
     \/ /\ r.reply = "ok" /\ r.asked = "/"
        /\ Render(r, [blank("workspace") EXCEPT !.user = tokens[r.token].user,
                                                !.tenant = r.tenant,
                                                !.options = r.options], {})
     \/ /\ r.reply = "failed"
        /\ Render(r, blank("error"), {})

(* The form opens whether or not the logout succeeds. *)
Prepared(r) == /\ Answered(r, {"prepare"})
               /\ Stay(r, [tab[r.tab] EXCEPT !.ready = TRUE])

LoggedIn(r) == /\ Answered(r, {"login"})
               /\ IF r.reply = "ok" THEN GoTo(r, "/select-tenant") ELSE Stay(r, tab[r.tab])

Discovered(r) ==
  /\ Answered(r, {"discover"})
  /\ \/ r.reply = "ok" /\ Stay(r, [tab[r.tab] EXCEPT !.options = r.options])
     \/ r.reply = "unauthorised" /\ GoTo(r, "/sign-in")
     \/ r.reply = "failed" /\ Stay(r, tab[r.tab])

Selected(r) ==
  /\ Answered(r, {"select"})
  /\ \/ r.reply = "ok" /\ GoTo(r, "/")
     \/ r.reply = "unauthorised" /\ GoTo(r, "/sign-in")
     \/ r.reply \in {"forbidden", "failed"} /\ Stay(r, tab[r.tab])

(* The switcher tells no failure from another. *)
Switched(r) ==
  /\ Answered(r, {"switch"})
  /\ IF r.reply = "ok" THEN GoTo(r, "/")
                       ELSE Stay(r, [tab[r.tab] EXCEPT !.switchFailed = TRUE])

SignedOut(r) == /\ Answered(r, {"signOut"})
                /\ IF r.reply = "ok" THEN GoTo(r, "/sign-in") ELSE Stay(r, tab[r.tab])

Receive(r) == \/ FollowRedirect(r) \/ RenderPage(r) \/ Prepared(r) \/ LoggedIn(r)
              \/ Discovered(r) \/ Selected(r) \/ Switched(r) \/ SignedOut(r)

Timed == {"prepare", "login", "select", "switch", "signOut"}

(* The timer of requestFrontend.  The discovery of memberships has a       *)
(* signal of its own and no timer.                                         *)
Abort(t, kind) ==
  \E r \in InFlight(t, {kind} \cap Timed) :
    /\ requests' = requests \ {r}
    /\ tab' = [tab EXCEPT ![t].ready = @ \/ kind = "prepare",
                          ![t].switchFailed = @ \/ kind = "switch"]
    /\ UNCHANGED <<memberships, changes, tokens, cookies>>

-----------------------------------------------------------------------------
(* Outside. *)

Expire == \E k \in DOMAIN tokens :
            /\ tokens' = [tokens EXCEPT ![k].expired = TRUE]
            /\ UNCHANGED <<memberships, changes, cookies, tab, requests>>

ChangeMembership ==
  /\ changes < MaxChanges
  /\ changes' = changes + 1
  /\ \E m \in Users \X Tenants :
       /\ memberships' = IF m \in memberships THEN memberships \ {m} ELSE memberships \cup {m}
       /\ requests' = {[r EXCEPT !.held = @ \cup {m}] : r \in requests}
       /\ UNCHANGED <<tokens, cookies, tab>>

Next == \/ Expire \/ ChangeMembership
        \/ \E t \in Tabs :
             \/ \E path \in Paths : Open(t, path)
             \/ Submit(t) \/ Discover(t) \/ SelectTenant(t) \/ SwitchTenant(t) \/ SignOut(t)
             \/ \E kind \in Kinds : Abort(t, kind)
        \/ \E r \in requests : Server(r) \/ Receive(r)

Spec == Init /\ [][Next]_vars

(* The server answers for a page, since its calls to the API end after     *)
(* 8 seconds, and the browser takes the answer.                            *)
PageMoves(t) == \E r \in InFlight(t, {"page"}) : Server(r) \/ Receive(r)

FairSpec == Spec /\ \A t \in Tabs : WF_vars(PageMoves(t))

-----------------------------------------------------------------------------

(* A workspace is shown to its user only if, while the page was loading,   *)
(* the user was a member of the tenant: whatever the cookies say, which    *)
(* may join a token to a tenant that was chosen under another one.  A page *)
(* that shows the same user the same tenant once more is not looked at.    *)
WorkspaceWasAuthorised ==
  [][\A t \in Tabs :
       LET shown == <<tab'[t].user, tab'[t].tenant>> IN
       tab'[t].page = "workspace" /\ shown # <<tab[t].user, tab[t].tenant>> =>
         \E r \in InFlight(t, {"page"}) : shown \in r.held]_vars

(* The logout that a sign-in form sends as it opens does not end the       *)
(* session that the same form then starts.                                 *)
OwnLogoutSparesLogin ==
  [][\A r \in requests :
       (r.kind = "prepare" /\ cookies.token # None /\ cookies'.token = None
          /\ r \notin requests') =>
       r.token = cookies.token \/ tokens[cookies.token].by # r.tab]_vars

(* Every navigation ends with a page: no state of the cookies, tokens and  *)
(* memberships sends a tab round in redirects.                             *)
NavigationSettles == \A t \in Tabs : Navigating(t) ~> ~Navigating(t)

=============================================================================
