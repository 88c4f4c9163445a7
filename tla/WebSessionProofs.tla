-------------------------- MODULE WebSessionProofs --------------------------
(***************************************************************************)
(* Theorems about WebSession, for every set of users, tenants and tabs and *)
(* any number of tokens, steps and changes of memberships.                 *)
(***************************************************************************)
EXTENDS WebSession, TLAPS

-----------------------------------------------------------------------------
(* The inductive invariant.  A workspace that is on its way was authorised *)
(* by what its request has held; a token of a login is of the tab that     *)
(* sent it; and while the logout of a sign-in form is in flight the form   *)
(* is not ready, so that the tab has no login in flight and the session is *)
(* the one the logout was sent for or one that another tab started.        *)

TokenOK(k) == k # None => k \in DOMAIN tokens

ShowsOK(x) == x.page = "workspace" =>
  None \notin {x.user, x.tenant} /\ x.options \in SUBSET Tenants

Authorised(r) == /\ r.token # None /\ r.tenant # None
                 /\ <<tokens[r.token].user, r.tenant>> \in r.held

PageOK(r) == r.kind = "page" =>
  /\ r.asked \in Paths
  /\ r.asked = "/" /\ r.reply \in {"listed", "ok"} => Authorised(r)

LoginOK(r) == r.kind = "login" =>
  /\ r.asked \in Users
  /\ r.reply = "ok" => r.token # None /\ tokens[r.token].by = r.tab

RequestOK(r) ==
  /\ TokenOK(r.token)
  /\ memberships \subseteq r.held
  /\ r.kind \in {"select", "switch"} => r.asked \in Tenants
  /\ PageOK(r) /\ LoginOK(r)

PrepareOK(r) == r.kind = "prepare" =>
  /\ ~tab[r.tab].ready
  /\ cookies.token # None => r.token = cookies.token \/ tokens[cookies.token].by # r.tab
  /\ \A s \in requests : s.tab = r.tab => s.kind # "login" /\ (s.kind = "prepare" => s = r)

IInv == /\ TypeOK
        /\ TokenOK(cookies.token)
        /\ \A t \in Tabs : ShowsOK(tab[t])
        /\ \A r \in requests : RequestOK(r) /\ PrepareOK(r)

-----------------------------------------------------------------------------
(* Frames. *)

(* Tokens are never dropped, and keep their user and tab. *)
TokensKept ==
  /\ tokens' \in Seq(TokenType) /\ Len(tokens') <= MaxTokens
  /\ \A k \in DOMAIN tokens : /\ k \in DOMAIN tokens'
                              /\ tokens'[k].user = tokens[k].user
                              /\ tokens'[k].by = tokens[k].by

LEMMA SameTokens ==
  ASSUME TypeOK, tokens' = tokens
  PROVE  TokensKept
  BY DEF TypeOK, TokensKept

LEMMA RequestKept ==
  ASSUME IInv, NEW r \in requests, TokensKept, memberships' = memberships
  PROVE  RequestOK(r)'
  <1>1. RequestOK(r)
    BY DEF IInv
  <1>2. TokenOK(r.token)'
    BY <1>1 DEF RequestOK, TokenOK, TokensKept
  <1>3. r.token # None => /\ tokens'[r.token].user = tokens[r.token].user
                          /\ tokens'[r.token].by = tokens[r.token].by
    BY <1>1 DEF RequestOK, TokenOK, TokensKept
  <1>. QED BY <1>1, <1>2, <1>3 DEF RequestOK, PageOK, LoginOK, Authorised

(* A step that drops requests and sends some that prepare nothing. *)
LEMMA PrepareKept ==
  ASSUME IInv, NEW N, requests' \subseteq requests \cup N, TokensKept,
         \A r \in requests : r \in requests' /\ r.kind = "prepare" => ~tab'[r.tab].ready,
         \/ cookies'.token \in {cookies.token, None}
         \/ \A r \in requests : r.kind = "prepare" => r.tab # tokens'[cookies'.token].by,
         \A q \in N : /\ q.kind # "prepare"
                      /\ q.kind = "login" =>
                           \A r \in requests : r.kind = "prepare" => r.tab # q.tab
  PROVE  \A r \in requests' : PrepareOK(r)'
  <1>1. SUFFICES ASSUME NEW r \in requests', r.kind = "prepare"
                 PROVE  /\ ~tab'[r.tab].ready
                        /\ cookies'.token # None =>
                             r.token = cookies'.token \/ tokens'[cookies'.token].by # r.tab
                        /\ \A s \in requests' : s.tab = r.tab =>
                             s.kind # "login" /\ (s.kind = "prepare" => s = r)
    BY DEF PrepareOK
  <1>2. r \in requests /\ PrepareOK(r)
    BY <1>1 DEF IInv
  <1>3. ASSUME cookies'.token # None, cookies'.token = cookies.token
        PROVE  r.token = cookies'.token \/ tokens'[cookies'.token].by # r.tab
    BY <1>1, <1>2, <1>3 DEF PrepareOK, IInv, TokenOK, TokensKept
  <1>4. cookies'.token # None => r.token = cookies'.token \/ tokens'[cookies'.token].by # r.tab
    BY <1>1, <1>2, <1>3
  <1>5. \A s \in requests' : s.tab = r.tab => s.kind # "login" /\ (s.kind = "prepare" => s = r)
    BY <1>1, <1>2 DEF PrepareOK
  <1>. QED BY <1>1, <1>2, <1>4, <1>5

LEMMA RequestsStep ==
  ASSUME IInv, NEW N \in SUBSET RequestType, requests' \subseteq requests \cup N, TokensKept,
         memberships' = memberships, changes' = changes,
         cookies' \in CookiesType, TokenOK(cookies.token)',
         tab' \in [Tabs -> TabType], \A t \in Tabs : ShowsOK(tab'[t]),
         \A q \in N : RequestOK(q)',
         \A r \in requests' : PrepareOK(r)'
  PROVE  IInv'
  <1>1. \A r \in requests' : RequestOK(r)'
    BY RequestKept
  <1>2. TypeOK'
    BY DEF IInv, TypeOK, TokensKept, ShowsOK
  <1>. QED BY <1>1, <1>2 DEF IInv

LEMMA TabStep ==
  ASSUME IInv, NEW t \in Tabs, NEW x \in TabType, ShowsOK(x), tab' = [tab EXCEPT ![t] = x]
  PROVE  /\ tab' \in [Tabs -> TabType]
         /\ \A u \in Tabs : ShowsOK(tab'[u])
         /\ tab'[t] = x
         /\ \A u \in Tabs \ {t} : tab'[u] = tab[u]
  <1>1. /\ tab' \in [Tabs -> TabType] /\ tab'[t] = x
        /\ \A u \in Tabs \ {t} : tab'[u] = tab[u]
    BY DEF IInv, TypeOK
  <1>2. ASSUME NEW u \in Tabs
        PROVE  ShowsOK(tab'[u])
    <2>1. CASE u = t
      BY <1>1, <2>1
    <2>2. CASE u # t
      BY <1>1, <2>2 DEF IInv, ShowsOK
    <2>. QED BY <2>1, <2>2
  <1>. QED BY <1>1, <1>2

-----------------------------------------------------------------------------
(* Requests as they are sent. *)

LEMMA NewRequest ==
  ASSUME TypeOK, NEW t \in Tabs, NEW kind \in Kinds,
         NEW asked \in Paths \cup Users \cup Tenants \cup {None},
         NEW jar \in CookiesType, NEW q, q = Request(t, kind, asked, jar)
  PROVE  /\ q \in RequestType
         /\ q.tab = t /\ q.kind = kind /\ q.asked = asked /\ q.reply = "pending"
         /\ q.held = memberships
         /\ q.token \in {None, jar.token}
         /\ kind = "prepare" => q.token = jar.token
  <1>1. PICK token : token = IF kind \in {"login", "signOut"} THEN None ELSE jar.token
    OBVIOUS
  <1>2. PICK tenant : tenant = IF asked = "/" THEN jar.tenant ELSE None
    OBVIOUS
  <1>3. token \in 1..MaxTokens \cup {None} /\ token \in {None, jar.token}
        /\ (kind = "prepare" => token = jar.token)
    BY <1>1 DEF CookiesType
  <1>4. tenant \in Tenants \cup {None}
    BY <1>2 DEF CookiesType
  <1>5. PICK held \in SUBSET (Users \X Tenants) : held = memberships
    BY DEF TypeOK
  <1>6. q = [tab |-> t, kind |-> kind, asked |-> asked, token |-> token, tenant |-> tenant,
             reply |-> "pending", options |-> {}, held |-> held]
    BY <1>1, <1>2, <1>5 DEF Request
  <1>. QED BY <1>3, <1>4, <1>5, <1>6 DEF RequestType, Replies

-----------------------------------------------------------------------------
(* Steps that send one request, or none, and keep the memberships.         *)

CookiesMove == /\ cookies' \in CookiesType
               /\ TokenOK(cookies.token)'
               /\ \/ cookies'.token \in {cookies.token, None}
                  \/ \A r \in requests : r.kind = "prepare" => r.tab # tokens'[cookies'.token].by

TabsMove == /\ tab' \in [Tabs -> TabType]
            /\ \A t \in Tabs : ShowsOK(tab'[t])
            /\ \A r \in requests : r \in requests' /\ r.kind = "prepare" => ~tab'[r.tab].ready

LEMMA SendStep ==
  ASSUME IInv, NEW q \in RequestType, requests' \subseteq requests \cup {q},
         TokensKept, CookiesMove, TabsMove, memberships' = memberships, changes' = changes,
         RequestOK(q)', q.kind # "prepare",
         q.kind = "login" => \A r \in requests : r.kind = "prepare" => r.tab # q.tab
  PROVE  IInv'
  <1>1. PICK N \in SUBSET RequestType : N = {q}
    OBVIOUS
  <1>2. requests' \subseteq requests \cup N /\ \A p \in N : p = q
    BY <1>1
  <1>3. \A p \in N : /\ p.kind # "prepare"
                     /\ p.kind = "login" =>
                          \A r \in requests : r.kind = "prepare" => r.tab # p.tab
    BY <1>2
  <1>4. \A r \in requests' : PrepareOK(r)'
    BY <1>2, <1>3, PrepareKept DEF CookiesMove, TabsMove
  <1>5. \A p \in N : RequestOK(p)'
    BY <1>2
  <1>. QED BY <1>2, <1>4, <1>5, RequestsStep DEF CookiesMove, TabsMove

LEMMA DropStep ==
  ASSUME IInv, requests' \subseteq requests,
         TokensKept, CookiesMove, TabsMove, memberships' = memberships, changes' = changes
  PROVE  IInv'
  <1>1. PICK N \in SUBSET RequestType : N = {}
    OBVIOUS
  <1>2. requests' \subseteq requests \cup N /\ \A p \in N : FALSE
    BY <1>1
  <1>3. \A p \in N : /\ p.kind # "prepare"
                     /\ p.kind = "login" =>
                          \A r \in requests : r.kind = "prepare" => r.tab # p.tab
    BY <1>2
  <1>4. \A r \in requests' : PrepareOK(r)'
    BY <1>2, <1>3, PrepareKept DEF CookiesMove, TabsMove
  <1>5. \A p \in N : RequestOK(p)'
    BY <1>2
  <1>. QED BY <1>2, <1>4, <1>5, RequestsStep DEF CookiesMove, TabsMove

LEMMA SameCookies ==
  ASSUME IInv, cookies' = cookies, TokensKept
  PROVE  CookiesMove
  BY DEF IInv, TypeOK, CookiesMove, TokenOK, TokensKept

LEMMA PrepareUnready ==
  ASSUME IInv, NEW r \in requests, r.kind = "prepare"
  PROVE  r.tab \in Tabs /\ ~tab[r.tab].ready
  BY DEF IInv, TypeOK, PrepareOK, RequestType

-----------------------------------------------------------------------------
(* The user. *)

(* A request that the user sends changes no cookie. *)
LEMMA CallStep ==
  ASSUME IInv, NEW t \in Tabs, NEW kind \in Kinds \ {"page", "prepare"},
         NEW asked \in Paths \cup Users \cup Tenants \cup {None}, Call(t, kind, asked),
         kind = "login" => asked \in Users /\ tab[t].ready,
         kind \in {"select", "switch"} => asked \in Tenants,
         tab' \in [Tabs -> TabType], \A u \in Tabs : ShowsOK(tab'[u]),
         \A u \in Tabs : tab'[u].ready = tab[u].ready
  PROVE  IInv'
  <1>1. PICK jar \in CookiesType : jar = cookies
    BY DEF IInv, TypeOK
  <1>2. PICK q : q = Request(t, kind, asked, jar)
    OBVIOUS
  <1>3. /\ requests' = requests \cup {q}
        /\ UNCHANGED <<memberships, changes, tokens, cookies>>
    BY <1>1, <1>2 DEF Call
  <1>4. /\ q \in RequestType
        /\ q.tab = t /\ q.kind = kind /\ q.asked = asked /\ q.reply = "pending"
        /\ q.held = memberships /\ q.token \in {None, jar.token}
    BY <1>2, NewRequest DEF IInv
  <1>5. TokensKept
    BY <1>3, SameTokens DEF IInv
  <1>6. RequestOK(q)'
    BY <1>1, <1>3, <1>4 DEF IInv, RequestOK, TokenOK, PageOK, LoginOK
  <1>7. CookiesMove
    BY <1>3, <1>5, SameCookies
  <1>8. TabsMove
    BY PrepareUnready DEF TabsMove
  <1>9. q.kind = "login" => \A r \in requests : r.kind = "prepare" => r.tab # q.tab
    BY <1>4, PrepareUnready
  <1>. QED BY <1>3, <1>4, <1>5, <1>6, <1>7, <1>8, <1>9, SendStep

LEMMA SubmitStep ==
  ASSUME IInv, NEW t \in Tabs, Submit(t)
  PROVE  IInv'
  <1>1. PICK u \in Users : Call(t, "login", u)
    BY DEF Submit
  <1>2. tab' = tab /\ tab[t].ready
    BY DEF Submit
  <1>3. "login" \in Kinds \ {"page", "prepare"}
    BY DEF Kinds
  <1>. QED BY <1>1, <1>2, <1>3, CallStep DEF IInv, TypeOK

LEMMA DiscoverStep ==
  ASSUME IInv, NEW t \in Tabs, Discover(t) \/ SignOut(t)
  PROVE  IInv'
  <1>1. PICK kind \in {"discover", "signOut"} : Call(t, kind, None)
    BY DEF Discover, SignOut
  <1>2. tab' = tab
    BY DEF Discover, SignOut
  <1>3. kind \in Kinds \ {"page", "prepare"} /\ kind \notin {"login", "select", "switch"}
    BY <1>1 DEF Kinds
  <1>. QED BY <1>1, <1>2, <1>3, CallStep DEF IInv, TypeOK

LEMMA SelectTenantStep ==
  ASSUME IInv, NEW t \in Tabs, SelectTenant(t)
  PROVE  IInv'
  <1>1. PICK tenant \in tab[t].options : Call(t, "select", tenant)
    BY DEF SelectTenant
  <1>2. tenant \in Tenants
    BY <1>1 DEF SelectTenant, IInv, TypeOK, TabType
  <1>3. tab' = tab
    BY DEF SelectTenant
  <1>4. "select" \in Kinds \ {"page", "prepare"}
    BY DEF Kinds
  <1>. QED BY <1>1, <1>2, <1>3, <1>4, CallStep DEF IInv, TypeOK

LEMMA SwitchTenantStep ==
  ASSUME IInv, NEW t \in Tabs, SwitchTenant(t)
  PROVE  IInv'
  <1>1. PICK tenant \in tab[t].options \ {tab[t].tenant} : Call(t, "switch", tenant)
    BY DEF SwitchTenant
  <1>2. tenant \in Tenants
    BY <1>1 DEF SwitchTenant, IInv, ShowsOK
  <1>3. PICK x : x = [tab[t] EXCEPT !.switchFailed = FALSE] /\ tab' = [tab EXCEPT ![t] = x]
    BY DEF SwitchTenant
  <1>4. /\ x \in TabType /\ x.page = tab[t].page /\ x.user = tab[t].user
        /\ x.tenant = tab[t].tenant /\ x.options = tab[t].options /\ x.ready = tab[t].ready
    BY <1>3 DEF IInv, TypeOK, TabType
  <1>5. ShowsOK(x)
    BY <1>4 DEF IInv, ShowsOK
  <1>6. /\ tab' \in [Tabs -> TabType]
        /\ \A u \in Tabs : ShowsOK(tab'[u])
        /\ tab'[t] = x
        /\ \A u \in Tabs \ {t} : tab'[u] = tab[u]
    BY <1>3, <1>4, <1>5, TabStep
  <1>7. \A u \in Tabs : tab'[u].ready = tab[u].ready
    BY <1>4, <1>6
  <1>8. "switch" \in Kinds \ {"page", "prepare"}
    BY DEF Kinds
  <1>. QED BY <1>1, <1>2, <1>6, <1>7, <1>8, CallStep

LEMMA OpenStep ==
  ASSUME IInv, NEW t \in Tabs, NEW path \in Paths, Open(t, path)
  PROVE  IInv'
  <1>1. PICK jar \in CookiesType : jar = cookies
    BY DEF IInv, TypeOK
  <1>2. PICK q : q = Request(t, "page", path, jar)
    OBVIOUS
  <1>3. /\ requests' \subseteq requests \cup {q}
        /\ UNCHANGED <<memberships, changes, tokens, cookies>>
    BY <1>1, <1>2 DEF Open, Load
  <1>4. /\ q \in RequestType
        /\ q.tab = t /\ q.kind = "page" /\ q.asked = path /\ q.reply = "pending"
        /\ q.held = memberships /\ q.token \in {None, jar.token}
    BY <1>2, NewRequest DEF IInv, Kinds
  <1>5. TokensKept
    BY <1>3, SameTokens DEF IInv
  <1>6. RequestOK(q)'
    BY <1>1, <1>3, <1>4 DEF IInv, RequestOK, TokenOK, PageOK, LoginOK
  <1>7. PICK n \in 0..MaxSteps : n = tab[t].entered + 1
    BY MaxStepsAssumption DEF Open, IInv, TypeOK, TabType
  <1>8. PICK x : x = [tab[t] EXCEPT !.entered = n] /\ tab' = [tab EXCEPT ![t] = x]
    BY <1>7 DEF Open
  <1>9. /\ x \in TabType /\ x.page = tab[t].page /\ x.user = tab[t].user
        /\ x.tenant = tab[t].tenant /\ x.options = tab[t].options /\ x.ready = tab[t].ready
    BY <1>8 DEF IInv, TypeOK, TabType
  <1>10. ShowsOK(x)
    BY <1>9 DEF IInv, ShowsOK
  <1>11. /\ tab' \in [Tabs -> TabType]
         /\ \A u \in Tabs : ShowsOK(tab'[u])
         /\ tab'[t] = x
         /\ \A u \in Tabs \ {t} : tab'[u] = tab[u]
    BY <1>8, <1>9, <1>10, TabStep
  <1>12. CookiesMove
    BY <1>3, <1>5, SameCookies
  <1>13. TabsMove
    BY <1>9, <1>11, PrepareUnready DEF TabsMove
  <1>. QED BY <1>3, <1>4, <1>5, <1>6, <1>12, <1>13, SendStep

(* A form that is ready has no logout in flight any more, for the one that *)
(* is dropped was the only one.                                            *)
LEMMA AbortStep ==
  ASSUME IInv, NEW t \in Tabs, NEW kind \in Kinds, Abort(t, kind)
  PROVE  IInv'
  <1>1. PICK r \in requests :
          /\ r.tab = t /\ r.kind = kind
          /\ requests' = requests \ {r}
          /\ tab' = [tab EXCEPT ![t].ready = @ \/ kind = "prepare",
                                ![t].switchFailed = @ \/ kind = "switch"]
          /\ UNCHANGED <<memberships, changes, tokens, cookies>>
    BY DEF Abort, InFlight, Timed
  <1>2. PICK ready \in BOOLEAN : ready = (tab[t].ready \/ kind = "prepare")
    OBVIOUS
  <1>3. PICK failed \in BOOLEAN : failed = (tab[t].switchFailed \/ kind = "switch")
    OBVIOUS
  <1>4. PICK x : /\ x = [tab[t] EXCEPT !.ready = ready, !.switchFailed = failed]
                 /\ tab' = [tab EXCEPT ![t] = x]
    BY <1>1, <1>2, <1>3 DEF IInv, TypeOK
  <1>5. /\ x \in TabType /\ x.page = tab[t].page /\ x.user = tab[t].user
        /\ x.tenant = tab[t].tenant /\ x.options = tab[t].options /\ x.ready = ready
    BY <1>4 DEF IInv, TypeOK, TabType
  <1>6. ShowsOK(x)
    BY <1>5 DEF IInv, ShowsOK
  <1>7. /\ tab' \in [Tabs -> TabType]
        /\ \A u \in Tabs : ShowsOK(tab'[u])
        /\ tab'[t] = x
        /\ \A u \in Tabs \ {t} : tab'[u] = tab[u]
    BY <1>4, <1>5, <1>6, TabStep
  <1>8. TokensKept
    BY <1>1, SameTokens DEF IInv
  <1>9. ASSUME NEW s \in requests, s \in requests', s.kind = "prepare"
        PROVE  ~tab'[s.tab].ready
    <2>1. PrepareOK(s) /\ s.tab \in Tabs
      BY DEF IInv, TypeOK, RequestType
    <2>2. CASE s.tab = t
      <3>1. kind # "prepare"
        BY <1>1, <1>9, <2>1, <2>2 DEF PrepareOK
      <3>2. ~tab[t].ready
        BY <1>9, <2>1, <2>2 DEF PrepareOK
      <3>. QED BY <3>1, <3>2, <2>2, <1>2, <1>5, <1>7
    <2>3. CASE s.tab # t
      BY <1>9, <2>1, <2>3, <1>7 DEF PrepareOK
    <2>. QED BY <2>2, <2>3
  <1>10. CookiesMove
    BY <1>1, <1>8, SameCookies
  <1>11. TabsMove
    BY <1>7, <1>9 DEF TabsMove
  <1>. QED BY <1>1, <1>8, <1>10, <1>11, DropStep

-----------------------------------------------------------------------------
(* The server. *)

(* An answer changes a request and nothing else; that of the workspace     *)
(* takes an authorisation.                                                 *)
LEMMA AnswerStep ==
  ASSUME IInv, NEW r \in requests, NEW reply \in Replies, NEW options \in SUBSET Tenants,
         Answer(r, reply, options), tokens' = tokens,
         r.kind = "page" /\ r.asked = "/" /\ reply \in {"listed", "ok"} => Authorised(r),
         r.kind = "login" => reply # "ok"
  PROVE  IInv'
  <1>1. /\ r \in RequestType /\ RequestOK(r) /\ PrepareOK(r)
    BY DEF IInv, TypeOK
  <1>2. PICK q : q = [r EXCEPT !.reply = reply, !.options = options]
    OBVIOUS
  <1>3. /\ q \in RequestType /\ q.tab = r.tab /\ q.kind = r.kind /\ q.asked = r.asked
        /\ q.token = r.token /\ q.tenant = r.tenant /\ q.held = r.held /\ q.reply = reply
    BY <1>1, <1>2 DEF RequestType
  <1>4. /\ requests' = (requests \ {r}) \cup {q}
        /\ UNCHANGED <<memberships, changes, cookies, tab>>
    BY <1>2 DEF Answer
  <1>5. TokensKept
    BY SameTokens DEF IInv
  <1>6. CookiesMove
    BY <1>4, <1>5, SameCookies
  <1>7. TabsMove
    BY <1>4, PrepareUnready DEF TabsMove, IInv, TypeOK
  <1>8. RequestOK(q)'
    BY <1>1, <1>3, <1>4 DEF RequestOK, PageOK, LoginOK, TokenOK, Authorised
  <1>9. CASE r.kind # "prepare"
    <2>1. q.kind = "login" => \A p \in requests : p.kind = "prepare" => p.tab # q.tab
      BY <1>3 DEF IInv, PrepareOK
    <2>. QED BY <2>1, <1>3, <1>4, <1>5, <1>6, <1>7, <1>8, <1>9, SendStep
  <1>10. CASE r.kind = "prepare"
    <2>1. PICK N \in SUBSET RequestType : N = {q}
      BY <1>3
    <2>2. requests' \subseteq requests \cup N /\ \A p \in N : RequestOK(p)'
      BY <2>1, <1>4, <1>8
    <2>3. ASSUME NEW s \in requests', s.kind = "prepare"
          PROVE  /\ ~tab[s.tab].ready
                 /\ cookies.token # None =>
                      s.token = cookies.token \/ tokens[cookies.token].by # s.tab
      BY <2>3, <1>1, <1>3, <1>4, <1>10 DEF IInv, PrepareOK
    <2>4. ASSUME NEW s \in requests', s.kind = "prepare", NEW p \in requests', p.tab = s.tab
          PROVE  p.kind # "login" /\ (p.kind = "prepare" => p = s)
      <3>1. CASE s = q
        BY <3>1, <2>4, <1>1, <1>3, <1>4, <1>10 DEF PrepareOK
      <3>2. CASE s # q
        <4>1. s \in requests /\ s # r /\ PrepareOK(s)
          BY <3>2, <1>4 DEF IInv
        <4>2. s.tab # r.tab
          BY <4>1, <2>4, <1>1, <1>10 DEF PrepareOK
        <4>3. p \in requests
          BY <4>2, <2>4, <1>3, <1>4
        <4>. QED BY <4>1, <4>3, <2>4 DEF PrepareOK
      <3>. QED BY <3>1, <3>2
    <2>5. \A s \in requests' : PrepareOK(s)'
      BY <2>3, <2>4, <1>4 DEF PrepareOK
    <2>. QED BY <2>2, <2>5, <1>4, <1>5, <1>6, <1>7, RequestsStep DEF CookiesMove, TabsMove
  <1>. QED BY <1>9, <1>10

LEMMA CallFailsStep ==
  ASSUME IInv, NEW r \in requests, CallFails(r), tokens' = tokens
  PROVE  IInv'
  <1>1. PICK reply \in {"unauthorised", "failed"} : Answer(r, reply, {})
    BY DEF CallFails
  <1>2. reply \in Replies /\ reply \notin {"ok", "listed"}
    BY <1>1 DEF Replies
  <1>. QED BY <1>1, <1>2, AnswerStep

LEMMA LogoutRouteStep ==
  ASSUME IInv, NEW r \in requests, LogoutRoute(r)
  PROVE  IInv'
  BY AnswerStep DEF LogoutRoute, Replies

LEMMA MembershipsRouteStep ==
  ASSUME IInv, NEW r \in requests, MembershipsRoute(r)
  PROVE  IInv'
  <1>1. r.kind = "discover" /\ tokens' = tokens
    BY DEF MembershipsRoute
  <1>2. CASE CallFails(r)
    BY <1>1, <1>2, CallFailsStep
  <1>3. CASE ~CallFails(r)
    <2>1. PICK reply \in {"unauthorised", "ok"}, options \in SUBSET Tenants :
            Answer(r, reply, options)
      <3>1. TenantsOf(r) \in SUBSET Tenants
        BY DEF TenantsOf
      <3>. QED BY <3>1, <1>3 DEF MembershipsRoute
    <2>2. reply \in Replies
      BY <2>1 DEF Replies
    <2>. QED BY <1>1, <2>1, <2>2, AnswerStep
  <1>. QED BY <1>2, <1>3

LEMMA TenantRouteStep ==
  ASSUME IInv, NEW r \in requests, TenantRoute(r)
  PROVE  IInv'
  <1>1. r.kind \in {"select", "switch"} /\ tokens' = tokens
    BY DEF TenantRoute
  <1>2. CASE CallFails(r)
    BY <1>1, <1>2, CallFailsStep
  <1>3. CASE ~CallFails(r)
    <2>1. PICK reply \in {"unauthorised", "listed", "forbidden", "ok"} : Answer(r, reply, {})
      BY <1>3 DEF TenantRoute
    <2>2. reply \in Replies
      BY <2>1 DEF Replies
    <2>. QED BY <1>1, <2>1, <2>2, AnswerStep
  <1>. QED BY <1>2, <1>3

LEMMA SignInPageStep ==
  ASSUME IInv, NEW r \in requests, SignInPage(r)
  PROVE  IInv'
  <1>1. r.kind = "page" /\ r.asked = "/sign-in" /\ tokens' = tokens
    BY DEF SignInPage, Page
  <1>2. PICK reply \in {"/", "ok"} : Answer(r, reply, {})
    BY DEF SignInPage
  <1>3. reply \in Replies
    BY <1>2 DEF Replies, Paths
  <1>. QED BY <1>1, <1>2, <1>3, AnswerStep

LEMMA SelectTenantPageStep ==
  ASSUME IInv, NEW r \in requests, SelectTenantPage(r)
  PROVE  IInv'
  <1>1. r.kind = "page" /\ r.asked = "/select-tenant" /\ tokens' = tokens
    BY DEF SelectTenantPage, Page
  <1>2. PICK reply \in {"/sign-in", "ok", "failed"} : Answer(r, reply, {})
    BY DEF SelectTenantPage
  <1>3. reply \in Replies
    BY <1>2 DEF Replies, Paths
  <1>. QED BY <1>1, <1>2, <1>3, AnswerStep

LEMMA AuthenticatedLayoutStep ==
  ASSUME IInv, NEW r \in requests, AuthenticatedLayout(r)
  PROVE  IInv'
  <1>1. r.kind = "page" /\ r.asked = "/" /\ tokens' = tokens
    BY DEF AuthenticatedLayout, Page
  <1>2. r \in RequestType /\ RequestOK(r)
    BY DEF IInv, TypeOK
  <1>3. PICK reply \in Replies, options \in SUBSET Tenants :
          /\ Answer(r, reply, options)
          /\ reply \in {"listed", "ok"} =>
               /\ r.token # None
               /\ r.reply = "pending" => r.tenant # None /\ IsMember(r, r.tenant)
               /\ r.reply # "pending" => r.reply = "listed"
    <2>1. TenantsOf(r) \in SUBSET Tenants /\ r.options \in SUBSET Tenants
      BY <1>2 DEF TenantsOf, RequestType
    <2>2. {"listed", "ok", "/sign-in", "/select-tenant", "failed"} \subseteq Replies
      BY DEF Replies, Paths
    <2>. QED BY <2>1, <2>2 DEF AuthenticatedLayout, Authenticates
  <1>4. reply \in {"listed", "ok"} => Authorised(r)
    BY <1>1, <1>2, <1>3 DEF RequestOK, PageOK, Authorised, IsMember
  <1>. QED BY <1>1, <1>3, <1>4, AnswerStep

LEMMA LoginRouteStep ==
  ASSUME IInv, NEW r \in requests, LoginRoute(r)
  PROVE  IInv'
  <1>1. r \in RequestType /\ RequestOK(r) /\ r.kind = "login"
    BY DEF IInv, TypeOK, LoginRoute
  <1>2. CASE tokens' = tokens /\ \E reply \in {"unauthorised", "failed"} : Answer(r, reply, {})
    <2>1. PICK reply \in {"unauthorised", "failed"} : Answer(r, reply, {})
      BY <1>2
    <2>2. reply \in Replies /\ reply # "ok"
      BY <2>1 DEF Replies
    <2>. QED BY <1>1, <1>2, <2>1, <2>2, AnswerStep
  <1>3. CASE /\ Len(tokens) < MaxTokens
             /\ tokens' = Append(tokens, [user |-> r.asked, by |-> r.tab, expired |-> FALSE])
             /\ requests' = (requests \ {r})
                            \cup {[r EXCEPT !.reply = "ok", !.token = Len(tokens) + 1]}
             /\ UNCHANGED <<memberships, changes, cookies, tab>>
    <2>1. PICK token : token = [user |-> r.asked, by |-> r.tab, expired |-> FALSE]
      OBVIOUS
    <2>2. token \in TokenType /\ token.by = r.tab
      BY <2>1, <1>1 DEF TokenType, RequestOK, LoginOK, RequestType
    <2>3. PICK k \in 1..MaxTokens : k = Len(tokens) + 1
      BY <1>3, MaxTokensAssumption DEF IInv, TypeOK
    <2>4. TokensKept /\ k \in DOMAIN tokens' /\ tokens'[k] = token
      BY <1>3, <2>1, <2>2, <2>3, MaxTokensAssumption DEF IInv, TypeOK, TokensKept
    <2>5. PICK q : /\ q = [r EXCEPT !.reply = "ok", !.token = k]
                   /\ requests' = (requests \ {r}) \cup {q}
      BY <1>3, <2>3
    <2>6. /\ q \in RequestType /\ q.tab = r.tab /\ q.kind = "login" /\ q.asked = r.asked
          /\ q.token = k /\ q.held = r.held /\ q.reply = "ok"
      BY <1>1, <2>5 DEF RequestType, Replies
    <2>7. k # None
      BY NoneAssumption
    <2>8. tokens'[q.token].by = q.tab
      BY <2>2, <2>4, <2>6
    <2>9. RequestOK(q)'
      BY <1>1, <1>3, <2>7, <2>8, <2>4, <2>6 DEF RequestOK, PageOK, LoginOK, TokenOK
    <2>10. CookiesMove
      BY <1>3, <2>4, SameCookies
    <2>11. TabsMove
      BY <1>3, PrepareUnready DEF TabsMove, IInv, TypeOK
    <2>12. \A p \in requests : p.kind = "prepare" => p.tab # q.tab
      BY <1>1, <2>6 DEF IInv, PrepareOK
    <2>. QED BY <1>3, <2>4, <2>5, <2>6, <2>9, <2>10, <2>11, <2>12, SendStep
  <1>. QED BY <1>2, <1>3 DEF LoginRoute

LEMMA ServerStep ==
  ASSUME IInv, NEW r \in requests, Server(r)
  PROVE  IInv'
  BY LogoutRouteStep, LoginRouteStep, MembershipsRouteStep, TenantRouteStep, SignInPageStep,
     SelectTenantPageStep, AuthenticatedLayoutStep DEF Server

-----------------------------------------------------------------------------
(* The browser. *)

(* A response leaves the token, drops it, or sets one of its own tab. *)
LEMMA CookiesAfterTyped ==
  ASSUME IInv, NEW r \in requests
  PROVE  /\ CookiesAfter(r) \in CookiesType
         /\ TokenOK(CookiesAfter(r).token)
         /\ \/ CookiesAfter(r).token \in {cookies.token, None}
            \/ r.kind = "login" /\ tokens[CookiesAfter(r).token].by = r.tab
  <1>1. /\ r \in RequestType /\ RequestOK(r) /\ cookies \in CookiesType /\ TokenOK(cookies.token)
    BY DEF IInv, TypeOK
  <1>2. NoCookies \in CookiesType /\ NoCookies.token = None /\ TokenOK(None)
    BY DEF NoCookies, CookiesType, TokenOK
  <1>3. CASE r.kind = "login" /\ r.reply = "ok"
    <2>1. CookiesAfter(r) = [token |-> r.token, tenant |-> None]
      BY <1>3 DEF CookiesAfter
    <2>. QED BY <2>1, <1>1, <1>3 DEF RequestOK, LoginOK, CookiesType, RequestType
  <1>4. CASE r.kind \in {"select", "switch"} /\ r.reply = "ok"
    <2>1. CookiesAfter(r) = [cookies EXCEPT !.tenant = r.asked]
      BY <1>4 DEF CookiesAfter
    <2>. QED BY <2>1, <1>1, <1>4 DEF RequestOK, CookiesType
  <1>5. CASE ~(r.kind = "login" /\ r.reply = "ok") /\ ~(r.kind \in {"select", "switch"} /\ r.reply = "ok")
    <2>1. CookiesAfter(r) \in {cookies, NoCookies}
      BY <1>5 DEF CookiesAfter
    <2>. QED BY <2>1, <1>1, <1>2
  <1>. QED BY <1>3, <1>4, <1>5

LEMMA ResponseCookies ==
  ASSUME IInv, NEW r \in requests, cookies' = CookiesAfter(r), tokens' = tokens
  PROVE  CookiesMove
  <1>1. TokenOK(cookies.token)' /\ cookies' \in CookiesType
    BY CookiesAfterTyped DEF TokenOK
  <1>2. r.kind = "login" => \A p \in requests : p.kind = "prepare" => p.tab # r.tab
    BY DEF IInv, PrepareOK
  <1>. QED BY <1>1, <1>2, CookiesAfterTyped DEF CookiesMove

LEMMA GoToStep ==
  ASSUME IInv, NEW r \in requests, NEW path \in Paths, GoTo(r, path)
  PROVE  IInv'
  <1>1. PICK jar \in CookiesType : jar = CookiesAfter(r) /\ TokenOK(jar.token)
    BY CookiesAfterTyped
  <1>2. PICK q : q = Request(r.tab, "page", path, jar)
    OBVIOUS
  <1>3. /\ requests' \subseteq requests \cup {q}
        /\ cookies' = jar
        /\ UNCHANGED <<memberships, changes, tokens, tab>>
    BY <1>1, <1>2 DEF GoTo, Load
  <1>4. r.tab \in Tabs
    BY DEF IInv, TypeOK, RequestType
  <1>5. /\ q \in RequestType
        /\ q.tab = r.tab /\ q.kind = "page" /\ q.asked = path /\ q.reply = "pending"
        /\ q.held = memberships /\ q.token \in {None, jar.token}
    BY <1>2, <1>4, NewRequest DEF IInv, Kinds
  <1>6. TokensKept
    BY <1>3, SameTokens DEF IInv
  <1>7. RequestOK(q)'
    BY <1>1, <1>3, <1>5 DEF RequestOK, TokenOK, PageOK, LoginOK
  <1>8. CookiesMove
    BY <1>1, <1>3, ResponseCookies
  <1>9. TabsMove
    BY <1>3, PrepareUnready DEF TabsMove, IInv, TypeOK
  <1>. QED BY <1>3, <1>5, <1>6, <1>7, <1>8, <1>9, SendStep

LEMMA StayStep ==
  ASSUME IInv, NEW r \in requests, NEW x \in TabType, Stay(r, x), ShowsOK(x),
         r.kind = "prepare" \/ x.ready = tab[r.tab].ready
  PROVE  IInv'
  <1>1. /\ requests' = requests \ {r}
        /\ cookies' = CookiesAfter(r)
        /\ tab' = [tab EXCEPT ![r.tab] = x]
        /\ UNCHANGED <<memberships, changes, tokens>>
    BY DEF Stay
  <1>2. r.tab \in Tabs
    BY DEF IInv, TypeOK, RequestType
  <1>3. /\ tab' \in [Tabs -> TabType]
        /\ \A u \in Tabs : ShowsOK(tab'[u])
        /\ tab'[r.tab] = x
        /\ \A u \in Tabs \ {r.tab} : tab'[u] = tab[u]
    BY <1>1, <1>2, TabStep
  <1>4. TokensKept
    BY <1>1, SameTokens DEF IInv
  <1>5. CookiesMove
    BY <1>1, ResponseCookies
  <1>6. ASSUME NEW s \in requests, s \in requests', s.kind = "prepare"
        PROVE  ~tab'[s.tab].ready
    <2>1. s.tab \in Tabs /\ ~tab[s.tab].ready
      BY <1>6, PrepareUnready
    <2>2. s.tab = r.tab => r.kind # "prepare"
      BY <1>1, <1>6 DEF IInv, PrepareOK
    <2>. QED BY <2>1, <2>2, <1>3
  <1>7. TabsMove
    BY <1>3, <1>6 DEF TabsMove
  <1>. QED BY <1>1, <1>4, <1>5, <1>7, DropStep

LEMMA ReceiveStep ==
  ASSUME IInv, NEW r \in requests,
         \/ FollowRedirect(r) \/ Prepared(r) \/ LoggedIn(r)
         \/ Discovered(r) \/ Selected(r) \/ Switched(r) \/ SignedOut(r)
  PROVE  IInv'
  <1>1. CASE \E path \in Paths : GoTo(r, path)
    BY <1>1, GoToStep
  <1>2. /\ r.tab \in Tabs /\ tab[r.tab] \in TabType /\ ShowsOK(tab[r.tab])
        /\ r.options \in SUBSET Tenants
    BY DEF IInv, TypeOK, RequestType
  <1>3. CASE Stay(r, tab[r.tab])
    <2>1. PICK x \in TabType : x = tab[r.tab]
      BY <1>2
    <2>. QED BY <2>1, <1>2, <1>3, StayStep DEF ShowsOK
  <1>4. CASE Prepared(r)
    <2>1. PICK x : x = [tab[r.tab] EXCEPT !.ready = TRUE]
      OBVIOUS
    <2>2. /\ x \in TabType /\ x.page = tab[r.tab].page /\ x.user = tab[r.tab].user
          /\ x.tenant = tab[r.tab].tenant /\ x.options = tab[r.tab].options
      BY <2>1, <1>2 DEF TabType
    <2>3. Stay(r, x) /\ r.kind = "prepare"
      BY <2>1, <1>4 DEF Prepared, Answered
    <2>4. ShowsOK(x)
      BY <2>2, <1>2 DEF ShowsOK
    <2>. QED BY <2>2, <2>3, <2>4, StayStep
  <1>5. CASE Stay(r, [tab[r.tab] EXCEPT !.options = r.options])
    <2>1. PICK x : x = [tab[r.tab] EXCEPT !.options = r.options]
      OBVIOUS
    <2>2. /\ x \in TabType /\ x.page = tab[r.tab].page /\ x.user = tab[r.tab].user
          /\ x.tenant = tab[r.tab].tenant /\ x.options = r.options /\ x.ready = tab[r.tab].ready
      BY <2>1, <1>2 DEF TabType
    <2>3. ShowsOK(x)
      BY <2>2, <1>2 DEF ShowsOK
    <2>. QED BY <2>1, <2>2, <2>3, <1>5, StayStep
  <1>6. CASE Stay(r, [tab[r.tab] EXCEPT !.switchFailed = TRUE])
    <2>1. PICK x : x = [tab[r.tab] EXCEPT !.switchFailed = TRUE]
      OBVIOUS
    <2>2. /\ x \in TabType /\ x.page = tab[r.tab].page /\ x.user = tab[r.tab].user
          /\ x.tenant = tab[r.tab].tenant /\ x.options = tab[r.tab].options
          /\ x.ready = tab[r.tab].ready
      BY <2>1, <1>2 DEF TabType
    <2>3. ShowsOK(x)
      BY <2>2, <1>2 DEF ShowsOK
    <2>. QED BY <2>1, <2>2, <2>3, <1>6, StayStep
  <1>7. \/ \E path \in Paths : GoTo(r, path)
        \/ Prepared(r)
        \/ Stay(r, tab[r.tab])
        \/ Stay(r, [tab[r.tab] EXCEPT !.options = r.options])
        \/ Stay(r, [tab[r.tab] EXCEPT !.switchFailed = TRUE])
    BY DEF FollowRedirect, LoggedIn, Discovered, Selected, Switched, SignedOut, Paths
  <1>. QED BY <1>1, <1>3, <1>4, <1>5, <1>6, <1>7

(* The page that replaces another one: the requests of its tab are those   *)
(* it sends itself.                                                        *)
LEMMA RenderStep ==
  ASSUME IInv, NEW r \in requests, NEW x \in TabType, NEW kinds \in {{}, {"prepare"}, {"discover"}},
         Render(r, x, kinds), ShowsOK(x), ~x.ready
  PROVE  IInv'
  <1>1. /\ tab' = [tab EXCEPT ![r.tab] = x]
        /\ requests' = {s \in requests : s.tab # r.tab}
                       \cup {Request(r.tab, kind, None, cookies) : kind \in kinds}
        /\ UNCHANGED <<memberships, changes, tokens, cookies>>
    BY DEF Render
  <1>2. PICK t \in Tabs : t = r.tab
    BY DEF IInv, TypeOK, RequestType
  <1>3. /\ tab' \in [Tabs -> TabType]
        /\ \A u \in Tabs : ShowsOK(tab'[u])
        /\ tab'[t] = x
        /\ \A u \in Tabs \ {t} : tab'[u] = tab[u]
    BY <1>1, <1>2, TabStep
  <1>4. TokensKept
    BY <1>1, SameTokens DEF IInv
  <1>5. CookiesMove
    BY <1>1, <1>4, SameCookies
  <1>6. \A s \in requests : s.kind = "prepare" => ~tab'[s.tab].ready
    BY <1>3, PrepareUnready
  <1>7. TabsMove
    BY <1>3, <1>6 DEF TabsMove
  <1>8. CASE kinds = {}
    <2>1. requests' \subseteq requests
      BY <1>1, <1>8
    <2>. QED BY <2>1, <1>1, <1>4, <1>5, <1>7, DropStep
  <1>9. ASSUME NEW kind \in {"prepare", "discover"}, kinds = {kind}
        PROVE  IInv'
    <2>1. PICK jar \in CookiesType : jar = cookies
      BY DEF IInv, TypeOK
    <2>2. PICK q : q = Request(t, kind, None, jar)
      OBVIOUS
    <2>3. requests' = {s \in requests : s.tab # t} \cup {q}
      BY <2>1, <2>2, <1>1, <1>2, <1>9
    <2>4. kind \in Kinds
      BY DEF Kinds
    <2>5. /\ q \in RequestType
          /\ q.tab = t /\ q.kind = kind /\ q.held = memberships
          /\ q.token \in {None, jar.token} /\ (kind = "prepare" => q.token = jar.token)
      BY <2>2, <2>4, NewRequest DEF IInv
    <2>6. RequestOK(q)'
      BY <2>1, <2>5, <1>1 DEF IInv, RequestOK, TokenOK, PageOK, LoginOK
    <2>7. CASE kind = "discover"
      BY <2>3, <2>5, <2>6, <2>7, <1>1, <1>4, <1>5, <1>7, SendStep
    <2>8. CASE kind = "prepare"
      <3>1. PICK N \in SUBSET RequestType : N = {q}
        BY <2>5
      <3>2. requests' \subseteq requests \cup N /\ \A p \in N : RequestOK(p)'
        BY <3>1, <2>3, <2>6
      <3>3. PrepareOK(q)'
        BY <2>1, <2>3, <2>5, <2>8, <1>1, <1>3 DEF PrepareOK
      <3>4. ASSUME NEW s \in requests, s \in requests', s.tab # t
            PROVE  PrepareOK(s)'
        <4>1. s.kind = "prepare" => ~tab'[s.tab].ready
          BY <1>6
        <4>. QED BY <4>1, <3>4, <2>3, <2>5, <1>1 DEF IInv, PrepareOK
      <3>5. \A s \in requests' : PrepareOK(s)'
        BY <3>3, <3>4, <2>3
      <3>. QED BY <3>2, <3>5, <1>1, <1>4, <1>5, <1>7, RequestsStep DEF CookiesMove, TabsMove
    <2>. QED BY <2>7, <2>8
  <1>. QED BY <1>8, <1>9

LEMMA RenderPageStep ==
  ASSUME IInv, NEW r \in requests, RenderPage(r)
  PROVE  IInv'
  <1>1. /\ r \in RequestType /\ RequestOK(r) /\ r.kind = "page" /\ r.tab \in Tabs
    BY DEF IInv, TypeOK, RenderPage, Answered, RequestType
  <1>2. PICK n \in 0..MaxSteps : n = tab[r.tab].entered
    BY <1>1 DEF IInv, TypeOK, TabType
  <1>3. ASSUME NEW page \in {"signIn", "selectTenant", "error"}
        PROVE  /\ Shows(page, n) \in TabType
               /\ ShowsOK(Shows(page, n)) /\ ~Shows(page, n).ready
    BY DEF Shows, TabType, ShowsOK
  <1>4. CASE r.reply = "ok" /\ r.asked = "/" /\
             Render(r, [Shows("workspace", n) EXCEPT !.user = tokens[r.token].user,
                                                     !.tenant = r.tenant,
                                                     !.options = r.options], {})
    <2>1. PICK user \in Users : user = tokens[r.token].user
      <3>1. r.token \in DOMAIN tokens
        BY <1>1, <1>4 DEF RequestOK, PageOK, Authorised, TokenOK
      <3>2. tokens[r.token] \in TokenType
        BY <3>1 DEF IInv, TypeOK
      <3>. QED BY <3>2 DEF TokenType
    <2>2. PICK tenant \in Tenants : tenant = r.tenant
      BY <1>1, <1>4 DEF RequestType, RequestOK, PageOK, Authorised
    <2>3. PICK options \in SUBSET Tenants : options = r.options
      BY <1>1 DEF RequestType
    <2>4. PICK b : b = Shows("workspace", n)
      OBVIOUS
    <2>5. b \in TabType /\ b.page = "workspace" /\ ~b.ready
      BY <2>4 DEF Shows, TabType
    <2>6. PICK x : x = [b EXCEPT !.user = user, !.tenant = tenant, !.options = options]
      OBVIOUS
    <2>7. x \in TabType /\ x.user = user /\ x.tenant = tenant /\ x.options = options /\ ~x.ready
      BY <2>5, <2>6 DEF TabType
    <2>8. ShowsOK(x)
      BY <2>7, NoneAssumption DEF ShowsOK
    <2>9. Render(r, x, {})
      BY <2>1, <2>2, <2>3, <2>4, <2>6, <1>4
    <2>. QED BY <2>7, <2>8, <2>9, RenderStep
  <1>5. ASSUME NEW page \in {"signIn", "selectTenant", "error"},
               NEW kinds \in {{}, {"prepare"}, {"discover"}}, Render(r, Shows(page, n), kinds)
        PROVE  IInv'
    <2>1. PICK x : x = Shows(page, n)
      OBVIOUS
    <2>. QED BY <2>1, <1>3, <1>5, RenderStep
  <1>. QED BY <1>2, <1>4, <1>5 DEF RenderPage

-----------------------------------------------------------------------------
(* Outside. *)

LEMMA ExpireStep ==
  ASSUME IInv, Expire
  PROVE  IInv'
  <1>1. PICK k \in DOMAIN tokens : tokens' = [tokens EXCEPT ![k].expired = TRUE]
    BY DEF Expire
  <1>2. UNCHANGED <<memberships, changes, cookies, tab, requests>>
    BY DEF Expire
  <1>3. PICK token \in TokenType : token = tokens[k]
    BY <1>1 DEF IInv, TypeOK
  <1>4. PICK expired : expired = [token EXCEPT !.expired = TRUE]
    OBVIOUS
  <1>5. expired \in TokenType /\ expired.user = token.user /\ expired.by = token.by
    BY <1>4 DEF TokenType
  <1>6. tokens' = [tokens EXCEPT ![k] = expired]
    BY <1>1, <1>3, <1>4 DEF IInv, TypeOK
  <1>7. TokensKept
    <2>1. tokens \in Seq(TokenType) /\ Len(tokens) <= MaxTokens
      BY DEF IInv, TypeOK
    <2>2. tokens' \in Seq(TokenType) /\ Len(tokens') = Len(tokens)
          /\ DOMAIN tokens' = DOMAIN tokens
      <3>1. k \in 1..Len(tokens)
        BY <2>1, <1>1
      <3>. QED BY <3>1, <2>1, <1>5, <1>6
    <2>3. \A i \in DOMAIN tokens : tokens'[i] = IF i = k THEN expired ELSE tokens[i]
      BY <2>1, <1>6
    <2>. QED BY <2>1, <2>2, <2>3, <1>3, <1>5 DEF TokensKept
  <1>8. CookiesMove
    BY <1>2, <1>7, SameCookies
  <1>9. TabsMove
    BY <1>2, PrepareUnready DEF TabsMove, IInv, TypeOK
  <1>. QED BY <1>2, <1>7, <1>8, <1>9, DropStep

(* What was a membership since a request was sent stays one it has held.   *)
LEMMA ChangeMembershipStep ==
  ASSUME IInv, ChangeMembership
  PROVE  IInv'
  <1>1. PICK m \in Users \X Tenants :
          /\ memberships' = IF m \in memberships THEN memberships \ {m} ELSE memberships \cup {m}
          /\ requests' = {[r EXCEPT !.held = @ \cup {m}] : r \in requests}
          /\ UNCHANGED <<tokens, cookies, tab>>
    BY DEF ChangeMembership
  <1>2. changes' \in 0..MaxChanges
    BY MaxChangesAssumption DEF ChangeMembership, IInv, TypeOK
  <1>3. memberships' \subseteq Users \X Tenants /\ memberships' \subseteq memberships \cup {m}
    BY <1>1 DEF IInv, TypeOK
  <1>4. ASSUME NEW q \in requests'
        PROVE  \E r \in requests :
                 /\ r \in RequestType /\ q = [r EXCEPT !.held = @ \cup {m}]
                 /\ q \in RequestType /\ q.tab = r.tab /\ q.kind = r.kind /\ q.asked = r.asked
                 /\ q.token = r.token /\ q.tenant = r.tenant /\ q.reply = r.reply
                 /\ q.held = r.held \cup {m}
    <2>1. PICK r \in requests : q = [r EXCEPT !.held = @ \cup {m}]
      BY <1>1, <1>4
    <2>2. r \in RequestType
      BY DEF IInv, TypeOK
    <2>. QED BY <2>1, <2>2 DEF RequestType
  <1>5. TypeOK'
    <2>1. requests' \subseteq RequestType
      BY <1>4
    <2>. QED BY <2>1, <1>1, <1>2, <1>3 DEF IInv, TypeOK
  <1>6. ASSUME NEW q \in requests'
        PROVE  RequestOK(q)'
    <2>1. PICK r \in requests :
            /\ q.tab = r.tab /\ q.kind = r.kind /\ q.asked = r.asked
            /\ q.token = r.token /\ q.tenant = r.tenant /\ q.reply = r.reply
            /\ q.held = r.held \cup {m}
      BY <1>4
    <2>2. RequestOK(r)
      BY DEF IInv
    <2>3. memberships' \subseteq q.held
      BY <2>1, <2>2, <1>3 DEF RequestOK
    <2>. QED BY <2>1, <2>2, <2>3, <1>1 DEF RequestOK, TokenOK, PageOK, LoginOK, Authorised
  <1>7. ASSUME NEW q \in requests', q.kind = "prepare"
        PROVE  PrepareOK(q)'
    <2>1. PICK r \in requests :
            /\ q = [r EXCEPT !.held = @ \cup {m}]
            /\ q.tab = r.tab /\ q.kind = r.kind /\ q.token = r.token
      BY <1>4
    <2>2. PrepareOK(r)
      BY DEF IInv
    <2>3. ASSUME NEW s \in requests', s.tab = q.tab
          PROVE  s.kind # "login" /\ (s.kind = "prepare" => s = q)
      <3>1. PICK p \in requests : /\ s = [p EXCEPT !.held = @ \cup {m}]
                                 /\ s.tab = p.tab /\ s.kind = p.kind
        BY <1>4
      <3>2. p.kind # "login" /\ (p.kind = "prepare" => p = r)
        BY <3>1, <2>1, <2>2, <2>3, <1>7 DEF PrepareOK
      <3>. QED BY <3>1, <3>2, <2>1
    <2>. QED BY <2>1, <2>2, <2>3, <1>1, <1>7 DEF PrepareOK
  <1>8. \A q \in requests' : PrepareOK(q)'
    BY <1>7 DEF PrepareOK
  <1>. QED BY <1>1, <1>5, <1>6, <1>8 DEF IInv, TokenOK

LEMMA StutterStep ==
  ASSUME IInv, UNCHANGED vars
  PROVE  IInv'
  BY DEF IInv, vars, TypeOK, TokenOK, ShowsOK, RequestOK, PageOK, LoginOK, PrepareOK, Authorised

-----------------------------------------------------------------------------

LEMMA InitInv == Init => IInv
  <1>. SUFFICES ASSUME Init PROVE IInv
    OBVIOUS
  <1>1. cookies \in CookiesType /\ TokenOK(cookies.token)
    BY DEF Init, NoCookies, CookiesType, TokenOK
  <1>2. Shows("none", 0) \in TabType /\ Shows("none", 0).page = "none"
    BY MaxStepsAssumption DEF Shows, TabType
  <1>3. tab \in [Tabs -> TabType] /\ \A t \in Tabs : tab[t].page = "none"
    BY <1>2 DEF Init
  <1>4. tokens \in Seq(TokenType) /\ Len(tokens) <= MaxTokens /\ changes \in 0..MaxChanges
    BY MaxTokensAssumption, MaxChangesAssumption DEF Init
  <1>. QED BY <1>1, <1>3, <1>4 DEF Init, IInv, TypeOK, ShowsOK

LEMMA StepInv == IInv /\ [Next]_vars => IInv'
  <1>. SUFFICES ASSUME IInv, [Next]_vars PROVE IInv'
    OBVIOUS
  <1>1. CASE Expire \/ ChangeMembership
    BY <1>1, ExpireStep, ChangeMembershipStep
  <1>2. ASSUME NEW t \in Tabs,
               \/ \E path \in Paths : Open(t, path)
               \/ Submit(t) \/ Discover(t) \/ SelectTenant(t) \/ SwitchTenant(t) \/ SignOut(t)
               \/ \E kind \in Kinds : Abort(t, kind)
        PROVE  IInv'
    BY <1>2, OpenStep, SubmitStep, DiscoverStep, SelectTenantStep, SwitchTenantStep, AbortStep
  <1>3. ASSUME NEW r \in requests, Server(r)
        PROVE  IInv'
    BY <1>3, ServerStep
  <1>4. ASSUME NEW r \in requests, Receive(r)
        PROVE  IInv'
    BY <1>4, ReceiveStep, RenderPageStep DEF Receive
  <1>5. CASE UNCHANGED vars
    BY <1>5, StutterStep
  <1>. QED BY <1>1, <1>2, <1>3, <1>4, <1>5 DEF Next

LEMMA Invariance == Spec => []IInv
  BY InitInv, StepInv, PTL DEF Spec

(* The tenant and user of a page change only with the page. *)
LEMMA RenderingAuthorised ==
  ASSUME IInv, NEW r \in requests, RenderPage(r), NEW t \in Tabs, tab'[t].page = "workspace",
         <<tab'[t].user, tab'[t].tenant>> # <<tab[t].user, tab[t].tenant>>
  PROVE  \E q \in InFlight(t, {"page"}) : <<tab'[t].user, tab'[t].tenant>> \in q.held
  <1>1. /\ RequestOK(r) /\ r.kind = "page"
        /\ tab \in [Tabs -> TabType]
    BY DEF IInv, TypeOK, RenderPage, Answered
  <1>2. PICK x, kinds :
          /\ Render(r, x, kinds)
          /\ x.page = "workspace" =>
               /\ r.reply = "ok" /\ r.asked = "/"
               /\ x.user = tokens[r.token].user /\ x.tenant = r.tenant
    <2>1. PICK n : n = tab[r.tab].entered
      OBVIOUS
    <2>2. ASSUME NEW page \in {"signIn", "selectTenant", "error"}, NEW kinds,
                 Render(r, Shows(page, n), kinds)
          PROVE  \E x : Render(r, x, kinds) /\ x.page # "workspace"
      <3>1. Shows(page, n).page # "workspace"
        BY DEF Shows
      <3>. QED BY <3>1, <2>2
    <2>3. ASSUME r.reply = "ok", r.asked = "/",
                 Render(r, [Shows("workspace", n) EXCEPT !.user = tokens[r.token].user,
                                                         !.tenant = r.tenant,
                                                         !.options = r.options], {})
          PROVE  \E x : /\ Render(r, x, {})
                        /\ x.user = tokens[r.token].user /\ x.tenant = r.tenant
      <3>1. PICK x : x = [Shows("workspace", n) EXCEPT !.user = tokens[r.token].user,
                                                       !.tenant = r.tenant,
                                                       !.options = r.options]
        OBVIOUS
      <3>2. x.user = tokens[r.token].user /\ x.tenant = r.tenant
        BY <3>1 DEF Shows
      <3>. QED BY <3>1, <3>2, <2>3
    <2>. QED BY <2>1, <2>2, <2>3 DEF RenderPage
  <1>3. t = r.tab /\ tab'[t] = x
    BY <1>1, <1>2 DEF Render
  <1>4. <<tab'[t].user, tab'[t].tenant>> \in r.held
    BY <1>1, <1>2, <1>3 DEF RequestOK, PageOK, Authorised
  <1>5. r \in InFlight(t, {"page"})
    BY <1>1, <1>3 DEF InFlight
  <1>. QED BY <1>4, <1>5

LEMMA SameWorkspace ==
  ASSUME IInv, NEW u \in Tabs, NEW x, tab' = [tab EXCEPT ![u] = x],
         x.user = tab[u].user, x.tenant = tab[u].tenant, NEW t \in Tabs
  PROVE  tab'[t].user = tab[t].user /\ tab'[t].tenant = tab[t].tenant
  BY DEF IInv, TypeOK

LEMMA UserKeepsWorkspace ==
  ASSUME IInv, NEW u \in Tabs, NEW t \in Tabs,
         \/ \E path \in Paths : Open(u, path)
         \/ Submit(u) \/ Discover(u) \/ SelectTenant(u) \/ SwitchTenant(u) \/ SignOut(u)
         \/ \E kind \in Kinds : Abort(u, kind)
  PROVE  tab'[t].user = tab[t].user /\ tab'[t].tenant = tab[t].tenant
  <1>1. tab[u] \in TabType
    BY DEF IInv, TypeOK
  <1>2. CASE tab' = tab
    BY <1>2
  <1>3. ASSUME NEW path \in Paths, Open(u, path)
        PROVE  tab'[t].user = tab[t].user /\ tab'[t].tenant = tab[t].tenant
    <2>1. PICK n : n = tab[u].entered + 1
      OBVIOUS
    <2>2. PICK x : x = [tab[u] EXCEPT !.entered = n] /\ tab' = [tab EXCEPT ![u] = x]
      BY <2>1, <1>3 DEF Open
    <2>3. x.user = tab[u].user /\ x.tenant = tab[u].tenant
      BY <2>2, <1>1 DEF TabType
    <2>. QED BY <2>2, <2>3, SameWorkspace
  <1>4. CASE SwitchTenant(u)
    <2>1. PICK x : x = [tab[u] EXCEPT !.switchFailed = FALSE] /\ tab' = [tab EXCEPT ![u] = x]
      BY <1>4 DEF SwitchTenant
    <2>2. x.user = tab[u].user /\ x.tenant = tab[u].tenant
      BY <2>1, <1>1 DEF TabType
    <2>. QED BY <2>1, <2>2, SameWorkspace
  <1>5. ASSUME NEW kind \in Kinds, Abort(u, kind)
        PROVE  tab'[t].user = tab[t].user /\ tab'[t].tenant = tab[t].tenant
    <2>1. tab' = [tab EXCEPT ![u].ready = @ \/ kind = "prepare",
                             ![u].switchFailed = @ \/ kind = "switch"]
      BY <1>5 DEF Abort
    <2>2. PICK ready \in BOOLEAN, failed \in BOOLEAN :
            /\ ready = (tab[u].ready \/ kind = "prepare")
            /\ failed = (tab[u].switchFailed \/ kind = "switch")
      OBVIOUS
    <2>3. PICK x : /\ x = [tab[u] EXCEPT !.ready = ready, !.switchFailed = failed]
                   /\ tab' = [tab EXCEPT ![u] = x]
      BY <2>1, <2>2 DEF IInv, TypeOK
    <2>4. x.user = tab[u].user /\ x.tenant = tab[u].tenant
      BY <2>3, <1>1 DEF TabType
    <2>. QED BY <2>3, <2>4, SameWorkspace
  <1>. QED BY <1>2, <1>3, <1>4, <1>5 DEF Submit, Discover, SelectTenant, SignOut

LEMMA ServerKeepsTabs ==
  ASSUME NEW r \in requests, Server(r)
  PROVE  tab' = tab
  <1>1. \A reply, options : Answer(r, reply, options) => tab' = tab
    BY DEF Answer
  <1>. QED BY <1>1 DEF Server, LogoutRoute, LoginRoute, MembershipsRoute, TenantRoute, CallFails,
                       SignInPage, SelectTenantPage, AuthenticatedLayout

LEMMA ReceiveKeepsWorkspace ==
  ASSUME IInv, NEW r \in requests, Receive(r), ~RenderPage(r), NEW t \in Tabs
  PROVE  tab'[t].user = tab[t].user /\ tab'[t].tenant = tab[t].tenant
  <1>1. r.tab \in Tabs /\ tab[r.tab] \in TabType
    BY DEF IInv, TypeOK, RequestType
  <1>2. CASE \E path : GoTo(r, path)
    BY <1>2 DEF GoTo
  <1>3. \A x : Stay(r, x) => tab' = [tab EXCEPT ![r.tab] = x]
    BY DEF Stay
  <1>4. ASSUME NEW x \in {tab[r.tab], [tab[r.tab] EXCEPT !.ready = TRUE],
                         [tab[r.tab] EXCEPT !.options = r.options],
                         [tab[r.tab] EXCEPT !.switchFailed = TRUE]}, Stay(r, x)
        PROVE  tab'[t].user = tab[t].user /\ tab'[t].tenant = tab[t].tenant
    <2>1. x.user = tab[r.tab].user /\ x.tenant = tab[r.tab].tenant
      BY <1>1, <1>4 DEF TabType
    <2>. QED BY <2>1, <1>1, <1>3, <1>4, SameWorkspace
  <1>5. \/ \E path : GoTo(r, path)
        \/ Stay(r, [tab[r.tab] EXCEPT !.ready = TRUE])
        \/ Stay(r, tab[r.tab])
        \/ Stay(r, [tab[r.tab] EXCEPT !.options = r.options])
        \/ Stay(r, [tab[r.tab] EXCEPT !.switchFailed = TRUE])
    BY DEF Receive, FollowRedirect, Prepared, LoggedIn, Discovered, Selected, Switched, SignedOut
  <1>. QED BY <1>2, <1>4, <1>5

-----------------------------------------------------------------------------

(* For every set of users, tenants and tabs, the variables have their      *)
(* types; in particular a workspace always has a user and a tenant.        *)
THEOREM Typing == Spec => []TypeOK
  <1>1. IInv => TypeOK
    BY DEF IInv
  <1>. QED BY <1>1, Invariance, PTL

(* However many tabs share the cookies: the logout that sign-in-form.tsx   *)
(* sends as it opens never ends the session that the same form started,    *)
(* for the form is not ready while the logout is in flight.                *)
THEOREM LogoutSparesLogin == Spec => OwnLogoutSparesLogin
  <1>1. ASSUME IInv, NEW r \in requests, r.kind = "prepare", cookies.token # None
        PROVE  r.token = cookies.token \/ tokens[cookies.token].by # r.tab
    BY <1>1 DEF IInv, PrepareOK
  <1>2. IInv => \A r \in requests :
                  (r.kind = "prepare" /\ cookies.token # None /\ cookies'.token = None
                     /\ r \notin requests') =>
                  r.token = cookies.token \/ tokens[cookies.token].by # r.tab
    BY <1>1
  <1>. QED BY <1>2, Invariance, PTL DEF OwnLogoutSparesLogin

(* Whoever is shown a workspace was a member of its tenant while the page  *)
(* was loading, for any number of users whose tokens and tenants the       *)
(* cookies mix: validateTenantSession asks for the membership of the user  *)
(* of the token in the tenant of the cookie.                               *)
THEOREM AuthorisedWorkspaces == Spec => WorkspaceWasAuthorised
  <1>1. ASSUME IInv, [Next]_vars, NEW t \in Tabs, tab'[t].page = "workspace",
               <<tab'[t].user, tab'[t].tenant>> # <<tab[t].user, tab[t].tenant>>
        PROVE  \E r \in InFlight(t, {"page"}) : <<tab'[t].user, tab'[t].tenant>> \in r.held
    <2>1. tab'[t].user # tab[t].user \/ tab'[t].tenant # tab[t].tenant
      BY <1>1
    <2>2. tab' # tab
      BY <2>1
    <2>3. PICK r \in requests : Receive(r)
      BY <2>1, <2>2, <1>1, UserKeepsWorkspace, ServerKeepsTabs
         DEF Next, vars, Expire, ChangeMembership
    <2>4. RenderPage(r)
      BY <2>1, <2>3, <1>1, ReceiveKeepsWorkspace
    <2>. QED BY <2>4, <1>1, RenderingAuthorised
  <1>2. IInv /\ [Next]_vars =>
          \A t \in Tabs :
            LET shown == <<tab'[t].user, tab'[t].tenant>> IN
            tab'[t].page = "workspace" /\ shown # <<tab[t].user, tab[t].tenant>> =>
              \E r \in InFlight(t, {"page"}) : shown \in r.held
    BY <1>1
  <1>. QED BY <1>2, Invariance, PTL DEF Spec, WorkspaceWasAuthorised

=============================================================================
