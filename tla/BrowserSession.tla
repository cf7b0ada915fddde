--------------------------- MODULE BrowserSession ---------------------------
(***************************************************************************)
(* One browser in front of NanoIDP: the tabs of a user who signs on to     *)
(* OAuth clients at /authorize, to SAML service providers at /saml/sso and *)
(* to the administration pages at /login.                                  *)
(*                                                                         *)
(* All of them share one Flask session, and that session is a cookie: a    *)
(* handler works on the copy its request carried, and what it changed      *)
(* comes back with the response.  A request of one tab and the response of *)
(* another can therefore cross, and the last response to arrive decides    *)
(* what the browser holds.  Open and Receive are those two moments; the    *)
(* handler runs at Open, since it reads nothing else that another tab's    *)
(* handler writes.                                                         *)
(*                                                                         *)
(* Credentials are abstracted to whom they authenticate: a user, or None   *)
(* for a missing, an unknown or a wrong pair.                              *)
(***************************************************************************)
EXTENDS Integers, FiniteSets

CONSTANTS
  Tabs,               \* tabs of the browser
  Users,              \* names in users.yaml
  ClerkUser,          \* a name that only Clerk knows
  Registered,         \* client -> the redirect_uris registered for it
  AuthorizeRequests,  \* parameters clients send to /authorize, by field
  SamlRequests,       \* AuthnRequests as the handler parses them
  RelayStates,        \* RelayState values, "" among them
  DefaultAcs,         \* default_acs_url
  Deployments,        \* the installations the runs start from
  None                \* no user, no flow, no field

\* The parameters authorize() reads, each kept in the session as oauth_<name>.
Fields == {"response_type", "client_id", "redirect_uri", "scope", "state",
           "code_challenge", "code_challenge_method", "nonce", "claims"}

ASSUME RequestsAssumption ==
  /\ None \notin Users /\ ClerkUser \notin Users /\ ClerkUser # None
  /\ \A a \in AuthorizeRequests : DOMAIN a \subseteq Fields
  /\ \A q \in SamlRequests : q.signedFor \subseteq RelayStates
  /\ \A q \in SamlRequests : q.deflated \in BOOLEAN /\ q.xmlSigned \in BOOLEAN
  /\ "" \in RelayStates

\* What the handlers read of the settings, and the bounds of a run: what its
\* users do, how many requests they send, and whether every query to /saml/sso
\* names its parameters plainly, as service providers do.
Settings ==
  [profile : {"dev", "stricter-dev", "oauth21"}, requirePkce : BOOLEAN,
   strict : BOOLEAN, wantSigned : BOOLEAN, mayRequire : BOOLEAN,
   clerk : BOOLEAN, plain : BOOLEAN, maxExchanges : Nat,
   visits : SUBSET {"authorize", "form", "saml", "admin", "logout", "clerk"}]

ASSUME DeploymentsAssumption == Deployments \subseteq Settings

VARIABLES
  settings,   \* the deployment's settings that these handlers read
  cookie,     \* the session the browser holds
  page,       \* tab -> what it displays
  awaited,    \* tab -> the response on its way to it, or None
  exchanges,  \* requests sent so far
  flowOpen,   \* an authorization request has not been followed by its code
  loggedOut   \* a logout has been answered, and no login since

vars == <<settings, cookie, page, awaited, exchanges, flowOpen, loggedOut>>

-----------------------------------------------------------------------------
(* The session and its cookie *)

NoSession == [user |-> None, oauth |-> None, saml |-> None]

\* A response without Set-Cookie; the others carry a session.
Keep == None

\* A handler that changed nothing sends the cookie again when the session is
\* permanent, and a session is permanent once it has a user.
Untouched(s) == IF s.user = None THEN Keep ELSE s

SignIn(s, u) == [s EXCEPT !.user = u]

\* Mutant: a logout that forgets what was being asked for, not who asked.
ClearedFlows(s) == [s EXCEPT !.oauth = None, !.saml = None]

\* session.clear(): the cookie is deleted.
Cleared(s) == NoSession

-----------------------------------------------------------------------------
(* /authorize: parameters and their validation *)

DefaultOf(f) == IF f = "scope" THEN "openid" ELSE ""

\* Mutant: the fallback of the session has no default of its own.
EffectiveRaw(args, s) ==
  [f \in Fields |-> IF f \in DOMAIN args THEN args[f]
                    ELSE IF s.oauth = None THEN None ELSE s.oauth[f]]

\* A field of the request, else what the session remembers, else the default.
Effective(args, s) ==
  [f \in Fields |-> IF f \in DOMAIN args THEN args[f]
                    ELSE IF s.oauth = None THEN DefaultOf(f) ELSE s.oauth[f]]

\* Mutant: what an earlier request stored is not overwritten.
RememberFirst(s, p) == IF s.oauth = None THEN [s EXCEPT !.oauth = p] ELSE s

\* A GET stores all nine, before any of them is validated.
Remember(s, p) == [s EXCEPT !.oauth = p]

\* Mutant: the parameters stay in the session once the code is issued.
FinishKeeping(s) == s

Finish(s) == [s EXCEPT !.oauth = None]

PkceRequired == settings.requirePkce \/ settings.profile = "oauth21"
PlainAllowed == settings.profile \notin {"stricter-dev", "oauth21"}

RedirectAllowed(p) ==
  /\ p["redirect_uri"] \notin {"", "relative"}   \* an absolute URL
  /\ LET uris == Registered[p["client_id"]]
     IN IF uris = {} THEN settings.profile # "oauth21"
                     ELSE p["redirect_uri"] \in uris

ChallengeAllowed(p) ==
  LET method == IF p["code_challenge_method"] = "" THEN "plain"
                ELSE p["code_challenge_method"]
  IN IF p["code_challenge"] = "" THEN ~PkceRequired
     ELSE method = "S256" \/ (method = "plain" /\ PlainAllowed)

Acceptable(p) ==
  /\ p["response_type"] = "code"
  /\ p["client_id"] \in DOMAIN Registered
  /\ RedirectAllowed(p)
  /\ ChallengeAllowed(p)

\* Mutant: a login trusts the parameters its page was rendered with.
ValidatedOnGet(method, p) == method = "POST" \/ Acceptable(p)

\* Both methods run every check.
Validated(method, p) == Acceptable(p)

-----------------------------------------------------------------------------
(* Pages *)

Blank == [kind |-> "blank"]
Error == [kind |-> "error"]
Admin == [kind |-> "admin"]
LoginForm == [kind |-> "login"]
LoggedOut == [kind |-> "logged out"]

\* The login page of /authorize.  It shows the client and the scope of
\* `shown'; its form holds a user name and a password only.  The rest is what
\* the properties need to know: the parameters the client itself sent, over
\* which method, whether no other tab has interfered since (quiet) and whether
\* the dialogue began with no other one open (clean).
AuthorizePage(p, own, entry, clean) ==
  [kind |-> "authorize", shown |-> p, own |-> own, entry |-> entry,
   quiet |-> TRUE, clean |-> clean]

\* The redirection to the client that carries a code for p.
CodeFor(p, user, from) ==
  [kind |-> "code", grant |-> p, user |-> user, from |-> from]

\* The login page of /saml/sso, with its hidden fields; `entry' is how the
\* request first came, `attempts' the failed logins since.
SamlLogin(e) ==
  [kind |-> "saml login", request |-> e.request, relay |-> e.relay,
   verb |-> e.method, entry |-> e.entry, attempts |-> e.attempts]

-----------------------------------------------------------------------------
(* Exchanges *)

Busy(t) == awaited[t] # None
OthersBusy(t) == \E u \in Tabs \ {t} : Busy(u)

\* The response on its way to t; `alone' says that no other tab's exchange has
\* overlapped with this one, `login' that the handler signed the user on.
Answer(t, p, s) ==
  [page |-> p, session |-> s, alone |-> ~OthersBusy(t),
   login |-> s # Keep /\ cookie.user = None /\ s.user # None]

NotAlone(a) == IF a = None THEN None ELSE [a EXCEPT !.alone = FALSE]

\* t has sent its request and the handler answered with page p and session s.
Open(t, p, s) ==
  /\ ~Busy(t)
  /\ exchanges < settings.maxExchanges
  /\ exchanges' = exchanges + 1
  /\ awaited' = [u \in Tabs |-> IF u = t THEN Answer(t, p, s)
                                ELSE NotAlone(awaited[u])]
  /\ UNCHANGED <<settings, cookie, loggedOut>>

\* Another authorization request goes out while u's page is displayed.
Overtaken(p) == IF p.kind = "authorize" THEN [p EXCEPT !.quiet = FALSE] ELSE p

AuthorizeGet(t, args) ==
  LET p == Effective(args, cookie)
      fresh == ~flowOpen /\ ~OthersBusy(t)
  IN /\ Open(t, IF Validated("GET", p)
                THEN AuthorizePage(p, Effective(args, NoSession), "GET", fresh)
                ELSE Error,
             Remember(cookie, p))
     /\ page' = [u \in Tabs |-> IF u = t THEN page[u] ELSE Overtaken(page[u])]
     /\ flowOpen' = TRUE

\* A client that sends the request as a form: nothing is stored, and the login
\* page comes back with the complaint that user name and password are missing.
AuthorizeForm(t, args) ==
  LET p == Effective(args, cookie)
  IN /\ Open(t, IF Validated("POST", p)
                THEN AuthorizePage(p, Effective(args, NoSession), "POST", FALSE)
                ELSE Error,
             Untouched(cookie))
     /\ UNCHANGED <<page, flowOpen>>

\* The login form of the displayed page, which carries none of the parameters.
AuthorizeLogin(t, who) ==
  LET p == Effective(<<>>, cookie)
      from == page[t]
  IN /\ from.kind = "authorize"
     /\ \/ /\ ~Validated("POST", p)
           /\ Open(t, Error, Untouched(cookie))
        \/ /\ Validated("POST", p) /\ who = None
           /\ Open(t, [from EXCEPT !.shown = p], Untouched(cookie))
        \/ /\ Validated("POST", p) /\ who \in Users
           /\ Open(t, CodeFor(p, who, from), Finish(cookie))
     /\ UNCHANGED <<page, flowOpen>>

-----------------------------------------------------------------------------
(* /saml/sso: e is the request with its method, its fields and credentials *)

\* e.request and e.relay are the values the handler works with: those of the
\* form, else of the query as Flask decodes it.  e.query is what the raw text
\* of a GET's query spells under the literal parameter names, which is what its
\* signature covers: the request and its RelayState together.  The two are the
\* same in a query that names its parameters plainly; the code compares them
\* nowhere.
QuerySigned(e) == e.query.relay \in e.query.request.signedFor

\* A signature in the document verifies.  Which element of it the signature
\* covers is not asked, and the root element is parsed.
DocumentSigned(e) == e.request.xmlSigned

\* What a GET leaves in the session: the values the handler works with.  `query'
\* is there for the properties, and no guard reads it.
Mark(e) == [request |-> e.request, relay |-> e.relay, query |-> e.query]

\* Mutant: the continuation is recognised by its SAMLRequest alone.
AdmitsSameRequest(e, s) ==
  settings.wantSigned =>
    CASE e.method = "GET" -> QuerySigned(e)
      [] e.method = "POST" /\ e.verb = "GET" ->
           s.saml # None /\ s.saml.request = e.request
      [] OTHER -> DocumentSigned(e)

\* With want_authn_requests_signed: the signature of the query on a GET, what
\* the session verified on the login leg of one, else that of the document.
Admits(e, s) ==
  settings.wantSigned =>
    CASE e.method = "GET" -> QuerySigned(e)
      [] e.method = "POST" /\ e.verb = "GET" ->
           s.saml # None /\ s.saml.request = e.request /\ s.saml.relay = e.relay
      [] OTHER -> DocumentSigned(e)

\* Mutant: the request is parsed for the binding of the login form.
ParsedForLeg(e) == e.method

\* The verb the request is parsed for: the login form's field, if any.
ParsedFor(e) == IF e.verb = None THEN e.method ELSE e.verb

\* Strict parsing inflates a GET and only a GET; lenient parsing tries both.
Readable(e) == settings.strict => ((ParsedFor(e) = "GET") = e.request.deflated)

AcsOf(q) == IF q.acs = "" THEN DefaultAcs ELSE q.acs

\* The verified query an admitted request goes back to, if it needs one.
Voucher(e, s) ==
  CASE settings.wantSigned /\ e.method = "GET" -> Mark(e)
    [] settings.wantSigned /\ e.method = "POST" /\ e.verb = "GET" -> s.saml
    [] OTHER -> None

\* A request that could not be parsed is answered all the same.  `demanded' and
\* `voucher' say whether it had to be signed and what vouched for it.
SamlResponse(e, user) ==
  [kind |-> "saml response", user |-> user, relay |-> e.relay,
   acs |-> IF Readable(e) THEN AcsOf(e.request) ELSE DefaultAcs,
   inResponseTo |-> IF Readable(e) THEN e.request.id ELSE "",
   request |-> e.request, entry |-> e.entry, attempts |-> e.attempts,
   demanded |-> settings.wantSigned, voucher |-> Voucher(e, cookie)]

Sso(t, e) ==
  LET seen == IF settings.wantSigned /\ e.method = "GET"
              THEN [cookie EXCEPT !.saml = Mark(e)] ELSE cookie
      user == IF cookie.user # None THEN cookie.user ELSE e.who
      after == IF user = None THEN seen ELSE SignIn(seen, user)
      assigned == (settings.wantSigned /\ e.method = "GET")
                  \/ (cookie.user = None /\ user # None)
      changed == IF assigned THEN after ELSE Untouched(cookie)
  IN /\ \/ /\ ~Admits(e, cookie)
           /\ Open(t, Error, Untouched(cookie))
        \/ /\ Admits(e, cookie) /\ user = None
           /\ Open(t, SamlLogin(e), changed)
        \/ /\ Admits(e, cookie) /\ user # None
           /\ user \notin Users \/ e.verb \notin {None, "GET", "POST"}
           /\ Open(t, Error, changed)
        \/ /\ Admits(e, cookie) /\ user \in Users /\ e.verb \in {None, "GET", "POST"}
           /\ Open(t, SamlResponse(e, user), changed)
     /\ UNCHANGED <<page, flowOpen>>

\* A service provider's redirection: the query carries the request.
SsoGet(t, q, relay, query) ==
  /\ settings.plain => query = [request |-> q, relay |-> relay]
  /\ Sso(t, [method |-> "GET", verb |-> None, request |-> q, relay |-> relay,
             query |-> query, who |-> None, entry |-> "GET", attempts |-> 0])

\* A service provider's form, or (verb given) a form that claims to continue
\* an inline login.
SsoForm(t, q, relay, verb) ==
  Sso(t, [method |-> "POST", verb |-> verb, request |-> q, relay |-> relay,
          query |-> None, who |-> None, entry |-> IF verb = None THEN "POST" ELSE "claimed",
          attempts |-> 0])

\* The inline login form of the displayed page.
SsoLogin(t, who) ==
  LET from == page[t]
  IN /\ from.kind = "saml login"
     /\ Sso(t, [method |-> "POST", verb |-> from.verb, request |-> from.request,
                relay |-> from.relay, query |-> None, who |-> who,
                entry |-> from.entry,
                attempts |-> from.attempts + (IF who = None THEN 1 ELSE 0)])

-----------------------------------------------------------------------------
(* The administration pages *)

UiPage(t) ==
  /\ Open(t, IF cookie.user = None THEN LoginForm ELSE Admin, Untouched(cookie))
  /\ UNCHANGED <<page, flowOpen>>

UiLogin(t, who) ==
  /\ IF who = None THEN Open(t, LoginForm, Untouched(cookie))
                   ELSE Open(t, Admin, SignIn(cookie, who))
  /\ UNCHANGED <<page, flowOpen>>

\* The Clerk widget has signed the user on: Clerk's name enters the session.
ClerkLogin(t) ==
  /\ settings.clerk
  /\ Open(t, Admin, SignIn(cookie, ClerkUser))
  /\ UNCHANGED <<page, flowOpen>>

\* /logout is served by end_session(), registered before the UI's own logout().
Logout(t) ==
  /\ Open(t, LoggedOut, Cleared(cookie))
  /\ UNCHANGED <<page, flowOpen>>

-----------------------------------------------------------------------------
(* Responses, settings, and the whole *)

Receive(t) ==
  LET a == awaited[t]
      shown == IF a.page.kind = "authorize"
               THEN [a.page EXCEPT !.quiet = @ /\ a.alone] ELSE a.page
  IN /\ Busy(t)
     /\ cookie' = IF a.session = Keep THEN cookie ELSE a.session
     /\ page' = [page EXCEPT ![t] = shown]
     /\ awaited' = [awaited EXCEPT ![t] = None]
     /\ flowOpen' = (flowOpen /\ ~(a.alone /\ a.page.kind \in {"code", "logged out"}))
     /\ loggedOut' = IF a.page.kind = "logged out" THEN ~OthersBusy(t)
                     ELSE loggedOut /\ ~a.login
     /\ UNCHANGED <<settings, exchanges>>

\* The settings page turns want_authn_requests_signed on.
RequireSignatures ==
  /\ settings.mayRequire /\ ~settings.wantSigned
  /\ settings' = [settings EXCEPT !.wantSigned = TRUE]
  /\ UNCHANGED <<cookie, page, awaited, exchanges, flowOpen, loggedOut>>

Init ==
  /\ settings \in Deployments
  /\ cookie = NoSession
  /\ page = [t \in Tabs |-> Blank]
  /\ awaited = [t \in Tabs |-> None]
  /\ exchanges = 0
  /\ flowOpen = FALSE
  /\ loggedOut = TRUE

\* What the raw text of a query can spell: a request with a RelayState.
Queries == [request : SamlRequests, relay : RelayStates]

\* What the deployment's users do, so that a run can take one part at a time.
Does(what) == what \in settings.visits

Next ==
  \/ RequireSignatures
  \/ \E t \in Tabs :
       \/ Receive(t)
       \/ Does("authorize") /\ \E a \in AuthorizeRequests : AuthorizeGet(t, a)
       \/ Does("form") /\ \E a \in AuthorizeRequests : AuthorizeForm(t, a)
       \/ \E who \in Users \cup {None} : AuthorizeLogin(t, who)
       \/ Does("saml") /\ \E q \in SamlRequests, r \in RelayStates :
            \/ \E query \in Queries : SsoGet(t, q, r, query)
            \/ \E v \in {None, "GET", "POST", "PUT"} : SsoForm(t, q, r, v)
       \/ \E who \in Users \cup {None} : SsoLogin(t, who)
       \/ Does("admin") /\ \/ UiPage(t)
                           \/ \E who \in Users \cup {None} : UiLogin(t, who)
                           \/ ClerkLogin(t)
       \/ Does("logout") /\ Logout(t)

Spec == Init /\ [][Next]_vars

-----------------------------------------------------------------------------
(* Types *)

Names == Users \cup {ClerkUser}

\* All the parameters of a request, each a value some client sent or a default.
Flows ==
  [Fields -> (UNION {{a[f] : f \in DOMAIN a} : a \in AuthorizeRequests})
             \cup {"", "openid"}]

\* The values of a GET whose query was verified, and that query.
Verified == [request : SamlRequests, relay : RelayStates, query : Queries]

Sessions == [user : Names \cup {None}, oauth : Flows \cup {None},
             saml : Verified \cup {None}]

PlainPages == {Blank, Error, Admin, LoginForm, LoggedOut}

AuthorizePages ==
  [kind : {"authorize"}, shown : Flows, own : Flows, entry : {"GET", "POST"},
   quiet : BOOLEAN, clean : BOOLEAN]

CodePages == [kind : {"code"}, grant : Flows, user : Users, from : AuthorizePages]

SamlLogins ==
  [kind : {"saml login"}, request : SamlRequests, relay : RelayStates,
   verb : {"GET", "POST"}, entry : {"GET", "POST", "claimed"}, attempts : Nat]

SamlAnswers ==
  [kind : {"saml response"}, user : Users, relay : RelayStates,
   acs : {AcsOf(q) : q \in SamlRequests} \cup {DefaultAcs},
   inResponseTo : {q.id : q \in SamlRequests} \cup {""},
   request : SamlRequests, entry : {"GET", "POST", "claimed"}, attempts : Nat,
   demanded : BOOLEAN, voucher : Verified \cup {None}]

AnyPage ==
  PlainPages \cup AuthorizePages \cup CodePages \cup SamlLogins \cup SamlAnswers

Answers ==
  [page : AnyPage, session : Sessions \cup {Keep}, alone : BOOLEAN, login : BOOLEAN]

ASSUME NoneAssumption ==
  /\ None \notin Sessions /\ None \notin Verified /\ None \notin Answers
  /\ None \notin {"GET", "POST", "PUT"}

-----------------------------------------------------------------------------
(* Properties *)

\* Types.  Every parameter a page or a session holds is a value some client
\* sent or the default authorize() documents for it, never an absent one.
TypeOK ==
  /\ settings \in Settings
  /\ cookie \in Sessions
  /\ page \in [Tabs -> AnyPage]
  /\ awaited \in [Tabs -> Answers \cup {None}]
  /\ exchanges \in 0..settings.maxExchanges
  /\ flowOpen \in BOOLEAN /\ loggedOut \in BOOLEAN

\* Whatever the tabs display or are about to.
Pages == {page[t] : t \in Tabs} \cup {awaited[t].page : t \in {u \in Tabs : Busy(u)}}
Codes == {p \in Pages : p.kind = "code"}
SamlResponses == {p \in Pages : p.kind = "saml response"}

\* No code is issued for parameters authorize() refuses, although a GET stores
\* what it refuses and the login of another tab's page picks it up.
RefusedNeverGranted == \A c \in Codes : Acceptable(c.grant)

\* The user authorizes what the login page showed: when no other authorization
\* request was made since, and no exchange overlapped with the page's own, the
\* code is for the client, the scope and all else the page was rendered with,
\* whatever the other tabs do at /saml/sso, /login or /logout.
ShownIsGranted ==
  \A c \in Codes : c.from.quiet /\ c.from.entry = "GET" => c.grant = c.from.shown

\* A finished flow leaves nothing behind: a request made when no earlier one
\* is pending is granted as the client sent it, with the documented defaults.
LeftoversNeverGranted ==
  \A c \in Codes :
    c.from.quiet /\ c.from.clean /\ c.from.entry = "GET" => c.grant = c.from.own

\* After a logout that no other tab's exchange overlapped, nobody is signed on
\* until somebody signs on.
LoggedOutStaysOut == loggedOut => cookie.user = None

\* v stands for a GET whose query carried a signature for what it spelled, and
\* which was worked with as spelled if the query named its parameters plainly.
Vouched(v) ==
  /\ v.query.relay \in v.query.request.signedFor
  /\ settings.plain => v.query = [request |-> v.request, relay |-> v.relay]

\* The answered request itself entered signed: in its document, or by a GET with
\* the same request and RelayState.
EnteredSigned(r) ==
  \/ r.request.xmlSigned
  \/ /\ r.voucher # None /\ Vouched(r.voucher)
     /\ r.voucher.request = r.request /\ r.voucher.relay = r.relay

\* While AuthnRequests have to be signed, none is answered that did not enter
\* signed: its document carries a signature that verifies, or this very request
\* and RelayState came by a GET of this browser whose query was verified, now or
\* before the login page.  So with plain queries the answered request was signed
\* together with the answered RelayState, whichever tabs entered, logged in or
\* were answered in between; the login form's fields prove nothing.
OnlySignedIsAnswered == \A r \in SamlResponses : r.demanded => EnteredSigned(r)

\* A request that came over the binding it was encoded for is answered as that
\* request, at the URL it names, with the login page in between or without.
\* Under strict_saml_binding only the first login attempt is sure to be: the
\* page a failed one renders says that the request came by POST.
AnsweredAsAsked ==
  \A r \in SamlResponses :
    /\ r.entry = (IF r.request.deflated THEN "GET" ELSE "POST")
    /\ settings.strict => r.attempts = 0
    => r.inResponseTo = r.request.id /\ r.acs = AcsOf(r.request)
=============================================================================
