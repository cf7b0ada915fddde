------------------------ MODULE BrowserSessionProofs ------------------------
(***************************************************************************)
(* What BrowserSession's run checks on a small instance, for any number of *)
(* tabs, users, clients and service providers, and for requests without    *)
(* bound.                                                                  *)
(*                                                                         *)
(* The cookie decides what a login is granted, while the page only shows   *)
(* what it was rendered with; the properties say that the two agree.  They *)
(* do because of what is on its way: a response carries the session its    *)
(* handler worked on, so the invariant speaks of the responses a tab is    *)
(* waiting for as much as of the cookie and of the pages displayed.        *)
(***************************************************************************)
EXTENDS BrowserSession, TLAPS

-----------------------------------------------------------------------------
(* Types *)

\* What a login at /saml/sso or a request to it brings along.
SsoRequests ==
  [method : {"GET", "POST"}, verb : {None, "GET", "POST", "PUT"},
   request : SamlRequests, relay : RelayStates, query : Queries \cup {None},
   who : Users \cup {None},
   entry : {"GET", "POST", "claimed"}, attempts : Nat]

-----------------------------------------------------------------------------
(* The inductive invariant *)

\* What is true of a page by itself, once it has been rendered.
Undisturbed(p) == p.quiet /\ p.entry = "GET"

SoundLogin(p) ==
  p.kind = "authorize" /\ Undisturbed(p) /\ p.clean => p.shown = p.own

SoundCode(p) ==
  p.kind = "code" =>
    /\ Acceptable(p.grant)
    /\ Undisturbed(p.from) => p.grant = p.from.shown
    /\ Undisturbed(p.from) /\ p.from.clean => p.grant = p.from.own

\* The first login page of a request carries the verb the request came by.
SoundSamlLogin(p) ==
  p.kind = "saml login" /\ p.attempts = 0 /\ p.entry # "claimed" => p.verb = p.entry

AsAsked(r) ==
  /\ r.entry = (IF r.request.deflated THEN "GET" ELSE "POST")
  /\ settings.strict => r.attempts = 0
  => r.inResponseTo = r.request.id /\ r.acs = AcsOf(r.request)

SoundSamlAnswer(p) ==
  p.kind = "saml response" =>
    /\ p.demanded => EnteredSigned(p)
    /\ AsAsked(p)

Sound(p) == SoundLogin(p) /\ SoundCode(p) /\ SoundSamlLogin(p) /\ SoundSamlAnswer(p)

PagesSound ==
  \A t \in Tabs : Sound(page[t]) /\ (Busy(t) => Sound(awaited[t].page))

\* A session remembers no SAML request but one whose query was verified.
Signed(s) == s.saml # None => Vouched(s.saml)

SessionsSigned ==
  /\ Signed(cookie)
  /\ \A t \in Tabs : Busy(t) /\ awaited[t].session # Keep => Signed(awaited[t].session)

\* Nobody is signed on by the cookie of a browser that has logged out, nor by a
\* response that is not a login's; and a logout brings the empty session.
LogoutsStick ==
  /\ loggedOut => cookie.user = None
  /\ \A t \in Tabs : Busy(t) =>
       /\ loggedOut => \/ awaited[t].session = Keep
                       \/ awaited[t].session.user = None
                       \/ awaited[t].login
       /\ awaited[t].page.kind = "logged out" => awaited[t].session = NoSession

\* `alone' means what it says.
AloneIsAlone ==
  \A t, u \in Tabs : Busy(t) /\ Busy(u) /\ awaited[t].alone => u = t

\* The session s remembers p's parameters or none at all.
Remembers(s, p) == s.oauth = None \/ s.oauth = p.shown

\* The session the browser holds once the response a has arrived.
After(a) == IF a.session = Keep THEN cookie ELSE a.session

\* A login page at rest that no other authorization request has disturbed is
\* matched by every session the browser has or is about to have, and so is one
\* on its way to a tab no other tab has interfered with.
PagesRemembered ==
  /\ \A t \in Tabs :
       ~Busy(t) /\ page[t].kind = "authorize" /\ Undisturbed(page[t]) =>
         /\ Remembers(cookie, page[t])
         /\ \A u \in Tabs : Busy(u) => Remembers(After(awaited[u]), page[t])
  /\ \A t \in Tabs :
       Busy(t) /\ awaited[t].page.kind = "authorize"
         /\ Undisturbed(awaited[t].page) /\ awaited[t].alone =>
            Remembers(After(awaited[t]), awaited[t].page)

\* Between two flows no session remembers a parameter; a code's session has
\* forgotten them.
FlowsForgotten ==
  /\ ~flowOpen =>
       /\ cookie.oauth = None
       /\ \A t \in Tabs : Busy(t) => After(awaited[t]).oauth = None
  /\ \A t \in Tabs :
       Busy(t) /\ awaited[t].page.kind = "code" =>
         awaited[t].session # Keep /\ awaited[t].session.oauth = None

IInv ==
  /\ TypeOK
  /\ PagesSound
  /\ SessionsSigned
  /\ LogoutsStick
  /\ AloneIsAlone
  /\ PagesRemembered
  /\ FlowsForgotten

-----------------------------------------------------------------------------
(* Operators *)

\* The kind of a page says which fields it has.
LEMMA Kinds ==
  ASSUME NEW p \in AnyPage
  PROVE  /\ p.kind = "authorize" => p \in AuthorizePages
         /\ p.kind = "code" => p \in CodePages
         /\ p.kind = "saml login" => p \in SamlLogins
         /\ p.kind = "saml response" => p \in SamlAnswers
         /\ p.kind = "logged out" => p = LoggedOut
<1>1. p \in AuthorizePages => p.kind = "authorize"
  BY DEF AuthorizePages
<1>2. p \in CodePages => p.kind = "code"
  BY DEF CodePages
<1>3. p \in SamlLogins => p.kind = "saml login"
  BY DEF SamlLogins
<1>4. p \in SamlAnswers => p.kind = "saml response"
  BY DEF SamlAnswers
<1>5. p \in PlainPages =>
        p = LoggedOut \/ p.kind \in {"blank", "error", "admin", "login"}
  BY DEF PlainPages, Blank, Error, Admin, LoginForm
<1>6. LoggedOut.kind = "logged out"
  BY DEF LoggedOut
<1> QED
  BY <1>1, <1>2, <1>3, <1>4, <1>5, <1>6 DEF AnyPage

\* The plain pages are sound: nothing is claimed of them.
LEMMA PlainIsSound ==
  ASSUME NEW p \in PlainPages
  PROVE  /\ p \in AnyPage
         /\ p.kind \notin {"authorize", "code", "saml login", "saml response"}
         /\ Sound(p)
<1>1. Blank.kind = "blank" /\ Error.kind = "error" /\ Admin.kind = "admin"
  BY DEF Blank, Error, Admin
<1>2. LoginForm.kind = "login" /\ LoggedOut.kind = "logged out"
  BY DEF LoginForm, LoggedOut
<1>3. p.kind \notin {"authorize", "code", "saml login", "saml response"}
  BY <1>1, <1>2 DEF PlainPages
<1> QED
  BY <1>3 DEF AnyPage, Sound, SoundLogin, SoundCode, SoundSamlLogin, SoundSamlAnswer

\* A request's parameters, completed from the session, are a flow.
LEMMA EffectiveFlow ==
  ASSUME NEW a \in AuthorizeRequests, NEW s \in Sessions
  PROVE  Effective(a, s) \in Flows
<1> DEFINE Values == (UNION {{b[f] : f \in DOMAIN b} : b \in AuthorizeRequests})
                     \cup {"", "openid"}
<1>1. \A f \in DOMAIN a : a[f] \in Values
  <2> SUFFICES ASSUME NEW f \in DOMAIN a PROVE a[f] \in Values
    OBVIOUS
  <2>1. a[f] \in {a[g] : g \in DOMAIN a}
    OBVIOUS
  <2>2. {a[g] : g \in DOMAIN a} \in {{b[g] : g \in DOMAIN b} : b \in AuthorizeRequests}
    OBVIOUS
  <2> QED
    BY <2>1, <2>2, Zenon
<1>2. \A f \in Fields : DefaultOf(f) \in Values
  <2>1. "" \in Values /\ "openid" \in Values
    OBVIOUS
  <2> HIDE DEF Values
  <2> QED
    BY <2>1 DEF DefaultOf
<1>3. s.oauth # None => s.oauth \in [Fields -> Values]
  BY DEF Sessions, Flows
<1> HIDE DEF Values
<1>4. Effective(a, s) \in [Fields -> Values]
  BY <1>1, <1>2, <1>3 DEF Effective
<1> QED
  BY <1>4 DEF Flows, Values

\* A login completes nothing: it takes what the session remembers, and the
\* defaults alone are refused.
LEMMA LoginTakesTheSession ==
  ASSUME NEW s \in Sessions, Acceptable(Effective(<<>>, s))
  PROVE  s.oauth # None /\ s.oauth \in Flows /\ Effective(<<>>, s) = s.oauth
<1>1. DOMAIN <<>> = {}
  OBVIOUS
<1>2. "response_type" \in Fields
  BY DEF Fields
<1>3. s.oauth # None
  <2> SUFFICES ASSUME s.oauth = None PROVE FALSE
    OBVIOUS
  <2>1. Effective(<<>>, s)["response_type"] = ""
    BY <1>1, <1>2 DEF Effective, DefaultOf
  <2> QED
    BY <2>1 DEF Acceptable
<1>4. s.oauth \in Flows
  BY <1>3 DEF Sessions
<1>5. Effective(<<>>, s) = [f \in Fields |-> s.oauth[f]]
  BY <1>1, <1>3 DEF Effective
<1>6. s.oauth = [f \in Fields |-> s.oauth[f]]
  BY <1>4 DEF Flows
<1> QED
  BY <1>3, <1>4, <1>5, <1>6

\* Without anything remembered a request stands for itself.
LEMMA NothingRemembered ==
  ASSUME NEW a, NEW s, s.oauth = None
  PROVE  Effective(a, s) = Effective(a, NoSession)
  BY DEF Effective, NoSession

\* What the handlers make of a session.
LEMMA SessionOperations ==
  ASSUME NEW s \in Sessions
  PROVE  /\ NoSession \in Sessions
         /\ Untouched(s) \in {Keep, s}
         /\ \A u \in Names : /\ SignIn(s, u) \in Sessions
                             /\ SignIn(s, u).oauth = s.oauth
                             /\ SignIn(s, u).saml = s.saml
         /\ Finish(s) \in Sessions /\ Finish(s).oauth = None /\ Finish(s).saml = s.saml
         /\ \A p \in Flows : /\ Remember(s, p) \in Sessions
                             /\ Remember(s, p).oauth = p
                             /\ Remember(s, p).saml = s.saml
  BY DEF Sessions, NoSession, Untouched, SignIn, Finish, Remember

-----------------------------------------------------------------------------
(* Sending a request *)

\* What a response of page p and session s must be for the invariant to hold
\* while it is on its way.
Fits(p, s) ==
  /\ p \in AnyPage /\ Sound(p)
  /\ s \in Sessions \cup {Keep}
  /\ s # Keep => Signed(s)
  /\ p.kind = "logged out" => s = NoSession
  /\ p.kind = "authorize" /\ Undisturbed(p) =>
       Remembers(IF s = Keep THEN cookie ELSE s, p)
  /\ p.kind = "code" => s # Keep /\ s.oauth = None

\* The session s remembers what the cookie does, or nothing.
Calm(s) == s = Keep \/ s.oauth = None \/ s.oauth = cookie.oauth

\* An overtaken page is as sound as before, and is not undisturbed.
LEMMA OvertakenPages ==
  ASSUME NEW p \in AnyPage, Sound(p)
  PROVE  /\ Overtaken(p) \in AnyPage
         /\ Sound(Overtaken(p))
         /\ Overtaken(p).kind = "authorize" => ~Undisturbed(Overtaken(p))
<1>1. CASE p.kind # "authorize"
  BY <1>1 DEF Overtaken
<1>2. CASE p.kind = "authorize"
  <2>1. p \in AuthorizePages
    BY <1>2, Kinds
  <2>2. Overtaken(p) = [p EXCEPT !.quiet = FALSE]
    BY <1>2 DEF Overtaken
  <2>3. /\ Overtaken(p) \in AuthorizePages
        /\ Overtaken(p).kind = "authorize"
        /\ ~Overtaken(p).quiet
    BY <2>1, <2>2 DEF AuthorizePages
  <2> QED
    BY <2>3 DEF AnyPage, Sound, SoundLogin, SoundCode, SoundSamlLogin,
       SoundSamlAnswer, Undisturbed
<1> QED
  BY <1>1, <1>2

\* Every handler but the one that stores an authorization request leaves the
\* pages alone and changes what the session remembers only by forgetting it.
LEMMA OpenKeepsInvariant ==
  ASSUME IInv, NEW t \in Tabs, NEW p, NEW s, Fits(p, s), Open(t, p, s),
         \/ UNCHANGED <<page, flowOpen>> /\ Calm(s)
         \/ /\ page' = [u \in Tabs |-> IF u = t THEN page[u] ELSE Overtaken(page[u])]
            /\ flowOpen' = TRUE
  PROVE  IInv'
<1> DEFINE ans == Answer(t, p, s)
<1>1. /\ settings' = settings /\ cookie' = cookie /\ loggedOut' = loggedOut
      /\ ~Busy(t) /\ exchanges' = exchanges + 1 /\ exchanges < settings.maxExchanges
  BY DEF Open
<1>2. /\ ans \in Answers /\ ans.page = p /\ ans.session = s
      /\ ans.alone = ~OthersBusy(t)
      /\ ans.login = (s # Keep /\ cookie.user = None /\ s.user # None)
  BY DEF Answer, Answers, Fits
<1> HIDE DEF ans
<1>3. /\ awaited' = [u \in Tabs |-> IF u = t THEN ans ELSE NotAlone(awaited[u])]
      /\ awaited'[t] = ans
      /\ \A u \in Tabs : u # t => awaited'[u] = NotAlone(awaited[u])
  BY DEF Open, ans
<1>4. \A u \in Tabs : u # t =>
        /\ awaited'[u] \in Answers \cup {None}
        /\ Busy(u)' <=> Busy(u)
        /\ Busy(u) => /\ awaited'[u].page = awaited[u].page
                      /\ awaited'[u].session = awaited[u].session
                      /\ awaited'[u].login = awaited[u].login
                      /\ ~awaited'[u].alone
  <2> SUFFICES ASSUME NEW u \in Tabs, u # t
               PROVE  /\ awaited'[u] \in Answers \cup {None}
                      /\ Busy(u)' <=> Busy(u)
                      /\ Busy(u) => /\ awaited'[u].page = awaited[u].page
                                    /\ awaited'[u].session = awaited[u].session
                                    /\ awaited'[u].login = awaited[u].login
                                    /\ ~awaited'[u].alone
    OBVIOUS
  <2>1. CASE awaited[u] = None
    BY <2>1, <1>3 DEF NotAlone, Busy
  <2>2. CASE awaited[u] # None
    <3>1. awaited[u] \in Answers
      BY <2>2 DEF IInv, TypeOK
    <3>2. awaited'[u] = [awaited[u] EXCEPT !.alone = FALSE]
      BY <2>2, <1>3 DEF NotAlone
    <3>3. awaited'[u] \in Answers
      BY <3>1, <3>2 DEF Answers
    <3>4. /\ awaited'[u].page = awaited[u].page
          /\ awaited'[u].session = awaited[u].session
          /\ awaited'[u].login = awaited[u].login
          /\ ~awaited'[u].alone
      BY <3>1, <3>2 DEF Answers
    <3> QED
      BY <3>3, <3>4, <2>2, NoneAssumption DEF Busy
  <2> QED
    BY <2>1, <2>2
<1>5. \A u \in Tabs :
        /\ page'[u] \in AnyPage /\ Sound(page'[u])
        /\ u # t /\ page'[u].kind = "authorize" /\ Undisturbed(page'[u]) =>
             page'[u] = page[u] /\ Calm(s)
  <2> SUFFICES ASSUME NEW u \in Tabs
               PROVE  /\ page'[u] \in AnyPage /\ Sound(page'[u])
                      /\ u # t /\ page'[u].kind = "authorize" /\ Undisturbed(page'[u])
                           => page'[u] = page[u] /\ Calm(s)
    OBVIOUS
  <2>1. page[u] \in AnyPage /\ Sound(page[u])
    BY DEF IInv, TypeOK, PagesSound
  <2>2. CASE page' = page /\ Calm(s)
    BY <2>1, <2>2
  <2>3. CASE page' = [v \in Tabs |-> IF v = t THEN page[v] ELSE Overtaken(page[v])]
    BY <2>1, <2>3, OvertakenPages
  <2> QED
    BY <2>2, <2>3
<1>6. \A q : Sound(q)' <=> Sound(q)
  BY <1>1 DEF Sound, SoundLogin, SoundCode, SoundSamlLogin, SoundSamlAnswer, AsAsked,
     Acceptable, RedirectAllowed, ChallengeAllowed, PkceRequired, PlainAllowed,
     EnteredSigned, Vouched
<1>7. TypeOK'
  <2>1. page' \in [Tabs -> AnyPage]
    <3>1. \/ page' = page
          \/ page' = [v \in Tabs |-> IF v = t THEN page[v] ELSE Overtaken(page[v])]
      OBVIOUS
    <3> QED
      BY <3>1, <1>5 DEF IInv, TypeOK
  <2>2. awaited' \in [Tabs -> Answers \cup {None}]
    BY <1>2, <1>3, <1>4
  <2>3. exchanges' \in 0..settings.maxExchanges
    BY <1>1 DEF IInv, TypeOK, Settings
  <2>4. flowOpen' \in BOOLEAN
    BY DEF IInv, TypeOK
  <2> QED
    BY <1>1, <2>1, <2>2, <2>3, <2>4 DEF IInv, TypeOK
<1>8. PagesSound'
  <2> SUFFICES ASSUME NEW u \in Tabs
               PROVE  Sound(page'[u]) /\ (Busy(u)' => Sound(awaited'[u].page))
    BY <1>6 DEF PagesSound
  <2>1. Sound(page'[u])
    BY <1>5
  <2>2. CASE u = t
    BY <2>1, <2>2, <1>2, <1>3 DEF Fits
  <2>3. CASE u # t
    BY <2>1, <2>3, <1>4 DEF IInv, PagesSound
  <2> QED
    BY <2>2, <2>3
<1>9. SessionsSigned'
  <2>1. \A u \in Tabs : Busy(u)' /\ awaited'[u].session # Keep => Signed(awaited'[u].session)
    BY <1>2, <1>3, <1>4 DEF IInv, SessionsSigned, Fits
  <2> QED
    BY <2>1, <1>1 DEF IInv, SessionsSigned, Keep, Signed, Vouched
<1>10. LogoutsStick'
  <2>1. \A u \in Tabs : Busy(u)' =>
          /\ loggedOut => \/ awaited'[u].session = Keep
                          \/ awaited'[u].session.user = None
                          \/ awaited'[u].login
          /\ awaited'[u].page.kind = "logged out" => awaited'[u].session = NoSession
    <3> SUFFICES ASSUME NEW u \in Tabs, Busy(u)'
                 PROVE  /\ loggedOut => \/ awaited'[u].session = Keep
                                        \/ awaited'[u].session.user = None
                                        \/ awaited'[u].login
                        /\ awaited'[u].page.kind = "logged out" =>
                             awaited'[u].session = NoSession
      OBVIOUS
    <3>1. CASE u = t
      BY <3>1, <1>2, <1>3 DEF IInv, LogoutsStick, Fits
    <3>2. CASE u # t
      BY <3>2, <1>4 DEF IInv, LogoutsStick
    <3> QED
      BY <3>1, <3>2
  <2> QED
    BY <2>1, <1>1 DEF IInv, LogoutsStick, Keep
<1>11. AloneIsAlone'
  <2> SUFFICES ASSUME NEW u \in Tabs, NEW v \in Tabs,
                      Busy(u)', Busy(v)', awaited'[u].alone
               PROVE  v = u
    BY DEF AloneIsAlone
  <2>1. u = t
    BY <1>4
  <2>2. v # t => Busy(v)
    BY <1>4
  <2> QED
    BY <2>1, <2>2, <1>2, <1>3 DEF OthersBusy
<1>12. PagesRemembered'
  <2>1. \A u \in Tabs : u # t /\ Busy(u) => (After(awaited[u]))' = After(awaited[u])
    BY <1>1, <1>4 DEF After
  <2>2. (After(awaited[t]))' = IF s = Keep THEN cookie ELSE s
    BY <1>1, <1>2, <1>3 DEF After
  <2>3. ASSUME NEW u \in Tabs, ~Busy(u)', page'[u].kind = "authorize",
               Undisturbed(page'[u])
        PROVE  /\ Remembers(cookie, page'[u])
               /\ \A v \in Tabs : Busy(v)' => Remembers((After(awaited[v]))', page'[u])
    <3>1. u # t => page'[u] = page[u] /\ Calm(s)
      BY <2>3, <1>5
    <3>2. u # t
      BY <2>3, <1>2, <1>3, NoneAssumption DEF Busy
    <3>3. page'[u] = page[u] /\ Calm(s) /\ ~Busy(u)
      BY <2>3, <3>1, <3>2, <1>4
    <3>4. /\ Remembers(cookie, page[u])
          /\ \A v \in Tabs : Busy(v) => Remembers(After(awaited[v]), page[u])
      BY <2>3, <3>3 DEF IInv, PagesRemembered
    <3>5. \A v \in Tabs : v # t /\ Busy(v)' => Remembers((After(awaited[v]))', page[u])
      BY <3>4, <2>1, <1>4
    <3>6. Remembers((After(awaited[t]))', page[u])
      BY <3>3, <3>4, <2>2 DEF Calm, Remembers
    <3> QED
      BY <3>3, <3>4, <3>5, <3>6
  <2>4. ASSUME NEW u \in Tabs, Busy(u)', awaited'[u].page.kind = "authorize",
               Undisturbed(awaited'[u].page), awaited'[u].alone
        PROVE  Remembers((After(awaited[u]))', awaited'[u].page)
    <3>1. u = t
      BY <2>4, <1>4
    <3> QED
      BY <2>4, <3>1, <2>2, <1>2, <1>3 DEF Fits
  <2> QED
    BY <2>3, <2>4, <1>1 DEF PagesRemembered, Remembers, Undisturbed
<1>13. FlowsForgotten'
  <2>1. \A u \in Tabs : u # t /\ Busy(u) => (After(awaited[u]))' = After(awaited[u])
    BY <1>1, <1>4 DEF After
  <2>2. (After(awaited[t]))' = IF s = Keep THEN cookie ELSE s
    BY <1>1, <1>2, <1>3 DEF After
  <2>3. ASSUME ~flowOpen'
        PROVE  /\ cookie.oauth = None
               /\ \A u \in Tabs : Busy(u)' => (After(awaited[u]))'.oauth = None
    <3>1. ~flowOpen /\ Calm(s)
      BY <2>3
    <3>2. /\ cookie.oauth = None
          /\ \A u \in Tabs : Busy(u) => After(awaited[u]).oauth = None
      BY <3>1 DEF IInv, FlowsForgotten
    <3>3. (After(awaited[t]))'.oauth = None
      BY <3>1, <3>2, <2>2 DEF Calm
    <3> QED
      BY <3>2, <3>3, <2>1, <1>4
  <2>4. \A u \in Tabs : Busy(u)' /\ awaited'[u].page.kind = "code" =>
          awaited'[u].session # Keep /\ awaited'[u].session.oauth = None
    <3>1. p.kind = "code" => s # Keep /\ s.oauth = None
      BY DEF Fits
    <3>2. \A u \in Tabs : Busy(u) /\ awaited[u].page.kind = "code" =>
            awaited[u].session # Keep /\ awaited[u].session.oauth = None
      BY DEF IInv, FlowsForgotten
    <3> QED
      BY <3>1, <3>2, <1>2, <1>3, <1>4
  <2> QED
    BY <2>3, <2>4, <1>1 DEF FlowsForgotten, Keep
<1> QED
  BY <1>7, <1>8, <1>9, <1>10, <1>11, <1>12, <1>13 DEF IInv

-----------------------------------------------------------------------------
(* The handlers *)

\* A plain page may come with any session that is signed.
LEMMA PlainFits ==
  ASSUME NEW p \in PlainPages, NEW s \in Sessions \cup {Keep}, s # Keep => Signed(s),
         p.kind # "logged out"
  PROVE  Fits(p, s)
  BY PlainIsSound DEF Fits

\* The plain pages a handler answers with.
LEMMA PlainAnswers ==
  ASSUME NEW p, p \in {Error, Admin, LoginForm}
  PROVE  p \in PlainPages /\ p.kind # "logged out"
<1>1. Error.kind = "error" /\ Admin.kind = "admin" /\ LoginForm.kind = "login"
  BY DEF Error, Admin, LoginForm
<1> QED
  BY <1>1 DEF PlainPages

\* A session left as it was.
LEMMA UntouchedFits ==
  ASSUME IInv
  PROVE  LET s == Untouched(cookie)
         IN /\ s \in Sessions \cup {Keep} /\ Calm(s)
            /\ s # Keep => Signed(s)
            /\ (IF s = Keep THEN cookie ELSE s) = cookie
<1>1. Untouched(cookie) \in {Keep, cookie}
  BY DEF Untouched
<1> QED
  BY <1>1 DEF IInv, TypeOK, SessionsSigned, Calm

\* A freshly rendered login page.
LEMMA FreshPage ==
  ASSUME NEW p \in Flows, NEW own \in Flows, NEW entry \in {"GET", "POST"},
         NEW clean \in BOOLEAN, clean => p = own
  PROVE  LET q == AuthorizePage(p, own, entry, clean)
         IN /\ q \in AnyPage /\ Sound(q)
            /\ q.kind = "authorize" /\ q.shown = p /\ q.entry = entry
<1> DEFINE q == AuthorizePage(p, own, entry, clean)
<1>1. q \in AuthorizePages
  BY DEF AuthorizePage, AuthorizePages
<1>2. /\ q.kind = "authorize" /\ q.shown = p /\ q.own = own /\ q.entry = entry
      /\ q.clean = clean
  BY DEF AuthorizePage
<1> HIDE DEF q
<1>3. q \in AnyPage /\ Sound(q)
  BY <1>1, <1>2 DEF AnyPage, Sound, SoundLogin, SoundCode, SoundSamlLogin,
     SoundSamlAnswer
<1> QED
  BY <1>2, <1>3 DEF q

LEMMA AuthorizeGetKeeps ==
  ASSUME IInv, NEW t \in Tabs, NEW a \in AuthorizeRequests, AuthorizeGet(t, a)
  PROVE  IInv'
<1> DEFINE p == Effective(a, cookie)
           own == Effective(a, NoSession)
           fresh == ~flowOpen /\ ~OthersBusy(t)
           q == IF Validated("GET", p) THEN AuthorizePage(p, own, "GET", fresh) ELSE Error
           s == Remember(cookie, p)
<1>1. cookie \in Sessions /\ Signed(cookie)
  BY DEF IInv, TypeOK, SessionsSigned
<1>2. p \in Flows /\ own \in Flows
  BY <1>1, EffectiveFlow, SessionOperations
<1>3. s \in Sessions /\ s.oauth = p /\ s.saml = cookie.saml
  BY <1>1, <1>2, SessionOperations
<1>4. Signed(s)
  BY <1>1, <1>3 DEF Signed
<1>5. fresh => p = own
  BY NothingRemembered DEF IInv, FlowsForgotten
<1>6. s # Keep
  BY <1>3, NoneAssumption DEF Keep
<1>7. /\ Open(t, q, s)
      /\ page' = [u \in Tabs |-> IF u = t THEN page[u] ELSE Overtaken(page[u])]
      /\ flowOpen' = TRUE
  BY DEF AuthorizeGet
<1>8. fresh \in BOOLEAN
  OBVIOUS
<1> HIDE DEF p, own, fresh, s
<1>9. Fits(q, s)
  <2>1. CASE Validated("GET", p)
    <3> DEFINE r == AuthorizePage(p, own, "GET", fresh)
    <3>1. r \in AnyPage /\ Sound(r) /\ r.kind = "authorize" /\ r.shown = p
      BY <1>2, <1>5, <1>8, FreshPage
    <3>2. q = r
      BY <2>1
    <3> HIDE DEF q, r
    <3> QED
      BY <3>1, <3>2, <1>3, <1>4, <1>6 DEF Fits, Remembers
  <2>2. CASE ~Validated("GET", p)
    <3>1. q = Error
      BY <2>2
    <3> QED
      BY <3>1, <1>3, <1>4, PlainFits, PlainAnswers
  <2> QED
    BY <2>1, <2>2
<1> HIDE DEF q
<1> QED
  BY <1>7, <1>9, OpenKeepsInvariant

LEMMA AuthorizeFormKeeps ==
  ASSUME IInv, NEW t \in Tabs, NEW a \in AuthorizeRequests, AuthorizeForm(t, a)
  PROVE  IInv'
<1> DEFINE p == Effective(a, cookie)
           own == Effective(a, NoSession)
           q == IF Validated("POST", p) THEN AuthorizePage(p, own, "POST", FALSE) ELSE Error
           s == Untouched(cookie)
<1>1. cookie \in Sessions
  BY DEF IInv, TypeOK
<1>2. p \in Flows /\ own \in Flows
  BY <1>1, EffectiveFlow, SessionOperations
<1>3. s \in Sessions \cup {Keep} /\ Calm(s) /\ (s # Keep => Signed(s))
  BY UntouchedFits
<1>4. Open(t, q, s) /\ UNCHANGED <<page, flowOpen>>
  BY DEF AuthorizeForm
<1> HIDE DEF p, own, s
<1>5. Fits(q, s)
  <2>1. CASE Validated("POST", p)
    <3> DEFINE r == AuthorizePage(p, own, "POST", FALSE)
    <3>1. r \in AnyPage /\ Sound(r) /\ r.kind = "authorize" /\ r.entry = "POST"
      BY <1>2, FreshPage
    <3>2. q = r
      BY <2>1
    <3> HIDE DEF q, r
    <3> QED
      BY <3>1, <3>2, <1>3 DEF Fits, Undisturbed
  <2>2. CASE ~Validated("POST", p)
    <3>1. q = Error
      BY <2>2
    <3> QED
      BY <3>1, <1>3, PlainFits, PlainAnswers
  <2> QED
    BY <2>1, <2>2
<1> HIDE DEF q
<1> QED
  BY <1>4, <1>5, <1>3, OpenKeepsInvariant

\* The login of a page at rest: what the session remembers is what an
\* undisturbed page shows.
LEMMA AuthorizeLoginKeeps ==
  ASSUME IInv, NEW t \in Tabs, NEW who \in Users \cup {None}, AuthorizeLogin(t, who)
  PROVE  IInv'
<1> DEFINE p == Effective(<<>>, cookie)
           from == page[t]
           s == Untouched(cookie)
           fin == Finish(cookie)
           again == [from EXCEPT !.shown = p]
           code == CodeFor(p, who, from)
<1>1. cookie \in Sessions /\ Signed(cookie)
  BY DEF IInv, TypeOK, SessionsSigned
<1>2. /\ s \in Sessions \cup {Keep} /\ Calm(s) /\ (s # Keep => Signed(s))
      /\ (IF s = Keep THEN cookie ELSE s) = cookie
  BY UntouchedFits
<1>3. /\ fin \in Sessions /\ fin.oauth = None /\ Signed(fin) /\ fin # Keep
      /\ Calm(fin)
  <2>1. fin \in Sessions /\ fin.oauth = None /\ fin.saml = cookie.saml
    BY <1>1, SessionOperations
  <2> QED
    BY <2>1, <1>1, NoneAssumption DEF Signed, Keep, Calm
<1>4. from \in AuthorizePages /\ SoundLogin(from)
  <2>1. from \in AnyPage /\ Sound(from) /\ from.kind = "authorize"
    BY DEF IInv, TypeOK, PagesSound, AuthorizeLogin
  <2> QED
    BY <2>1, Kinds DEF Sound
<1>5. UNCHANGED <<page, flowOpen>>
  BY DEF AuthorizeLogin
<1>6. ~Busy(t)
  BY DEF AuthorizeLogin, Open
<1>7. ASSUME Acceptable(p)
      PROVE  /\ p \in Flows
             /\ cookie.oauth = p
             /\ Undisturbed(from) => p = from.shown
  <2>1. cookie.oauth # None /\ cookie.oauth \in Flows /\ p = cookie.oauth
    BY <1>1, <1>7, LoginTakesTheSession
  <2>2. from.kind = "authorize"
    BY <1>4 DEF AuthorizePages
  <2>3. Undisturbed(from) => Remembers(cookie, from)
    BY <1>6, <2>2 DEF IInv, PagesRemembered
  <2> QED
    BY <2>1, <2>3 DEF Remembers
<1>8. \/ Open(t, Error, s)
      \/ Acceptable(p) /\ Open(t, again, s)
      \/ Acceptable(p) /\ who \in Users /\ Open(t, code, fin)
  BY DEF AuthorizeLogin, Validated
<1> HIDE DEF p, from, s, fin
<1>9. CASE Open(t, Error, s)
  <2>1. Fits(Error, s)
    BY <1>2, PlainFits, PlainAnswers
  <2> QED
    BY <1>9, <2>1, <1>2, <1>5, OpenKeepsInvariant
<1>10. CASE Acceptable(p) /\ Open(t, again, s)
  <2>1. /\ again \in AuthorizePages /\ again.kind = "authorize"
        /\ again.shown = p /\ again.own = from.own
        /\ again.quiet = from.quiet /\ again.entry = from.entry
        /\ again.clean = from.clean
    BY <1>10, <1>7, <1>4 DEF AuthorizePages
  <2> HIDE DEF again
  <2>2. Undisturbed(again) => Undisturbed(from)
    BY <2>1 DEF Undisturbed
  <2>3. SoundLogin(again)
    BY <2>1, <2>2, <1>4, <1>7, <1>10 DEF SoundLogin, AuthorizePages
  <2>4. again \in AnyPage /\ Sound(again)
    BY <2>1, <2>3 DEF AnyPage, Sound, SoundCode, SoundSamlLogin, SoundSamlAnswer
  <2>5. Fits(again, s)
    BY <2>1, <2>4, <1>2, <1>7, <1>10 DEF Fits, Remembers
  <2> QED
    BY <1>10, <2>5, <1>2, <1>5, OpenKeepsInvariant
<1>11. CASE Acceptable(p) /\ who \in Users /\ Open(t, code, fin)
  <2>1. /\ code \in CodePages /\ code.kind = "code"
        /\ code.grant = p /\ code.from = from
    BY <1>11, <1>7, <1>4 DEF CodePages, CodeFor
  <2> HIDE DEF code
  <2>2. SoundCode(code)
    BY <2>1, <1>4, <1>7, <1>11 DEF SoundCode, SoundLogin, AuthorizePages
  <2>3. code \in AnyPage /\ Sound(code)
    BY <2>1, <2>2 DEF AnyPage, Sound, SoundLogin, SoundSamlLogin, SoundSamlAnswer
  <2>4. Fits(code, fin)
    BY <2>1, <2>3, <1>3 DEF Fits
  <2> QED
    BY <1>11, <2>4, <1>3, <1>5, OpenKeepsInvariant
<1> QED
  BY <1>8, <1>9, <1>10, <1>11

\* A GET has a query, which spells the values used where queries are plain.
WellSent(e) ==
  e.method = "GET" =>
    /\ e.query \in Queries
    /\ settings.plain => e.query = [request |-> e.request, relay |-> e.relay]

\* What an AuthnRequest that no failed login precedes is parsed for: the verb it
\* came by, as does its first login page say.
AskedOnce(e) ==
  e.attempts = 0 /\ e.entry # "claimed" =>
    /\ ParsedFor(e) = e.entry
    /\ e.who = None => e.method = e.entry

\* A GET is admitted for a verified query alone; what it leaves in the session is
\* that query and the values that go with it.
LEMMA MarkIsVouched ==
  ASSUME IInv, NEW e \in SsoRequests, e.method = "GET", e.query \in Queries,
         settings.plain => e.query = [request |-> e.request, relay |-> e.relay],
         Admits(e, cookie), settings.wantSigned
  PROVE  /\ Mark(e) \in Verified /\ Vouched(Mark(e))
         /\ Mark(e).request = e.request /\ Mark(e).relay = e.relay
<1>1. /\ Mark(e) \in Verified /\ Mark(e).request = e.request
      /\ Mark(e).relay = e.relay /\ Mark(e).query = e.query
  BY DEF Mark, Verified, SsoRequests
<1>2. e.query.relay \in e.query.request.signedFor
  BY DEF Admits, QuerySigned
<1> QED
  BY <1>1, <1>2 DEF Vouched

\* Whatever is admitted when signatures are demanded entered signed.
LEMMA AdmittedWasSigned ==
  ASSUME IInv, NEW e \in SsoRequests, WellSent(e), Admits(e, cookie),
         settings.wantSigned
  PROVE  LET v == Voucher(e, cookie)
         IN /\ v \in Verified \cup {None}
            /\ \/ e.request.xmlSigned
               \/ /\ v # None /\ Vouched(v)
                  /\ v.request = e.request /\ v.relay = e.relay
<1>1. CASE e.method = "GET"
  <2>1. Voucher(e, cookie) = Mark(e)
    BY <1>1 DEF Voucher
  <2>2. /\ Mark(e) \in Verified /\ Vouched(Mark(e))
        /\ Mark(e).request = e.request /\ Mark(e).relay = e.relay
    BY <1>1, MarkIsVouched DEF WellSent
  <2> QED
    BY <2>1, <2>2, NoneAssumption
<1>2. CASE e.method = "POST" /\ e.verb = "GET"
  <2>1. Voucher(e, cookie) = cookie.saml
    BY <1>2 DEF Voucher
  <2>2. /\ cookie.saml # None /\ cookie.saml.request = e.request
        /\ cookie.saml.relay = e.relay
    BY <1>2 DEF Admits
  <2>3. cookie.saml \in Verified /\ Vouched(cookie.saml)
    BY <2>2 DEF IInv, TypeOK, Sessions, SessionsSigned, Signed
  <2> QED
    BY <2>1, <2>2, <2>3
<1>3. CASE e.method = "POST" /\ e.verb # "GET"
  BY <1>3 DEF Admits, DocumentSigned, Voucher
<1> QED
  BY <1>1, <1>2, <1>3 DEF SsoRequests

\* The answer to a request that was parsed as it came.
LEMMA AnswerIsSound ==
  ASSUME IInv, NEW e \in SsoRequests, WellSent(e), Admits(e, cookie),
         AskedOnce(e), NEW user \in Users
  PROVE  LET r == SamlResponse(e, user)
         IN r \in AnyPage /\ Sound(r) /\ r.kind = "saml response"
<1> DEFINE r == SamlResponse(e, user)
<1>1. /\ e.request \in SamlRequests /\ e.relay \in RelayStates /\ e.attempts \in Nat
      /\ e.entry \in {"GET", "POST", "claimed"}
  BY DEF SsoRequests
<1>2. settings.wantSigned \in BOOLEAN
  BY DEF IInv, TypeOK, Settings
<1>3. /\ r.kind = "saml response" /\ r.user = user /\ r.relay = e.relay
      /\ r.acs = (IF Readable(e) THEN AcsOf(e.request) ELSE DefaultAcs)
      /\ r.inResponseTo = (IF Readable(e) THEN e.request.id ELSE "")
      /\ r.request = e.request /\ r.entry = e.entry /\ r.attempts = e.attempts
      /\ r.demanded = settings.wantSigned /\ r.voucher = Voucher(e, cookie)
  BY DEF SamlResponse
<1>4. r \in SamlAnswers
  <2>1. (IF Readable(e) THEN AcsOf(e.request) ELSE DefaultAcs)
           \in {AcsOf(q) : q \in SamlRequests} \cup {DefaultAcs}
    BY <1>1
  <2>2. (IF Readable(e) THEN e.request.id ELSE "") \in {q.id : q \in SamlRequests} \cup {""}
    BY <1>1
  <2>3. Voucher(e, cookie) \in Verified \cup {None}
    <3>1. ~settings.wantSigned => Voucher(e, cookie) = None
      BY DEF Voucher
    <3> QED
      BY <3>1, AdmittedWasSigned
  <2> QED
    BY <1>1, <1>2, <2>1, <2>2, <2>3 DEF SamlResponse, SamlAnswers
<1> HIDE DEF r
<1>5. r.demanded => EnteredSigned(r)
  BY <1>3, AdmittedWasSigned DEF EnteredSigned
<1>6. AsAsked(r)
  <2> SUFFICES ASSUME r.entry = (IF r.request.deflated THEN "GET" ELSE "POST"),
                      settings.strict => r.attempts = 0
               PROVE  r.inResponseTo = r.request.id /\ r.acs = AcsOf(r.request)
    BY DEF AsAsked
  <2>1. ASSUME settings.strict
        PROVE  ParsedFor(e) = e.entry
    BY <2>1, <1>3 DEF AskedOnce
  <2>2. Readable(e)
    <3>1. e.request.deflated \in BOOLEAN
      BY <1>1, RequestsAssumption
    <3> QED
      BY <2>1, <3>1, <1>3 DEF Readable
  <2> QED
    BY <2>2, <1>3
<1> QED
  BY <1>3, <1>4, <1>5, <1>6 DEF r, AnyPage, Sound, SoundLogin, SoundCode,
     SoundSamlLogin, SoundSamlAnswer

LEMMA SsoKeeps ==
  ASSUME IInv, NEW t \in Tabs, NEW e \in SsoRequests, WellSent(e), AskedOnce(e), Sso(t, e)
  PROVE  IInv'
<1> DEFINE seen == IF settings.wantSigned /\ e.method = "GET"
                   THEN [cookie EXCEPT !.saml = Mark(e)] ELSE cookie
           user == IF cookie.user # None THEN cookie.user ELSE e.who
           after == IF user = None THEN seen ELSE SignIn(seen, user)
           assigned == \/ settings.wantSigned /\ e.method = "GET"
                       \/ cookie.user = None /\ user # None
           s == Untouched(cookie)
           changed == IF assigned THEN after ELSE s
           login == SamlLogin(e)
           answer == SamlResponse(e, user)
<1>1. cookie \in Sessions /\ Signed(cookie)
  BY DEF IInv, TypeOK, SessionsSigned
<1>2. s \in Sessions \cup {Keep} /\ Calm(s) /\ (s # Keep => Signed(s))
  BY UntouchedFits
<1>3. user \in Names \cup {None} /\ (user = None => e.who = None)
  BY <1>1 DEF Sessions, SsoRequests, Names
<1>4. ASSUME settings.wantSigned, e.method = "GET", Admits(e, cookie)
      PROVE  Mark(e) \in Verified /\ Vouched(Mark(e))
  BY <1>4, MarkIsVouched DEF WellSent
<1>5. /\ \/ ~Admits(e, cookie) /\ Open(t, Error, s)
         \/ Admits(e, cookie) /\ user = None /\ Open(t, login, changed)
         \/ Admits(e, cookie) /\ Open(t, Error, changed)
         \/ Admits(e, cookie) /\ user \in Users /\ Open(t, answer, changed)
      /\ UNCHANGED <<page, flowOpen>>
  BY DEF Sso
<1> HIDE DEF s
<1>6. ASSUME Admits(e, cookie)
      PROVE  /\ changed \in Sessions \cup {Keep} /\ Calm(changed)
             /\ changed # Keep => Signed(changed)
  <2> HIDE DEF user
  <2>1. seen \in Sessions /\ seen.oauth = cookie.oauth /\ Signed(seen)
    <3>1. CASE settings.wantSigned /\ e.method = "GET"
      <4>1. seen = [cookie EXCEPT !.saml = Mark(e)]
        BY <3>1
      <4>2. Mark(e) \in Verified /\ Vouched(Mark(e))
        BY <3>1, <1>4, <1>6
      <4>3. seen \in Sessions /\ seen.oauth = cookie.oauth /\ seen.saml = Mark(e)
        BY <4>1, <4>2, <1>1 DEF Sessions
      <4> QED
        BY <4>2, <4>3 DEF Signed
    <3>2. CASE ~(settings.wantSigned /\ e.method = "GET")
      BY <3>2, <1>1
    <3> QED
      BY <3>1, <3>2
  <2> HIDE DEF seen
  <2>2. after \in Sessions /\ after.oauth = cookie.oauth /\ Signed(after)
    <3>1. CASE user = None
      BY <3>1, <2>1
    <3>2. CASE user \in Names /\ user # None
      <4>1. /\ SignIn(seen, user) \in Sessions /\ SignIn(seen, user).oauth = seen.oauth
            /\ SignIn(seen, user).saml = seen.saml
        BY <3>2, <2>1, SessionOperations
      <4> QED
        BY <4>1, <3>2, <2>1 DEF Signed
    <3> QED
      BY <3>1, <3>2, <1>3
  <2> HIDE DEF after
  <2> QED
    BY <2>2, <1>2 DEF Calm
<1>7. ASSUME user = None
      PROVE  login \in AnyPage /\ Sound(login) /\ login.kind = "saml login"
  <2>1. e.who = None
    BY <1>3, <1>7
  <2>2. /\ login \in SamlLogins /\ login.kind = "saml login" /\ login.verb = e.method
        /\ login.entry = e.entry /\ login.attempts = e.attempts
    BY DEF SamlLogin, SamlLogins, SsoRequests
  <2> HIDE DEF login
  <2>3. SoundSamlLogin(login)
    BY <2>1, <2>2 DEF SoundSamlLogin, AskedOnce
  <2> QED
    BY <2>2, <2>3 DEF AnyPage, Sound, SoundLogin, SoundCode, SoundSamlAnswer
<1>8. ASSUME Admits(e, cookie), user \in Users
      PROVE  answer \in AnyPage /\ Sound(answer) /\ answer.kind = "saml response"
  BY <1>8, AnswerIsSound
<1> HIDE DEF user, changed, login, answer
<1>9. CASE Open(t, Error, s)
  <2>1. Fits(Error, s)
    BY <1>2, PlainFits, PlainAnswers
  <2> QED
    BY <1>9, <2>1, <1>2, <1>5, OpenKeepsInvariant
<1>10. CASE Admits(e, cookie) /\ user = None /\ Open(t, login, changed)
  <2>1. Fits(login, changed)
    BY <1>10, <1>6, <1>7 DEF Fits
  <2> QED
    BY <1>10, <2>1, <1>6, <1>5, OpenKeepsInvariant
<1>11. CASE Admits(e, cookie) /\ Open(t, Error, changed)
  <2>1. Fits(Error, changed)
    BY <1>11, <1>6, PlainFits, PlainAnswers
  <2> QED
    BY <1>11, <2>1, <1>6, <1>5, OpenKeepsInvariant
<1>12. CASE Admits(e, cookie) /\ user \in Users /\ Open(t, answer, changed)
  <2>1. Fits(answer, changed)
    BY <1>12, <1>6, <1>8 DEF Fits
  <2> QED
    BY <1>12, <2>1, <1>6, <1>5, OpenKeepsInvariant
<1> QED
  BY <1>5, <1>9, <1>10, <1>11, <1>12

LEMMA SsoGetKeeps ==
  ASSUME IInv, NEW t \in Tabs, NEW q \in SamlRequests, NEW r \in RelayStates,
         NEW query \in Queries, SsoGet(t, q, r, query)
  PROVE  IInv'
<1> DEFINE e == [method |-> "GET", verb |-> None, request |-> q, relay |-> r,
                 query |-> query, who |-> None, entry |-> "GET", attempts |-> 0]
<1>1. e \in SsoRequests /\ WellSent(e)
  BY DEF SsoRequests, WellSent, SsoGet
<1>2. AskedOnce(e)
  BY DEF AskedOnce, ParsedFor
<1>3. Sso(t, e)
  BY DEF SsoGet
<1> HIDE DEF e
<1> QED
  BY <1>1, <1>2, <1>3, SsoKeeps

LEMMA SsoFormKeeps ==
  ASSUME IInv, NEW t \in Tabs, NEW q \in SamlRequests, NEW r \in RelayStates,
         NEW v \in {None, "GET", "POST", "PUT"}, SsoForm(t, q, r, v)
  PROVE  IInv'
<1> DEFINE e == [method |-> "POST", verb |-> v, request |-> q, relay |-> r,
                 query |-> None, who |-> None,
                 entry |-> IF v = None THEN "POST" ELSE "claimed", attempts |-> 0]
<1>1. e \in SsoRequests /\ WellSent(e)
  BY DEF SsoRequests, WellSent
<1>2. AskedOnce(e)
  BY DEF AskedOnce, ParsedFor
<1>3. Sso(t, e)
  BY DEF SsoForm
<1> HIDE DEF e
<1> QED
  BY <1>1, <1>2, <1>3, SsoKeeps

\* A failed login counts as an attempt, so only the first may be a request asked
\* once, and its page carries the verb the request came by.
LEMMA SsoLoginKeeps ==
  ASSUME IInv, NEW t \in Tabs, NEW who \in Users \cup {None}, SsoLogin(t, who)
  PROVE  IInv'
<1> DEFINE from == page[t]
           n == from.attempts + (IF who = None THEN 1 ELSE 0)
           e == [method |-> "POST", verb |-> from.verb, request |-> from.request,
                 relay |-> from.relay, query |-> None, who |-> who,
                 entry |-> from.entry, attempts |-> n]
<1>1. from \in SamlLogins /\ SoundSamlLogin(from)
  <2>1. from \in AnyPage /\ Sound(from) /\ from.kind = "saml login"
    BY DEF IInv, TypeOK, PagesSound, SsoLogin
  <2> QED
    BY <2>1, Kinds DEF Sound
<1>2. Sso(t, e)
  BY DEF SsoLogin
<1> HIDE DEF from
<1>3. n \in Nat /\ (n = 0 => from.attempts = 0 /\ who # None)
  <2>1. from.attempts \in Nat
    BY <1>1 DEF SamlLogins
  <2>2. who # None => n = from.attempts + 0
    OBVIOUS
  <2>3. who = None => n = from.attempts + 1
    OBVIOUS
  <2> HIDE DEF n
  <2> QED
    BY <2>1, <2>2, <2>3
<1> HIDE DEF n
<1>4. e \in SsoRequests /\ WellSent(e)
  BY <1>1, <1>3 DEF SsoRequests, SamlLogins, WellSent
<1>5. AskedOnce(e)
  <2> SUFFICES ASSUME n = 0, from.entry # "claimed"
               PROVE  ParsedFor(e) = from.entry /\ who # None
    BY DEF AskedOnce
  <2>1. from.verb = from.entry /\ from.verb # None
    BY <1>1, <1>3, NoneAssumption DEF SoundSamlLogin, SamlLogins
  <2> QED
    BY <2>1, <1>3 DEF ParsedFor
<1> HIDE DEF e
<1> QED
  BY <1>2, <1>4, <1>5, SsoKeeps

LEMMA UiPageKeeps ==
  ASSUME IInv, NEW t \in Tabs, UiPage(t)
  PROVE  IInv'
<1> DEFINE p == IF cookie.user = None THEN LoginForm ELSE Admin
           s == Untouched(cookie)
<1>1. s \in Sessions \cup {Keep} /\ Calm(s) /\ (s # Keep => Signed(s))
  BY UntouchedFits
<1>2. p \in {Error, Admin, LoginForm}
  OBVIOUS
<1>3. Open(t, p, s) /\ UNCHANGED <<page, flowOpen>>
  BY DEF UiPage
<1> HIDE DEF p, s
<1>4. Fits(p, s)
  BY <1>1, <1>2, PlainFits, PlainAnswers
<1> QED
  BY <1>1, <1>3, <1>4, OpenKeepsInvariant

\* A login keeps what the session remembers of either protocol.
LEMMA SignInFits ==
  ASSUME IInv, NEW u \in Names
  PROVE  /\ SignIn(cookie, u) \in Sessions
         /\ Calm(SignIn(cookie, u)) /\ Signed(SignIn(cookie, u))
<1>1. cookie \in Sessions /\ Signed(cookie)
  BY DEF IInv, TypeOK, SessionsSigned
<1>2. /\ SignIn(cookie, u) \in Sessions /\ SignIn(cookie, u).oauth = cookie.oauth
      /\ SignIn(cookie, u).saml = cookie.saml
  BY <1>1, SessionOperations
<1> QED
  BY <1>1, <1>2 DEF Calm, Signed

LEMMA UiLoginKeeps ==
  ASSUME IInv, NEW t \in Tabs, NEW who \in Users \cup {None}, UiLogin(t, who)
  PROVE  IInv'
<1>1. UNCHANGED <<page, flowOpen>>
  BY DEF UiLogin
<1>2. CASE who = None
  <2> DEFINE s == Untouched(cookie)
  <2>1. s \in Sessions \cup {Keep} /\ Calm(s) /\ (s # Keep => Signed(s))
    BY UntouchedFits
  <2>2. Open(t, LoginForm, s)
    BY <1>2 DEF UiLogin
  <2> HIDE DEF s
  <2>3. Fits(LoginForm, s)
    BY <2>1, PlainFits, PlainAnswers
  <2> QED
    BY <1>1, <2>1, <2>2, <2>3, OpenKeepsInvariant
<1>3. CASE who # None
  <2> DEFINE s == SignIn(cookie, who)
  <2>1. s \in Sessions /\ Calm(s) /\ Signed(s)
    BY <1>3, SignInFits DEF Names
  <2>2. Open(t, Admin, s)
    BY <1>3 DEF UiLogin
  <2> HIDE DEF s
  <2>3. Fits(Admin, s)
    BY <2>1, PlainFits, PlainAnswers
  <2> QED
    BY <1>1, <2>1, <2>2, <2>3, OpenKeepsInvariant
<1> QED
  BY <1>2, <1>3

LEMMA ClerkLoginKeeps ==
  ASSUME IInv, NEW t \in Tabs, ClerkLogin(t)
  PROVE  IInv'
<1> DEFINE s == SignIn(cookie, ClerkUser)
<1>1. s \in Sessions /\ Calm(s) /\ Signed(s)
  BY SignInFits DEF Names
<1>2. Open(t, Admin, s) /\ UNCHANGED <<page, flowOpen>>
  BY DEF ClerkLogin
<1> HIDE DEF s
<1>3. Fits(Admin, s)
  BY <1>1, PlainFits, PlainAnswers
<1> QED
  BY <1>1, <1>2, <1>3, OpenKeepsInvariant

LEMMA LogoutKeeps ==
  ASSUME IInv, NEW t \in Tabs, Logout(t)
  PROVE  IInv'
<1>1. NoSession \in Sessions /\ NoSession.oauth = None /\ NoSession.saml = None
  BY DEF NoSession, Sessions
<1>2. LoggedOut \in PlainPages /\ LoggedOut.kind = "logged out"
  BY DEF LoggedOut, PlainPages
<1>3. Open(t, LoggedOut, NoSession) /\ UNCHANGED <<page, flowOpen>>
  BY DEF Logout, Cleared
<1>4. Fits(LoggedOut, NoSession)
  BY <1>1, <1>2, PlainIsSound DEF Fits, Signed
<1>5. Calm(NoSession)
  BY <1>1 DEF Calm
<1> QED
  BY <1>3, <1>4, <1>5, OpenKeepsInvariant

-----------------------------------------------------------------------------
(* The arrival of a response *)

LEMMA ReceiveKeeps ==
  ASSUME IInv, NEW t \in Tabs, Receive(t)
  PROVE  IInv'
<1> DEFINE a == awaited[t]
           shown == IF a.page.kind = "authorize"
                    THEN [a.page EXCEPT !.quiet = @ /\ a.alone] ELSE a.page
<1>1. /\ a \in Answers /\ Busy(t)
      /\ a.page \in AnyPage /\ a.session \in Sessions \cup {Keep} /\ a.alone \in BOOLEAN
      /\ Sound(a.page)
  <2>1. Busy(t)
    BY DEF Receive
  <2>2. a \in Answers
    BY <2>1 DEF IInv, TypeOK, Busy
  <2> QED
    BY <2>1, <2>2 DEF IInv, PagesSound, Answers
<1>2. /\ settings' = settings /\ exchanges' = exchanges
      /\ cookie' = After(a)
      /\ page' = [page EXCEPT ![t] = shown]
      /\ awaited' = [awaited EXCEPT ![t] = None]
      /\ flowOpen' = (flowOpen /\ ~(a.alone /\ a.page.kind \in {"code", "logged out"}))
      /\ loggedOut' = (IF a.page.kind = "logged out" THEN ~OthersBusy(t)
                       ELSE loggedOut /\ ~a.login)
  BY DEF Receive, After
<1>3. /\ shown \in AnyPage /\ Sound(shown)
      /\ shown.kind = "authorize" /\ Undisturbed(shown) =>
           /\ a.page.kind = "authorize" /\ Undisturbed(a.page) /\ a.alone
           /\ shown.shown = a.page.shown
  <2>1. CASE a.page.kind # "authorize"
    BY <2>1, <1>1
  <2>2. CASE a.page.kind = "authorize"
    <3>1. a.page \in AuthorizePages /\ SoundLogin(a.page)
      BY <2>2, <1>1, Kinds DEF Sound
    <3>2. shown = [a.page EXCEPT !.quiet = @ /\ a.alone]
      BY <2>2
    <3>3. /\ shown \in AuthorizePages /\ shown.kind = "authorize"
          /\ shown.shown = a.page.shown /\ shown.own = a.page.own
          /\ shown.entry = a.page.entry /\ shown.clean = a.page.clean
          /\ shown.quiet = (a.page.quiet /\ a.alone)
      BY <3>1, <3>2, <1>1 DEF AuthorizePages
    <3> HIDE DEF shown
    <3>4. SoundLogin(shown)
      BY <3>1, <3>3, <2>2 DEF SoundLogin, Undisturbed
    <3>5. shown \in AnyPage /\ Sound(shown)
      BY <3>3, <3>4 DEF AnyPage, Sound, SoundCode, SoundSamlLogin, SoundSamlAnswer
    <3> QED
      BY <3>3, <3>5, <2>2 DEF Undisturbed
  <2> QED
    BY <2>1, <2>2
<1> HIDE DEF shown
<1>4. /\ awaited'[t] = None /\ ~Busy(t)' /\ page'[t] = shown
      /\ \A u \in Tabs : u # t => awaited'[u] = awaited[u] /\ page'[u] = page[u]
      /\ \A u \in Tabs : Busy(u)' <=> (u # t /\ Busy(u))
  BY <1>2 DEF Busy, IInv, TypeOK
<1>5. After(a) \in Sessions /\ Signed(After(a))
  BY <1>1 DEF After, IInv, TypeOK, SessionsSigned
<1>6. \A q : Sound(q)' <=> Sound(q)
  <2>1. settings' = settings
    BY <1>2
  <2> QED
    BY <2>1 DEF Sound, SoundLogin, SoundCode, SoundSamlLogin, SoundSamlAnswer, AsAsked,
       Acceptable, RedirectAllowed, ChallengeAllowed, PkceRequired, PlainAllowed,
       EnteredSigned, Vouched
<1>7. a.alone => \A u \in Tabs : ~Busy(u)'
  BY <1>1, <1>4 DEF IInv, AloneIsAlone
<1>8. a.page.kind = "logged out" => a.session = NoSession
  BY <1>1 DEF IInv, LogoutsStick
<1>9. NoSession # Keep /\ NoSession.user = None /\ NoSession.oauth = None
  <2>1. NoSession \in Sessions
    BY <1>5, SessionOperations
  <2> QED
    BY <2>1, NoneAssumption DEF NoSession, Keep
<1>10. \A v \in Tabs : Busy(v)' =>
         (After(awaited[v]))' \in {After(a), After(awaited[v])}
  <2> SUFFICES ASSUME NEW v \in Tabs, Busy(v)'
               PROVE  (After(awaited[v]))' \in {After(a), After(awaited[v])}
    OBVIOUS
  <2>1. awaited'[v] = awaited[v]
    BY <1>4
  <2>2. (After(awaited[v]))' = IF awaited[v].session = Keep THEN cookie'
                              ELSE awaited[v].session
    BY <2>1 DEF After, Keep
  <2>3. After(awaited[v]) = IF awaited[v].session = Keep THEN cookie
                            ELSE awaited[v].session
    BY DEF After
  <2> QED
    BY <2>2, <2>3, <1>2
<1>11. TypeOK'
  <2>1. page' \in [Tabs -> AnyPage] /\ awaited' \in [Tabs -> Answers \cup {None}]
    BY <1>2, <1>3 DEF IInv, TypeOK
  <2>2. flowOpen' \in BOOLEAN /\ loggedOut' \in BOOLEAN
    BY <1>2
  <2> QED
    BY <2>1, <2>2, <1>2, <1>5 DEF IInv, TypeOK
<1>12. PagesSound'
  <2> SUFFICES ASSUME NEW u \in Tabs
               PROVE  Sound(page'[u]) /\ (Busy(u)' => Sound(awaited'[u].page))
    BY <1>6 DEF PagesSound
  <2> QED
    BY <1>3, <1>4 DEF IInv, PagesSound
<1>13. SessionsSigned'
  <2>1. \A u \in Tabs : Busy(u)' /\ awaited'[u].session # Keep => Signed(awaited'[u].session)
    BY <1>4 DEF IInv, SessionsSigned
  <2> QED
    BY <2>1, <1>2, <1>5 DEF SessionsSigned, Keep, Signed, Vouched
<1>14. LogoutsStick'
  <2>1. loggedOut' => cookie'.user = None
    <3>1. CASE a.page.kind = "logged out"
      BY <3>1, <1>2, <1>8, <1>9 DEF After
    <3>2. CASE a.page.kind # "logged out"
      <4> SUFFICES ASSUME loggedOut, ~a.login PROVE After(a).user = None
        BY <3>2, <1>2
      <4>1. cookie.user = None
        BY DEF IInv, LogoutsStick
      <4>2. a.session = Keep \/ a.session.user = None
        BY <1>1 DEF IInv, LogoutsStick
      <4> QED
        BY <4>1, <4>2 DEF After
    <3> QED
      BY <3>1, <3>2
  <2>2. ASSUME NEW u \in Tabs, Busy(u)'
        PROVE  /\ loggedOut' => \/ awaited'[u].session = Keep
                                \/ awaited'[u].session.user = None
                                \/ awaited'[u].login
               /\ awaited'[u].page.kind = "logged out" => awaited'[u].session = NoSession
    <3>1. u # t /\ Busy(u) /\ awaited'[u] = awaited[u]
      BY <2>2, <1>4
    <3>2. OthersBusy(t)
      BY <3>1 DEF OthersBusy
    <3>3. loggedOut' => loggedOut
      BY <3>2, <1>2
    <3> QED
      BY <3>1, <3>3 DEF IInv, LogoutsStick
  <2> QED
    BY <2>1, <2>2 DEF LogoutsStick, Keep
<1>15. AloneIsAlone'
  BY <1>4 DEF IInv, AloneIsAlone
<1>16. PagesRemembered'
  <2>1. ASSUME NEW u \in Tabs, ~Busy(u)', page'[u].kind = "authorize",
               Undisturbed(page'[u])
        PROVE  /\ Remembers(cookie', page'[u])
               /\ \A v \in Tabs : Busy(v)' => Remembers((After(awaited[v]))', page'[u])
    <3>1. CASE u = t
      <4>1. /\ a.page.kind = "authorize" /\ Undisturbed(a.page) /\ a.alone
            /\ page'[u].shown = a.page.shown
        BY <2>1, <3>1, <1>3, <1>4
      <4>2. Remembers(After(a), a.page)
        BY <4>1, <1>1 DEF IInv, PagesRemembered
      <4> QED
        BY <4>1, <4>2, <1>2, <1>7 DEF Remembers
    <3>2. CASE u # t
      <4>1. ~Busy(u) /\ page'[u] = page[u]
        BY <2>1, <3>2, <1>4
      <4>2. /\ Remembers(cookie, page[u])
            /\ \A v \in Tabs : Busy(v) => Remembers(After(awaited[v]), page[u])
        BY <2>1, <4>1 DEF IInv, PagesRemembered
      <4>3. Remembers(After(a), page[u])
        BY <4>2, <1>1
      <4> QED
        BY <4>1, <4>2, <4>3, <1>2, <1>4, <1>10
    <3> QED
      BY <3>1, <3>2
  <2>2. ASSUME NEW u \in Tabs, Busy(u)', awaited'[u].page.kind = "authorize",
               Undisturbed(awaited'[u].page), awaited'[u].alone
        PROVE  Remembers((After(awaited[u]))', awaited'[u].page)
    <3>1. u # t /\ Busy(u) /\ awaited'[u] = awaited[u]
      BY <2>2, <1>4
    <3>2. FALSE
      BY <3>1, <2>2, <1>1 DEF IInv, AloneIsAlone
    <3> QED
      BY <3>2
  <2> QED
    BY <2>1, <2>2 DEF PagesRemembered, Remembers, Undisturbed
<1>17. FlowsForgotten'
  <2>1. ASSUME ~flowOpen'
        PROVE  /\ cookie'.oauth = None
               /\ \A u \in Tabs : Busy(u)' => (After(awaited[u]))'.oauth = None
    <3>1. CASE flowOpen
      <4>1. a.alone /\ a.page.kind \in {"code", "logged out"}
        BY <2>1, <3>1, <1>2
      <4>2. a.session # Keep /\ a.session.oauth = None
        <5>1. CASE a.page.kind = "code"
          BY <5>1, <1>1 DEF IInv, FlowsForgotten
        <5>2. CASE a.page.kind = "logged out"
          BY <5>2, <1>8, <1>9
        <5> QED
          BY <4>1, <5>1, <5>2
      <4> QED
        BY <4>1, <4>2, <1>2, <1>7 DEF After
    <3>2. CASE ~flowOpen
      <4>1. /\ cookie.oauth = None
            /\ \A u \in Tabs : Busy(u) => After(awaited[u]).oauth = None
        BY <3>2 DEF IInv, FlowsForgotten
      <4>2. After(a).oauth = None
        BY <4>1, <1>1
      <4> QED
        BY <4>1, <4>2, <1>2, <1>4, <1>10
    <3> QED
      BY <3>1, <3>2
  <2>2. \A u \in Tabs : Busy(u)' /\ awaited'[u].page.kind = "code" =>
          awaited'[u].session # Keep /\ awaited'[u].session.oauth = None
    BY <1>4 DEF IInv, FlowsForgotten
  <2> QED
    BY <2>1, <2>2 DEF FlowsForgotten, Keep
<1> QED
  BY <1>11, <1>12, <1>13, <1>14, <1>15, <1>16, <1>17 DEF IInv

LEMMA RequireSignaturesKeeps ==
  ASSUME IInv, RequireSignatures
  PROVE  IInv'
<1>1. /\ settings' = [settings EXCEPT !.wantSigned = TRUE]
      /\ UNCHANGED <<cookie, page, awaited, exchanges, flowOpen, loggedOut>>
  BY DEF RequireSignatures
<1>2. settings \in Settings
  BY DEF IInv, TypeOK
<1>3. /\ settings' \in Settings
      /\ settings'.profile = settings.profile /\ settings'.strict = settings.strict
      /\ settings'.requirePkce = settings.requirePkce
      /\ settings'.maxExchanges = settings.maxExchanges
      /\ settings'.plain = settings.plain
  BY <1>1, <1>2 DEF Settings
<1>4. \A q : Sound(q)' <=> Sound(q)
  BY <1>3 DEF Sound, SoundLogin, SoundCode, SoundSamlLogin, SoundSamlAnswer, AsAsked,
     Acceptable, RedirectAllowed, ChallengeAllowed, PkceRequired, PlainAllowed,
     EnteredSigned, Vouched
<1>5. TypeOK'
  BY <1>1, <1>3 DEF IInv, TypeOK
<1>6. PagesSound'
  BY <1>1, <1>4 DEF IInv, PagesSound, Busy
<1>7. SessionsSigned' /\ LogoutsStick' /\ AloneIsAlone'
  BY <1>1, <1>3 DEF IInv, SessionsSigned, LogoutsStick, AloneIsAlone, Busy, Signed, Vouched,
     Keep
<1>8. PagesRemembered' /\ FlowsForgotten'
  BY <1>1 DEF IInv, PagesRemembered, FlowsForgotten, Busy, After, Remembers, Undisturbed,
     Keep
<1> QED
  BY <1>5, <1>6, <1>7, <1>8 DEF IInv

-----------------------------------------------------------------------------
(* Theorems *)

LEMMA InitIInv == Init => IInv
<1> SUFFICES ASSUME Init PROVE IInv
  OBVIOUS
<1>1. /\ settings \in Settings /\ cookie = NoSession /\ exchanges = 0
      /\ flowOpen = FALSE /\ loggedOut = TRUE
      /\ page = [t \in Tabs |-> Blank] /\ awaited = [t \in Tabs |-> None]
  BY DeploymentsAssumption DEF Init
<1>2. Blank \in PlainPages
  BY DEF PlainPages
<1>3. /\ Blank \in AnyPage /\ Sound(Blank)
      /\ Blank.kind \notin {"authorize", "code", "saml login", "saml response"}
  BY <1>2, PlainIsSound
<1>4. NoSession \in Sessions /\ NoSession.user = None /\ NoSession.oauth = None
      /\ NoSession.saml = None
  BY DEF NoSession, Sessions
<1>5. \A t \in Tabs : ~Busy(t) /\ page[t] = Blank
  BY <1>1 DEF Busy
<1>6. TypeOK
  <2>1. settings.maxExchanges \in Nat
    BY <1>1 DEF Settings
  <2>2. exchanges \in 0..settings.maxExchanges
    BY <2>1, <1>1
  <2> QED
    BY <2>2, <1>1, <1>3, <1>4 DEF TypeOK
<1>7. PagesSound /\ AloneIsAlone
  BY <1>3, <1>5 DEF PagesSound, AloneIsAlone
<1>8. SessionsSigned /\ LogoutsStick
  BY <1>1, <1>4, <1>5 DEF SessionsSigned, LogoutsStick, Signed
<1>9. PagesRemembered /\ FlowsForgotten
  BY <1>1, <1>3, <1>4, <1>5 DEF PagesRemembered, FlowsForgotten
<1> QED
  BY <1>6, <1>7, <1>8, <1>9 DEF IInv

LEMMA NextIInv == IInv /\ [Next]_vars => IInv'
<1> SUFFICES ASSUME IInv, [Next]_vars PROVE IInv'
  OBVIOUS
<1>1. CASE RequireSignatures
  BY <1>1, RequireSignaturesKeeps
<1>2. CASE \E t \in Tabs : Receive(t)
  BY <1>2, ReceiveKeeps
<1>3. CASE \E t \in Tabs, a \in AuthorizeRequests : AuthorizeGet(t, a)
  BY <1>3, AuthorizeGetKeeps
<1>4. CASE \E t \in Tabs, a \in AuthorizeRequests : AuthorizeForm(t, a)
  BY <1>4, AuthorizeFormKeeps
<1>5. CASE \E t \in Tabs, who \in Users \cup {None} : AuthorizeLogin(t, who)
  BY <1>5, AuthorizeLoginKeeps
<1>6. CASE \E t \in Tabs, q \in SamlRequests, r \in RelayStates, query \in Queries :
             SsoGet(t, q, r, query)
  BY <1>6, SsoGetKeeps
<1>7. CASE \E t \in Tabs, q \in SamlRequests, r \in RelayStates,
             v \in {None, "GET", "POST", "PUT"} : SsoForm(t, q, r, v)
  BY <1>7, SsoFormKeeps
<1>8. CASE \E t \in Tabs, who \in Users \cup {None} : SsoLogin(t, who)
  BY <1>8, SsoLoginKeeps
<1>9. CASE \E t \in Tabs : UiPage(t)
  BY <1>9, UiPageKeeps
<1>10. CASE \E t \in Tabs, who \in Users \cup {None} : UiLogin(t, who)
  BY <1>10, UiLoginKeeps
<1>11. CASE \E t \in Tabs : ClerkLogin(t)
  BY <1>11, ClerkLoginKeeps
<1>12. CASE \E t \in Tabs : Logout(t)
  BY <1>12, LogoutKeeps
<1>13. CASE UNCHANGED vars
  <2>1. /\ settings' = settings /\ cookie' = cookie /\ page' = page
        /\ awaited' = awaited /\ exchanges' = exchanges
        /\ flowOpen' = flowOpen /\ loggedOut' = loggedOut
    BY <1>13 DEF vars
  <2>2. \A q : Sound(q)' <=> Sound(q)
    BY <2>1 DEF Sound, SoundLogin, SoundCode, SoundSamlLogin, SoundSamlAnswer, AsAsked,
       Acceptable, RedirectAllowed, ChallengeAllowed, PkceRequired, PlainAllowed,
       EnteredSigned, Vouched
  <2>3. TypeOK' /\ PagesSound'
    BY <2>1, <2>2 DEF IInv, TypeOK, PagesSound, Busy
  <2>4. SessionsSigned' /\ LogoutsStick' /\ AloneIsAlone'
    BY <2>1 DEF IInv, SessionsSigned, LogoutsStick, AloneIsAlone, Busy, Signed, Vouched,
     Keep
  <2>5. PagesRemembered' /\ FlowsForgotten'
    BY <2>1 DEF IInv, PagesRemembered, FlowsForgotten, Busy, After, Remembers,
       Undisturbed, Keep
  <2> QED
    BY <2>3, <2>4, <2>5 DEF IInv
<1> QED
  BY <1>1, <1>2, <1>3, <1>4, <1>5, <1>6, <1>7, <1>8, <1>9, <1>10, <1>11, <1>12, <1>13
     DEF Next

LEMMA Invariance == Spec => []IInv
  BY InitIInv, NextIInv, PTL DEF Spec

\* Whatever is displayed or on its way is a sound page.
LEMMA EveryPage ==
  ASSUME IInv, NEW p \in Pages
  PROVE  p \in AnyPage /\ Sound(p)
<1>1. CASE p \in {page[t] : t \in Tabs}
  BY <1>1 DEF IInv, TypeOK, PagesSound
<1>2. CASE p \in {awaited[t].page : t \in {u \in Tabs : Busy(u)}}
  <2>1. PICK t \in Tabs : Busy(t) /\ p = awaited[t].page
    BY <1>2
  <2>2. awaited[t] \in Answers
    BY <2>1 DEF IInv, TypeOK, Busy
  <2> QED
    BY <2>1, <2>2 DEF IInv, PagesSound, Answers
<1> QED
  BY <1>1, <1>2 DEF Pages

\* Every parameter a page or a session holds is one a client sent or its
\* documented default, in whatever order responses arrive.
THEOREM TypeCorrect == Spec => []TypeOK
<1>1. IInv => TypeOK
  BY DEF IInv
<1> QED
  BY <1>1, Invariance, PTL

\* A code is only ever issued for parameters that authorize() accepts, whichever
\* tab's GET stored them in the session.
THEOREM NoRefusedRequestIsGranted == Spec => []RefusedNeverGranted
<1>1. IInv => RefusedNeverGranted
  <2> SUFFICES ASSUME IInv, NEW c \in Codes PROVE Acceptable(c.grant)
    BY DEF RefusedNeverGranted
  <2> QED
    BY EveryPage DEF Codes, Sound, SoundCode
<1> QED
  BY <1>1, Invariance, PTL

\* The code is for what the login page showed, unless another authorization
\* request was made since: no other handler of any tab can change what the
\* session remembers to anything but nothing, and nothing is refused.
THEOREM WhatIsShownIsGranted == Spec => []ShownIsGranted
<1>1. IInv => ShownIsGranted
  <2> SUFFICES ASSUME IInv, NEW c \in Codes, Undisturbed(c.from)
               PROVE  c.grant = c.from.shown
    BY DEF ShownIsGranted, Undisturbed
  <2> QED
    BY EveryPage DEF Codes, Sound, SoundCode
<1> QED
  BY <1>1, Invariance, PTL

\* A request made when none is pending is granted as its client sent it: a
\* finished flow's parameters have left every session, also those on their way.
THEOREM NoLeftoverIsGranted == Spec => []LeftoversNeverGranted
<1>1. IInv => LeftoversNeverGranted
  <2> SUFFICES ASSUME IInv, NEW c \in Codes, Undisturbed(c.from), c.from.clean
               PROVE  c.grant = c.from.own
    BY DEF LeftoversNeverGranted, Undisturbed
  <2> QED
    BY EveryPage DEF Codes, Sound, SoundCode
<1> QED
  BY <1>1, Invariance, PTL

\* A logout that no other exchange overlapped lasts until the next login.
THEOREM LogoutLasts == Spec => []LoggedOutStaysOut
<1>1. IInv => LoggedOutStaysOut
  BY DEF IInv, LogoutsStick, LoggedOutStaysOut
<1> QED
  BY <1>1, Invariance, PTL

\* With want_authn_requests_signed every answered AuthnRequest entered signed,
\* whatever the login form claims: in its document, or in a query this browser
\* sent that went with this request and RelayState, and that spelled just these
\* where queries are plain.
THEOREM AnsweredWasSigned == Spec => []OnlySignedIsAnswered
<1>1. IInv => OnlySignedIsAnswered
  <2> SUFFICES ASSUME IInv, NEW r \in SamlResponses, r.demanded
               PROVE  EnteredSigned(r)
    BY DEF OnlySignedIsAnswered
  <2> QED
    BY EveryPage DEF SamlResponses, Sound, SoundSamlAnswer
<1> QED
  BY <1>1, Invariance, PTL

\* A request over its own binding is answered at the URL it names, with the
\* inline login in between or without; under strict parsing at the first attempt.
THEOREM RequestsAreAnsweredAsAsked == Spec => []AnsweredAsAsked
<1>1. IInv => AnsweredAsAsked
  <2>1. ASSUME IInv, NEW r \in SamlResponses PROVE AsAsked(r)
    BY <2>1, EveryPage DEF SamlResponses, Sound, SoundSamlAnswer
  <2> QED
    BY <2>1 DEF AnsweredAsAsked, AsAsked
<1> QED
  BY <1>1, Invariance, PTL

=============================================================================
