-------------------------- MODULE TokenClaimsProofs --------------------------
(***************************************************************************)
(* What TokenClaims' run checks on a small instance, for any users,        *)
(* attributes, clients, scopes and extras, and for lineages of any length. *)
(*                                                                         *)
(* Every property is about a claim that is read out of a payload, so the   *)
(* proofs first say what each payload states (AccessClaims, IdClaims,      *)
(* RefreshClaims) and from then on speak of the tokens' claims only.       *)
(***************************************************************************)
EXTENDS TokenClaims, TLAPS

-----------------------------------------------------------------------------
(* Payloads *)

\* What the payload f says of c.
Says(f, c) == IF c \in DOMAIN f THEN f[c] ELSE {}

\* No attribute of a user stands for a claim of the protocol.
LEMMA UserClaimsAreNotReserved ==
  ASSUME NEW n, NEW u, NEW names
  PROVE  DOMAIN OnlyThe(ResolvedClaims(n, u), names) \cap Reserved = {}
<1>1. DOMAIN ResolvedClaims(n, u) \cap Reserved = {}
  BY DEF ResolvedClaims, Without
<1> QED
  BY <1>1 DEF OnlyThe

\* An access token states its grant; only the rest is the caller's to say.
LEMMA AccessClaims ==
  ASSUME NEW g
  PROVE  LET f == AccessPayload(g)
         IN /\ Says(f, "scope") = g.scope
            /\ Says(f, "req_userinfo_claims") = g.userinfoClaims
            /\ Says(f, "req_id_token_claims") = {}
            /\ Says(f, "sub") = IF "sub" \in DOMAIN g.extra THEN g.extra["sub"] ELSE {g.user}
            /\ Says(f, "jti") = IF "jti" \in DOMAIN g.extra THEN g.extra["jti"] ELSE {Jti(1)}
            /\ Says(f, "auth_time") = Says(g.extra, "auth_time")
<1> DEFINE rest == [jti |-> {Jti(1)}, sub |-> {g.user}, aud |-> {settings.audience}]
           mark == [token_use |-> {"access"}]
           x == Stripped(g.extra)
<1>1. /\ DOMAIN x = DOMAIN g.extra \ Authoritative
      /\ \A c \in DOMAIN x : x[c] = g.extra[c]
  BY DEF Stripped, Without
<1>2. /\ DOMAIN rest = {"jti", "sub", "aud"} /\ rest["sub"] = {g.user}
      /\ rest["jti"] = {Jti(1)} /\ DOMAIN mark = {"token_use"}
  OBVIOUS
<1>3. AccessPayload(g) = mark ++ Present("scope", g.scope)
                              ++ Present("req_userinfo_claims", g.userinfoClaims) ++ x ++ rest
  BY DEF AccessPayload
<1> HIDE DEF rest, mark, x
<1>4. \A c : Says(AccessPayload(g), c) =
        IF c \in DOMAIN mark THEN mark[c]
        ELSE IF c \in DOMAIN Present("scope", g.scope) THEN Present("scope", g.scope)[c]
        ELSE IF c \in DOMAIN Present("req_userinfo_claims", g.userinfoClaims)
             THEN Present("req_userinfo_claims", g.userinfoClaims)[c]
        ELSE IF c \in DOMAIN x THEN x[c] ELSE Says(rest, c)
  BY <1>3 DEF ++, Says
<1>5. /\ DOMAIN Present("scope", g.scope) = IF g.scope = {} THEN {} ELSE {"scope"}
      /\ g.scope # {} => Present("scope", g.scope)["scope"] = g.scope
  BY DEF Present
<1>6. /\ DOMAIN Present("req_userinfo_claims", g.userinfoClaims) =
           IF g.userinfoClaims = {} THEN {} ELSE {"req_userinfo_claims"}
      /\ g.userinfoClaims # {} =>
           Present("req_userinfo_claims", g.userinfoClaims)["req_userinfo_claims"]
             = g.userinfoClaims
  BY DEF Present
<1>7. Says(AccessPayload(g), "scope") = g.scope
  BY <1>1, <1>2, <1>4, <1>5, <1>6 DEF Authoritative, Says
<1>8. Says(AccessPayload(g), "req_userinfo_claims") = g.userinfoClaims
  BY <1>1, <1>2, <1>4, <1>5, <1>6 DEF Authoritative, Says
<1>9. Says(AccessPayload(g), "req_id_token_claims") = {}
  BY <1>1, <1>2, <1>4, <1>5, <1>6 DEF Authoritative, Says
<1>10. Says(AccessPayload(g), "sub") =
         IF "sub" \in DOMAIN g.extra THEN g.extra["sub"] ELSE {g.user}
  BY <1>1, <1>2, <1>4, <1>5, <1>6 DEF Authoritative, Says
<1>11. Says(AccessPayload(g), "auth_time") = Says(g.extra, "auth_time")
  BY <1>1, <1>2, <1>4, <1>5, <1>6 DEF Authoritative, Says
<1>12. Says(AccessPayload(g), "jti") =
         IF "jti" \in DOMAIN g.extra THEN g.extra["jti"] ELSE {Jti(1)}
  BY <1>1, <1>2, <1>4, <1>5, <1>6 DEF Authoritative, Says
<1> QED
  BY <1>7, <1>8, <1>9, <1>10, <1>11, <1>12

\* An ID token states the protocol's claims whatever was requested of the user.
LEMMA IdClaims ==
  ASSUME NEW g, NEW u
  PROVE  LET f == IdPayload(g, u)
         IN /\ \A c \in Authoritative : Says(f, c) = {}
            /\ Says(f, "token_use") = {"id"}
            /\ Says(f, "auth_time") = {AuthTime(g)}
            /\ Says(f, "sub") = {g.user}
            /\ Says(f, "aud") = IdAudience(g.client)
            /\ Says(f, "jti") = {Jti(2)}
<1> DEFINE aud == IdAudience(g.client)
           mark == [token_use |-> {"id"}, auth_time |-> {AuthTime(g)}]
           azp == IF Cardinality(aud) > 1 THEN [azp |-> {g.client}] ELSE << >>
           x == OnlyThe(ResolvedClaims(g.user, u), g.idClaims)
           rest == [jti |-> {Jti(2)}, sub |-> {g.user}, aud |-> aud]
<1>1. IdPayload(g, u) = mark ++ azp ++ x ++ rest
  BY DEF IdPayload
<1>2. /\ DOMAIN mark = {"token_use", "auth_time"}
      /\ mark["token_use"] = {"id"} /\ mark["auth_time"] = {AuthTime(g)}
      /\ DOMAIN rest = {"jti", "sub", "aud"} /\ rest["jti"] = {Jti(2)}
      /\ rest["sub"] = {g.user} /\ rest["aud"] = aud
  OBVIOUS
<1>3. DOMAIN azp \subseteq {"azp"}
  OBVIOUS
<1>4. DOMAIN x \cap Reserved = {}
  BY UserClaimsAreNotReserved
<1> HIDE DEF mark, azp, x, rest
<1>5. \A c : Says(IdPayload(g, u), c) =
        IF c \in DOMAIN mark THEN mark[c]
        ELSE IF c \in DOMAIN azp THEN azp[c]
        ELSE IF c \in DOMAIN x THEN x[c] ELSE Says(rest, c)
  BY <1>1 DEF ++, Says
<1>6. \A c \in Authoritative : Says(IdPayload(g, u), c) = {}
  BY <1>2, <1>3, <1>4, <1>5 DEF Authoritative, Reserved, Says
<1>7. /\ Says(IdPayload(g, u), "token_use") = {"id"}
      /\ Says(IdPayload(g, u), "auth_time") = {AuthTime(g)}
  BY <1>2, <1>5
<1>8. Says(IdPayload(g, u), "sub") = {g.user} /\ Says(IdPayload(g, u), "aud") = aud
  BY <1>2, <1>3, <1>4, <1>5 DEF Reserved, Says
<1>9. Says(IdPayload(g, u), "jti") = {Jti(2)}
  BY <1>2, <1>3, <1>4, <1>5 DEF Reserved, Says
<1> QED
  BY <1>6, <1>7, <1>8, <1>9

\* A refresh token remembers the grant, and the time only of an openid one.
LEMMA RefreshClaims ==
  ASSUME NEW g
  PROVE  LET f == RefreshPayload(g)
         IN /\ Says(f, "scope") = g.scope
            /\ Says(f, "req_userinfo_claims") = g.userinfoClaims
            /\ Says(f, "req_id_token_claims") = g.idClaims
            /\ Says(f, "auth_time") = IF "openid" \in g.scope THEN {AuthTime(g)} ELSE {}
            /\ Says(f, "token_use") = {"refresh"}
            /\ Says(f, "sub") = {g.user}
            /\ Says(f, "aud") = {settings.audience}
            /\ Says(f, "jti") = {Jti(3)}
<1> DEFINE mark == [token_use |-> {"refresh"}, token_type |-> {"refresh"}]
           sc == Present("scope", g.scope)
           time == IF "openid" \in g.scope THEN [auth_time |-> {AuthTime(g)}] ELSE << >>
           client == IF g.client = NoClient THEN << >> ELSE [client_id |-> {g.client}]
           idc == Present("req_id_token_claims", g.idClaims)
           uic == Present("req_userinfo_claims", g.userinfoClaims)
           rest == [jti |-> {Jti(3)}, sub |-> {g.user}, aud |-> {settings.audience}]
<1>1. RefreshPayload(g) = mark ++ (sc ++ time ++ client ++ idc ++ uic) ++ rest
  BY DEF RefreshPayload, Context
<1>2. /\ DOMAIN mark = {"token_use", "token_type"} /\ mark["token_use"] = {"refresh"}
      /\ DOMAIN rest = {"jti", "sub", "aud"} /\ rest["jti"] = {Jti(3)}
      /\ rest["sub"] = {g.user} /\ rest["aud"] = {settings.audience}
  OBVIOUS
<1>3. /\ DOMAIN time = IF "openid" \in g.scope THEN {"auth_time"} ELSE {}
      /\ "openid" \in g.scope => time["auth_time"] = {AuthTime(g)}
  OBVIOUS
<1>4. DOMAIN client \subseteq {"client_id"}
  OBVIOUS
<1>5. /\ DOMAIN sc = IF g.scope = {} THEN {} ELSE {"scope"}
      /\ g.scope # {} => sc["scope"] = g.scope
  BY DEF Present
<1>6. /\ DOMAIN idc = IF g.idClaims = {} THEN {} ELSE {"req_id_token_claims"}
      /\ g.idClaims # {} => idc["req_id_token_claims"] = g.idClaims
  BY DEF Present
<1>7. /\ DOMAIN uic = IF g.userinfoClaims = {} THEN {} ELSE {"req_userinfo_claims"}
      /\ g.userinfoClaims # {} => uic["req_userinfo_claims"] = g.userinfoClaims
  BY DEF Present
<1> HIDE DEF mark, sc, time, client, idc, uic, rest
<1>8. \A c : Says(RefreshPayload(g), c) =
        IF c \in DOMAIN mark THEN mark[c]
        ELSE IF c \in DOMAIN sc THEN sc[c]
        ELSE IF c \in DOMAIN time THEN time[c]
        ELSE IF c \in DOMAIN client THEN client[c]
        ELSE IF c \in DOMAIN idc THEN idc[c]
        ELSE IF c \in DOMAIN uic THEN uic[c]
        ELSE Says(rest, c)
  BY <1>1 DEF ++, Says
<1>9. Says(RefreshPayload(g), "scope") = g.scope
  BY <1>2, <1>3, <1>4, <1>5, <1>6, <1>7, <1>8 DEF Says
<1>10. Says(RefreshPayload(g), "req_userinfo_claims") = g.userinfoClaims
  BY <1>2, <1>3, <1>4, <1>5, <1>6, <1>7, <1>8 DEF Says
<1>11. Says(RefreshPayload(g), "req_id_token_claims") = g.idClaims
  BY <1>2, <1>3, <1>4, <1>5, <1>6, <1>7, <1>8 DEF Says
<1>12. Says(RefreshPayload(g), "auth_time") =
         IF "openid" \in g.scope THEN {AuthTime(g)} ELSE {}
  BY <1>2, <1>3, <1>4, <1>5, <1>6, <1>7, <1>8 DEF Says
<1>13. Says(RefreshPayload(g), "token_use") = {"refresh"}
  BY <1>2, <1>8
<1>14. /\ Says(RefreshPayload(g), "sub") = {g.user}
       /\ Says(RefreshPayload(g), "aud") = {settings.audience}
  BY <1>2, <1>3, <1>4, <1>5, <1>6, <1>7, <1>8 DEF Says
<1>15. Says(RefreshPayload(g), "jti") = {Jti(3)}
  BY <1>2, <1>3, <1>4, <1>5, <1>6, <1>7, <1>8 DEF Says
<1> QED
  BY <1>9, <1>10, <1>11, <1>12, <1>13, <1>14, <1>15

-----------------------------------------------------------------------------
(* The inductive invariant *)

Limits == [issues : 0..MaxIssues, edits : 0..MaxEdits]

Typed ==
  /\ settings \in [audience : Audiences, strict : BOOLEAN]
  /\ users \in [Users -> Profiles \cup {Gone}]
  /\ limits \in Limits
  /\ issues \in 0..limits.issues /\ edits \in 0..limits.edits

\* The claims of a token state its grant.
StatesGrant(t) ==
  /\ t.kind \in {"access", "id", "refresh"}
  /\ GrantType(t.grant)
  /\ Claim(t, "sub") = IF t.kind = "access" /\ "sub" \in DOMAIN t.grant.extra
                       THEN t.grant.extra["sub"] ELSE {t.grant.user}
  /\ Claim(t, "scope") = IF t.kind = "id" THEN {} ELSE t.grant.scope
  /\ Claim(t, "req_userinfo_claims") =
       IF t.kind = "id" THEN {} ELSE t.grant.userinfoClaims
  /\ Claim(t, "req_id_token_claims") =
       IF t.kind = "refresh" THEN t.grant.idClaims ELSE {}
  /\ Claim(t, "auth_time") \subseteq Times
  /\ t.kind # "access" => Claim(t, "token_use") = {t.kind} /\ Claim(t, "aud") # {}

\* A token descends from its authorization: the claims that were asked for are
\* still asked for, and a token that may lead to an ID token knows the time.
KeepsOrigin(t) ==
  /\ t.origin.authTime \in Times \ {None}
  /\ t.origin.idClaims = t.grant.idClaims
  /\ t.origin.userinfoClaims = t.grant.userinfoClaims
  /\ t.kind = "refresh" /\ "openid" \in t.grant.scope =>
       Claim(t, "auth_time") = {t.origin.authTime}
  /\ t.kind = "id" => Claim(t, "auth_time") = {t.origin.authTime}

NamesClient(t) ==
  t.kind = "id" /\ t.grant.client # NoClient =>
    /\ t.grant.client \in Claim(t, "aud")
    /\ t.resource \in Claim(t, "aud") => t.resource = t.grant.client

Faithful(t) == StatesGrant(t) /\ KeepsOrigin(t) /\ NamesClient(t)

TokensFaithful == \A t \in tokens : Faithful(t)

\* jtis are drawn in order, three at a call.
JtisDistinct ==
  /\ \A t \in tokens : OwnJti(t) => \E j \in 1..(3 * issues) : Claim(t, "jti") = {j}
  /\ \A t, u \in tokens :
       OwnJti(t) /\ OwnJti(u) /\ Claim(t, "jti") = Claim(u, "jti") => t = u
  /\ revoked \subseteq UNION {Claim(t, "jti") : t \in tokens}

AnswerFits == ReleasedWasGranted /\ OnlyAccessTokensOpen

IInv == Typed /\ TokensFaithful /\ JtisDistinct /\ AnswerFits

-----------------------------------------------------------------------------
(* Issuing tokens *)

\* The authorization a grant may be issued for.
Descends(g, origin) ==
  /\ origin.authTime \in Times \ {None}
  /\ origin.idClaims = g.idClaims
  /\ origin.userinfoClaims = g.userinfoClaims
  /\ "openid" \in g.scope => AuthTime(g) = origin.authTime

\* When a grant says nothing of the time, it is now.
LEMMA AuthTimes ==
  ASSUME IInv, NEW g, g.authTime \in Times \cup {None}
  PROVE  AuthTime(g) \in Times \ {None}
<1>1. issues \in 0..MaxIssues
  BY BoundsAssumption DEF IInv, Typed, Limits
<1>2. issues \in Times /\ issues # None
  BY <1>1, NamesAssumption DEF Times
<1> QED
  BY <1>2 DEF AuthTime

LEMMA OriginalDescends ==
  ASSUME IInv, NEW g, g.authTime \in Times \cup {None}
  PROVE  Descends(g, Original(g))
  BY AuthTimes DEF Descends, Original

LEMMA AccessTokenFaithful ==
  ASSUME IInv, NEW g, GrantType(g), NEW origin, Descends(g, origin)
  PROVE  Faithful(Token(1, AccessPayload(g), g, origin))
<1> DEFINE t == Token(1, AccessPayload(g), g, origin)
<1>1. /\ t.kind = "access" /\ t.payload = AccessPayload(g) /\ t.grant = g
      /\ t.origin = origin
  BY DEF Token
<1> HIDE DEF t
<1>2. \A c : Claim(t, c) = Says(AccessPayload(g), c)
  BY <1>1 DEF Claim, Says
<1>3. Claim(t, "auth_time") \subseteq Times
  <2>1. Claim(t, "auth_time") = Says(g.extra, "auth_time")
    BY <1>2, AccessClaims
  <2>2. g.extra \in Extras \/ DOMAIN g.extra = {}
    BY DEF GrantType
  <2>3. ASSUME g.extra \in Extras, "auth_time" \in DOMAIN g.extra
        PROVE  g.extra["auth_time"] \subseteq Times
    <3>1. g.extra \in {x \in Extras : "auth_time" \in DOMAIN x}
      BY <2>3
    <3>2. g.extra["auth_time"] \in
            {e["auth_time"] : e \in {x \in Extras : "auth_time" \in DOMAIN x}}
      BY <3>1
    <3> QED
      BY <3>2 DEF Times
  <2> QED
    BY <2>1, <2>2, <2>3 DEF Says
<1>4. StatesGrant(t)
  BY <1>1, <1>2, <1>3, AccessClaims DEF StatesGrant
<1>5. KeepsOrigin(t) /\ NamesClient(t)
  BY <1>1 DEF KeepsOrigin, NamesClient, Descends
<1> QED
  BY <1>4, <1>5 DEF t, Faithful

LEMMA IdTokenFaithful ==
  ASSUME IInv, NEW g, GrantType(g), NEW origin, Descends(g, origin), NEW u,
         "openid" \in g.scope
  PROVE  Faithful(Token(2, IdPayload(g, u), g, origin))
<1> DEFINE t == Token(2, IdPayload(g, u), g, origin)
<1>1. /\ t.kind = "id" /\ t.payload = IdPayload(g, u) /\ t.grant = g
      /\ t.origin = origin /\ t.resource = settings.audience
  BY DEF Token
<1> HIDE DEF t
<1>2. \A c : Claim(t, c) = Says(IdPayload(g, u), c)
  BY <1>1 DEF Claim, Says
<1>3. Claim(t, "auth_time") = {AuthTime(g)} /\ AuthTime(g) = origin.authTime
  BY <1>2, IdClaims DEF Descends
<1>4. Claim(t, "aud") = IdAudience(g.client)
  BY <1>2, IdClaims
<1>5. /\ Claim(t, "scope") = {} /\ Claim(t, "req_userinfo_claims") = {}
      /\ Claim(t, "req_id_token_claims") = {}
  BY <1>2, IdClaims DEF Authoritative
<1>6. Claim(t, "token_use") = {"id"} /\ Claim(t, "sub") = {g.user}
  BY <1>2, IdClaims
<1>7. StatesGrant(t)
  BY <1>1, <1>3, <1>4, <1>5, <1>6 DEF StatesGrant, Descends, IdAudience
<1>8. KeepsOrigin(t)
  BY <1>1, <1>3 DEF KeepsOrigin, Descends
<1>9. NamesClient(t)
  BY <1>1, <1>4 DEF NamesClient, IdAudience
<1> QED
  BY <1>7, <1>8, <1>9 DEF t, Faithful

LEMMA RefreshTokenFaithful ==
  ASSUME IInv, NEW g, GrantType(g), NEW origin, Descends(g, origin)
  PROVE  Faithful(Token(3, RefreshPayload(g), g, origin))
<1> DEFINE t == Token(3, RefreshPayload(g), g, origin)
<1>1. /\ t.kind = "refresh" /\ t.payload = RefreshPayload(g) /\ t.grant = g
      /\ t.origin = origin
  BY DEF Token
<1> HIDE DEF t
<1>2. \A c : Claim(t, c) = Says(RefreshPayload(g), c)
  BY <1>1 DEF Claim, Says
<1>3. /\ Claim(t, "scope") = g.scope
      /\ Claim(t, "req_userinfo_claims") = g.userinfoClaims
      /\ Claim(t, "req_id_token_claims") = g.idClaims
      /\ Claim(t, "token_use") = {"refresh"}
      /\ Claim(t, "sub") = {g.user} /\ Claim(t, "aud") = {settings.audience}
  BY <1>2, RefreshClaims
<1>4. Claim(t, "auth_time") = IF "openid" \in g.scope THEN {AuthTime(g)} ELSE {}
  BY <1>2, RefreshClaims
<1>5. Claim(t, "auth_time") \subseteq Times
  BY <1>4, AuthTimes DEF GrantType
<1>6. StatesGrant(t)
  BY <1>1, <1>3, <1>5 DEF StatesGrant
<1>7. KeepsOrigin(t) /\ NamesClient(t)
  BY <1>1, <1>4 DEF KeepsOrigin, NamesClient, Descends
<1> QED
  BY <1>6, <1>7 DEF t, Faithful

\* Every call of create_token keeps the invariant, whoever the caller.
LEMMA CreateTokenKeeps ==
  ASSUME IInv, NEW g, GrantType(g), NEW origin, Descends(g, origin),
         CreateToken(g, origin)
  PROVE  IInv'
<1> DEFINE a == Token(1, AccessPayload(g), g, origin)
           i == Token(2, IdPayload(g, users[g.user]), g, origin)
           r == Token(3, RefreshPayload(g), g, origin)
           new == {a, r} \cup (IF "openid" \in g.scope THEN {i} ELSE {})
<1>1. /\ issues < limits.issues /\ issues' = issues + 1 /\ tokens' = tokens \cup new
      /\ answer' = None
      /\ UNCHANGED <<settings, additional, users, revoked, edits, limits>>
  BY DEF CreateToken
<1>2. issues \in Nat /\ limits.issues \in Nat
  BY DEF IInv, Typed, Limits
<1>3. Faithful(a) /\ Faithful(r) /\ ("openid" \in g.scope => Faithful(i))
  BY AccessTokenFaithful, RefreshTokenFaithful, IdTokenFaithful
<1>4. /\ OwnJti(a) => Claim(a, "jti") = {3 * issues + 1}
      /\ Claim(i, "jti") = {3 * issues + 2}
      /\ Claim(r, "jti") = {3 * issues + 3}
  <2>1. /\ a.kind = "access" /\ a.grant = g
        /\ Claim(a, "jti") = Says(AccessPayload(g), "jti")
        /\ Claim(i, "jti") = Says(IdPayload(g, users[g.user]), "jti")
        /\ Claim(r, "jti") = Says(RefreshPayload(g), "jti")
    BY DEF Token, Claim, Says
  <2> HIDE DEF a, i, r
  <2> QED
    BY <2>1, AccessClaims, IdClaims, RefreshClaims DEF OwnJti, Jti
<1> HIDE DEF a, i, r
<1>5. \A t \in new : Faithful(t) /\ t \in {a, i, r}
  BY <1>3
<1>6. \A t, u \in new :
        OwnJti(t) /\ OwnJti(u) /\ Claim(t, "jti") = Claim(u, "jti") => t = u
  BY <1>2, <1>4, <1>5
<1>7. \A t \in new : OwnJti(t) =>
        \E j \in (3 * issues + 1)..(3 * issues + 3) : Claim(t, "jti") = {j}
  BY <1>2, <1>4, <1>5
<1> HIDE DEF new
<1>8. Typed'
  BY <1>1, <1>2 DEF IInv, Typed
<1>9. TokensFaithful'
  <2>1. \A t : Faithful(t)' <=> Faithful(t)
    BY DEF Faithful, StatesGrant, KeepsOrigin, NamesClient, Claim
  <2> QED
    BY <2>1, <1>1, <1>5 DEF IInv, TokensFaithful
<1>10. JtisDistinct'
  <2>1. \A t : OwnJti(t)' = OwnJti(t) /\ Claim(t, "jti")' = Claim(t, "jti")
    BY DEF OwnJti, Claim
  <2>2. \A t \in tokens : OwnJti(t) => \E j \in 1..(3 * issues) : Claim(t, "jti") = {j}
    BY DEF IInv, JtisDistinct
  <2>3. \A t \in tokens' : OwnJti(t) =>
          \E j \in 1..(3 * issues') : Claim(t, "jti") = {j}
    <3>1. 1..(3 * issues) \subseteq 1..(3 * (issues + 1))
      BY <1>2
    <3>2. (3 * issues + 1)..(3 * issues + 3) \subseteq 1..(3 * (issues + 1))
      BY <1>2
    <3> QED
      BY <2>2, <3>1, <3>2, <1>1, <1>7
  <2>4. ASSUME NEW t \in tokens', NEW u \in tokens', OwnJti(t), OwnJti(u),
               Claim(t, "jti") = Claim(u, "jti")
        PROVE t = u
    <3>1. CASE t \in tokens /\ u \in tokens
      BY <2>4, <3>1 DEF IInv, JtisDistinct
    <3>2. CASE t \in new /\ u \in new
      BY <2>4, <3>2, <1>6
    <3>3. \A v \in tokens, w \in new :
            OwnJti(v) /\ OwnJti(w) => Claim(v, "jti") # Claim(w, "jti")
      <4> SUFFICES ASSUME NEW v \in tokens, NEW w \in new, OwnJti(v), OwnJti(w)
                   PROVE  Claim(v, "jti") # Claim(w, "jti")
        OBVIOUS
      <4>1. PICK j \in 1..(3 * issues) : Claim(v, "jti") = {j}
        BY <2>2
      <4>2. PICK k \in (3 * issues + 1)..(3 * issues + 3) : Claim(w, "jti") = {k}
        BY <1>7
      <4>3. j # k
        BY <1>2
      <4> QED
        BY <4>1, <4>2, <4>3
    <3> QED
      BY <2>4, <3>1, <3>2, <3>3, <1>1
  <2>5. revoked' \subseteq UNION {Claim(t, "jti") : t \in tokens'}
    BY <1>1 DEF IInv, JtisDistinct
  <2> QED
    BY <2>1, <2>3, <2>4, <2>5 DEF JtisDistinct
<1>11. AnswerFits'
  BY <1>1 DEF AnswerFits, ReleasedWasGranted, OnlyAccessTokensOpen
<1> QED
  BY <1>8, <1>9, <1>10, <1>11 DEF IInv

\* A first grant.
LEMMA BeginKeeps ==
  ASSUME IInv, NEW g, GrantType(g), Begin(g)
  PROVE  IInv'
<1>1. Descends(g, Original(g))
  BY OriginalDescends DEF GrantType
<1> QED
  BY <1>1, CreateTokenKeeps DEF Begin

\* A refresh: whatever token passes for a refresh token, the grant recovered
\* from it is one, and a real refresh token hands its authorization down.
LEMMA RefreshGrantKeeps ==
  ASSUME IInv, NEW t \in tokens, NEW client \in Clients, NEW requested \in Scopes,
         NEW extra \in Extras, RefreshGrant(t, client, requested, extra)
  PROVE  IInv'
<1> DEFINE n == SubjectOf(t)
           scope == IF requested = {} THEN Claim(t, "scope") ELSE requested
           time == Claim(t, "auth_time")
           when == IF time = {} THEN None ELSE CHOOSE x \in time : TRUE
           g == Grant(n, client, scope, when, Claim(t, "req_id_token_claims"),
                      Claim(t, "req_userinfo_claims"), extra)
           origin == IF t.kind = "refresh" THEN t.origin ELSE Original(g)
<1>1. Faithful(t)
  BY DEF IInv, TokensFaithful
<1>2. /\ Known(n) /\ requested \subseteq Claim(t, "scope")
      /\ CreateToken(g, origin)
  BY DEF RefreshGrant
<1>3. time \subseteq Times
  BY <1>1 DEF Faithful, StatesGrant
<1>4. when \in Times \cup {None} /\ (time # {} => when \in time)
  BY <1>3
<1> HIDE DEF n, when
<1>5. /\ g.user = n /\ g.client = client /\ g.scope = scope /\ g.authTime = when
      /\ g.idClaims = Claim(t, "req_id_token_claims")
      /\ g.userinfoClaims = Claim(t, "req_userinfo_claims") /\ g.extra = extra
  BY DEF Grant
<1> HIDE DEF g
<1>6. GrantType(g)
  <2>1. n \in Users
    BY <1>2 DEF Known
  <2>2. GrantType(t.grant)
    BY <1>1 DEF Faithful, StatesGrant
  <2>3. scope \in SUBSET UNION Scopes
    <3>1. Claim(t, "scope") \in {t.grant.scope, {}}
      BY <1>1 DEF Faithful, StatesGrant
    <3>2. requested \subseteq UNION Scopes
      OBVIOUS
    <3> QED
      BY <3>1, <3>2, <2>2 DEF GrantType
  <2>4. g.idClaims \in ClaimRequests /\ g.userinfoClaims \in ClaimRequests
    <3>1. /\ Claim(t, "req_id_token_claims") \in {t.grant.idClaims, {}}
          /\ Claim(t, "req_userinfo_claims") \in {t.grant.userinfoClaims, {}}
      BY <1>1 DEF Faithful, StatesGrant
    <3> QED
      BY <3>1, <2>2, <1>5, NamesAssumption DEF GrantType
  <2> QED
    BY <2>1, <2>3, <2>4, <1>4, <1>5 DEF GrantType
<1>7. Descends(g, origin)
  <2>1. CASE t.kind = "refresh"
    <3>1. origin = t.origin /\ KeepsOrigin(t) /\ StatesGrant(t)
      BY <1>1, <2>1 DEF Faithful
    <3>2. g.idClaims = origin.idClaims /\ g.userinfoClaims = origin.userinfoClaims
      BY <2>1, <3>1, <1>5 DEF KeepsOrigin, StatesGrant
    <3>3. ASSUME "openid" \in g.scope PROVE AuthTime(g) = origin.authTime
      <4>1. "openid" \in t.grant.scope
        BY <3>3, <3>1, <2>1, <1>2, <1>5 DEF StatesGrant
      <4>2. time = {origin.authTime} /\ origin.authTime # None
        BY <4>1, <3>1, <2>1 DEF KeepsOrigin
      <4>3. g.authTime = origin.authTime
        BY <4>2, <1>4, <1>5
      <4> QED
        BY <4>2, <4>3 DEF AuthTime
    <3> QED
      BY <3>1, <3>2, <3>3 DEF Descends, KeepsOrigin
  <2>2. CASE t.kind # "refresh"
    BY <2>2, <1>6, OriginalDescends DEF GrantType
  <2> QED
    BY <2>1, <2>2
<1> HIDE DEF origin
<1> QED
  BY <1>2, <1>6, <1>7, CreateTokenKeeps

-----------------------------------------------------------------------------
(* Presenting and administering *)

\* The answer is the only thing that changes, or the tokens and their number
\* stay and the answer is withdrawn.
LEMMA Unissued ==
  ASSUME IInv, UNCHANGED <<tokens, issues>>, Typed',
         revoked' \subseteq UNION {Claim(t, "jti") : t \in tokens}, AnswerFits'
  PROVE  IInv'
<1>1. TokensFaithful'
  BY DEF IInv, TokensFaithful, Faithful, StatesGrant, KeepsOrigin, NamesClient, Claim
<1>2. JtisDistinct'
  <2>1. \A t : OwnJti(t)' = OwnJti(t) /\ Claim(t, "jti")' = Claim(t, "jti")
    BY DEF OwnJti, Claim
  <2> QED
    BY <2>1 DEF IInv, JtisDistinct
<1> QED
  BY <1>1, <1>2 DEF IInv

LEMMA UserinfoKeeps ==
  ASSUME IInv, NEW t \in tokens, Userinfo(t)
  PROVE  IInv'
<1> DEFINE n == SubjectOf(t)
           said == IF Known(n) THEN Released(t, n, users[n]) ELSE [sub |-> {n}]
           ans == [at |-> "userinfo", token |-> t, strict |-> settings.strict,
                   claims |-> said]
<1>1. /\ AccessUse(t) /\ answer' = ans
      /\ UNCHANGED <<settings, additional, users, tokens, revoked, issues, edits, limits>>
  BY DEF Userinfo
<1>2. Faithful(t)
  BY DEF IInv, TokensFaithful
<1>3. t.kind = "access"
  BY <1>1, <1>2 DEF Faithful, StatesGrant, AccessUse
<1>4. ASSUME settings.strict, "email" \in DOMAIN said
      PROVE  "email" \in t.grant.scope \/ "email" \in t.origin.userinfoClaims
  <2>1. Known(n)
    BY <1>4
  <2> DEFINE all == ResolvedClaims(n, users[n])
             gated == (IF ~settings.strict \/ "email" \in Claim(t, "scope")
                       THEN {"email", "email_verified"} ELSE {})
                      \cup (IF ~settings.strict \/ "profile" \in Claim(t, "scope")
                            THEN {"preferred_username"} ELSE {})
             always == {"roles", "groups", "tenant", "identity_class"}
             asked == Claim(t, "req_userinfo_claims")
             attrs == Present("attributes", DOMAIN users[n].attributes)
  <2> DEFINE mark == [sub |-> {n}]
             gatedOnes == OnlyThe(all, gated \cup always)
             askedOnes == OnlyThe(all, asked)
  <2>2. said = mark ++ gatedOnes ++ attrs ++ askedOnes
    BY <2>1 DEF Released
  <2>3. /\ DOMAIN gatedOnes \subseteq gated \cup always
        /\ DOMAIN askedOnes \subseteq asked
    BY DEF OnlyThe
  <2>4. DOMAIN attrs \subseteq {"attributes"}
    BY DEF Present
  <2>5. DOMAIN mark = {"sub"}
    OBVIOUS
  <2> HIDE DEF all, attrs, said, mark, gatedOnes, askedOnes
  <2>6. DOMAIN said =
          DOMAIN mark \cup DOMAIN gatedOnes \cup DOMAIN attrs \cup DOMAIN askedOnes
    BY <2>2 DEF ++
  <2>7. DOMAIN said \subseteq {"sub", "attributes"} \cup gated \cup always \cup asked
    BY <2>3, <2>4, <2>5, <2>6
  <2>8. "email" \in Claim(t, "scope") \/ "email" \in asked
    BY <2>7, <1>4
  <2> QED
    BY <2>8, <1>2, <1>3 DEF Faithful, StatesGrant, KeepsOrigin
<1> HIDE DEF said
<1>5. AnswerFits'
  BY <1>1, <1>3, <1>4 DEF AnswerFits, ReleasedWasGranted, OnlyAccessTokensOpen
<1>6. Typed'
  BY <1>1 DEF IInv, Typed
<1>7. revoked' \subseteq UNION {Claim(u, "jti") : u \in tokens}
  BY <1>1 DEF IInv, JtisDistinct
<1> QED
  BY <1>1, <1>5, <1>6, <1>7, Unissued

LEMMA IntrospectKeeps ==
  ASSUME IInv, NEW t \in tokens, Introspect(t)
  PROVE  IInv'
<1>1. /\ "id" \notin Claim(t, "token_use")
      /\ answer' = [at |-> "introspect", token |-> t, strict |-> settings.strict,
                    claims |-> << >>]
      /\ UNCHANGED <<settings, additional, users, tokens, revoked, issues, edits, limits>>
  BY DEF Introspect
<1>2. t.kind # "id"
  BY <1>1 DEF IInv, TokensFaithful, Faithful, StatesGrant
<1>3. AnswerFits'
  BY <1>1, <1>2 DEF AnswerFits, ReleasedWasGranted, OnlyAccessTokensOpen
<1>4. Typed'
  BY <1>1 DEF IInv, Typed
<1>5. revoked' \subseteq UNION {Claim(u, "jti") : u \in tokens}
  BY <1>1 DEF IInv, JtisDistinct
<1> QED
  BY <1>1, <1>3, <1>4, <1>5, Unissued

\* An edit withdraws the answer and counts.
LEMMA EditedFits ==
  ASSUME IInv, Edited, limits' = limits
  PROVE  edits' \in 0..limits'.edits /\ AnswerFits'
<1>1. edits < limits.edits /\ edits' = edits + 1 /\ answer' = None
  BY DEF Edited
<1>2. edits \in 0..limits.edits /\ limits.edits \in Nat
  BY DEF IInv, Typed, Limits
<1>3. edits' \in 0..limits.edits
  BY <1>1, <1>2
<1> QED
  BY <1>1, <1>3 DEF AnswerFits, ReleasedWasGranted, OnlyAccessTokensOpen

LEMMA AdministrationKeeps ==
  ASSUME IInv,
         \/ \E t \in tokens : Revoke(t)
         \/ \E n \in Users, p \in Profiles \cup {Gone} : EditUser(n, p)
         \/ \E c \in Clients, auds \in SUBSET Audiences : EditClient(c, auds)
         \/ \E a \in Audiences, b \in BOOLEAN : EditSettings(a, b)
  PROVE  IInv'
<1>1. Edited /\ UNCHANGED <<tokens, issues, limits>>
  BY DEF Revoke, EditUser, EditClient, EditSettings
<1>2. edits' \in 0..limits'.edits /\ AnswerFits'
  BY <1>1, EditedFits
<1>3. users' \in [Users -> Profiles \cup {Gone}]
  <2>1. users \in [Users -> Profiles \cup {Gone}]
    BY DEF IInv, Typed
  <2>2. CASE \E n \in Users, p \in Profiles \cup {Gone} : EditUser(n, p)
    BY <2>1, <2>2 DEF EditUser
  <2>3. CASE UNCHANGED users
    BY <2>1, <2>3
  <2> QED
    BY <2>2, <2>3 DEF Revoke, EditClient, EditSettings
<1>4. settings' \in [audience : Audiences, strict : BOOLEAN]
  <2>1. CASE \E a \in Audiences, b \in BOOLEAN : EditSettings(a, b)
    BY <2>1 DEF EditSettings
  <2>2. CASE UNCHANGED settings
    BY <2>2 DEF IInv, Typed
  <2> QED
    BY <2>1, <2>2 DEF Revoke, EditUser, EditClient
<1>5. revoked' \subseteq UNION {Claim(t, "jti") : t \in tokens}
  <2>1. revoked \subseteq UNION {Claim(t, "jti") : t \in tokens}
    BY DEF IInv, JtisDistinct
  <2>2. CASE \E t \in tokens : Revoke(t)
    BY <2>1, <2>2 DEF Revoke
  <2>3. CASE UNCHANGED revoked
    BY <2>1, <2>3
  <2> QED
    BY <2>2, <2>3 DEF EditUser, EditClient, EditSettings
<1>6. Typed'
  BY <1>1, <1>2, <1>3, <1>4 DEF IInv, Typed
<1> QED
  BY <1>1, <1>2, <1>5, <1>6, Unissued

-----------------------------------------------------------------------------
(* Theorems *)

LEMMA InitIInv == Init => IInv
<1> SUFFICES ASSUME Init PROVE IInv
  OBVIOUS
<1>1. PICK i \in Installations :
        /\ settings = [audience |-> i.audience, strict |-> i.strict]
        /\ limits = [issues |-> i.issues, edits |-> i.edits]
  BY DEF Init
<1>2. /\ users \in [Users -> Profiles] /\ tokens = {} /\ revoked = {} /\ answer = None
      /\ issues = 0 /\ edits = 0
  BY DEF Init
<1>3. Typed
  <2>1. /\ i.audience \in Audiences /\ i.strict \in BOOLEAN
        /\ i.issues \in 0..MaxIssues /\ i.edits \in 0..MaxEdits
    BY BoundsAssumption
  <2>2. settings \in [audience : Audiences, strict : BOOLEAN] /\ limits \in Limits
    BY <1>1, <2>1 DEF Limits
  <2>3. limits.issues \in Nat /\ limits.edits \in Nat
    BY <1>1, <2>1, BoundsAssumption
  <2> QED
    BY <1>2, <2>2, <2>3 DEF Typed
<1>4. TokensFaithful /\ JtisDistinct /\ AnswerFits
  BY <1>2 DEF TokensFaithful, JtisDistinct, AnswerFits, ReleasedWasGranted,
     OnlyAccessTokensOpen
<1> QED
  BY <1>3, <1>4 DEF IInv

\* The grants the handlers make.
LEMMA GrantsTyped ==
  ASSUME NEW n \in Users, NEW c \in Clients \cup {NoClient},
         NEW s \in Scopes, NEW time \in Times \cup {None},
         NEW i \in ClaimRequests, NEW w \in ClaimRequests, NEW e \in Extras \cup {<< >>}
  PROVE  GrantType(Grant(n, c, s, time, i, w, e))
<1>1. s \in SUBSET UNION Scopes
  OBVIOUS
<1> QED
  BY <1>1 DEF GrantType, Grant

LEMMA FirstGrantKeeps ==
  ASSUME IInv,
         \/ \E c \in Clients, e \in Extras :
              \/ \E n \in Users, s \in Scopes :
                   \/ \E i \in ClaimRequests, w \in ClaimRequests :
                        InteractiveGrant(n, c, s, i, w, e)
                   \/ PasswordGrant(n, c, s, e)
              \/ ClientCredentialsGrant(c, e)
         \/ \E n \in Users : ApiToken(n)
         \/ \E n \in Users, s \in Scopes, i \in ClaimRequests, w \in ClaimRequests,
               e \in Extras : McpToken(n, s, i, w, e)
  PROVE  IInv'
<1>1. {} \in Scopes /\ {} \in ClaimRequests /\ DefaultUser \in Users
  BY NamesAssumption
<1>2. 0..issues \subseteq Times
  <2>1. issues \in Nat /\ issues <= MaxIssues /\ MaxIssues \in Nat
    BY BoundsAssumption DEF IInv, Typed, Limits
  <2>2. 0..issues \subseteq 0..MaxIssues
    BY <2>1
  <2> QED
    BY <2>2 DEF Times
<1>3. CASE \E c \in Clients, e \in Extras, n \in Users, s \in Scopes,
             i \in ClaimRequests, w \in ClaimRequests : InteractiveGrant(n, c, s, i, w, e)
  <2>1. PICK c \in Clients, e \in Extras, n \in Users, s \in Scopes,
             i \in ClaimRequests, w \in ClaimRequests, time \in 0..issues :
               Begin(Grant(n, c, s, time, i, w, e))
    BY <1>3 DEF InteractiveGrant
  <2>2. GrantType(Grant(n, c, s, time, i, w, e))
    BY <1>2, GrantsTyped
  <2> QED
    BY <2>1, <2>2, BeginKeeps
<1>4. CASE \E c \in Clients, e \in Extras, n \in Users, s \in Scopes :
             PasswordGrant(n, c, s, e)
  <2>1. PICK c \in Clients, e \in Extras, n \in Users, s \in Scopes :
               Begin(Grant(n, c, s, None, {}, {}, e))
    BY <1>4 DEF PasswordGrant
  <2>2. GrantType(Grant(n, c, s, None, {}, {}, e))
    BY <1>1, GrantsTyped
  <2> QED
    BY <2>1, <2>2, BeginKeeps
<1>5. CASE \E c \in Clients, e \in Extras : ClientCredentialsGrant(c, e)
  <2>1. PICK c \in Clients, e \in Extras :
               Begin(Grant(DefaultUser, c, {}, None, {}, {}, e))
    BY <1>5 DEF ClientCredentialsGrant
  <2>2. GrantType(Grant(DefaultUser, c, {}, None, {}, {}, e))
    BY <1>1, GrantsTyped
  <2> QED
    BY <2>1, <2>2, BeginKeeps
<1>6. CASE \E n \in Users : ApiToken(n)
  <2>1. PICK n \in Users : Begin(Grant(n, NoClient, {}, None, {}, {}, << >>))
    BY <1>6 DEF ApiToken
  <2>2. GrantType(Grant(n, NoClient, {}, None, {}, {}, << >>))
    BY <1>1, GrantsTyped
  <2> QED
    BY <2>1, <2>2, BeginKeeps
<1>7. CASE \E n \in Users, s \in Scopes, i \in ClaimRequests, w \in ClaimRequests,
              e \in Extras : McpToken(n, s, i, w, e)
  <2>1. PICK n \in Users, s \in Scopes, i \in ClaimRequests, w \in ClaimRequests,
             e \in Extras : Begin(Grant(n, NoClient, s, None, i, w, e))
    BY <1>7 DEF McpToken
  <2>2. GrantType(Grant(n, NoClient, s, None, i, w, e))
    BY GrantsTyped
  <2> QED
    BY <2>1, <2>2, BeginKeeps
<1> QED
  BY <1>3, <1>4, <1>5, <1>6, <1>7

LEMMA NextIInv == IInv /\ [Next]_vars => IInv'
<1> SUFFICES ASSUME IInv, [Next]_vars PROVE IInv'
  OBVIOUS
<1>1. CASE \/ \E c \in Clients, e \in Extras :
                \/ \E n \in Users, s \in Scopes :
                     \/ \E i \in ClaimRequests, w \in ClaimRequests :
                          InteractiveGrant(n, c, s, i, w, e)
                     \/ PasswordGrant(n, c, s, e)
                \/ ClientCredentialsGrant(c, e)
           \/ \E n \in Users : ApiToken(n)
           \/ \E n \in Users, s \in Scopes, i \in ClaimRequests, w \in ClaimRequests,
                 e \in Extras : McpToken(n, s, i, w, e)
  BY <1>1, FirstGrantKeeps
<1>2. CASE \E c \in Clients, e \in Extras, t \in tokens, s \in Scopes :
             RefreshGrant(t, c, s, e)
  BY <1>2, RefreshGrantKeeps
<1>3. CASE \E t \in tokens : Userinfo(t)
  BY <1>3, UserinfoKeeps
<1>4. CASE \E t \in tokens : Introspect(t)
  BY <1>4, IntrospectKeeps
<1>5. CASE \/ \E t \in tokens : Revoke(t)
           \/ \E n \in Users, p \in Profiles \cup {Gone} : EditUser(n, p)
           \/ \E c \in Clients, auds \in SUBSET Audiences : EditClient(c, auds)
           \/ \E a \in Audiences, b \in BOOLEAN : EditSettings(a, b)
  BY <1>5, AdministrationKeeps
<1>6. CASE UNCHANGED vars
  <2>1. UNCHANGED <<settings, users, tokens, revoked, answer, issues, edits, limits>>
    BY <1>6 DEF vars
  <2>2. Typed' /\ AnswerFits'
    BY <2>1 DEF IInv, Typed, AnswerFits, ReleasedWasGranted, OnlyAccessTokensOpen
  <2>3. revoked' \subseteq UNION {Claim(t, "jti") : t \in tokens}
    BY <2>1 DEF IInv, JtisDistinct
  <2> QED
    BY <2>1, <2>2, <2>3, Unissued
<1> QED
  BY <1>1, <1>2, <1>3, <1>4, <1>5, <1>6 DEF Next

LEMMA Invariance == Spec => []IInv
  BY InitIInv, NextIInv, PTL DEF Spec

\* Tokens state a grant there can be, each under a jti of its own unless its
\* extra replaces it, in whatever order grants, refreshes and edits come.
THEOREM TypeCorrect == Spec => []TypeOK
<1>1. IInv => TypeOK
  <2> SUFFICES ASSUME IInv PROVE TypeOK
    OBVIOUS
  <2>1. \A t \in tokens :
          /\ GrantType(t.grant)
          /\ Claim(t, "sub") # {t.grant.user} =>
               t.kind = "access" /\ Claim(t, "sub") = t.grant.extra["sub"]
          /\ t.kind # "access" => Claim(t, "aud") # {}
          /\ Claim(t, "scope") \in {t.grant.scope, {}}
    BY DEF IInv, TokensFaithful, Faithful, StatesGrant
  <2>2. issues \in 0..MaxIssues /\ edits \in 0..MaxEdits
    BY BoundsAssumption DEF IInv, Typed, Limits
  <2> QED
    BY <2>1, <2>2 DEF IInv, Typed, JtisDistinct, TypeOK
<1> QED
  BY <1>1, Invariance, PTL

\* Under a strict profile /userinfo gives the address only to whom it was
\* granted, however long the lineage and whatever the extras in between.
THEOREM OnlyTheGrantedIsReleased == Spec => []ReleasedWasGranted
<1>1. IInv => ReleasedWasGranted
  BY DEF IInv, AnswerFits
<1> QED
  BY <1>1, Invariance, PTL

\* No attribute of a user and no requested name replaces a protocol claim of an
\* ID token, and its audience is the client's.
THEOREM IdTokensSpeakForTheGrant == Spec => []IdTokenSpeaksForTheGrant
<1>1. IInv => IdTokenSpeaksForTheGrant
  BY DEF IInv, TokensFaithful, Faithful, StatesGrant, NamesClient,
     IdTokenSpeaksForTheGrant
<1> QED
  BY <1>1, Invariance, PTL

\* An ID token minted by a refresh carries the authentication time of the
\* authorization at the root of its lineage, and the claims asked for there: a
\* scope may lose openid on the way but never win it back without the time.
THEOREM ContextIsKept == Spec => []RefreshKeepsContext
<1>1. IInv => RefreshKeepsContext
  BY DEF IInv, TokensFaithful, Faithful, KeepsOrigin, RefreshKeepsContext
<1> QED
  BY <1>1, Invariance, PTL

\* ID tokens open nothing, refresh tokens no /userinfo.
THEOREM OnlyAccessTokensAreAdmitted == Spec => []OnlyAccessTokensOpen
<1>1. IInv => OnlyAccessTokensOpen
  BY DEF IInv, AnswerFits
<1> QED
  BY <1>1, Invariance, PTL

=============================================================================
