---------------------------- MODULE TokenClaims ----------------------------
(***************************************************************************)
(* What NanoIDP's tokens say and what is read out of them again.           *)
(*                                                                         *)
(* Every grant of /token, the REST API and the MCP server end in           *)
(* TokenService.create_token, which mints an access, a refresh and (for an *)
(* openid scope) an ID token from the grant, the user, the client and the  *)
(* caller's own `extra' claims.  A refresh recovers the grant from the     *)
(* claims of the refresh token.  /userinfo and /introspect decide from the *)
(* claims of the token they are shown.  In between, administrators edit    *)
(* users, clients, the audience and the profile.                           *)
(*                                                                         *)
(* A claim's value is a set: a list's members, or one scalar; an absent    *)
(* claim is not in the payload.  Which refresh tokens the revocation store *)
(* still admits is RefreshRotation's subject; here any may be.  Signatures *)
(* verify (KeyRotation) and expiry is left out: no property depends on it. *)
(***************************************************************************)
EXTENDS Integers, FiniteSets

CONSTANTS
  Users,          \* user names
  DefaultUser,    \* default_user, the subject of client_credentials
  Clients,        \* client ids
  Audiences,      \* values of oauth.audience, and of additional_audiences
  Profiles,       \* what users.yaml may hold of a user
  Installations,  \* the settings, clients and bounds the runs start from
  Scopes,         \* sets of scope values that are asked for
  ClaimRequests,  \* sets of names in a member of the `claims' parameter
  Extras,         \* `extra' objects callers add
  NoClient,       \* create_token called without a client
  Gone,           \* no such user
  None,
  MaxGrants,      \* bound on first grants, which come before any refresh
  MaxIssues,      \* bound on calls of create_token; an installation may have a
                  \* lower one
  MaxEdits        \* bound on administrative changes; likewise

ASSUME NamesAssumption ==
  /\ DefaultUser \in Users /\ NoClient \notin Clients /\ Gone \notin Profiles
  /\ {} \in Scopes /\ {} \in ClaimRequests /\ None \notin Nat
ASSUME BoundsAssumption ==
  /\ MaxGrants \in Nat /\ MaxIssues \in Nat /\ MaxEdits \in Nat
  /\ Installations \subseteq
       [audience : Audiences, strict : BOOLEAN, additional : [Clients -> SUBSET Audiences],
        issues : 0..MaxIssues, edits : 0..MaxEdits]

VARIABLES
  settings,   \* [audience, strict]: strict is a profile other than dev
  additional, \* client -> additional_audiences
  users,      \* user -> profile, or Gone
  tokens,     \* every token issued
  revoked,    \* jtis in the revocation store; the hashes it keeps of tokens
              \* without a jti are never looked up
  answer,     \* the last answer of /userinfo or /introspect, or None
  issues,     \* calls of create_token so far; the clock of auth_time
  edits,      \* administrative changes so far
  limits      \* the installation's bounds on both

vars == <<settings, additional, users, tokens, revoked, answer, issues, edits,
          limits>>

-----------------------------------------------------------------------------
(* Claims, and those of a user *)

\* What f says, and what g says of the claims f has not.
f ++ g == [c \in DOMAIN f \cup DOMAIN g |-> IF c \in DOMAIN f THEN f[c] ELSE g[c]]

OnlyThe(f, names) == [c \in DOMAIN f \cap names |-> f[c]]
Without(f, names) == [c \in DOMAIN f \ names |-> f[c]]

\* A claim that is left out when it would be empty.
Present(c, values) == [d \in {x \in {c} : values # {}} |-> values]

Authoritative == {"scope", "req_userinfo_claims", "req_id_token_claims"}

Reserved == {"iss", "sub", "aud", "exp", "iat", "nbf", "jti", "token_use",
             "auth_time", "at_hash", "azp", "nonce"} \cup Authoritative

\* Supplied only when they are not empty.
Optional == {"groups", "identity_class", "entitlements"}

StandardClaims(n, u) ==
  [email |-> u.email, email_verified |-> {TRUE}, preferred_username |-> {n},
   roles |-> u.roles, tenant |-> u.tenant, groups |-> u.groups,
   identity_class |-> u.identity_class, entitlements |-> u.entitlements]

Empty(n, u) == {c \in Optional : StandardClaims(n, u)[c] = {}}

\* Mutant: any attribute can be requested by its name.
AllClaims(n, u) == Without(StandardClaims(n, u) ++ u.attributes, Empty(n, u))

\* What resolve_user_claim finds, by name.
ResolvedClaims(n, u) ==
  Without(StandardClaims(n, u) ++ u.attributes, Empty(n, u) \cup Reserved)

-----------------------------------------------------------------------------
(* create_token *)

\* The ID token's audience: the client first, never the resource audience.
IdAudience(client) ==
  IF client = NoClient THEN {settings.audience}
  ELSE {client} \cup (additional[client] \ {settings.audience})

\* Mutant: the caller's extra claims are merged as they come.
Harmless(extra) == extra

\* The claims that state the grant are dropped from the caller's extra.
Stripped(extra) == Without(extra, Authoritative)

\* Mutant: the tokens of one answer share their jti.
OneJti(k) == issues

\* The uuid4 of the k-th token of an answer.
Jti(k) == 3 * issues + k

\* g is the grant as create_token receives it: user, client, scope, authTime
\* (or None), idClaims, userinfoClaims, extra; u the user's profile.  An
\* `extra' may say anything else of the access token, its subject, audience
\* and jti included.
AccessPayload(g) ==
  [token_use |-> {"access"}]
  ++ Present("scope", g.scope)
  ++ Present("req_userinfo_claims", g.userinfoClaims)
  ++ Stripped(g.extra)
  ++ [jti |-> {Jti(1)}, sub |-> {g.user}, aud |-> {settings.audience}]

\* The user authenticated in this very request when the caller says nothing.
AuthTime(g) == IF g.authTime = None THEN issues ELSE g.authTime

IdPayload(g, u) ==
  LET aud == IdAudience(g.client)
      protocol == [token_use |-> {"id"}, auth_time |-> {AuthTime(g)}]
                  ++ (IF Cardinality(aud) > 1 THEN [azp |-> {g.client}] ELSE << >>)
  IN protocol ++ OnlyThe(ResolvedClaims(g.user, u), g.idClaims)
     ++ [jti |-> {Jti(2)}, sub |-> {g.user}, aud |-> aud]

\* Mutant: the refresh token does not remember when the user authenticated.
TimelessContext(g) ==
  Present("scope", g.scope)
  ++ (IF g.client = NoClient THEN << >> ELSE [client_id |-> {g.client}])
  ++ Present("req_id_token_claims", g.idClaims)
  ++ Present("req_userinfo_claims", g.userinfoClaims)

\* The grant as the refresh token remembers it.
Context(g) ==
  Present("scope", g.scope)
  ++ (IF "openid" \in g.scope THEN [auth_time |-> {AuthTime(g)}] ELSE << >>)
  ++ (IF g.client = NoClient THEN << >> ELSE [client_id |-> {g.client}])
  ++ Present("req_id_token_claims", g.idClaims)
  ++ Present("req_userinfo_claims", g.userinfoClaims)

RefreshPayload(g) ==
  [token_use |-> {"refresh"}, token_type |-> {"refresh"}] ++ Context(g)
  ++ [jti |-> {Jti(3)}, sub |-> {g.user}, aud |-> {settings.audience}]

\* A token: what it is, what it says, and (for the properties) the grant it was
\* issued for, the authorization that grant descends from, and the resource
\* audience at the time.
Token(k, payload, g, origin) ==
  [kind |-> <<"access", "id", "refresh">>[k],
   payload |-> payload, grant |-> g, origin |-> origin,
   resource |-> settings.audience]

\* An `extra' that jwt.encode cannot sign (an `iss' that is no string) fails at
\* the first of the three tokens: nothing is issued, and nothing changes here.
CreateToken(g, origin) ==
  /\ issues < limits.issues
  /\ issues' = issues + 1
  /\ tokens' = tokens
       \cup {Token(1, AccessPayload(g), g, origin),
             Token(3, RefreshPayload(g), g, origin)}
       \cup (IF "openid" \in g.scope
             THEN {Token(2, IdPayload(g, users[g.user]), g, origin)} ELSE {})
  /\ answer' = None
  /\ UNCHANGED <<settings, additional, users, revoked, edits, limits>>

Grant(n, client, scope, authTime, idc, uic, extra) ==
  [user |-> n, client |-> client, scope |-> scope, authTime |-> authTime,
   idClaims |-> idc, userinfoClaims |-> uic, extra |-> extra]

\* The authorization a first grant is.
Original(g) == [authTime |-> AuthTime(g), scope |-> g.scope,
                idClaims |-> g.idClaims, userinfoClaims |-> g.userinfoClaims]

Begin(g) == /\ issues < MaxGrants
            /\ users[g.user] # Gone
            /\ CreateToken(g, Original(g))

\* authorization_code and device_code: the user authenticated some time ago;
\* only the former carries requested claims.
InteractiveGrant(n, client, scope, idc, uic, extra) ==
  \E t \in 0..issues : Begin(Grant(n, client, scope, t, idc, uic, extra))

PasswordGrant(n, client, scope, extra) ==
  Begin(Grant(n, client, scope, None, {}, {}, extra))

ClientCredentialsGrant(client, extra) ==
  Begin(Grant(DefaultUser, client, {}, None, {}, {}, extra))

\* POST /api/users/<username>/token
ApiToken(n) == Begin(Grant(n, NoClient, {}, None, {}, {}, << >>))

\* The MCP tool generate_token.
McpToken(n, scope, idc, uic, extra) ==
  Begin(Grant(n, NoClient, scope, None, idc, uic, extra))

-----------------------------------------------------------------------------
(* Presenting a token *)

Claim(t, c) == IF c \in DOMAIN t.payload THEN t.payload[c] ELSE {}

\* verify_jwt against the resource audience of this moment.  A jti that is not
\* a string (null, here no value) does not verify.
Verifies(t) == settings.audience \in Claim(t, "aud") /\ Claim(t, "jti") # {}

Revoked(t) == Claim(t, "jti") \cap revoked # {}

SubjectOf(t) == CHOOSE n \in Claim(t, "sub") : TRUE

\* An access token's subject may be any name, one that a caller's extra gave it.
Known(n) == n \in Users /\ users[n] # Gone

\* The refresh grant: client presents t and may ask for a narrower scope.  The
\* marker it looks for is token_type, which a caller's extra may give an access
\* token; that one starts a lineage of its own.
RefreshGrant(t, client, requested, extra) ==
  LET n == SubjectOf(t)
      scope == IF requested = {} THEN Claim(t, "scope") ELSE requested
      time == Claim(t, "auth_time")
      g == Grant(n, client, scope,
                 IF time = {} THEN None ELSE CHOOSE x \in time : TRUE,
                 Claim(t, "req_id_token_claims"), Claim(t, "req_userinfo_claims"),
                 extra)
  IN /\ Verifies(t)
     /\ Claim(t, "token_type") = {"refresh"}
     /\ Claim(t, "client_id") \subseteq {client}
     /\ Known(n)
     /\ requested \subseteq Claim(t, "scope")
     /\ ~Revoked(t)
     /\ CreateToken(g, IF t.kind = "refresh" THEN t.origin ELSE Original(g))

\* Mutant: the audience is trusted to keep ID and refresh tokens out.
AnyUse(t) == TRUE

\* A token marked as an ID or a refresh token is not an access token.
AccessUse(t) == Claim(t, "token_use") \cap {"id", "refresh"} = {}

Released(t, n, u) ==
  LET all == ResolvedClaims(n, u)
      gated == (IF ~settings.strict \/ "email" \in Claim(t, "scope")
                THEN {"email", "email_verified"} ELSE {})
               \cup (IF ~settings.strict \/ "profile" \in Claim(t, "scope")
                     THEN {"preferred_username"} ELSE {})
      always == {"roles", "groups", "tenant", "identity_class"}
  IN [sub |-> {n}]
     ++ OnlyThe(all, gated \cup always)
     ++ Present("attributes", DOMAIN u.attributes)
     ++ OnlyThe(all, Claim(t, "req_userinfo_claims"))

Userinfo(t) ==
  /\ Verifies(t) /\ AccessUse(t) /\ ~Revoked(t)
  /\ LET n == SubjectOf(t)
     IN answer' = [at |-> "userinfo", token |-> t, strict |-> settings.strict,
                   claims |-> IF Known(n) THEN Released(t, n, users[n])
                              ELSE [sub |-> {n}]]
  /\ UNCHANGED <<settings, additional, users, tokens, revoked, issues, edits, limits>>

\* Only ID tokens are refused: a refresh token is active as well.
Introspect(t) ==
  /\ Verifies(t) /\ "id" \notin Claim(t, "token_use") /\ ~Revoked(t)
  /\ answer' = [at |-> "introspect", token |-> t, strict |-> settings.strict,
                claims |-> << >>]
  /\ UNCHANGED <<settings, additional, users, tokens, revoked, issues, edits, limits>>

-----------------------------------------------------------------------------
(* Revocation and administration *)

Edited == edits < limits.edits /\ edits' = edits + 1 /\ answer' = None

\* /revoke, or /end_session with the token as id_token_hint: its jti only.
Revoke(t) ==
  /\ Edited
  /\ ~(Claim(t, "jti") \subseteq revoked)
  /\ revoked' = revoked \cup Claim(t, "jti")
  /\ UNCHANGED <<settings, additional, users, tokens, issues, limits>>

EditUser(n, profile) ==
  /\ Edited
  /\ users[n] # profile
  /\ users' = [users EXCEPT ![n] = profile]
  /\ UNCHANGED <<settings, additional, tokens, revoked, issues, limits>>

EditClient(client, auds) ==
  /\ Edited
  /\ additional[client] # auds
  /\ additional' = [additional EXCEPT ![client] = auds]
  /\ UNCHANGED <<settings, users, tokens, revoked, issues, limits>>

EditSettings(audience, strict) ==
  /\ Edited
  /\ settings' = [audience |-> audience, strict |-> strict]
  /\ settings' # settings
  /\ UNCHANGED <<additional, users, tokens, revoked, issues, limits>>

Init ==
  /\ \E i \in Installations :
       /\ settings = [audience |-> i.audience, strict |-> i.strict]
       /\ additional = i.additional
       /\ limits = [issues |-> i.issues, edits |-> i.edits]
  /\ users \in [Users -> Profiles]
  /\ tokens = {} /\ revoked = {} /\ answer = None
  /\ issues = 0 /\ edits = 0

Next ==
  \/ \E c \in Clients, e \in Extras :
       \/ \E n \in Users, s \in Scopes :
            \/ \E i \in ClaimRequests, w \in ClaimRequests :
                 InteractiveGrant(n, c, s, i, w, e)
            \/ PasswordGrant(n, c, s, e)
       \/ ClientCredentialsGrant(c, e)
       \/ \E t \in tokens, s \in Scopes : RefreshGrant(t, c, s, e)
  \/ \E n \in Users : ApiToken(n)
  \/ \E n \in Users, s \in Scopes, i \in ClaimRequests, w \in ClaimRequests, e \in Extras :
       McpToken(n, s, i, w, e)
  \/ \E t \in tokens : Userinfo(t) \/ Introspect(t) \/ Revoke(t)
  \/ \E n \in Users, p \in Profiles \cup {Gone} : EditUser(n, p)
  \/ \E c \in Clients, auds \in SUBSET Audiences : EditClient(c, auds)
  \/ \E a \in Audiences, b \in BOOLEAN : EditSettings(a, b)

Spec == Init /\ [][Next]_vars

-----------------------------------------------------------------------------
(* Properties *)

\* Times of the clock, and what callers' extras say of it.
Times ==
  0..MaxIssues
  \cup UNION {e["auth_time"] : e \in {x \in Extras : "auth_time" \in DOMAIN x}}

GrantType(g) ==
  /\ g.user \in Users /\ g.client \in Clients \cup {NoClient}
  /\ g.scope \in SUBSET UNION Scopes
  /\ g.idClaims \in ClaimRequests /\ g.userinfoClaims \in ClaimRequests
  /\ g.authTime \in Times \cup {None}
  /\ g.extra \in Extras \cup {<< >>}

\* The token's jti is the one that was drawn for it.
OwnJti(t) == t.kind = "access" => "jti" \notin DOMAIN t.grant.extra

\* Types.  Every token has a jti no other token drew, the subject of its grant
\* and an audience, unless it is an access token whose extra says otherwise, and
\* its scope is the grant's or missing.
TypeOK ==
  /\ settings \in [audience : Audiences, strict : BOOLEAN]
  /\ users \in [Users -> Profiles \cup {Gone}]
  /\ \A t \in tokens :
       /\ GrantType(t.grant)
       /\ Claim(t, "sub") # {t.grant.user} =>
            t.kind = "access" /\ Claim(t, "sub") = t.grant.extra["sub"]
       /\ t.kind # "access" => Claim(t, "aud") # {}
       /\ Claim(t, "scope") \in {t.grant.scope, {}}
  /\ \A t, u \in tokens :
       OwnJti(t) /\ OwnJti(u) /\ Claim(t, "jti") = Claim(u, "jti") => t = u
  /\ revoked \subseteq UNION {Claim(t, "jti") : t \in tokens}
  /\ issues \in 0..MaxIssues /\ edits \in 0..MaxEdits

\* Under a strict profile /userinfo gives the email address only to a token
\* whose own scope (after every narrowing on refresh) has `email', or whose
\* original authorization asked for it by name; no `extra' of any of the
\* requests in between adds to that.
ReleasedWasGranted ==
  answer # None /\ answer.at = "userinfo" /\ answer.strict /\ "email" \in DOMAIN answer.claims
    => \/ "email" \in answer.token.grant.scope
       \/ "email" \in answer.token.origin.userinfoClaims

\* An ID token states the protocol's claims as the grant has them, whatever
\* attributes the user has and whatever names the client requests; it names
\* its client, and not the resource audience unless that is its client's name.
IdTokenSpeaksForTheGrant ==
  \A t \in tokens : t.kind = "id" =>
    /\ Claim(t, "sub") = {t.grant.user}
    /\ Claim(t, "token_use") = {"id"}
    /\ t.grant.client # NoClient =>
         /\ t.grant.client \in Claim(t, "aud")
         /\ t.resource \in Claim(t, "aud") => t.resource = t.grant.client

\* Down a chain of refresh tokens every ID token carries the time the user really
\* authenticated, and is minted for the claims the authorization asked for.
RefreshKeepsContext ==
  \A t \in tokens : t.kind = "id" =>
    /\ Claim(t, "auth_time") = {t.origin.authTime}
    /\ t.grant.idClaims = t.origin.idClaims
    /\ t.grant.userinfoClaims = t.origin.userinfoClaims

\* An ID token opens nothing and a refresh token opens no /userinfo, also when
\* an audience of the ID token has since become the resource audience.
OnlyAccessTokensOpen ==
  answer # None =>
    /\ answer.token.kind # "id"
    /\ answer.at = "userinfo" => answer.token.kind = "access"
=============================================================================
