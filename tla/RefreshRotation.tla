--------------------------- MODULE RefreshRotation ---------------------------
(***************************************************************************)
(* The refresh_token grant of POST /token and the RevocationStore it       *)
(* spends tokens in.                                                       *)
(*                                                                         *)
(* A request is served by a thread.  _grant_refresh_token first validates  *)
(* the presented token against the client, the user directory and the      *)
(* requested scope (Validate), then runs check_and_claim_refresh under the *)
(* store's lock (ClaimAccepted, ClaimRefused), and token() mints the next  *)
(* refresh token after the lock has been released (Mint), unless the       *)
(* access token signed just before it cannot be signed (MintFails).        *)
(* Requests of other threads, /revoke, an operator toggling rotation or    *)
(* deleting a user, and a restart of the process may come between any two  *)
(* of these.  A request that fails validation changes nothing, and is a    *)
(* stutter here.                                                           *)
(***************************************************************************)
EXTENDS Naturals

CONSTANTS
    Jti,        \* token ids; uuid4 in the code, so a fresh one is always unused
    Clients,    \* ids of the registered OAuth clients
    Users,      \* user names
    Scopes,     \* scope names
    Threads,    \* server threads
    Grants,     \* what the other grants issue: sets of client, user and scope
    None,       \* absent client_id, rt_family or parent
    MaxBoots    \* bound on the number of process starts

ASSUME NoneAssumption == None \notin Jti \cup Clients
ASSUME GrantsAssumption ==
    Grants \subseteq [client : Clients \cup {None}, user : Users, scope : SUBSET Scopes]
ASSUME BootsAssumption == MaxBoots \in Nat \ {0}

VARIABLES
    tokens,             \* refresh tokens signed so far, by their claims
    revokedTokens,      \* RevocationStore._revoked_tokens
    revokedFamilies,    \* RevocationStore._revoked_families
    rotation,           \* settings.rotation_enabled
    users,              \* names in config.users
    request,            \* request[t]: the refresh request thread t is serving
    withdrawn,          \* history: jtis /revoke was the first to add since the start
    lost,               \* history: jtis consumed by a refresh that then failed
    boot                \* history: number of the current process start

vars == <<tokens, revokedTokens, revokedFamilies, rotation, users, request,
          withdrawn, lost, boot>>
store == <<revokedTokens, revokedFamilies>>
history == <<withdrawn, lost, boot>>

(***************************************************************************)
(* Claims of a refresh token.  An rt_family is a fresh uuid; it is named   *)
(* here after the first token that carries it.  parent, rotated and boot   *)
(* are history: the token whose refresh minted this one, whether that      *)
(* refresh consumed it, and the process start that signed it.              *)
(***************************************************************************)
Token == [jti : Jti, client : Clients \cup {None}, user : Users,
          scope : SUBSET Scopes, family : Jti \cup {None},
          parent : Jti \cup {None}, rotated : BOOLEAN, boot : 0..MaxBoots]

Idle == [pc |-> "idle"]
Pending == [pc : {"validated", "claimed"}, token : Token, client : Clients,
            scope : SUBSET Scopes, rotate : BOOLEAN]

TypeOK ==
    /\ tokens \in SUBSET Token
    /\ revokedTokens \in SUBSET Jti
    /\ revokedFamilies \in SUBSET Jti
    /\ rotation \in BOOLEAN
    /\ users \in SUBSET Users
    /\ request \in [Threads -> {Idle} \cup Pending]
    /\ withdrawn \in SUBSET Jti
    /\ lost \in SUBSET Jti
    /\ boot \in 1..MaxBoots

-----------------------------------------------------------------------------
Fresh(j) == \A x \in tokens : x.jti # j

\* A token signed by a release that did not yet stamp client_id and rt_family.
Legacy(j, u, s) ==
    [jti |-> j, client |-> None, user |-> u, scope |-> s, family |-> None,
     parent |-> None, rotated |-> FALSE, boot |-> 0]

Init ==
    /\ \/ tokens = {}
       \/ \E j \in Jti, u \in Users : tokens = {Legacy(j, u, Scopes)}
    /\ revokedTokens = {}
    /\ revokedFamilies = {}
    /\ rotation \in BOOLEAN
    /\ users = Users
    /\ request = [t \in Threads |-> Idle]
    /\ withdrawn = {}
    /\ lost = {}
    /\ boot = 1

\* Any other grant, /api/users/<name>/token or the MCP generate_token: a new
\* family.  The last two know no client and leave the token unbound.
Issue(j, g) ==
    /\ Fresh(j)
    /\ g.user \in users
    /\ tokens' = tokens \cup
         {[jti |-> j, client |-> g.client, user |-> g.user, scope |-> g.scope,
           family |-> j, parent |-> None, rotated |-> FALSE, boot |-> boot]}
    /\ UNCHANGED <<store, rotation, users, request, history>>

\* Mutant: the requested scope is not compared with the granted one.
PresentableAnyScope(x, c, sc) == x.client \in {None, c} /\ x.user \in users

Presentable(x, c, sc) ==
    /\ x.client \in {None, c}
    /\ x.user \in users
    /\ sc \subseteq x.scope

Pend(t, x, c, sc) ==
    /\ request[t] = Idle
    /\ Presentable(x, c, sc)
    /\ request' = [request EXCEPT ![t] =
         [pc |-> "validated", token |-> x, client |-> c, scope |-> sc,
          rotate |-> rotation]]

\* Mutant: the token is consumed before the checks that can reject are over.
ValidateConsumes(t, x, c, sc) ==
    /\ Pend(t, x, c, sc)
    /\ revokedTokens' = IF rotation THEN revokedTokens \cup {x.jti} ELSE revokedTokens
    /\ UNCHANGED <<tokens, revokedFamilies, rotation, users, history>>

\* Every check that precedes the claim; the rotation setting is read when the
\* arguments of the claim are evaluated, before the store's lock is taken.
Validate(t, x, c, sc) ==
    /\ Pend(t, x, c, sc)
    /\ UNCHANGED <<tokens, store, rotation, users, history>>

-----------------------------------------------------------------------------
(***************************************************************************)
(* check_and_claim_refresh, one critical section of the store's lock.      *)
(***************************************************************************)
\* Mutant: only one of the two sets is consulted.
ReusedFamilyOnly(x) == x.family \in revokedFamilies

Reused(x) == x.jti \in revokedTokens \/ x.family \in revokedFamilies

\* Mutant: the claim forgets to consume the token.
ConsumedNever(r) == {}

Consumed(r) == IF r.rotate THEN {r.token.jti} ELSE {}

\* Mutant: the test that the token has a family at all is dropped.
DoomedAlways(r) == IF r.rotate THEN {r.token.family} ELSE {}

Doomed(r) == IF r.rotate /\ r.token.family # None THEN {r.token.family} ELSE {}

ClaimAccepted(t) ==
    /\ request[t].pc = "validated"
    /\ ~Reused(request[t].token)
    /\ revokedTokens' = revokedTokens \cup Consumed(request[t])
    /\ request' = [request EXCEPT ![t].pc = "claimed"]
    /\ UNCHANGED <<tokens, revokedFamilies, rotation, users, history>>

ClaimRefused(t) ==
    /\ request[t].pc = "validated"
    /\ Reused(request[t].token)
    /\ revokedFamilies' = revokedFamilies \cup Doomed(request[t])
    /\ request' = [request EXCEPT ![t] = Idle]
    /\ UNCHANGED <<tokens, revokedTokens, rotation, users, history>>

\* create_token, after the lock is released: the successor keeps the family
\* of the token it replaces, and is bound to the client that presented it.
Successor(r, j) ==
    [jti |-> j, client |-> r.client, user |-> r.token.user, scope |-> r.scope,
     family |-> IF r.token.family = None THEN j ELSE r.token.family,
     parent |-> r.token.jti, rotated |-> r.rotate, boot |-> boot]

Mint(t, j) ==
    /\ request[t].pc = "claimed"
    /\ Fresh(j)
    /\ tokens' = tokens \cup {Successor(request[t], j)}
    /\ request' = [request EXCEPT ![t] = Idle]
    /\ UNCHANGED <<store, rotation, users, history>>

\* The access token is signed first, with the claims of the request's `extra`
\* written over its own.  Nothing has looked at the members of `extra` so far,
\* and jwt.encode raises TypeError for an `iss` that is not a string: such a
\* request ends in a 500, no refresh token is minted and the claim stands.
MintFails(t) ==
    /\ request[t].pc = "claimed"
    /\ lost' = lost \cup Consumed(request[t])
    /\ request' = [request EXCEPT ![t] = Idle]
    /\ UNCHANGED <<tokens, store, rotation, users, withdrawn, boot>>

-----------------------------------------------------------------------------
\* POST /revoke: the jti is added without the store's lock and without asking
\* whose token it is.
Revoke(x) ==
    /\ revokedTokens' = revokedTokens \cup {x.jti}
    /\ withdrawn' = withdrawn \cup ({x.jti} \ revokedTokens)
    /\ UNCHANGED <<tokens, revokedFamilies, rotation, users, request, lost, boot>>

\* The `active` member of the introspection response for a refresh token.
Active(x) == x.jti \notin revokedTokens

\* The settings page, the MCP update_settings tool or a reload.
ToggleRotation ==
    /\ rotation' = ~rotation
    /\ UNCHANGED <<tokens, store, users, request, history>>

\* A user is deleted or created while tokens in that name are outstanding.
ChangeUsers(u) ==
    /\ users' = IF u \in users THEN users \ {u} ELSE users \cup {u}
    /\ UNCHANGED <<tokens, store, rotation, request, history>>

Forget == revokedTokens' = {} /\ revokedFamilies' = {}

\* The store lives in memory; signed tokens live with the clients.
Restart ==
    /\ boot < MaxBoots
    /\ boot' = boot + 1
    /\ Forget
    /\ request' = [t \in Threads |-> Idle]
    /\ withdrawn' = {}
    /\ lost' = {}
    /\ UNCHANGED <<tokens, rotation, users>>

Next ==
    \/ \E j \in Jti, g \in Grants : Issue(j, g)
    \/ \E t \in Threads, x \in tokens, c \in Clients, sc \in SUBSET Scopes :
         Validate(t, x, c, sc)
    \/ \E t \in Threads : ClaimAccepted(t) \/ ClaimRefused(t) \/ MintFails(t)
    \/ \E t \in Threads, j \in Jti : Mint(t, j)
    \/ \E x \in tokens : Revoke(x)
    \/ ToggleRotation
    \/ \E u \in Users : ChangeUsers(u)
    \/ Restart

Spec == Init /\ [][Next]_vars

-----------------------------------------------------------------------------
(***************************************************************************)
(* Properties.                                                             *)
(***************************************************************************)
Claimed == {t \in Threads : request[t].pc = "claimed"}
Rotating(f) ==
    {t \in Claimed : request[t].token.family = f /\ request[t].rotate}

\* Every refresh that minted a token of family f happened since the last start,
\* with rotation on.
PureRotation(f) ==
    \A x \in tokens : x.family = f =>
        x.boot = boot /\ (x.parent # None => x.rotated)

\* With rotation on, a family never has two spendable ends: at most one of its
\* tokens is unspent, and none while a refresh of it is between claim and mint.
OneHeadPerFamily ==
    \A f \in Jti : PureRotation(f) =>
        /\ \A x, y \in tokens :
             x.family = f /\ y.family = f /\ Active(x) /\ Active(y) => x = y
        /\ \A s, t \in Rotating(f) : s = t
        /\ Rotating(f) # {} => \A x \in tokens : x.family = f => ~Active(x)

\* However rotation is toggled and requests interleave, within one process
\* lifetime a token is consumed by at most one refresh.
SingleSuccessor ==
    \A x, y \in tokens :
        /\ x.parent = y.parent
        /\ x.parent # None
        /\ x.rotated
        /\ y.rotated
        /\ x.boot = y.boot
        => x = y

\* A spent token that was withdrawn, has a successor, or is about to get one.
Answered(j) ==
    \/ j \in withdrawn
    \/ \E x \in tokens : x.parent = j /\ x.rotated /\ x.boot = boot
    \/ \E t \in Claimed : request[t].token.jti = j /\ request[t].rotate

\* A refresh consumes the token it presents only if it is answered with a
\* successor; the one exception is a request whose own `extra` could not be
\* signed, which the comment above the claim ("issuance is local signing and
\* cannot fail") overlooks.  No other error, no reuse by somebody else and no
\* race of other requests costs a client its token.
ConsumedIsAnswered == \A j \in revokedTokens : Answered(j) \/ j \in lost

\* A family is killed only by the refusal of a token of that family which had
\* been withdrawn, or spent by a refresh of its own: a token presented for the
\* first time, by however many other requests around it, kills nothing.
FamilyDiesOfReuse ==
    [][\A f \in revokedFamilies' \ revokedFamilies :
         \E t \in Threads :
            /\ request[t].pc = "validated"
            /\ request'[t] = Idle
            /\ request[t].token.family = f
            /\ Answered(request[t].token.jti) \/ request[t].token.jti \in lost]_vars

\* Refreshing narrows: a successor keeps the user and the family, may shed
\* scopes but never gains one, and stays with the client of its parent.
Attenuation ==
    \A x, y \in tokens : x.parent = y.jti =>
        /\ x.user = y.user
        /\ x.scope \subseteq y.scope
        /\ x.client # None /\ y.client \in {None, x.client}
        /\ x.family = IF y.family = None THEN x.jti ELSE y.family

\* "reuse revokes the whole rotation family" (token-requests.md): introspection
\* reports no token of a revoked family as active.
FamilyRevocationIsVisible ==
    \A x \in tokens : x.family \in revokedFamilies => ~Active(x)
=============================================================================
