----------------------- MODULE RefreshRotationProofs ------------------------
(***************************************************************************)
(* Proofs about RefreshRotation for every set of tokens, clients, users,   *)
(* scopes and threads.                                                     *)
(***************************************************************************)
EXTENDS RefreshRotation, TLAPS

-----------------------------------------------------------------------------
(***************************************************************************)
(* The inductive invariant: what ties requests in flight to the tokens     *)
(* they carry, and history to the store.                                   *)
(***************************************************************************)
UniqueJti == \A x, y \in tokens : x.jti = y.jti => x = y

\* A family or a parent is always a token that exists.
Lineage ==
    \A x \in tokens :
        /\ x.family # None => \E y \in tokens : y.jti = x.family
        /\ x.parent # None => \E y \in tokens : y.jti = x.parent
        /\ x.rotated => x.parent # None
        /\ x.boot <= boot

\* A request in flight carries a real token and has passed the checks on it.
InFlight ==
    \A t \in Threads : request[t] # Idle =>
        /\ request[t].token \in tokens
        /\ request[t].token.client \in {None, request[t].client}
        /\ request[t].scope \subseteq request[t].token.scope

\* A rotated refresh has consumed its token, whether minted yet or not.
Spent ==
    /\ \A t \in Claimed : request[t].rotate => request[t].token.jti \in revokedTokens
    /\ \A x \in tokens : x.rotated /\ x.boot = boot => x.parent \in revokedTokens

\* Rotated claims in flight exclude each other and any rotated successor.
SoleClaim ==
    \A t \in Claimed : request[t].rotate =>
        /\ \A s \in Claimed :
             request[s].rotate /\ request[s].token.jti = request[t].token.jti => s = t
        /\ \A x \in tokens :
             x.rotated /\ x.boot = boot => x.parent # request[t].token.jti

IInv ==
    /\ TypeOK
    /\ UniqueJti
    /\ Lineage
    /\ InFlight
    /\ Spent
    /\ SoleClaim
    /\ SingleSuccessor
    /\ ConsumedIsAnswered
    /\ Attenuation
    /\ OneHeadPerFamily

-----------------------------------------------------------------------------
(***************************************************************************)
(* Lemmas about one step.                                                  *)
(***************************************************************************)
LEMMA NewTokenType ==
    ASSUME TypeOK, NEW t \in Threads, NEW j \in Jti, request[t].pc = "claimed"
    PROVE  Successor(request[t], j) \in Token
<1>1. request[t] \in Pending
  BY DEF TypeOK, Idle
<1>2. boot \in 0..MaxBoots
  BY BootsAssumption DEF TypeOK
<1> QED
  BY <1>1, <1>2 DEF Successor, Pending, Token

\* The type invariant: every step keeps the store, the tokens and the requests
\* in their types; None never enters the revoked families.
LEMMA TypeStep == TypeOK /\ [Next]_vars => TypeOK'
<1> SUFFICES ASSUME TypeOK, [Next]_vars PROVE TypeOK'
  OBVIOUS
<1> USE DEF TypeOK, store, history
<1>1. ASSUME NEW j \in Jti, NEW g \in Grants, Issue(j, g) PROVE TypeOK'
  <2>1. [jti |-> j, client |-> g.client, user |-> g.user, scope |-> g.scope,
         family |-> j, parent |-> None, rotated |-> FALSE, boot |-> boot] \in Token
    BY BootsAssumption, GrantsAssumption DEF Token
  <2> QED
    BY <1>1, <2>1 DEF Issue
<1>2. ASSUME NEW t \in Threads, NEW x \in tokens, NEW c \in Clients,
             NEW sc \in SUBSET Scopes, Validate(t, x, c, sc)
      PROVE  TypeOK'
  <2>1. [pc |-> "validated", token |-> x, client |-> c, scope |-> sc,
         rotate |-> rotation] \in Pending
    BY DEF Pending
  <2> QED
    BY <1>2, <2>1 DEF Validate, Pend
<1>3. ASSUME NEW t \in Threads, ClaimAccepted(t) PROVE TypeOK'
  <2>1. request[t] \in Pending
    BY <1>3 DEF ClaimAccepted, Idle
  <2>2. [request[t] EXCEPT !.pc = "claimed"] \in Pending
    BY <2>1 DEF Pending
  <2>3. Consumed(request[t]) \subseteq Jti
    BY <2>1 DEF Consumed, Pending, Token
  <2> QED
    BY <1>3, <2>2, <2>3 DEF ClaimAccepted
<1>4. ASSUME NEW t \in Threads, ClaimRefused(t) PROVE TypeOK'
  <2>1. request[t] \in Pending
    BY <1>4 DEF ClaimRefused, Idle
  <2>2. Doomed(request[t]) \subseteq Jti
    BY <2>1 DEF Doomed, Pending, Token
  <2> QED
    BY <1>4, <2>2 DEF ClaimRefused
<1>5. ASSUME NEW t \in Threads, NEW j \in Jti, Mint(t, j) PROVE TypeOK'
  BY <1>5, NewTokenType DEF Mint
<1>6. ASSUME NEW x \in tokens, Revoke(x) PROVE TypeOK'
  BY <1>6 DEF Revoke, Token
<1>7. CASE ToggleRotation
  BY <1>7 DEF ToggleRotation
<1>8. ASSUME NEW u \in Users, ChangeUsers(u) PROVE TypeOK'
  BY <1>8 DEF ChangeUsers
<1>9. CASE Restart
  BY <1>9, BootsAssumption DEF Restart, Forget
<1>10. ASSUME NEW t \in Threads, MintFails(t) PROVE TypeOK'
  <2>1. request[t] \in Pending
    BY <1>10 DEF MintFails, Idle
  <2>2. Consumed(request[t]) \subseteq Jti
    BY <2>1 DEF Consumed, Pending, Token
  <2> QED
    BY <1>10, <2>2 DEF MintFails
<1>11. CASE UNCHANGED vars
  BY <1>11 DEF vars
<1> QED
  BY <1>1, <1>2, <1>3, <1>4, <1>5, <1>6, <1>7, <1>8, <1>9, <1>10, <1>11 DEF Next

LEMMA InitType == Init => TypeOK
<1> SUFFICES ASSUME Init PROVE TypeOK
  OBVIOUS
<1>1. ASSUME NEW j \in Jti, NEW u \in Users PROVE Legacy(j, u, Scopes) \in Token
  <2>1. 0 \in 0..MaxBoots
    BY BootsAssumption
  <2> QED
    BY <2>1 DEF Legacy, Token
<1>2. tokens \in SUBSET Token
  BY <1>1 DEF Init
<1> QED
  BY <1>2, BootsAssumption DEF Init, TypeOK

\* Every reachable state of the refresh grant and the RevocationStore is
\* well-typed, whatever the sets of tokens, clients, users and threads.
THEOREM TypeCorrect == Spec => []TypeOK
  BY InitType, TypeStep, PTL DEF Spec

-----------------------------------------------------------------------------
(***************************************************************************)
(* Each step keeps each part of the inductive invariant.                   *)
(***************************************************************************)
\* A token minted by any grant has a jti, and hence a family, not seen before.
LEMMA FreshIsNew ==
    ASSUME TypeOK, Lineage, NEW j \in Jti, Fresh(j)
    PROVE  \A x \in tokens : x.jti # j /\ x.family # j /\ x.parent # j
  BY NoneAssumption DEF Fresh, Lineage

LEMMA UniqueJtiStep == IInv /\ [Next]_vars => UniqueJti'
<1> SUFFICES ASSUME IInv, [Next]_vars PROVE UniqueJti'
  OBVIOUS
<1> USE DEF UniqueJti
<1>1. ASSUME NEW j \in Jti, NEW g \in Grants, Issue(j, g) PROVE UniqueJti'
  <2> DEFINE n == [jti |-> j, client |-> g.client, user |-> g.user,
                   scope |-> g.scope, family |-> j, parent |-> None,
                   rotated |-> FALSE, boot |-> boot]
  <2>1. n.jti = j /\ tokens' = tokens \cup {n}
    BY <1>1 DEF Issue
  <2> HIDE DEF n
  <2> QED
    BY <1>1, <2>1 DEF IInv, Issue, Fresh
<1>2. ASSUME NEW t \in Threads, NEW j \in Jti, Mint(t, j) PROVE UniqueJti'
  BY <1>2 DEF IInv, Mint, Successor, Fresh
<1>3. CASE UNCHANGED tokens
  BY <1>3 DEF IInv
<1> QED
  BY <1>1, <1>2, <1>3 DEF Next, vars, Validate, ClaimAccepted, ClaimRefused,
     MintFails, Revoke, ToggleRotation, ChangeUsers, Restart

LEMMA LineageStep == IInv /\ [Next]_vars => Lineage'
<1> SUFFICES ASSUME IInv, [Next]_vars PROVE Lineage'
  OBVIOUS
<1> USE DEF Lineage, history
<1>1. ASSUME NEW j \in Jti, NEW g \in Grants, Issue(j, g) PROVE Lineage'
  BY <1>1, BootsAssumption DEF IInv, Issue, TypeOK
<1>2. ASSUME NEW t \in Threads, NEW j \in Jti, Mint(t, j) PROVE Lineage'
  <2>1. request[t].token \in tokens /\ request[t].token.jti \in Jti
    BY <1>2 DEF IInv, Mint, InFlight, Idle, TypeOK, Token
  <2> DEFINE n == Successor(request[t], j)
  <2>2. /\ n.family = j \/ n.family = request[t].token.family
        /\ n.parent = request[t].token.jti
        /\ n.boot = boot
        /\ n.jti = j
    BY DEF Successor
  <2>3. tokens' = tokens \cup {n} /\ boot' = boot /\ boot <= boot
    BY <1>2, BootsAssumption DEF Mint, IInv, TypeOK
  <2>4. n.parent # None
    BY <2>1, <2>2, NoneAssumption
  <2> HIDE DEF n
  <2> QED
    BY <2>1, <2>2, <2>3, <2>4 DEF IInv
<1>3. CASE Restart
  <2>1. ASSUME NEW x \in tokens PROVE x.boot <= boot + 1
    BY BootsAssumption DEF IInv, TypeOK, Token
  <2> QED
    BY <1>3, <2>1 DEF IInv, Restart
<1>4. CASE UNCHANGED <<tokens, boot>>
  BY <1>4 DEF IInv
<1> QED
  BY <1>1, <1>2, <1>3, <1>4 DEF Next, vars, history, Validate, ClaimAccepted,
     ClaimRefused, MintFails, Revoke, ToggleRotation, ChangeUsers

LEMMA InFlightStep == IInv /\ [Next]_vars => InFlight'
<1> SUFFICES ASSUME IInv, [Next]_vars PROVE InFlight'
  OBVIOUS
<1> USE DEF InFlight
<1>1. ASSUME NEW j \in Jti, NEW g \in Grants, Issue(j, g) PROVE InFlight'
  BY <1>1 DEF IInv, Issue
<1>2. ASSUME NEW t \in Threads, NEW x \in tokens, NEW c \in Clients,
             NEW sc \in SUBSET Scopes, Validate(t, x, c, sc)
      PROVE  InFlight'
  BY <1>2 DEF IInv, Validate, Pend, Presentable, TypeOK
<1>3. ASSUME NEW t \in Threads, ClaimAccepted(t) PROVE InFlight'
  BY <1>3 DEF IInv, ClaimAccepted, TypeOK, Idle
<1>4. ASSUME NEW t \in Threads, ClaimRefused(t) PROVE InFlight'
  BY <1>4 DEF IInv, ClaimRefused, TypeOK
<1>5. ASSUME NEW t \in Threads, NEW j \in Jti, Mint(t, j) PROVE InFlight'
  BY <1>5 DEF IInv, Mint, TypeOK
<1>6. CASE Restart
  BY <1>6 DEF Restart
<1>7. ASSUME NEW t \in Threads, MintFails(t) PROVE InFlight'
  BY <1>7 DEF IInv, MintFails, TypeOK
<1>8. CASE UNCHANGED <<tokens, request>>
  BY <1>8 DEF IInv
<1> QED
  BY <1>1, <1>2, <1>3, <1>4, <1>5, <1>6, <1>7, <1>8 DEF Next, vars, Revoke,
     ToggleRotation, ChangeUsers

LEMMA SpentStep == IInv /\ [Next]_vars => Spent'
<1> SUFFICES ASSUME IInv, [Next]_vars PROVE Spent'
  OBVIOUS
<1> USE DEF Spent, Claimed, history
<1>1. ASSUME NEW j \in Jti, NEW g \in Grants, Issue(j, g) PROVE Spent'
  BY <1>1 DEF IInv, Issue, store
<1>2. ASSUME NEW t \in Threads, NEW x \in tokens, NEW c \in Clients,
             NEW sc \in SUBSET Scopes, Validate(t, x, c, sc)
      PROVE  Spent'
  BY <1>2 DEF IInv, Validate, Pend, TypeOK, store
<1>3. ASSUME NEW t \in Threads, ClaimAccepted(t) PROVE Spent'
  BY <1>3 DEF IInv, ClaimAccepted, Consumed, TypeOK
<1>4. ASSUME NEW t \in Threads, ClaimRefused(t) PROVE Spent'
  BY <1>4 DEF IInv, ClaimRefused, TypeOK, Idle
<1>5. ASSUME NEW t \in Threads, NEW j \in Jti, Mint(t, j) PROVE Spent'
  BY <1>5 DEF IInv, Mint, Successor, TypeOK, Idle, store
<1>6. ASSUME NEW x \in tokens, Revoke(x) PROVE Spent'
  BY <1>6 DEF IInv, Revoke
<1>7. CASE Restart
  <2>1. \A x \in tokens : x.boot # boot + 1
    BY BootsAssumption DEF IInv, Lineage, TypeOK, Token
  <2> QED
    BY <1>7, <2>1 DEF Restart, Idle
<1>8. ASSUME NEW t \in Threads, MintFails(t) PROVE Spent'
  BY <1>8 DEF IInv, MintFails, TypeOK, Idle, store
<1>9. CASE UNCHANGED <<tokens, request, revokedTokens, boot>>
  BY <1>9 DEF IInv
<1> QED
  BY <1>1, <1>2, <1>3, <1>4, <1>5, <1>6, <1>7, <1>8, <1>9 DEF Next, vars, store,
     history, ToggleRotation, ChangeUsers

LEMMA SoleClaimStep == IInv /\ [Next]_vars => SoleClaim'
<1> SUFFICES ASSUME IInv, [Next]_vars PROVE SoleClaim'
  OBVIOUS
<1> USE DEF SoleClaim, Claimed, history
<1>1. ASSUME NEW j \in Jti, NEW g \in Grants, Issue(j, g) PROVE SoleClaim'
  BY <1>1 DEF IInv, Issue
<1>2. ASSUME NEW t \in Threads, NEW x \in tokens, NEW c \in Clients,
             NEW sc \in SUBSET Scopes, Validate(t, x, c, sc)
      PROVE  SoleClaim'
  BY <1>2 DEF IInv, Validate, Pend, TypeOK
<1>3. ASSUME NEW t \in Threads, ClaimAccepted(t) PROVE SoleClaim'
  BY <1>3 DEF IInv, ClaimAccepted, Reused, Spent, TypeOK
<1>4. ASSUME NEW t \in Threads, ClaimRefused(t) PROVE SoleClaim'
  BY <1>4 DEF IInv, ClaimRefused, TypeOK, Idle
<1>5. ASSUME NEW t \in Threads, NEW j \in Jti, Mint(t, j) PROVE SoleClaim'
  <2> DEFINE n == Successor(request[t], j)
  <2>1. n.parent = request[t].token.jti /\ n.rotated = request[t].rotate
    BY DEF Successor
  <2>2. /\ tokens' = tokens \cup {n}
        /\ request' = [request EXCEPT ![t] = Idle]
        /\ request[t].pc = "claimed"
        /\ boot' = boot
    BY <1>5 DEF Mint
  <2> HIDE DEF n
  <2> QED
    BY <2>1, <2>2 DEF IInv, TypeOK, Idle
<1>6. CASE Restart
  BY <1>6 DEF Restart, Idle
<1>7. ASSUME NEW t \in Threads, MintFails(t) PROVE SoleClaim'
  BY <1>7 DEF IInv, MintFails, TypeOK, Idle
<1>8. CASE UNCHANGED <<tokens, request, boot>>
  BY <1>8 DEF IInv
<1> QED
  BY <1>1, <1>2, <1>3, <1>4, <1>5, <1>6, <1>7, <1>8 DEF Next, vars, history,
     Revoke, ToggleRotation, ChangeUsers

LEMMA SingleSuccessorStep == IInv /\ [Next]_vars => SingleSuccessor'
<1> SUFFICES ASSUME IInv, [Next]_vars PROVE SingleSuccessor'
  OBVIOUS
<1> USE DEF SingleSuccessor
<1>1. ASSUME NEW j \in Jti, NEW g \in Grants, Issue(j, g) PROVE SingleSuccessor'
  <2> DEFINE n == [jti |-> j, client |-> g.client, user |-> g.user,
                   scope |-> g.scope, family |-> j, parent |-> None,
                   rotated |-> FALSE, boot |-> boot]
  <2>1. n.parent = None /\ tokens' = tokens \cup {n}
    BY <1>1 DEF Issue
  <2> HIDE DEF n
  <2> QED
    BY <2>1 DEF IInv
<1>2. ASSUME NEW t \in Threads, NEW j \in Jti, Mint(t, j) PROVE SingleSuccessor'
  <2> DEFINE n == Successor(request[t], j)
  <2>1. /\ n.parent = request[t].token.jti
        /\ n.rotated = request[t].rotate
        /\ n.boot = boot
    BY DEF Successor
  <2>2. tokens' = tokens \cup {n} /\ request[t].pc = "claimed"
    BY <1>2 DEF Mint
  <2> HIDE DEF n
  <2> QED
    BY <2>1, <2>2 DEF IInv, SoleClaim, Claimed
<1>3. CASE UNCHANGED tokens
  BY <1>3 DEF IInv
<1> QED
  BY <1>1, <1>2, <1>3 DEF Next, vars, Validate, ClaimAccepted, ClaimRefused,
     MintFails, Revoke, ToggleRotation, ChangeUsers, Restart

LEMMA ConsumedIsAnsweredStep == IInv /\ [Next]_vars => ConsumedIsAnswered'
<1> SUFFICES ASSUME IInv, [Next]_vars PROVE ConsumedIsAnswered'
  OBVIOUS
<1> USE DEF ConsumedIsAnswered, Answered, Claimed, history
<1>1. ASSUME NEW j \in Jti, NEW g \in Grants, Issue(j, g)
      PROVE  ConsumedIsAnswered'
  BY <1>1 DEF IInv, Issue, store
<1>2. ASSUME NEW t \in Threads, NEW x \in tokens, NEW c \in Clients,
             NEW sc \in SUBSET Scopes, Validate(t, x, c, sc)
      PROVE  ConsumedIsAnswered'
  BY <1>2 DEF IInv, Validate, Pend, TypeOK, store, Idle
<1>3. ASSUME NEW t \in Threads, ClaimAccepted(t) PROVE ConsumedIsAnswered'
  BY <1>3 DEF IInv, ClaimAccepted, Consumed, TypeOK, Idle
<1>4. ASSUME NEW t \in Threads, ClaimRefused(t) PROVE ConsumedIsAnswered'
  BY <1>4 DEF IInv, ClaimRefused, TypeOK
<1>5. ASSUME NEW t \in Threads, NEW j \in Jti, Mint(t, j)
      PROVE  ConsumedIsAnswered'
  <2> DEFINE n == Successor(request[t], j)
  <2>1. /\ n.parent = request[t].token.jti
        /\ n.rotated = request[t].rotate
        /\ n.boot = boot
    BY DEF Successor
  <2>2. /\ tokens' = tokens \cup {n}
        /\ request' = [request EXCEPT ![t] = Idle]
        /\ UNCHANGED <<revokedTokens, history>>
    BY <1>5 DEF Mint, store
  <2> HIDE DEF n
  <2> QED
    BY <2>1, <2>2 DEF IInv, TypeOK
<1>6. ASSUME NEW x \in tokens, Revoke(x) PROVE ConsumedIsAnswered'
  BY <1>6 DEF IInv, Revoke
<1>7. CASE Restart
  BY <1>7 DEF Restart, Forget
<1>8. ASSUME NEW t \in Threads, MintFails(t) PROVE ConsumedIsAnswered'
  BY <1>8 DEF IInv, MintFails, Consumed, TypeOK, Idle, store
<1>9. CASE UNCHANGED <<tokens, request, revokedTokens, history>>
  BY <1>9 DEF IInv
<1> QED
  BY <1>1, <1>2, <1>3, <1>4, <1>5, <1>6, <1>7, <1>8, <1>9 DEF Next, vars, store,
     ToggleRotation, ChangeUsers

LEMMA AttenuationStep == IInv /\ [Next]_vars => Attenuation'
<1> SUFFICES ASSUME IInv, [Next]_vars PROVE Attenuation'
  OBVIOUS
<1> USE DEF Attenuation
<1>1. ASSUME NEW j \in Jti, NEW g \in Grants, Issue(j, g) PROVE Attenuation'
  <2> DEFINE n == [jti |-> j, client |-> g.client, user |-> g.user,
                   scope |-> g.scope, family |-> j, parent |-> None,
                   rotated |-> FALSE, boot |-> boot]
  <2>1. /\ n.jti = j
        /\ n.parent = None
        /\ tokens' = tokens \cup {n}
    BY <1>1 DEF Issue
  <2>2. \A x \in tokens : x.parent # j /\ x.jti # None
    BY <1>1, FreshIsNew, NoneAssumption DEF IInv, Issue, TypeOK, Token
  <2> HIDE DEF n
  <2> QED
    BY <2>1, <2>2, NoneAssumption DEF IInv
<1>2. ASSUME NEW t \in Threads, NEW j \in Jti, Mint(t, j) PROVE Attenuation'
  <2> DEFINE r == request[t]
             n == Successor(r, j)
  <2>1. /\ n.jti = j
        /\ n.parent = r.token.jti
        /\ n.user = r.token.user
        /\ n.scope = r.scope
        /\ n.client = r.client
        /\ n.family = IF r.token.family = None THEN j ELSE r.token.family
    BY DEF Successor
  <2>2. tokens' = tokens \cup {n}
    BY <1>2 DEF Mint
  <2>3. /\ r.token \in tokens
        /\ r.token.client \in {None, r.client}
        /\ r.scope \subseteq r.token.scope
        /\ r.client # None
    <3>1. r \in Pending
      BY <1>2 DEF Mint, IInv, TypeOK, Idle
    <3> QED
      BY <1>2, <3>1, NoneAssumption DEF Mint, IInv, InFlight, Idle, Pending
  <2>4. \A x \in tokens : x.parent # j /\ x.jti # j
    BY <1>2, FreshIsNew DEF IInv, Mint
  <2> HIDE DEF n, r
  <2> QED
    BY <2>1, <2>2, <2>3, <2>4 DEF IInv, UniqueJti
<1>3. CASE UNCHANGED tokens
  BY <1>3 DEF IInv
<1> QED
  BY <1>1, <1>2, <1>3 DEF Next, vars, Validate, ClaimAccepted, ClaimRefused,
     MintFails, Revoke, ToggleRotation, ChangeUsers, Restart

\* The heart of rotation: a claim needs the family's only live token, and
\* leaves the family with none until the successor is minted.
LEMMA OneHeadPerFamilyStep == IInv /\ [Next]_vars => OneHeadPerFamily'
<1> SUFFICES ASSUME IInv, [Next]_vars, NEW f \in Jti, PureRotation(f)'
             PROVE  /\ \A x, y \in tokens' :
                         /\ x.family = f /\ y.family = f
                         /\ Active(x)' /\ Active(y)'
                         => x = y
                    /\ \A s, t \in Rotating(f)' : s = t
                    /\ Rotating(f)' # {} =>
                         \A x \in tokens' : x.family = f => ~Active(x)'
  BY DEF OneHeadPerFamily, Active
<1> DEFINE Goal == /\ \A x, y \in tokens' :
                        /\ x.family = f /\ y.family = f
                        /\ Active(x)' /\ Active(y)'
                        => x = y
                   /\ \A s, t \in Rotating(f)' : s = t
                   /\ Rotating(f)' # {} =>
                        \A x \in tokens' : x.family = f => ~Active(x)'
<1>h. PureRotation(f) =>
        /\ \A x, y \in tokens :
             x.family = f /\ y.family = f /\ Active(x) /\ Active(y) => x = y
        /\ \A s, t \in Rotating(f) : s = t
        /\ Rotating(f) # {} => \A x \in tokens : x.family = f => ~Active(x)
  BY DEF IInv, OneHeadPerFamily
<1>1. ASSUME NEW j \in Jti, NEW g \in Grants, Issue(j, g) PROVE Goal
  <2> DEFINE n == [jti |-> j, client |-> g.client, user |-> g.user,
                   scope |-> g.scope, family |-> j, parent |-> None,
                   rotated |-> FALSE, boot |-> boot]
  <2>1. /\ n.family = j
        /\ tokens' = tokens \cup {n}
        /\ UNCHANGED <<revokedTokens, request, boot>>
    BY <1>1 DEF Issue, store, history
  <2>2. \A x \in tokens : x.family # j
    BY <1>1, FreshIsNew DEF IInv, Issue
  <2>3. Rotating(f)' = Rotating(f)
    BY <2>1 DEF Rotating, Claimed
  <2> HIDE DEF n
  <2>4. CASE f = j
    <3>1. Rotating(f) = {}
      BY <2>2, <2>4 DEF Rotating, Claimed, IInv, InFlight, Idle
    <3> QED
      BY <2>1, <2>2, <2>3, <2>4, <3>1
  <2>5. CASE f # j
    <3>1. PureRotation(f)
      BY <2>1, <2>5 DEF PureRotation
    <3> QED
      BY <1>h, <2>1, <2>3, <2>5, <3>1 DEF Active
  <2> QED
    BY <2>4, <2>5
<1>2. CASE /\ UNCHANGED <<tokens, boot>>
           /\ revokedTokens \subseteq revokedTokens'
           /\ Rotating(f)' \subseteq Rotating(f)
  <2>1. PureRotation(f)
    BY <1>2 DEF PureRotation
  <2> QED
    BY <1>h, <1>2, <2>1 DEF Active
<1>3. ASSUME NEW t \in Threads, ClaimAccepted(t) PROVE Goal
  <2> DEFINE x == request[t].token
  <2>1. /\ tokens' = tokens
        /\ boot' = boot
        /\ request' = [request EXCEPT ![t].pc = "claimed"]
        /\ revokedTokens' = revokedTokens \cup Consumed(request[t])
        /\ request[t].pc = "validated"
        /\ x.jti \notin revokedTokens
    BY <1>3 DEF ClaimAccepted, Reused, history
  <2>2. x \in tokens
    BY <1>3 DEF ClaimAccepted, IInv, InFlight, Idle
  <2>3. /\ request'[t].pc = "claimed"
        /\ request'[t].token = x
        /\ request'[t].rotate = request[t].rotate
        /\ \A s \in Threads \ {t} : request'[s] = request[s]
    <3>1. request[t] \in Pending
      BY <2>1 DEF IInv, TypeOK, Idle
    <3> QED
      BY <2>1, <3>1 DEF IInv, TypeOK, Pending
  <2>4. CASE x.family # f \/ ~request[t].rotate
    <3>1. Rotating(f)' = Rotating(f)
      BY <2>1, <2>3, <2>4 DEF Rotating, Claimed
    <3> QED
      BY <1>2, <2>1, <3>1
  <2>5. CASE x.family = f /\ request[t].rotate
    <3>1. Rotating(f)' = Rotating(f) \cup {t}
      BY <2>1, <2>3, <2>5 DEF Rotating, Claimed
    <3>2. PureRotation(f)
      BY <2>1 DEF PureRotation
    <3>3. Rotating(f) = {} /\ \A y \in tokens : y.family = f /\ Active(y) => y = x
      BY <1>h, <2>1, <2>2, <2>5, <3>2 DEF Active
    <3>4. revokedTokens' = revokedTokens \cup {x.jti}
      BY <2>1, <2>5 DEF Consumed
    <3> QED
      BY <2>1, <3>1, <3>3, <3>4 DEF Active
  <2> QED
    BY <2>4, <2>5
<1>4. ASSUME NEW t \in Threads, NEW j \in Jti, Mint(t, j) PROVE Goal
  <2> DEFINE x == request[t].token
             n == Successor(request[t], j)
  <2>1. /\ tokens' = tokens \cup {n}
        /\ request' = [request EXCEPT ![t] = Idle]
        /\ UNCHANGED <<revokedTokens, boot>>
        /\ t \in Claimed
        /\ Fresh(j)
    BY <1>4 DEF Mint, store, history, Claimed
  <2>2. x \in tokens /\ x.jti # None
    BY <2>1, NoneAssumption DEF Claimed, IInv, InFlight, Idle, TypeOK, Token
  <2>3. /\ n.family = IF x.family = None THEN j ELSE x.family
        /\ n.parent = x.jti
        /\ n.rotated = request[t].rotate
        /\ n.boot = boot
    BY DEF Successor
  <2>4. Rotating(f)' = Rotating(f) \ {t}
    BY <2>1 DEF Rotating, Claimed, Idle, IInv, TypeOK
  <2>5. \A y \in tokens : y.family # j
    BY <2>1, FreshIsNew DEF IInv
  <2> HIDE DEF n
  <2>6. PureRotation(f)
    BY <2>1 DEF PureRotation
  <2>7. CASE x.family = f
    <3>1. n.family = f
      BY <2>3, <2>7, NoneAssumption
    <3>2. t \in Rotating(f)
      BY <2>1, <2>2, <2>3, <2>7, <3>1 DEF PureRotation, Rotating
    <3> QED
      BY <1>h, <2>1, <2>4, <2>6, <3>2 DEF Active
  <2>8. CASE x.family # f /\ n.family = f
    <3>1. f = j /\ Rotating(f) = {}
      BY <2>3, <2>5, <2>8 DEF Rotating, Claimed, IInv, InFlight, Idle
    <3> QED
      BY <2>1, <2>4, <2>5, <3>1
  <2>9. CASE x.family # f /\ n.family # f
    <3>1. Rotating(f)' = Rotating(f)
      BY <2>4, <2>9 DEF Rotating
    <3> QED
      BY <1>h, <2>1, <2>6, <2>9, <3>1 DEF Active
  <2> QED
    BY <2>7, <2>8, <2>9
<1>5. CASE Restart
  <2>1. \A x \in tokens : x.boot # boot + 1
    BY BootsAssumption DEF IInv, Lineage, TypeOK, Token
  <2>2. Rotating(f)' = {}
    BY <1>5 DEF Restart, Rotating, Claimed, Idle
  <2>3. \A x \in tokens' : x.family # f
    BY <1>5, <2>1 DEF Restart, PureRotation
  <2> QED
    BY <2>2, <2>3
<1>6. ASSUME NEW t \in Threads, NEW x \in tokens, NEW c \in Clients,
             NEW sc \in SUBSET Scopes, Validate(t, x, c, sc)
      PROVE  Goal
  <2>1. Rotating(f)' \subseteq Rotating(f)
    BY <1>6 DEF Validate, Pend, Rotating, Claimed, IInv, TypeOK
  <2> QED
    BY <1>2, <1>6, <2>1 DEF Validate, Pend, store, history
<1>7. ASSUME NEW t \in Threads, ClaimRefused(t) \/ MintFails(t) PROVE Goal
  <2>1. Rotating(f)' \subseteq Rotating(f)
    BY <1>7 DEF ClaimRefused, MintFails, Rotating, Claimed, IInv, TypeOK, Idle
  <2> QED
    BY <1>2, <1>7, <2>1 DEF ClaimRefused, MintFails, store, history
<1>8. ASSUME NEW x \in tokens, Revoke(x) PROVE Goal
  <2>1. Rotating(f)' = Rotating(f)
    BY <1>8 DEF Revoke, Rotating, Claimed
  <2> QED
    BY <1>2, <1>8, <2>1 DEF Revoke
<1>9. CASE ToggleRotation \/ (\E u \in Users : ChangeUsers(u)) \/ UNCHANGED vars
  <2>1. Rotating(f)' = Rotating(f)
    BY <1>9 DEF ToggleRotation, ChangeUsers, vars, Rotating, Claimed
  <2> QED
    BY <1>2, <1>9, <2>1 DEF ToggleRotation, ChangeUsers, vars, store, history
<1> QED
  BY <1>1, <1>3, <1>4, <1>5, <1>6, <1>7, <1>8, <1>9 DEF Next

-----------------------------------------------------------------------------
LEMMA InitInvariant == Init => IInv
<1> SUFFICES ASSUME Init PROVE IInv
  OBVIOUS
<1>1. \A t \in Threads : request[t] = Idle
  BY DEF Init
<1>2. \A x \in tokens : x.family = None /\ x.parent = None /\ ~x.rotated /\ x.boot = 0
  BY DEF Init, Legacy
<1>3. \A x, y \in tokens : x = y
  BY DEF Init
<1>4. Claimed = {} /\ boot = 1
  BY <1>1 DEF Claimed, Idle, Init
<1>5. Lineage
  BY <1>2, <1>4 DEF Lineage
<1>6. Attenuation
  BY <1>2, InitType, NoneAssumption DEF Attenuation, TypeOK, Token
<1>7. OneHeadPerFamily
  BY <1>2, <1>4, NoneAssumption DEF OneHeadPerFamily, Rotating
<1> QED
  BY <1>1, <1>2, <1>3, <1>4, <1>5, <1>6, <1>7, InitType DEF IInv, UniqueJti,
     InFlight, Spent, SoleClaim, SingleSuccessor, ConsumedIsAnswered,
     Init

LEMMA InvariantStep == IInv /\ [Next]_vars => IInv'
<1> SUFFICES ASSUME IInv, [Next]_vars PROVE IInv'
  OBVIOUS
<1>1. TypeOK'
  BY TypeStep DEF IInv
<1> QED
  BY <1>1, UniqueJtiStep, LineageStep, InFlightStep, SpentStep, SoleClaimStep,
     SingleSuccessorStep, ConsumedIsAnsweredStep, AttenuationStep,
     OneHeadPerFamilyStep DEF IInv

LEMMA Invariant == Spec => []IInv
  BY InitInvariant, InvariantStep, PTL DEF Spec

\* With rotation on, a family never has two spendable ends, however the
\* validations, claims and mints of any number of threads interleave.
THEOREM RotationKeepsOneHead == Spec => []OneHeadPerFamily
<1>1. IInv => OneHeadPerFamily
  BY DEF IInv
<1> QED
  BY <1>1, Invariant, PTL

\* Within one process lifetime a consumed token has a single successor.
THEOREM RefreshSpendsOnce == Spec => []SingleSuccessor
<1>1. IInv => SingleSuccessor
  BY DEF IInv
<1> QED
  BY <1>1, Invariant, PTL

\* A spent token was withdrawn, was exchanged for a successor or is about to
\* be, or was presented with an `extra` that could not be signed.
THEOREM ConsumptionIsAnswered == Spec => []ConsumedIsAnswered
<1>1. IInv => ConsumedIsAnswered
  BY DEF IInv
<1> QED
  BY <1>1, Invariant, PTL

\* A family is revoked only by the refusal of one of its own tokens, which had
\* been withdrawn or spent by a refresh before: whatever the store holds of a
\* token that is refused, history accounts for (ConsumedIsAnswered).
THEOREM RevocationNeedsReuse == Spec => FamilyDiesOfReuse
<1> DEFINE Died(f, t) ==
             /\ request[t].pc = "validated"
             /\ request'[t] = Idle
             /\ request[t].token.family = f
             /\ Answered(request[t].token.jti) \/ request[t].token.jti \in lost
           A == \A f \in revokedFamilies' \ revokedFamilies :
                  \E t \in Threads : Died(f, t)
<1>1. IInv /\ [Next]_vars => [A]_vars
  <2> SUFFICES ASSUME IInv, Next, NEW f \in revokedFamilies' \ revokedFamilies
               PROVE  \E t \in Threads : Died(f, t)
    OBVIOUS
  <2>1. PICK t \in Threads : ClaimRefused(t)
    BY DEF Next, store, Issue, Validate, ClaimAccepted, Mint, MintFails, Revoke,
       ToggleRotation, ChangeUsers, Restart, Forget
  <2>2. f = request[t].token.family /\ request'[t] = Idle
    BY <2>1 DEF ClaimRefused, Doomed, IInv, TypeOK
  <2>3. request[t].token.jti \in revokedTokens
    BY <2>1, <2>2 DEF ClaimRefused, Reused
  <2> QED
    BY <2>1, <2>2, <2>3 DEF ClaimRefused, IInv, ConsumedIsAnswered
<1>2. Spec => [][A]_vars
  BY <1>1, Invariant, PTL DEF Spec
<1> QED
  BY <1>2 DEF FamilyDiesOfReuse

\* Along a chain of refreshes scope never grows and the client never changes.
THEOREM RefreshAttenuates == Spec => []Attenuation
<1>1. IInv => Attenuation
  BY DEF IInv
<1> QED
  BY <1>1, Invariant, PTL
=============================================================================
