------------------------- MODULE DeviceCodesProofs -------------------------
(***************************************************************************)
(* Proofs about DeviceCodes for every set of devices, user codes, clients  *)
(* and users and every lifetime.                                           *)
(***************************************************************************)
EXTENDS DeviceCodes, TLAPS

-----------------------------------------------------------------------------
(***************************************************************************)
(* The inductive invariant: what ties the two mappings to the history of a *)
(* device code.                                                            *)
(***************************************************************************)
\* A grant of the store was issued, as it still says, and has not paid out.
GrantsWereIssued ==
    \A d \in DOMAIN codes :
        /\ binding[d] = codes[d].client_id
        /\ label[d] = codes[d].user_code
        /\ paid[d] = << >>

\* A code that was never issued has neither a user code nor a payment.
UnissuedIsBlank ==
    \A d \in Devices : binding[d] = None => label[d] = None /\ paid[d] = << >>

IInv ==
    /\ TypeOK
    /\ GrantsWereIssued
    /\ UnissuedIsBlank
    /\ IndexNeverDangles
    /\ OnlyCollisionOrphans

-----------------------------------------------------------------------------
(***************************************************************************)
(* Lemmas about the operators of the store.                                *)
(***************************************************************************)
\* Dropping keys keeps the other entries of a mapping.
LEMMA WithoutKeeps ==
    ASSUME NEW f, NEW S
    PROVE  /\ \A x : x \in DOMAIN Without(f, S) <=> x \in DOMAIN f /\ x \notin S
           /\ \A x \in DOMAIN f : x \notin S => Without(f, S)[x] = f[x]
  BY DEF Without

\* Setting a key keeps the other entries of a mapping.
LEMMA WithKeeps ==
    ASSUME NEW f, NEW x, NEW y
    PROVE  /\ \A z : z \in DOMAIN With(f, x, y) <=> z \in DOMAIN f \/ z = x
           /\ With(f, x, y)[x] = y
           /\ \A z \in DOMAIN f : z # x => With(f, x, y)[z] = f[z]
  BY DEF With

\* What create leaves in the two mappings: the new grant under its two codes,
\* the grants that have not expired, and the index entries of user codes that no
\* expired grant was issued with.
LEMMA CreateKeeps ==
    ASSUME NEW d, NEW uc, NEW cl, Create(d, uc, cl)
    PROVE  /\ \A x : x \in DOMAIN codes' <=> x = d \/ (x \in DOMAIN codes /\ ~Expired(x))
           /\ codes'[d] = NewGrant(uc, cl)
           /\ \A x \in DOMAIN codes : x # d /\ ~Expired(x) => codes'[x] = codes[x]
           /\ \A v : v \in DOMAIN byUserCode' <=>
                \/ v = uc
                \/ v \in DOMAIN byUserCode
                     /\ \A x \in DOMAIN codes : Expired(x) => codes[x].user_code # v
           /\ byUserCode'[uc] = d
           /\ \A v \in DOMAIN byUserCode' : v # uc => byUserCode'[v] = byUserCode[v]
<1> DEFINE kept == Without(codes, Stale)
           indexed == Without(byUserCode, UserCodesOf(Stale))
<1>1. /\ \A x : x \in DOMAIN kept <=> x \in DOMAIN codes /\ x \notin Stale
      /\ \A x \in DOMAIN codes : x \notin Stale => kept[x] = codes[x]
  BY WithoutKeeps
<1>2. /\ \A x : x \in DOMAIN indexed <=> x \in DOMAIN byUserCode /\ x \notin UserCodesOf(Stale)
      /\ \A x \in DOMAIN byUserCode : x \notin UserCodesOf(Stale) => indexed[x] = byUserCode[x]
  BY WithoutKeeps
<1>3. codes' = With(kept, d, NewGrant(uc, cl)) /\ byUserCode' = With(indexed, uc, d)
  BY DEF Create
<1> HIDE DEF kept, indexed
<1>4. /\ \A x : x \in DOMAIN codes' <=> x \in DOMAIN kept \/ x = d
      /\ codes'[d] = NewGrant(uc, cl)
      /\ \A x \in DOMAIN kept : x # d => codes'[x] = kept[x]
  BY <1>3, WithKeeps
<1>5. /\ \A v : v \in DOMAIN byUserCode' <=> v \in DOMAIN indexed \/ v = uc
      /\ byUserCode'[uc] = d
      /\ \A v \in DOMAIN indexed : v # uc => byUserCode'[v] = indexed[v]
  BY <1>3, WithKeeps
<1>6. \A x : x \in Stale <=> x \in DOMAIN codes /\ Expired(x)
  BY DEF Stale
<1>7. \A v : v \in UserCodesOf(Stale) <=>
        \E x \in DOMAIN codes : Expired(x) /\ codes[x].user_code = v
  BY <1>6 DEF UserCodesOf
<1> QED
  BY <1>1, <1>2, <1>4, <1>5, <1>6, <1>7

\* What a payment leaves in the two mappings.
LEMMA ConsumeKeeps ==
    ASSUME NEW d, Consume(d)
    PROVE  /\ \A x : x \in DOMAIN codes' <=> x \in DOMAIN codes /\ x # d
           /\ \A x \in DOMAIN codes' : codes'[x] = codes[x]
           /\ \A v : v \in DOMAIN byUserCode' <=>
                v \in DOMAIN byUserCode /\ v # codes[d].user_code
           /\ \A v \in DOMAIN byUserCode' : byUserCode'[v] = byUserCode[v]
  BY WithoutKeeps DEF Consume

\* What a decision, at /device or by the clock, leaves of a grant.
Decided(d, s) ==
    /\ d \in DOMAIN codes
    /\ DOMAIN codes' = DOMAIN codes
    /\ codes'[d] \in Grants
    /\ codes'[d].status = s
    /\ codes'[d].client_id = codes[d].client_id
    /\ codes'[d].user_code = codes[d].user_code
    /\ codes'[d].expires_at = codes[d].expires_at
    /\ s = "denied" => codes'[d].username = None
    /\ s = "authorized" => codes'[d].username \in Users
    /\ \A x \in DOMAIN codes : x # d => codes'[x] = codes[x]

LEMMA SetStatusDecides ==
    ASSUME TypeOK, NEW d \in DOMAIN codes, NEW s \in {"denied", "expired"},
           s = "denied" => codes[d].status = "pending",
           codes' = [codes EXCEPT ![d].status = s]
    PROVE  Decided(d, s)
<1>1. codes[d] \in Grants /\ (s = "denied" => codes[d].username = None)
  BY DEF TypeOK
<1>2. codes' = [codes EXCEPT ![d] = [codes[d] EXCEPT !.status = s]]
  OBVIOUS
<1>3. codes'[d] = [codes[d] EXCEPT !.status = s]
  BY <1>2
<1>4. \A x \in DOMAIN codes : x # d => codes'[x] = codes[x]
  BY <1>2
<1> QED
  BY <1>1, <1>2, <1>3, <1>4 DEF Decided, Grants, Status

LEMMA ApproveDecides ==
    ASSUME TypeOK, NEW uc, NEW u \in Users, VerifyApprove(uc, u)
    PROVE  Decided(byUserCode[uc], "authorized")
<1> DEFINE d == byUserCode[uc]
<1>1. d \in DOMAIN codes /\ codes[d] \in Grants
  BY DEF TypeOK, VerifyApprove, Undecided, Indexed
<1>2. codes' = [codes EXCEPT ![d] = [codes[d] EXCEPT !.status = "authorized", !.username = u]]
  BY <1>1 DEF VerifyApprove
<1> HIDE DEF d
<1>3. codes'[d] = [codes[d] EXCEPT !.status = "authorized", !.username = u]
  BY <1>1, <1>2
<1>4. \A x \in DOMAIN codes : x # d => codes'[x] = codes[x]
  BY <1>2
<1>5. DOMAIN codes' = DOMAIN codes
  BY <1>2
<1>6. Decided(d, "authorized")
  BY <1>1, <1>3, <1>4, <1>5 DEF Decided, Grants, Status
<1> QED
  BY <1>6 DEF d

-----------------------------------------------------------------------------
(***************************************************************************)
(* The steps of Next, by what they do to the store.                        *)
(***************************************************************************)
\* A grant is denied, approved or found to have expired.
Decision(d, s) ==
    /\ Decided(d, s)
    /\ s = "expired" => Expired(d)
    /\ s # "expired" => codes[d].status = "pending" /\ ~Expired(d)
    /\ UNCHANGED <<byUserCode, now, users, history>>

StoreUnchanged == UNCHANGED <<codes, byUserCode, history>>

LEMMA PollCases ==
    ASSUME TypeOK, NEW d \in Devices, Poll(d)
    PROVE  \/ PollAuthorized(d)
           \/ Decision(d, "expired")
           \/ StoreUnchanged /\ UNCHANGED <<now, users>>
<1>1. CASE PollExpired(d)
  <2>1. Decided(d, "expired")
    BY <1>1, SetStatusDecides DEF PollExpired
  <2> QED
    BY <1>1, <2>1 DEF PollExpired, Decision
<1>2. CASE PollNotFound(d) \/ PollAgain(d) \/ PollDenied(d)
  BY <1>2 DEF PollNotFound, PollAgain, PollDenied, StoreUnchanged, vars, history
<1> QED
  BY <1>1, <1>2 DEF Poll

LEMMA VerifyCases ==
    ASSUME TypeOK, NEW uc, Verify(uc)
    PROVE  \/ \E s \in {"denied", "expired", "authorized"} : Decision(byUserCode[uc], s)
           \/ StoreUnchanged /\ UNCHANGED <<now, users>>
<1>1. CASE VerifyExpired(uc)
  <2>1. Decided(byUserCode[uc], "expired")
    BY <1>1, SetStatusDecides DEF VerifyExpired, Undecided, Indexed
  <2> QED
    BY <1>1, <2>1 DEF VerifyExpired, Decision
<1>2. CASE VerifyDeny(uc)
  <2>1. Decided(byUserCode[uc], "denied")
    BY <1>2, SetStatusDecides DEF VerifyDeny, Undecided, Indexed
  <2> QED
    BY <1>2, <2>1 DEF VerifyDeny, Decision, Undecided
<1>3. ASSUME NEW u \in Users, VerifyApprove(uc, u)
      PROVE  Decision(byUserCode[uc], "authorized")
  <2>1. Decided(byUserCode[uc], "authorized")
    BY <1>3, ApproveDecides
  <2> QED
    BY <1>3, <2>1 DEF VerifyApprove, Decision, Undecided
<1>4. CASE VerifyUnusable(uc) \/ VerifyNoLogin(uc)
  BY <1>4 DEF VerifyUnusable, VerifyNoLogin, StoreUnchanged, vars, history
<1> QED
  BY <1>1, <1>2, <1>3, <1>4 DEF Verify

LEMMA StepCases ==
    ASSUME TypeOK, [Next]_vars
    PROVE  \/ \E d \in Devices, uc \in UserCodes, cl \in Clients : Create(d, uc, cl)
           \/ \E d \in Devices : PollAuthorized(d)
           \/ \E d \in Devices, s \in {"denied", "expired", "authorized"} : Decision(d, s)
           \/ Tick /\ StoreUnchanged
           \/ StoreUnchanged /\ UNCHANGED now
           \/ Restart
<1>1. ASSUME NEW uc \in UserCodes, Verify(uc)
      PROVE  \/ \E d \in Devices, s \in {"denied", "expired", "authorized"} : Decision(d, s)
             \/ StoreUnchanged /\ UNCHANGED <<now, users>>
  <2>1. ASSUME NEW s \in {"denied", "expired", "authorized"}, Decision(byUserCode[uc], s)
        PROVE  byUserCode[uc] \in Devices
    BY <2>1 DEF Decision, Decided, TypeOK
  <2> QED
    BY <1>1, <2>1, VerifyCases
<1>2. ASSUME NEW d \in Devices, Poll(d)
      PROVE  \/ PollAuthorized(d)
             \/ Decision(d, "expired")
             \/ StoreUnchanged /\ UNCHANGED <<now, users>>
  BY <1>2, PollCases
<1>3. CASE (\E d \in Devices, cl \in Clients : PollWrongClient(d, cl)) \/ UNCHANGED vars
  BY <1>3 DEF PollWrongClient, vars, StoreUnchanged, history
<1>4. CASE Tick \/ \E u \in Users : ChangeUsers(u)
  BY <1>4 DEF Tick, ChangeUsers, StoreUnchanged
<1> QED
  BY <1>1, <1>2, <1>3, <1>4 DEF Next

-----------------------------------------------------------------------------
(***************************************************************************)
(* The inductive invariant, part by part.                                  *)
(***************************************************************************)
LEMMA InitInv == Init => IInv
<1> SUFFICES ASSUME Init PROVE IInv
  OBVIOUS
<1>1. DOMAIN codes = {} /\ DOMAIN byUserCode = {} /\ now \in 0..MaxTime
  BY LifetimeAssumption DEF Init
<1>2. /\ binding \in [Devices -> Clients \cup {None}]
      /\ label \in [Devices -> UserCodes \cup {None}]
      /\ paid \in [Devices -> Seq(Clients)]
      /\ \A d \in Devices : binding[d] = None /\ label[d] = None /\ paid[d] = << >>
  BY DEF Init
<1>3. TypeOK
  BY <1>1, <1>2 DEF Init, TypeOK
<1> QED
  BY <1>1, <1>2, <1>3 DEF IInv, GrantsWereIssued, UnissuedIsBlank, IndexNeverDangles,
     OnlyCollisionOrphans

\* The devices, the users and the clock keep their types.
LEMMA RestTypeStep ==
    ASSUME TypeOK, [Next]_vars
    PROVE  /\ now' \in 0..MaxTime
           /\ users' \in SUBSET Users
           /\ device' \in [Devices -> {"off", "polling", "granted", "refused"}]
<1>1. now' \in 0..MaxTime
  BY StepCases, LifetimeAssumption DEF TypeOK, Create, PollAuthorized, Decision, Tick,
     StoreUnchanged, Restart
<1>2. users' \in SUBSET Users
  BY DEF TypeOK, Next, vars, Create, PollWrongClient, Poll, PollNotFound,
     PollExpired, PollAgain, PollDenied, PollAuthorized, Verify, VerifyUnusable,
     VerifyExpired, VerifyDeny, VerifyNoLogin, VerifyApprove, Tick, ChangeUsers, Restart
<1>3. device' \in [Devices -> {"off", "polling", "granted", "refused"}]
  BY DEF TypeOK, Next, vars, Create, PollWrongClient, Poll, PollNotFound,
     PollExpired, PollAgain, PollDenied, PollAuthorized, Verify, VerifyUnusable,
     VerifyExpired, VerifyDeny, VerifyNoLogin, VerifyApprove, Tick, ChangeUsers, Restart
<1> QED
  BY <1>1, <1>2, <1>3

\* The parts of TypeOK that speak of the store and its history.
StoreType ==
    /\ DOMAIN codes \in SUBSET Devices
    /\ \A d \in DOMAIN codes :
         /\ codes[d] \in Grants
         /\ codes[d].status \in {"pending", "denied"} => codes[d].username = None
         /\ codes[d].status = "authorized" => codes[d].username \in Users
    /\ DOMAIN byUserCode \in SUBSET UserCodes
    /\ \A uc \in DOMAIN byUserCode : byUserCode[uc] \in Devices
    /\ binding \in [Devices -> Clients \cup {None}]
    /\ label \in [Devices -> UserCodes \cup {None}]
    /\ paid \in [Devices -> Seq(Clients)]

LEMMA NewGrantType ==
    ASSUME TypeOK, NEW uc \in UserCodes, NEW cl \in Clients
    PROVE  /\ NewGrant(uc, cl) \in Grants
           /\ NewGrant(uc, cl).status = "pending"
           /\ NewGrant(uc, cl).username = None
           /\ NewGrant(uc, cl).client_id = cl
           /\ NewGrant(uc, cl).user_code = uc
           /\ NewGrant(uc, cl).expires_at = now + Lifetime
  BY LifetimeAssumption DEF TypeOK, NewGrant, Grants, Status

LEMMA TypeStep == IInv /\ [Next]_vars => TypeOK'
<1> SUFFICES ASSUME IInv, [Next]_vars PROVE TypeOK'
  OBVIOUS
<1>t. TypeOK
  BY DEF IInv
<1>s. StoreType
  BY <1>t DEF TypeOK, StoreType
<1>1. ASSUME NEW d \in Devices, NEW uc \in UserCodes, NEW cl \in Clients, Create(d, uc, cl)
      PROVE  StoreType'
  <2>1. /\ binding' = [binding EXCEPT ![d] = cl]
        /\ label' = [label EXCEPT ![d] = uc]
        /\ UNCHANGED paid
    BY <1>1 DEF Create
  <2>2. \A x \in DOMAIN codes' : x = d \/ (x \in DOMAIN codes /\ codes'[x] = codes[x])
    BY <1>1, CreateKeeps
  <2>3. DOMAIN byUserCode' \subseteq DOMAIN byUserCode \cup {uc}
    BY <1>1, CreateKeeps
  <2>4. \A v \in DOMAIN byUserCode' : byUserCode'[v] \in Devices
    BY <1>1, <2>3, <1>s, CreateKeeps DEF StoreType
  <2>5. codes'[d] = NewGrant(uc, cl)
    BY <1>1, CreateKeeps
  <2> QED
    BY <1>s, <1>t, <2>1, <2>2, <2>3, <2>4, <2>5, NewGrantType DEF StoreType
<1>2. ASSUME NEW d \in Devices, PollAuthorized(d) PROVE StoreType'
  <2>1. Consume(d) /\ codes[d].client_id \in Clients
    BY <1>2, <1>t DEF PollAuthorized, TypeOK, Grants
  <2>2. paid' \in [Devices -> Seq(Clients)]
    BY <1>2, <1>s, <2>1 DEF PollAuthorized, StoreType
  <2>3. /\ DOMAIN codes' \subseteq DOMAIN codes
        /\ DOMAIN byUserCode' \subseteq DOMAIN byUserCode
        /\ \A x \in DOMAIN codes' : codes'[x] = codes[x]
        /\ \A v \in DOMAIN byUserCode' : byUserCode'[v] = byUserCode[v]
    BY <2>1, ConsumeKeeps
  <2> QED
    BY <1>2, <1>s, <2>2, <2>3 DEF PollAuthorized, StoreType
<1>3. ASSUME NEW d \in Devices, NEW s \in {"denied", "expired", "authorized"}, Decision(d, s)
      PROVE  StoreType'
  BY <1>3, <1>s DEF Decision, Decided, StoreType, history
<1>4. ASSUME StoreUnchanged PROVE StoreType'
  BY <1>4, <1>s DEF StoreUnchanged, StoreType, history
<1>5. ASSUME Restart PROVE StoreType'
  BY <1>5, <1>s DEF Restart, StoreType, history
<1>6. StoreType'
  BY <1>1, <1>2, <1>3, <1>4, <1>5, <1>t, StepCases
<1> QED
  BY <1>6, <1>t, RestTypeStep DEF StoreType, TypeOK

LEMMA HistoryStep == IInv /\ [Next]_vars => GrantsWereIssued' /\ UnissuedIsBlank'
<1> SUFFICES ASSUME IInv, [Next]_vars PROVE GrantsWereIssued' /\ UnissuedIsBlank'
  OBVIOUS
<1> USE DEF IInv, GrantsWereIssued, UnissuedIsBlank
<1>t. TypeOK
  OBVIOUS
<1>1. ASSUME NEW d \in Devices, NEW uc \in UserCodes, NEW cl \in Clients, Create(d, uc, cl)
      PROVE  GrantsWereIssued' /\ UnissuedIsBlank'
  <2>1. /\ binding'[d] = cl /\ label'[d] = uc /\ paid' = paid
        /\ \A x \in Devices \ {d} : binding'[x] = binding[x] /\ label'[x] = label[x]
        /\ paid[d] = << >>
    BY <1>1, <1>t DEF Create, TypeOK
  <2>2. \A x \in DOMAIN codes' : x # d => x \in DOMAIN codes /\ codes'[x] = codes[x]
    BY <1>1, CreateKeeps
  <2>3. codes'[d].client_id = cl /\ codes'[d].user_code = uc
    BY <1>1, <1>t, CreateKeeps, NewGrantType
  <2>4. DOMAIN codes \subseteq Devices /\ cl # None
    BY <1>t, NoneAssumption DEF TypeOK
  <2> QED
    BY <2>1, <2>2, <2>3, <2>4
<1>2. ASSUME NEW d \in Devices, PollAuthorized(d) PROVE GrantsWereIssued' /\ UnissuedIsBlank'
  <2>1. /\ \A x \in DOMAIN codes' : x # d /\ x \in DOMAIN codes /\ codes'[x] = codes[x]
        /\ UNCHANGED <<binding, label>>
    BY <1>2, ConsumeKeeps DEF PollAuthorized
  <2>2. \A x \in Devices \ {d} : paid'[x] = paid[x]
    BY <1>2, <1>t DEF PollAuthorized, TypeOK
  <2>3. binding[d] \in Clients /\ DOMAIN codes \subseteq Devices
    BY <1>2, <1>t DEF PollAuthorized, TypeOK, Grants
  <2> QED
    BY <2>1, <2>2, <2>3, NoneAssumption
<1>3. ASSUME NEW d \in Devices, NEW s \in {"denied", "expired", "authorized"}, Decision(d, s)
      PROVE  GrantsWereIssued' /\ UnissuedIsBlank'
  BY <1>3 DEF Decision, Decided, history
<1>4. ASSUME StoreUnchanged PROVE GrantsWereIssued' /\ UnissuedIsBlank'
  BY <1>4 DEF StoreUnchanged, history
<1>5. ASSUME Restart PROVE GrantsWereIssued' /\ UnissuedIsBlank'
  BY <1>5 DEF Restart, history
<1> QED
  BY <1>1, <1>2, <1>3, <1>4, <1>5, <1>t, StepCases

LEMMA IndexStep == IInv /\ [Next]_vars => IndexNeverDangles'
<1> SUFFICES ASSUME IInv, [Next]_vars PROVE IndexNeverDangles'
  OBVIOUS
<1> USE DEF IInv, IndexNeverDangles
<1>t. TypeOK
  OBVIOUS
<1>1. ASSUME NEW d \in Devices, NEW uc \in UserCodes, NEW cl \in Clients, Create(d, uc, cl)
      PROVE  IndexNeverDangles'
  <2> SUFFICES ASSUME NEW v \in DOMAIN byUserCode'
               PROVE  byUserCode'[v] \in DOMAIN codes' /\ codes'[byUserCode'[v]].user_code = v
    OBVIOUS
  <2>1. CASE v = uc
    <3>1. byUserCode'[v] = d /\ d \in DOMAIN codes' /\ codes'[d] = NewGrant(uc, cl)
      BY <1>1, <2>1, CreateKeeps
    <3> QED
      BY <2>1, <3>1, <1>t, NewGrantType
  <2>2. CASE v # uc
    <3>1. /\ v \in DOMAIN byUserCode
          /\ byUserCode'[v] = byUserCode[v]
          /\ \A x \in DOMAIN codes : Expired(x) => codes[x].user_code # v
      BY <1>1, <2>2, CreateKeeps
    <3>2. byUserCode[v] \in DOMAIN codes /\ ~Expired(byUserCode[v])
      BY <3>1
    <3>3. byUserCode[v] # d
      BY <1>1, <3>2, <1>t, NoneAssumption DEF Create, GrantsWereIssued, TypeOK, Grants
    <3>4. /\ byUserCode[v] \in DOMAIN codes'
          /\ codes'[byUserCode[v]] = codes[byUserCode[v]]
      BY <1>1, <3>2, <3>3, CreateKeeps
    <3> QED
      BY <3>1, <3>4
  <2> QED
    BY <2>1, <2>2
<1>2. ASSUME NEW d \in Devices, PollAuthorized(d) PROVE IndexNeverDangles'
  <2> SUFFICES ASSUME NEW v \in DOMAIN byUserCode'
               PROVE  byUserCode'[v] \in DOMAIN codes' /\ codes'[byUserCode'[v]].user_code = v
    OBVIOUS
  <2>1. Consume(d)
    BY <1>2 DEF PollAuthorized
  <2>2. v \in DOMAIN byUserCode /\ v # codes[d].user_code /\ byUserCode'[v] = byUserCode[v]
    BY <2>1, ConsumeKeeps
  <2>3. byUserCode[v] \in DOMAIN codes /\ byUserCode[v] # d
    BY <2>2
  <2>4. byUserCode[v] \in DOMAIN codes' /\ codes'[byUserCode[v]] = codes[byUserCode[v]]
    BY <2>1, <2>3, ConsumeKeeps
  <2> QED
    BY <2>2, <2>4
<1>3. ASSUME NEW d \in Devices, NEW s \in {"denied", "expired", "authorized"}, Decision(d, s)
      PROVE  IndexNeverDangles'
  BY <1>3 DEF Decision, Decided
<1>4. ASSUME StoreUnchanged PROVE IndexNeverDangles'
  BY <1>4 DEF StoreUnchanged
<1>5. ASSUME Restart PROVE IndexNeverDangles'
  BY <1>5 DEF Restart
<1> QED
  BY <1>1, <1>2, <1>3, <1>4, <1>5, <1>t, StepCases

\* How a grant that awaits its user can be found, or why it cannot.
Reachable(d) ==
    \/ codes[d].user_code \in DOMAIN byUserCode /\ byUserCode[codes[d].user_code] = d
    \/ \E e \in Devices \ {d} : label[e] = codes[d].user_code

LEMMA OrphanStep == IInv /\ [Next]_vars => OnlyCollisionOrphans'
<1> SUFFICES ASSUME IInv, [Next]_vars,
                    NEW x \in DOMAIN codes', codes'[x].status = "pending"
             PROVE  Reachable(x)'
  BY DEF OnlyCollisionOrphans, Reachable
<1>t. TypeOK
  BY DEF IInv
<1>r. \A y \in DOMAIN codes : codes[y].status = "pending" => Reachable(y)
  BY DEF IInv, OnlyCollisionOrphans, Reachable
<1>1. ASSUME NEW d \in Devices, NEW uc \in UserCodes, NEW cl \in Clients, Create(d, uc, cl)
      PROVE  Reachable(x)'
  <2>1. CASE x = d
    <3>1. codes'[d] = NewGrant(uc, cl) /\ uc \in DOMAIN byUserCode' /\ byUserCode'[uc] = d
      BY <1>1, CreateKeeps
    <3> QED
      BY <2>1, <3>1, <1>t, NewGrantType DEF Reachable
  <2>2. CASE x # d
    <3>1. x \in DOMAIN codes /\ codes'[x] = codes[x] /\ ~Expired(x) /\ Reachable(x)
      BY <1>1, <2>2, <1>r, CreateKeeps
    <3> DEFINE v == codes[x].user_code
    <3>2. v = codes'[x].user_code /\ v \in UserCodes
      BY <3>1, <1>t DEF TypeOK, Grants
    <3>3. /\ label'[d] = uc
          /\ \A y \in Devices \ {d} : label'[y] = label[y]
          /\ label[d] = None
      BY <1>1, <1>t DEF Create, TypeOK, IInv, UnissuedIsBlank
    <3>4. CASE v = uc
      BY <2>2, <3>2, <3>3, <3>4 DEF Reachable
    <3>5. CASE v # uc /\ v \in DOMAIN byUserCode'
      <4>1. byUserCode'[v] = byUserCode[v]
        BY <1>1, <3>5, CreateKeeps
      <4> QED
        BY <3>1, <3>2, <3>3, <3>5, <4>1, NoneAssumption DEF Reachable
    <3>6. CASE v \in DOMAIN byUserCode /\ v \notin DOMAIN byUserCode'
      <4>1. PICK y \in DOMAIN codes : Expired(y) /\ codes[y].user_code = v
        BY <1>1, <3>6, CreateKeeps
      <4>2. y # x /\ y # d /\ y \in Devices /\ label[y] = v
        BY <1>1, <3>1, <4>1, <1>t, NoneAssumption
        DEF Create, IInv, GrantsWereIssued, TypeOK, Grants
      <4> QED
        BY <3>2, <3>3, <4>2 DEF Reachable
    <3>7. CASE v \notin DOMAIN byUserCode
      BY <3>1, <3>2, <3>3, <3>7, NoneAssumption DEF Reachable
    <3> QED
      BY <3>4, <3>5, <3>6, <3>7
  <2> QED
    BY <2>1, <2>2
<1>2. ASSUME NEW d \in Devices, PollAuthorized(d) PROVE Reachable(x)'
  <2>1. Consume(d) /\ d \in DOMAIN codes /\ label' = label
    BY <1>2 DEF PollAuthorized
  <2>2. x \in DOMAIN codes /\ x # d /\ codes'[x] = codes[x]
    BY <2>1, ConsumeKeeps
  <2> DEFINE v == codes[x].user_code
  <2>3. CASE v = codes[d].user_code
    BY <2>1, <2>2, <2>3 DEF Reachable, IInv, GrantsWereIssued
  <2>4. CASE v # codes[d].user_code
    <3>1. v \in DOMAIN byUserCode => v \in DOMAIN byUserCode' /\ byUserCode'[v] = byUserCode[v]
      BY <2>1, <2>4, ConsumeKeeps
    <3> QED
      BY <2>1, <2>2, <3>1, <1>r DEF Reachable
  <2> QED
    BY <2>3, <2>4
<1>3. ASSUME NEW d \in Devices, NEW s \in {"denied", "expired", "authorized"}, Decision(d, s)
      PROVE  Reachable(x)'
  <2>1. x # d /\ x \in DOMAIN codes /\ codes'[x] = codes[x] /\ UNCHANGED <<byUserCode, label>>
    BY <1>3 DEF Decision, Decided, history
  <2> QED
    BY <2>1, <1>r DEF Reachable
<1>4. ASSUME StoreUnchanged PROVE Reachable(x)'
  BY <1>4, <1>r DEF StoreUnchanged, Reachable, history
<1>5. ~Restart
  BY DEF Restart
<1> QED
  BY <1>1, <1>2, <1>3, <1>4, <1>5, <1>t, StepCases

LEMMA Invariance == Spec => []IInv
<1>1. IInv /\ [Next]_vars => IInv'
  BY TypeStep, HistoryStep, IndexStep, OrphanStep DEF IInv
<1> QED
  BY <1>1, InitInv, PTL DEF Spec

-----------------------------------------------------------------------------
(***************************************************************************)
(* The results.                                                            *)
(***************************************************************************)
\* Every reachable state of the DeviceCodeStore and its devices is well-typed; an
\* approved grant names a user and a pending or denied one none.
THEOREM TypeCorrect == Spec => []TypeOK
<1>1. IInv => TypeOK
  BY DEF IInv
<1> QED
  BY <1>1, Invariance, PTL

\* However user codes repeat, and whatever is pruned or consumed, the user index
\* leads only to grants of the store that were issued with that user code.
THEOREM IndexLeadsToGrants == Spec => []IndexNeverDangles
<1>1. IInv => IndexNeverDangles
  BY DEF IInv
<1> QED
  BY <1>1, Invariance, PTL

\* Only a second grant with the same user code takes a pending grant out of its
\* user's reach.
THEOREM PendingGrantsReachable == Spec => []OnlyCollisionOrphans
<1>1. IInv => OnlyCollisionOrphans
  BY DEF IInv
<1> QED
  BY <1>1, Invariance, PTL

\* A denial or an approval is never turned into another decision.
THEOREM DecisionsStand == Spec => DecisionIsFinal
<1> DEFINE Final == \A d \in DOMAIN codes \cap DOMAIN codes' :
                      codes[d].status \in {"denied", "authorized"} =>
                        \/ codes'[d] = codes[d]
                        \/ codes'[d].status = "expired" /\ Expired(d)
<1>1. IInv /\ [Next]_vars => [Final]_vars
  <2> SUFFICES ASSUME IInv, [Next]_vars,
                      NEW x \in DOMAIN codes \cap DOMAIN codes',
                      codes[x].status \in {"denied", "authorized"}
               PROVE  \/ codes'[x] = codes[x]
                      \/ codes'[x].status = "expired" /\ Expired(x)
    OBVIOUS
  <2>t. TypeOK
    BY DEF IInv
  <2>1. ASSUME NEW d \in Devices, NEW uc \in UserCodes, NEW cl \in Clients,
               Create(d, uc, cl)
        PROVE  codes'[x] = codes[x]
    <3>1. x # d
      BY <2>1, <2>t, NoneAssumption DEF Create, IInv, GrantsWereIssued, TypeOK, Grants
    <3> QED
      BY <2>1, <3>1, CreateKeeps
  <2>2. ASSUME NEW d \in Devices, PollAuthorized(d) PROVE codes'[x] = codes[x]
    BY <2>2, ConsumeKeeps DEF PollAuthorized
  <2>3. ASSUME NEW d \in Devices, NEW s \in {"denied", "expired", "authorized"}, Decision(d, s)
        PROVE  \/ codes'[x] = codes[x]
               \/ codes'[x].status = "expired" /\ Expired(x)
    BY <2>3 DEF Decision, Decided
  <2>4. ~Restart
    BY DEF Restart
  <2> QED
    BY <2>1, <2>2, <2>3, <2>4, <2>t, StepCases DEF StoreUnchanged
<1> QED
  BY <1>1, Invariance, PTL DEF Spec, DecisionIsFinal

-----------------------------------------------------------------------------
(***************************************************************************)
(* The refinement: every step of the store is a step of OneTimeGrant or    *)
(* changes nothing that OneTimeGrant speaks of.                            *)
(***************************************************************************)
\* Nothing changes for a code whose grant, if live, keeps its status.
LEMMA StatusKept ==
    ASSUME NEW d, binding'[d] = binding[d], paid'[d] = paid[d],
           Live(d)' <=> Live(d),
           Live(d) => codes'[d].status = codes[d].status
    PROVE  GrantStatus(d)' = GrantStatus(d)
  BY DEF GrantStatus

\* A grant that is no longer live has lapsed, unless it had paid out.
LEMMA StatusLapses ==
    ASSUME NEW d, binding'[d] = binding[d], paid'[d] = paid[d], ~Live(d)',
           GrantStatus(d) \in {"offered", "approved"}
    PROVE  GrantStatus(d)' = "void"
  BY DEF GrantStatus

LEMMA GrantLapses ==
    ASSUME UNCHANGED <<binding, paid>>,
           \A d \in Devices : Live(d)' => Live(d) /\ codes'[d].status = codes[d].status
    PROVE  Grant!Next
<1> DEFINE C == {d \in Devices : GrantStatus(d) \in {"offered", "approved"} /\ ~Live(d)'}
<1>1. ASSUME NEW d \in Devices
      PROVE  GrantStatus(d)' = IF d \in C THEN "void" ELSE GrantStatus(d)
  <2>1. CASE d \in C
    BY <2>1, StatusLapses
  <2>2. CASE d \notin C /\ Live(d)'
    BY <2>2, StatusKept
  <2>3. CASE GrantStatus(d) \notin {"offered", "approved"} /\ ~Live(d)'
    BY <2>3 DEF GrantStatus
  <2> QED
    BY <2>1, <2>2, <2>3
<1>2. \A d \in C : GrantStatus(d) \in {"offered", "approved"} /\ d \in Devices
  OBVIOUS
<1> HIDE DEF C
<1>3. C \in SUBSET Devices /\ Grant!Lapse(C)
  BY <1>1, <1>2 DEF Grant!Lapse
<1> QED
  BY <1>3 DEF Grant!Next

LEMMA GrantInit == Init => Grant!Init
  BY DEF Init, Grant!Init, GrantStatus

\* device_authorization offers the code to the client.
LEMMA CreateOffers ==
    ASSUME IInv, NEW d \in Devices, NEW uc \in UserCodes, NEW cl \in Clients,
           Create(d, uc, cl)
    PROVE  Grant!Next
<1>t. TypeOK
  BY DEF IInv
<1>1. /\ binding'[d] = cl /\ paid' = paid /\ now' = now
      /\ binding' = [binding EXCEPT ![d] = cl]
      /\ \A x \in Devices \ {d} : binding'[x] = binding[x]
      /\ binding[d] = None /\ paid[d] = << >> /\ cl # None
  BY <1>t, NoneAssumption DEF Create, TypeOK, IInv, UnissuedIsBlank
<1>2. d \in DOMAIN codes' /\ codes'[d] = NewGrant(uc, cl)
  BY CreateKeeps
<1>3. Live(d)' /\ codes'[d].status = "pending"
  BY <1>1, <1>2, <1>t, NewGrantType, LifetimeAssumption DEF Live, Expired, TypeOK
<1>4. GrantStatus(d) = "unused" /\ GrantStatus(d)' = "offered"
  BY <1>1, <1>3 DEF GrantStatus
<1>5. ASSUME NEW x \in Devices \ {d} PROVE GrantStatus(x)' = GrantStatus(x)
  <2>1. /\ x \in DOMAIN codes' <=> x \in DOMAIN codes /\ ~Expired(x)
        /\ x \in DOMAIN codes' => codes'[x] = codes[x]
    BY <1>5, CreateKeeps
  <2>2. (Live(x)' <=> Live(x)) /\ (Live(x) => codes'[x] = codes[x])
    BY <1>1, <2>1 DEF Live, Expired
  <2> QED
    BY <1>1, <2>2, StatusKept
<1>6. Grant!Offer(d, cl, "offered")
  BY <1>1, <1>4, <1>5 DEF Grant!Offer
<1> QED
  BY <1>6 DEF Grant!Next

\* The poll that finds an approval redeems the code for its client.
LEMMA PollRedeems ==
    ASSUME IInv, NEW d \in Devices, PollAuthorized(d)
    PROVE  Grant!Next
<1>t. TypeOK
  BY DEF IInv
<1>1. /\ Live(d) /\ codes[d].status = "authorized" /\ Consume(d)
      /\ d \in DOMAIN codes
      /\ paid' = [paid EXCEPT ![d] = Append(@, codes[d].client_id)]
      /\ UNCHANGED <<now, binding>>
  BY DEF PollAuthorized, Live
<1>2. /\ binding[d] = codes[d].client_id /\ paid[d] = << >>
      /\ codes[d].client_id \in Clients
  BY <1>1, <1>t DEF IInv, GrantsWereIssued, TypeOK, Grants
<1>3. paid'[d] # << >> /\ \A x \in Devices \ {d} : paid'[x] = paid[x]
  BY <1>1, <1>2, <1>t DEF TypeOK
<1>4. GrantStatus(d) = "approved" /\ GrantStatus(d)' = "redeemed"
  BY <1>1, <1>2, <1>3, NoneAssumption DEF GrantStatus
<1>5. ASSUME NEW x \in Devices \ {d} PROVE GrantStatus(x)' = GrantStatus(x)
  <2>1. /\ x \in DOMAIN codes' <=> x \in DOMAIN codes
        /\ x \in DOMAIN codes' => codes'[x] = codes[x]
    BY <1>1, <1>5, ConsumeKeeps
  <2>2. (Live(x)' <=> Live(x)) /\ (Live(x) => codes'[x] = codes[x])
    BY <1>1, <2>1 DEF Live, Expired
  <2> QED
    BY <1>1, <1>3, <2>2, StatusKept
<1>6. Grant!Redeem(d)
  BY <1>1, <1>2, <1>4, <1>5 DEF Grant!Redeem
<1> QED
  BY <1>6 DEF Grant!Next

\* An approval approves the code, a denial makes it lapse, and an expiry that is
\* written down was one before.
LEMMA DecisionApproves ==
    ASSUME IInv, NEW d \in Devices, NEW s \in {"denied", "expired", "authorized"},
           Decision(d, s)
    PROVE  [Grant!Next]_(Grant!vars)
<1>t. TypeOK
  BY DEF IInv
<1>1. /\ d \in DOMAIN codes /\ DOMAIN codes' = DOMAIN codes
      /\ codes'[d].status = s /\ codes'[d].expires_at = codes[d].expires_at
      /\ \A x \in DOMAIN codes : x # d => codes'[x] = codes[x]
      /\ UNCHANGED <<now, binding, paid>>
  BY DEF Decision, Decided, history
<1>2. binding[d] # None /\ paid[d] = << >>
  BY <1>1, <1>t, NoneAssumption DEF IInv, GrantsWereIssued, TypeOK, Grants
<1>3. ASSUME NEW x \in Devices \ {d} PROVE GrantStatus(x)' = GrantStatus(x)
  <2>1. (Live(x)' <=> Live(x)) /\ (Live(x) => codes'[x] = codes[x])
    BY <1>1, <1>3 DEF Live, Expired
  <2> QED
    BY <1>1, <2>1, StatusKept
<1>4. Live(d)' <=> Live(d)
  BY <1>1 DEF Live, Expired
<1>5. CASE s = "expired"
  <2>1. ~Live(d)
    BY <1>5 DEF Decision, Live
  <2>2. \A x \in Devices : GrantStatus(x)' = GrantStatus(x)
    BY <1>1, <1>3, <1>4, <2>1, StatusKept
  <2> QED
    BY <1>1, <2>2 DEF Grant!vars
<1>6. CASE s # "expired"
  <2>1. Live(d) /\ codes[d].status = "pending"
    BY <1>1, <1>6 DEF Decision, Live
  <2>2. GrantStatus(d) = "offered"
    BY <1>2, <2>1 DEF GrantStatus
  <2>3. CASE s = "authorized"
    <3>1. GrantStatus(d)' = "approved"
      BY <1>1, <1>2, <1>4, <2>1, <2>3 DEF GrantStatus
    <3>2. Grant!Approve(d)
      BY <1>1, <1>3, <2>2, <3>1 DEF Grant!Approve
    <3> QED
      BY <3>2 DEF Grant!Next
  <2>4. CASE s = "denied"
    <3>1. GrantStatus(d)' = "void"
      BY <1>1, <1>2, <1>4, <2>1, <2>4 DEF GrantStatus
    <3>2. Grant!Lapse({d})
      BY <1>1, <1>3, <2>2, <3>1 DEF Grant!Lapse
    <3> QED
      BY <3>2 DEF Grant!Next
  <2> QED
    BY <1>6, <2>3, <2>4
<1> QED
  BY <1>5, <1>6

LEMMA GrantStep == IInv /\ [Next]_vars => [Grant!Next]_(Grant!vars)
<1> SUFFICES ASSUME IInv, [Next]_vars PROVE [Grant!Next]_(Grant!vars)
  OBVIOUS
<1>t. TypeOK
  BY DEF IInv
<1>1. ASSUME Tick, StoreUnchanged PROVE Grant!Next
  <2>1. ASSUME NEW d \in Devices, Live(d)'
        PROVE  Live(d) /\ codes'[d].status = codes[d].status
    <3>1. /\ codes' = codes /\ d \in DOMAIN codes /\ now' = now + 1
          /\ ~(now' > codes[d].expires_at)
      BY <1>1, <2>1 DEF Tick, StoreUnchanged, Live, Expired
    <3>2. codes[d].expires_at \in Nat /\ now \in Nat
      BY <3>1, <1>t, LifetimeAssumption DEF TypeOK, Grants
    <3>3. ~(now > codes[d].expires_at)
      BY <3>1, <3>2
    <3> QED
      BY <3>1, <3>3 DEF Live, Expired
  <2> QED
    BY <1>1, <2>1, GrantLapses DEF StoreUnchanged, history
<1>2. ASSUME StoreUnchanged, UNCHANGED now PROVE UNCHANGED Grant!vars
  <2>1. \A d \in Devices : GrantStatus(d)' = GrantStatus(d)
    BY <1>2, StatusKept DEF StoreUnchanged, history, Live, Expired
  <2> QED
    BY <1>2, <2>1 DEF Grant!vars, StoreUnchanged, history
<1>3. ASSUME Restart PROVE Grant!Next
  <2>1. \A d \in Devices : ~Live(d)'
    BY <1>3 DEF Restart, Live
  <2> QED
    BY <1>3, <2>1, GrantLapses DEF Restart, history
<1> QED
  BY <1>1, <1>2, <1>3, <1>t, StepCases, CreateOffers, PollRedeems, DecisionApproves

\* The DeviceCodeStore implements OneTimeGrant: a device code pays out once, after
\* a user approved it, to the client it was issued to, and never once it has lapsed.
THEOREM StoreKeepsThePromise == Spec => PaysOutOnce
  BY GrantInit, GrantStep, Invariance, PTL DEF Spec, PaysOutOnce, Grant!Spec
=============================================================================
