---------------------- MODULE AuthorizationCodesProofs ----------------------
(***************************************************************************)
(* Proofs about AuthorizationCodes for every set of codes, clients,        *)
(* redirect URIs, verifiers, users and threads and every lifetime.         *)
(***************************************************************************)
EXTENDS AuthorizationCodes, TLAPS

-----------------------------------------------------------------------------
(***************************************************************************)
(* The inductive invariant: what ties the store to the history of a code.  *)
(***************************************************************************)
\* An entry of the store still names the party its code was created for.
EntriesKeepTheirParty ==
    \A c \in DOMAIN codes :
        binding[c] = [client |-> codes[c].client, redirect |-> codes[c].redirect,
                      proof |-> codes[c].challenge]

\* Whatever is being answered, or was, has been paid for with a code, and only
\* codes that were created have been used.
OnlyUsedCodesPay ==
    /\ \A c \in Codes : binding[c] = None => paid[c] = << >>
    /\ \A c \in active : paid[c] # << >>
    /\ \A t \in Threads : exchange[t] # Idle => paid[exchange[t].code] # << >>

IInv ==
    /\ TypeOK
    /\ EntriesKeepTheirParty
    /\ OnlyUsedCodesPay
    /\ OneTokenPerCode

-----------------------------------------------------------------------------
(***************************************************************************)
(* Lemmas about the operators of the store.                                *)
(***************************************************************************)
\* Dropping entries keeps the others as they are.
LEMMA WithoutKeeps ==
    ASSUME NEW cs
    PROVE  /\ DOMAIN Without(cs) = DOMAIN codes \ cs
           /\ \A c \in DOMAIN codes \ cs : Without(cs)[c] = codes[c]
  BY DEF Without

\* create_code adds one entry and sweeps only entries that have expired.
LEMMA InsertedKeeps ==
    ASSUME NEW c, NEW entry
    PROVE  /\ \A d : d \in DOMAIN Inserted(c, entry)
                      <=> d = c \/ (d \in DOMAIN codes /\ ~Expired(d))
           /\ Inserted(c, entry)[c] = entry
           /\ \A d \in DOMAIN codes :
                d # c /\ ~Expired(d) => Inserted(c, entry)[d] = codes[d]
  BY DEF Inserted, Without

\* Marking a code changes its own entry only, and there only the mark.
LEMMA MarkedKeeps ==
    ASSUME NEW c \in DOMAIN codes, codes[c] \in Entry
    PROVE  /\ DOMAIN Marked(c) = DOMAIN codes
           /\ Marked(c)[c] = [codes[c] EXCEPT !.used = TRUE]
           /\ \A d \in DOMAIN codes : d # c => Marked(c)[d] = codes[d]
  BY DEF Marked

\* A request that passes the binding checks comes from the party of the entry.
LEMMA MatchNamesTheParty ==
    ASSUME NEW e \in Entry, NEW cl, NEW rd, NEW v, Matches(e, cl, rd, v)
    PROVE  [client |-> cl, redirect |-> rd,
            proof |-> IF e.challenge = None THEN None ELSE v]
              = [client |-> e.client, redirect |-> e.redirect, proof |-> e.challenge]
  BY DEF Matches, ProofMatches

-----------------------------------------------------------------------------
(***************************************************************************)
(* The type invariant.                                                     *)
(***************************************************************************)
LEMMA TypeStep == TypeOK /\ OnlyUsedCodesPay /\ [Next]_vars => TypeOK'
<1> SUFFICES ASSUME TypeOK, OnlyUsedCodesPay, [Next]_vars PROVE TypeOK'
  OBVIOUS
<1> USE LifetimeAssumption DEF TypeOK, history
<1>1. ASSUME NEW c \in Codes, NEW cl \in Clients, NEW rd \in Redirects,
             NEW ch \in Verifiers \cup {None}, NEW u \in Users,
             CreateCode(c, cl, rd, ch, u)
      PROVE  TypeOK'
  <2> DEFINE e == [client |-> cl, redirect |-> rd, challenge |-> ch, username |-> u,
                   expires_at |-> now + Lifetime, used |-> FALSE]
  <2>1. e \in Entry /\ e.used = FALSE
    BY DEF Entry
  <2>2. codes' = Inserted(c, e) /\ paid[c] = << >>
    BY <1>1 DEF CreateCode, OnlyUsedCodesPay
  <2>3. [client |-> cl, redirect |-> rd, proof |-> ch] \in Party
    BY DEF Party
  <2> HIDE DEF e
  <2>4. \A d \in DOMAIN codes' :
          codes'[d] \in Entry /\ (codes'[d].used <=> paid[d] # << >>)
    BY <2>1, <2>2, InsertedKeeps
  <2>5. DOMAIN codes' \in SUBSET Codes
    BY <2>2, InsertedKeeps
  <2> QED
    BY <1>1, <2>3, <2>4, <2>5 DEF CreateCode
<1>2. ASSUME NEW c \in Codes, ConsumeExpired(c) PROVE TypeOK'
  <2>1. codes' = Without({c})
    BY <1>2 DEF ConsumeExpired
  <2>2. /\ DOMAIN codes' \subseteq DOMAIN codes
        /\ \A d \in DOMAIN codes' : codes'[d] = codes[d]
    BY <2>1, WithoutKeeps
  <2> QED
    BY <1>2, <2>2 DEF ConsumeExpired
<1>3. ASSUME NEW c \in Codes, ConsumeUsed(c) PROVE TypeOK'
  <2>1. codes' = Without({c})
    BY <1>3 DEF ConsumeUsed
  <2>2. /\ DOMAIN codes' \subseteq DOMAIN codes
        /\ \A d \in DOMAIN codes' : codes'[d] = codes[d]
    BY <2>1 DEF Without
  <2> QED
    BY <1>3, <2>2 DEF ConsumeUsed
<1>4. ASSUME NEW c \in Codes, NEW cl \in Clients, NEW rd \in Redirects,
             NEW v \in Verifiers \cup {None}, NEW t \in Threads,
             ConsumeOk(t, c, cl, rd, v)
      PROVE  TypeOK'
  <2> DEFINE p == [client |-> cl, redirect |-> rd,
                   proof |-> IF codes[c].challenge = None THEN None ELSE v]
  <2>1. p \in Party
    BY DEF Party
  <2>2. c \in DOMAIN codes /\ codes[c] \in Entry
    BY <1>4 DEF ConsumeOk
  <2>3. [codes[c] EXCEPT !.used = TRUE] \in Entry
         /\ [codes[c] EXCEPT !.used = TRUE].used = TRUE
    BY <2>2 DEF Entry
  <2>4. codes' = Marked(c) /\ paid' = [paid EXCEPT ![c] = Append(@, p)]
    BY <1>4 DEF ConsumeOk
  <2> HIDE DEF p
  <2>5. paid' \in [Codes -> Seq(Party)] /\ paid'[c] # << >>
    BY <2>1, <2>4
  <2>6. \A d \in DOMAIN codes' :
          codes'[d] \in Entry /\ (codes'[d].used <=> paid'[d] # << >>)
    BY <2>2, <2>3, <2>4, <2>5, MarkedKeeps
  <2>7. [pc |-> "consumed", code |-> c, username |-> codes[c].username] \in Consumed
    BY <2>2 DEF Consumed, Entry
  <2> QED
    BY <1>4, <2>2, <2>4, <2>5, <2>6, <2>7, MarkedKeeps DEF ConsumeOk
<1>5. ASSUME NEW t \in Threads, Answer(t) PROVE TypeOK'
  <2>1. exchange[t].code \in Codes
    BY <1>5 DEF Answer, Consumed
  <2> QED
    BY <1>5, <2>1 DEF Answer
<1>6. CASE Tick
  BY <1>6 DEF Tick
<1>7. ASSUME NEW u \in Users, ChangeUsers(u) PROVE TypeOK'
  BY <1>7 DEF ChangeUsers
<1>8. CASE Restart
  BY <1>8 DEF Restart
<1>9. CASE UNCHANGED vars
  BY <1>9 DEF vars
<1> QED
  BY <1>1, <1>2, <1>3, <1>4, <1>5, <1>6, <1>7, <1>8, <1>9 DEF Next, ConsumeMismatch

LEMMA InitInv == Init => IInv
  BY LifetimeAssumption DEF Init, IInv, TypeOK, EntriesKeepTheirParty,
     OnlyUsedCodesPay, OneTokenPerCode

-----------------------------------------------------------------------------
(***************************************************************************)
(* The rest of the inductive invariant.                                    *)
(***************************************************************************)
LEMMA EntriesStep == IInv /\ [Next]_vars => EntriesKeepTheirParty'
<1> SUFFICES ASSUME IInv, [Next]_vars PROVE EntriesKeepTheirParty'
  OBVIOUS
<1> USE DEF IInv, EntriesKeepTheirParty, history
<1>1. ASSUME NEW c \in Codes, NEW cl \in Clients, NEW rd \in Redirects,
             NEW ch \in Verifiers \cup {None}, NEW u \in Users,
             CreateCode(c, cl, rd, ch, u)
      PROVE  EntriesKeepTheirParty'
  <2> DEFINE e == [client |-> cl, redirect |-> rd, challenge |-> ch, username |-> u,
                   expires_at |-> now + Lifetime, used |-> FALSE]
             p == [client |-> cl, redirect |-> rd, proof |-> ch]
  <2>1. p = [client |-> e.client, redirect |-> e.redirect, proof |-> e.challenge]
    OBVIOUS
  <2>2. codes' = Inserted(c, e) /\ binding' = [binding EXCEPT ![c] = p]
    BY <1>1 DEF CreateCode
  <2> HIDE DEF e, p
  <2>3. binding'[c] = p /\ \A d \in Codes \ {c} : binding'[d] = binding[d]
    BY <2>2 DEF TypeOK
  <2> QED
    BY <2>1, <2>2, <2>3, InsertedKeeps DEF TypeOK
<1>2. ASSUME NEW c \in Codes, ConsumeExpired(c) \/ ConsumeUsed(c)
      PROVE  EntriesKeepTheirParty'
  <2>1. codes' = Without({c}) /\ binding' = binding
    BY <1>2 DEF ConsumeExpired, ConsumeUsed
  <2>2. /\ DOMAIN codes' \subseteq DOMAIN codes
        /\ \A d \in DOMAIN codes' : codes'[d] = codes[d]
    BY <2>1, WithoutKeeps
  <2> QED
    BY <2>1, <2>2
<1>3. ASSUME NEW c \in Codes, NEW cl \in Clients, NEW rd \in Redirects,
             NEW v \in Verifiers \cup {None}, NEW t \in Threads,
             ConsumeOk(t, c, cl, rd, v)
      PROVE  EntriesKeepTheirParty'
  <2>1. codes' = Marked(c) /\ binding' = binding /\ c \in DOMAIN codes
    BY <1>3 DEF ConsumeOk
  <2>2. codes[c] \in Entry
    BY <2>1 DEF TypeOK
  <2>3. /\ DOMAIN codes' = DOMAIN codes
        /\ codes'[c] = [codes[c] EXCEPT !.used = TRUE]
        /\ \A d \in DOMAIN codes : d # c => codes'[d] = codes[d]
    BY <2>1, <2>2, MarkedKeeps
  <2>4. /\ codes'[c].client = codes[c].client
        /\ codes'[c].redirect = codes[c].redirect
        /\ codes'[c].challenge = codes[c].challenge
    BY <2>2, <2>3 DEF Entry
  <2>5. SUFFICES ASSUME NEW d \in DOMAIN codes
                 PROVE  binding[d] = [client |-> codes'[d].client,
                                      redirect |-> codes'[d].redirect,
                                      proof |-> codes'[d].challenge]
    BY <2>1, <2>3
  <2>6. CASE d = c
    BY <2>4, <2>6
  <2>7. CASE d # c
    BY <2>3, <2>7
  <2> QED
    BY <2>6, <2>7
<1>4. CASE Restart
  BY <1>4 DEF Restart
<1>5. CASE UNCHANGED <<codes, binding>>
  BY <1>5
<1> QED
  BY <1>1, <1>2, <1>3, <1>4, <1>5 DEF Next, vars, ConsumeMismatch, Answer, Tick,
     ChangeUsers

\* The store holds only codes that were created.
LEMMA EntriesAreBound ==
    ASSUME TypeOK, EntriesKeepTheirParty
    PROVE  \A c \in DOMAIN codes : binding[c] # None
<1> SUFFICES ASSUME NEW c \in DOMAIN codes PROVE binding[c] # None
  OBVIOUS
<1>1. codes[c] \in Entry
  BY DEF TypeOK
<1>2. [client |-> codes[c].client, redirect |-> codes[c].redirect,
       proof |-> codes[c].challenge] \in Party
  BY <1>1 DEF Entry, Party
<1> QED
  BY <1>2, NoPartyAssumption DEF EntriesKeepTheirParty

LEMMA PaymentStep == IInv /\ [Next]_vars => OnlyUsedCodesPay'
<1> SUFFICES ASSUME IInv, [Next]_vars PROVE OnlyUsedCodesPay'
  OBVIOUS
<1> USE DEF IInv, OnlyUsedCodesPay, history
<1>1. ASSUME NEW c \in Codes, NEW cl \in Clients, NEW rd \in Redirects,
             NEW ch \in Verifiers \cup {None}, NEW u \in Users,
             CreateCode(c, cl, rd, ch, u)
      PROVE  OnlyUsedCodesPay'
  BY <1>1 DEF CreateCode, TypeOK
<1>2. ASSUME NEW c \in Codes, NEW cl \in Clients, NEW rd \in Redirects,
             NEW v \in Verifiers \cup {None}, NEW t \in Threads,
             ConsumeOk(t, c, cl, rd, v)
      PROVE  OnlyUsedCodesPay'
  <2> DEFINE p == [client |-> cl, redirect |-> rd,
                   proof |-> IF codes[c].challenge = None THEN None ELSE v]
  <2>1. p \in Party /\ binding[c] # None
    BY <1>2, EntriesAreBound DEF ConsumeOk, Party
  <2>2. paid' = [paid EXCEPT ![c] = Append(@, p)]
    BY <1>2 DEF ConsumeOk
  <2> HIDE DEF p
  <2>3. paid'[c] # << >> /\ \A d \in Codes \ {c} : paid'[d] = paid[d]
    BY <2>1, <2>2 DEF TypeOK
  <2>4. /\ exchange'[t].code = c
        /\ \A s \in Threads \ {t} : exchange'[s] = exchange[s]
        /\ \A s \in Threads : exchange[s] # Idle => exchange[s].code \in Codes
    BY <1>2 DEF ConsumeOk, TypeOK, Consumed
  <2> QED
    BY <1>2, <2>1, <2>3, <2>4 DEF ConsumeOk, TypeOK
<1>3. ASSUME NEW t \in Threads, Answer(t) PROVE OnlyUsedCodesPay'
  BY <1>3 DEF Answer, TypeOK
<1>4. CASE Restart
  BY <1>4 DEF Restart
<1>5. CASE UNCHANGED <<exchange, binding, paid, active>>
  BY <1>5
<1> QED
  BY <1>1, <1>2, <1>3, <1>4, <1>5 DEF Next, vars, ConsumeExpired, ConsumeUsed,
     ConsumeMismatch, Tick, ChangeUsers

LEMMA OneTokenStep == IInv /\ [Next]_vars => OneTokenPerCode'
<1> SUFFICES ASSUME IInv, [Next]_vars PROVE OneTokenPerCode'
  OBVIOUS
<1> USE DEF IInv, OneTokenPerCode, history
<1>1. ASSUME NEW c \in Codes, NEW cl \in Clients, NEW rd \in Redirects,
             NEW v \in Verifiers \cup {None}, NEW t \in Threads,
             ConsumeOk(t, c, cl, rd, v)
      PROVE  OneTokenPerCode'
  <2>1. paid[c] = << >>
    BY <1>1 DEF ConsumeOk, TypeOK
  <2>2. c \notin active /\ \A s \in Threads : exchange[s] # Idle => exchange[s].code # c
    BY <2>1 DEF OnlyUsedCodesPay
  <2>3. exchange'[t].code = c /\ \A s \in Threads \ {t} : exchange'[s] = exchange[s]
    BY <1>1 DEF ConsumeOk, TypeOK
  <2>4. active' = active
    BY <1>1 DEF ConsumeOk
  <2> QED
    BY <2>2, <2>3, <2>4
<1>2. ASSUME NEW t \in Threads, Answer(t) PROVE OneTokenPerCode'
  <2>1. exchange'[t] = Idle /\ \A s \in Threads \ {t} : exchange'[s] = exchange[s]
    BY <1>2 DEF Answer, TypeOK
  <2>2. active' \subseteq active \cup {exchange[t].code} /\ exchange[t] # Idle
    BY <1>2 DEF Answer
  <2> QED
    BY <2>1, <2>2
<1>3. CASE Restart
  BY <1>3 DEF Restart
<1>4. CASE UNCHANGED <<exchange, active>>
  BY <1>4
<1> QED
  BY <1>1, <1>2, <1>3, <1>4 DEF Next, vars, CreateCode, ConsumeExpired, ConsumeUsed,
     ConsumeMismatch, Tick, ChangeUsers

LEMMA Invariance == Spec => []IInv
<1>1. IInv /\ [Next]_vars => IInv'
  BY TypeStep, EntriesStep, PaymentStep, OneTokenStep DEF IInv
<1> QED
  BY <1>1, InitInv, PTL DEF Spec

-----------------------------------------------------------------------------
(***************************************************************************)
(* The results.                                                            *)
(***************************************************************************)
\* Every reachable state of the AuthCodeStore and of the exchanges under way is
\* well-typed, and a code is marked as used exactly when it has paid out.
THEOREM TypeCorrect == Spec => []TypeOK
<1>1. IInv => TypeOK
  BY DEF IInv
<1> QED
  BY <1>1, Invariance, PTL

\* No interleaving of exchanges, replays, deletions of the user and restarts
\* lets one code yield two tokens.
THEOREM OneCodeOneToken == Spec => []OneTokenPerCode
<1>1. IInv => OneTokenPerCode
  BY DEF IInv
<1> QED
  BY <1>1, Invariance, PTL

\* Nobody but its own party, the clock or a restart makes a live code unusable.
THEOREM NobodySpoils == Spec => OthersCannotSpoil
<1> DEFINE Reason(c) == \/ paid'[c] # paid[c]
                        \/ now' # now
                        \/ codes' = << >> /\ exchange' = [t \in Threads |-> Idle]
           Spoils == \A c \in Codes : Redeemable(c) /\ ~Redeemable(c)' => Reason(c)
<1>1. IInv /\ [Next]_vars => Spoils
  <2> SUFFICES ASSUME IInv, [Next]_vars, NEW d \in Codes, Redeemable(d),
                      ~Redeemable(d)', now' = now
               PROVE  Reason(d)
    OBVIOUS
  <2> USE DEF IInv, Redeemable, Expired, history
  <2>1. ASSUME NEW c \in Codes, NEW cl \in Clients, NEW rd \in Redirects,
               NEW ch \in Verifiers \cup {None}, NEW u \in Users,
               CreateCode(c, cl, rd, ch, u)
        PROVE  Reason(d)
    <3>1. d # c
      BY <2>1, EntriesAreBound DEF CreateCode
    <3>2. d \in DOMAIN codes' /\ codes'[d] = codes[d]
      BY <2>1, <3>1, InsertedKeeps DEF CreateCode
    <3> QED
      BY <3>2
  <2>2. ASSUME NEW c \in Codes, ConsumeExpired(c) \/ ConsumeUsed(c) PROVE Reason(d)
    <3>1. d # c /\ codes' = Without({c})
      BY <2>2 DEF ConsumeExpired, ConsumeUsed
    <3>2. d \in DOMAIN codes' /\ codes'[d] = codes[d]
      BY <3>1, WithoutKeeps
    <3> QED
      BY <3>2
  <2>3. ASSUME NEW c \in Codes, NEW cl \in Clients, NEW rd \in Redirects,
               NEW v \in Verifiers \cup {None}, NEW t \in Threads,
               ConsumeOk(t, c, cl, rd, v)
        PROVE  Reason(d)
    <3>1. CASE d = c
      <4>1. paid[c] = << >>
        BY <2>3 DEF ConsumeOk, TypeOK
      <4>2. paid'[c] = Append(paid[c], [client |-> cl, redirect |-> rd,
              proof |-> IF codes[c].challenge = None THEN None ELSE v])
        BY <2>3 DEF ConsumeOk, TypeOK
      <4> QED
        BY <3>1, <4>1, <4>2
    <3>2. CASE d # c
      <4>1. codes'[d] = codes[d] /\ d \in DOMAIN codes'
        BY <2>3, <3>2 DEF ConsumeOk, Marked
      <4> QED
        BY <4>1
    <3> QED
      BY <3>1, <3>2
  <2>4. CASE Restart
    BY <2>4 DEF Restart
  <2>5. CASE UNCHANGED codes
    BY <2>5
  <2> QED
    BY <2>1, <2>2, <2>3, <2>4, <2>5 DEF Next, vars, ConsumeMismatch, Answer, Tick,
       ChangeUsers
<1> QED
  BY <1>1, Invariance, PTL DEF Spec, OthersCannotSpoil

-----------------------------------------------------------------------------
(***************************************************************************)
(* The refinement: every step of the store is a step of OneTimeGrant or    *)
(* changes nothing that OneTimeGrant speaks of.                            *)
(***************************************************************************)
LEMMA StatusKept ==
    ASSUME NEW c, binding'[c] = binding[c], paid'[c] = paid[c],
           Redeemable(c)' <=> Redeemable(c)
    PROVE  GrantStatus(c)' = GrantStatus(c)
  BY DEF GrantStatus

LEMMA GrantLapses ==
    ASSUME UNCHANGED <<binding, paid>>,
           \A c \in Codes : Redeemable(c)' => Redeemable(c)
    PROVE  Grant!Next
<1> DEFINE C == {c \in Codes : GrantStatus(c) = "approved" /\ ~Redeemable(c)'}
<1>1. \A c \in Codes : GrantStatus(c)' = IF c \in C THEN "void" ELSE GrantStatus(c)
  BY DEF GrantStatus
<1>2. \A c \in C : GrantStatus(c) = "approved" /\ c \in Codes
  OBVIOUS
<1> HIDE DEF C
<1>3. C \in SUBSET Codes /\ Grant!Lapse(C)
  BY <1>1, <1>2 DEF Grant!Lapse
<1> QED
  BY <1>3 DEF Grant!Next

LEMMA GrantInit == Init => Grant!Init
  BY DEF Init, Grant!Init, GrantStatus

LEMMA GrantStep == IInv /\ [Next]_vars => [Grant!Next]_(Grant!vars)
<1> SUFFICES ASSUME IInv, [Next]_vars PROVE [Grant!Next]_(Grant!vars)
  OBVIOUS
<1> USE DEF IInv, history
<1>s. ASSUME UNCHANGED <<binding, paid>>, \A c \in Codes : Redeemable(c)' <=> Redeemable(c)
      PROVE  UNCHANGED Grant!vars
  BY <1>s, StatusKept DEF Grant!vars
<1>1. ASSUME NEW c \in Codes, NEW cl \in Clients, NEW rd \in Redirects,
             NEW ch \in Verifiers \cup {None}, NEW u \in Users,
             CreateCode(c, cl, rd, ch, u)
      PROVE  Grant!Next
  <2> DEFINE e == [client |-> cl, redirect |-> rd, challenge |-> ch, username |-> u,
                   expires_at |-> now + Lifetime, used |-> FALSE]
             p == [client |-> cl, redirect |-> rd, proof |-> ch]
  <2>1. p \in Party
    BY DEF Party
  <2>2. e.used = FALSE /\ e.expires_at = now + Lifetime
    OBVIOUS
  <2>3. /\ codes' = Inserted(c, e)
        /\ binding' = [binding EXCEPT ![c] = p]
        /\ binding[c] = None
        /\ UNCHANGED <<now, paid>>
    BY <1>1 DEF CreateCode
  <2> HIDE DEF e, p
  <2>4. binding'[c] = p /\ \A d \in Codes \ {c} : binding'[d] = binding[d]
    BY <2>3 DEF TypeOK
  <2>5. c \in DOMAIN codes' /\ codes'[c] = e
    BY <2>3, InsertedKeeps
  <2>6. Redeemable(c)'
    BY <2>2, <2>3, <2>5, LifetimeAssumption DEF Redeemable, Expired, TypeOK
  <2>7. GrantStatus(c) = "unused" /\ GrantStatus(c)' = "approved"
    BY <2>1, <2>3, <2>4, <2>6, NoPartyAssumption DEF GrantStatus, OnlyUsedCodesPay
  <2>8. ASSUME NEW d \in Codes \ {c} PROVE Redeemable(d)' <=> Redeemable(d)
    <3>1. /\ d \in DOMAIN codes' <=> d \in DOMAIN codes /\ ~Expired(d)
          /\ d \in DOMAIN codes' => codes'[d] = codes[d]
      BY <2>3, <2>8, InsertedKeeps
    <3> QED
      BY <2>3, <3>1 DEF Redeemable, Expired
  <2>9. \A d \in Codes \ {c} : GrantStatus(d)' = GrantStatus(d)
    BY <2>3, <2>4, <2>8, StatusKept
  <2>10. Grant!Offer(c, p, "approved")
    BY <2>3, <2>7, <2>9 DEF Grant!Offer
  <2> QED
    BY <2>1, <2>10 DEF Grant!Next
<1>2. ASSUME NEW c \in Codes, ConsumeExpired(c) \/ ConsumeUsed(c)
      PROVE  UNCHANGED Grant!vars
  <2>1. codes' = Without({c}) /\ UNCHANGED <<binding, paid, now>> /\ ~Redeemable(c)
    BY <1>2 DEF ConsumeExpired, ConsumeUsed, Redeemable
  <2>2. DOMAIN codes' = DOMAIN codes \ {c} /\ \A d \in DOMAIN codes' : codes'[d] = codes[d]
    BY <2>1, WithoutKeeps
  <2> QED
    BY <2>1, <2>2, <1>s DEF Redeemable, Expired
<1>3. ASSUME NEW c \in Codes, NEW cl \in Clients, NEW rd \in Redirects,
             NEW v \in Verifiers \cup {None}, NEW t \in Threads,
             ConsumeOk(t, c, cl, rd, v)
      PROVE  Grant!Next
  <2> DEFINE p == [client |-> cl, redirect |-> rd,
                   proof |-> IF codes[c].challenge = None THEN None ELSE v]
  <2>1. p = binding[c]
    <3>1. /\ codes[c] \in Entry
          /\ Matches(codes[c], cl, rd, v)
          /\ c \in DOMAIN codes
      BY <1>3 DEF ConsumeOk, TypeOK
    <3>2. p = [client |-> codes[c].client, redirect |-> codes[c].redirect,
               proof |-> codes[c].challenge]
      BY <3>1, MatchNamesTheParty
    <3> QED
      BY <3>1, <3>2 DEF EntriesKeepTheirParty
  <2>2. /\ paid' = [paid EXCEPT ![c] = Append(@, p)]
        /\ codes' = Marked(c)
        /\ UNCHANGED <<binding, now>>
        /\ Redeemable(c)
        /\ c \in DOMAIN codes
    BY <1>3 DEF ConsumeOk, Redeemable
  <2> HIDE DEF p
  <2>3. binding[c] # None /\ paid[c] = << >>
    BY <2>2, EntriesAreBound DEF TypeOK, Redeemable
  <2>4. p \in Party
    BY <2>1, <2>3 DEF TypeOK
  <2>5. paid'[c] # << >> /\ \A d \in Codes \ {c} : paid'[d] = paid[d]
    BY <2>2, <2>4 DEF TypeOK
  <2>6. GrantStatus(c) = "approved" /\ GrantStatus(c)' = "redeemed"
    BY <2>2, <2>3, <2>5 DEF GrantStatus
  <2>7. ASSUME NEW d \in Codes \ {c} PROVE GrantStatus(d)' = GrantStatus(d)
    <3>1. Redeemable(d)' <=> Redeemable(d)
      BY <2>2, <2>7 DEF Marked, Redeemable, Expired
    <3> QED
      BY <2>2, <2>5, <3>1, StatusKept
  <2>8. Grant!Redeem(c)
    BY <2>1, <2>2, <2>6, <2>7 DEF Grant!Redeem
  <2> QED
    BY <2>8 DEF Grant!Next
<1>4. CASE Tick
  <2>1. \A c \in Codes : Redeemable(c)' => Redeemable(c)
    BY <1>4 DEF Tick, Redeemable, Expired, TypeOK, Entry
  <2> QED
    BY <1>4, <2>1, GrantLapses DEF Tick
<1>5. CASE Restart
  <2>1. \A c \in Codes : ~Redeemable(c)'
    BY <1>5 DEF Restart, Redeemable
  <2> QED
    BY <1>5, <2>1, GrantLapses DEF Restart
<1>6. CASE UNCHANGED <<codes, now, binding, paid>>
  BY <1>6, <1>s DEF Redeemable, Expired
<1> QED
  BY <1>1, <1>2, <1>3, <1>4, <1>5, <1>6 DEF Next, vars, ConsumeMismatch, Answer,
     ChangeUsers

\* The AuthCodeStore implements OneTimeGrant: a code pays out once, to the party
\* it was created for, while it lives, and never comes back.
THEOREM StoreKeepsThePromise == Spec => PaysOutOnce
  BY GrantInit, GrantStep, Invariance, PTL DEF Spec, PaysOutOnce, Grant!Spec
=============================================================================
