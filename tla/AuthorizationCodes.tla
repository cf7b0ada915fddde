------------------------- MODULE AuthorizationCodes -------------------------
(***************************************************************************)
(* The AuthCodeStore, filled by POST /authorize and emptied by the         *)
(* authorization_code grant of POST /token.                                *)
(*                                                                         *)
(* create_code and consume_code are critical sections of the store's lock. *)
(* What follows a consumption (the user lookup and the signing) happens    *)
(* outside it, in the thread that serves the request, while other threads  *)
(* replay the code, the user is deleted or the clock moves on.             *)
(***************************************************************************)
EXTENDS Naturals, Sequences, FiniteSets

CONSTANTS
    Codes,      \* authorization codes; 32 random bytes, so never repeated
    Clients,    \* client ids
    Redirects,  \* redirect URIs
    Verifiers,  \* PKCE code verifiers; a challenge is named by its verifier
    Users,      \* user names
    Threads,    \* server threads
    None,       \* absent code challenge or verifier
    Lifetime,   \* ticks between created_at and expires_at (10 minutes)
    MaxTime     \* bound on the clock

ASSUME LifetimeAssumption == Lifetime \in Nat /\ MaxTime \in Nat
ASSUME NoneAssumption == None \notin Verifiers

VARIABLES
    codes,      \* AuthCodeStore._codes
    now,        \* the clock
    users,      \* names in config.users
    exchange,   \* exchange[t]: the code thread t has consumed, not yet answered
    binding,    \* history: binding[c], the party code c was created for
    paid,       \* history: paid[c], the parties that consumed c
    active,     \* codes whose exchange yielded a token that is still accepted
    replayed    \* history: codes presented again after they had been used

vars == <<codes, now, users, exchange, binding, paid, active, replayed>>
history == <<binding, paid, active, replayed>>

\* The part of an AuthorizationCode the store decides on.
Entry == [client : Clients, redirect : Redirects,
          challenge : Verifiers \cup {None}, username : Users,
          expires_at : Nat, used : BOOLEAN]

\* Who may redeem: the client, at the redirect URI, knowing the verifier.
Party == [client : Clients, redirect : Redirects, proof : Verifiers \cup {None}]
ASSUME NoPartyAssumption == None \notin Party

Idle == [pc |-> "idle"]
Consumed == [pc : {"consumed"}, code : Codes, username : Users]

TypeOK ==
    /\ DOMAIN codes \in SUBSET Codes
    /\ \A c \in DOMAIN codes :
         codes[c] \in Entry /\ (codes[c].used <=> paid[c] # << >>)
    /\ now \in 0..MaxTime
    /\ users \in SUBSET Users
    /\ exchange \in [Threads -> {Idle} \cup Consumed]
    /\ binding \in [Codes -> Party \cup {None}]
    /\ paid \in [Codes -> Seq(Party)]
    /\ active \in SUBSET Codes
    /\ replayed \in SUBSET Codes

Init ==
    /\ codes = << >>
    /\ now = 0
    /\ users = Users
    /\ exchange = [t \in Threads |-> Idle]
    /\ binding = [c \in Codes |-> None]
    /\ paid = [c \in Codes |-> << >>]
    /\ active = {}
    /\ replayed = {}

-----------------------------------------------------------------------------
Without(cs) == [c \in DOMAIN codes \ cs |-> codes[c]]

Expired(c) == now > codes[c].expires_at

\* create_code: sweep the expired codes, then insert, under the lock.
Inserted(c, entry) ==
    LET kept == Without({d \in DOMAIN codes : Expired(d)})
    IN  [d \in DOMAIN kept \cup {c} |-> IF d = c THEN entry ELSE kept[d]]

\* POST /authorize with the right password.
CreateCode(c, cl, rd, ch, u) ==
    /\ binding[c] = None
    /\ u \in users
    /\ now + Lifetime <= MaxTime
    /\ codes' = Inserted(c,
         [client |-> cl, redirect |-> rd, challenge |-> ch, username |-> u,
          expires_at |-> now + Lifetime, used |-> FALSE])
    /\ binding' = [binding EXCEPT ![c] =
                     [client |-> cl, redirect |-> rd, proof |-> ch]]
    /\ UNCHANGED <<now, users, exchange, paid, active, replayed>>

-----------------------------------------------------------------------------
(***************************************************************************)
(* consume_code.  The checks come in this order; the first that fails      *)
(* decides, and only the first two of them change the store.               *)
(***************************************************************************)
\* Mutant: a verifier is asked for only if the request brings one.
ProofGivenOnly(e, v) == e.challenge # None /\ v # None => v = e.challenge

ProofMatches(e, v) == e.challenge # None => v = e.challenge

Matches(e, cl, rd, v) ==
    /\ e.client = cl
    /\ e.redirect = rd
    /\ ProofMatches(e, v)

\* An expired code is dropped and refused.
ConsumeExpired(c) ==
    /\ c \in DOMAIN codes
    /\ Expired(c)
    /\ codes' = Without({c})
    /\ UNCHANGED <<now, users, exchange, history>>

\* A used code is dropped and refused; nothing else becomes of the replay.
ConsumeUsed(c) ==
    /\ c \in DOMAIN codes
    /\ ~Expired(c)
    /\ codes[c].used
    /\ codes' = Without({c})
    /\ replayed' = replayed \cup {c}
    /\ UNCHANGED <<now, users, exchange, binding, paid, active>>

\* Mutant: a request that fails a binding check burns the code.
ConsumeMismatchBurns(c, cl, rd, v) ==
    /\ c \in DOMAIN codes
    /\ ~Expired(c)
    /\ ~codes[c].used
    /\ ~Matches(codes[c], cl, rd, v)
    /\ codes' = Without({c})
    /\ UNCHANGED <<now, users, exchange, history>>

\* A request of the wrong party is refused and leaves the code as it is.
ConsumeMismatch(c, cl, rd, v) ==
    /\ c \in DOMAIN codes
    /\ ~Expired(c)
    /\ ~codes[c].used
    /\ ~Matches(codes[c], cl, rd, v)
    /\ UNCHANGED vars

\* Mutant: the code is not marked.
NotMarked(c) == codes

Marked(c) == [codes EXCEPT ![c].used = TRUE]

ConsumeOk(t, c, cl, rd, v) ==
    /\ exchange[t] = Idle
    /\ c \in DOMAIN codes
    /\ ~Expired(c)
    /\ ~codes[c].used
    /\ Matches(codes[c], cl, rd, v)
    /\ codes' = Marked(c)
    /\ exchange' = [exchange EXCEPT ![t] =
         [pc |-> "consumed", code |-> c, username |-> codes[c].username]]
    /\ paid' = [paid EXCEPT ![c] = Append(@,
         [client |-> cl, redirect |-> rd,
          proof |-> IF codes[c].challenge = None THEN None ELSE v])]
    /\ UNCHANGED <<now, users, binding, active, replayed>>

\* The rest of the grant and token(), after the lock: the user must still
\* exist and the claims of the request's `extra` be such that jwt.encode signs
\* them, or the request fails with the code already spent.
Answer(t) ==
    /\ exchange[t] # Idle
    /\ \/ /\ exchange[t].username \in users
          /\ active' = active \cup {exchange[t].code}
       \/ UNCHANGED active
    /\ exchange' = [exchange EXCEPT ![t] = Idle]
    /\ UNCHANGED <<codes, now, users, binding, paid, replayed>>

-----------------------------------------------------------------------------
Tick ==
    /\ now < MaxTime
    /\ now' = now + 1
    /\ UNCHANGED <<codes, users, exchange, history>>

\* A user is deleted or created between the login and the exchange.
ChangeUsers(u) ==
    /\ users' = IF u \in users THEN users \ {u} ELSE users \cup {u}
    /\ UNCHANGED <<codes, now, exchange, history>>

\* The store is in memory: a restart loses every code and every request.
Restart ==
    /\ codes' = << >>
    /\ exchange' = [t \in Threads |-> Idle]
    /\ UNCHANGED <<now, users, history>>

Next ==
    \/ \E c \in Codes, cl \in Clients, rd \in Redirects,
          ch \in Verifiers \cup {None}, u \in Users : CreateCode(c, cl, rd, ch, u)
    \/ \E c \in Codes : ConsumeExpired(c) \/ ConsumeUsed(c)
    \/ \E c \in Codes, cl \in Clients, rd \in Redirects, v \in Verifiers \cup {None} :
         \/ ConsumeMismatch(c, cl, rd, v)
         \/ \E t \in Threads : ConsumeOk(t, c, cl, rd, v)
    \/ \E t \in Threads : Answer(t)
    \/ Tick
    \/ \E u \in Users : ChangeUsers(u)
    \/ Restart

Spec == Init /\ [][Next]_vars

-----------------------------------------------------------------------------
(***************************************************************************)
(* Properties.                                                             *)
(***************************************************************************)
Redeemable(c) == c \in DOMAIN codes /\ ~codes[c].used /\ ~Expired(c)

\* How far code c has come, in the terms of OneTimeGrant.
GrantStatus(c) ==
    CASE binding[c] = None -> "unused"
      [] binding[c] # None /\ paid[c] # << >> -> "redeemed"
      [] binding[c] # None /\ paid[c] = << >> /\ Redeemable(c) -> "approved"
      [] OTHER -> "void"

\* The store implements the promise of OneTimeGrant: a code pays out at most
\* once, within its lifetime, and only to the client that asked for it, at its
\* redirect URI, with the verifier of its challenge; once swept, replayed,
\* expired or lost in a restart it never pays out again.
Grant == INSTANCE OneTimeGrant WITH
    Parties <- Party,
    status <- [c \in Codes |-> GrantStatus(c)],
    holder <- binding

PaysOutOnce == Grant!Spec

\* Nobody but its own party can make a live code unusable: it stops being
\* redeemable by being redeemed, by the clock, or by a restart.
OthersCannotSpoil ==
    [][\A c \in Codes : Redeemable(c) /\ ~Redeemable(c)' =>
         \/ paid'[c] # paid[c]
         \/ now' # now
         \/ codes' = << >> /\ exchange' = [t \in Threads |-> Idle]]_vars

\* One code, one token: an exchange still being answered is the only one for
\* its code, and that code has not yielded a token yet.
OneTokenPerCode ==
    \A t \in Threads : exchange[t] # Idle =>
        /\ exchange[t].code \notin active
        /\ \A s \in Threads :
             exchange[s] # Idle /\ exchange[s].code = exchange[t].code => s = t

\* auth_code.py:155: tokens issued with a code are revoked on its replay.
ReplayRevokesTokens == replayed \cap active = {}
=============================================================================
