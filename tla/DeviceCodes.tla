---------------------------- MODULE DeviceCodes ----------------------------
(***************************************************************************)
(* The DeviceCodeStore (RFC 8628): filled by POST /device_authorization,   *)
(* decided by the user at /device and emptied by the device that polls     *)
(* POST /token until it gets a final answer.                               *)
(*                                                                         *)
(* create, poll and verify are critical sections of the store's lock, each *)
(* an action here.  The user index is a second mapping: nothing keeps two  *)
(* live grants from drawing the same user code, in which case the index    *)
(* follows the later one.                                                  *)
(***************************************************************************)
EXTENDS Naturals, Sequences, FiniteSets

CONSTANTS
    Devices,    \* device codes; 32 random bytes, so never repeated
    UserCodes,  \* user codes; eight characters, which may repeat
    Clients,    \* client ids
    Users,      \* user names
    None,       \* no user yet
    Lifetime,   \* DEVICE_CODE_EXPIRES_IN, in ticks
    MaxTime     \* bound on the clock

ASSUME LifetimeAssumption == Lifetime \in Nat /\ MaxTime \in Nat
ASSUME NoneAssumption ==
    None \notin Users /\ None \notin Clients /\ None \notin UserCodes

VARIABLES
    codes,          \* DeviceCodeStore._codes
    byUserCode,     \* DeviceCodeStore._by_user_code
    now,            \* the clock
    users,          \* names in config.users
    device,         \* device[d]: what the device holding d knows
    binding,        \* history: binding[d], the client d was issued to
    label,          \* history: label[d], the user code d was issued with
    paid            \* history: paid[d], the clients d was exchanged by

vars == <<codes, byUserCode, now, users, device, binding, label, paid>>
history == <<binding, label, paid>>

Status == {"pending", "authorized", "denied", "expired"}

\* The part of a DeviceCodeGrant the store decides on.
Grants == [user_code : UserCodes, client_id : Clients, expires_at : Nat,
           status : Status, username : Users \cup {None}]

TypeOK ==
    /\ DOMAIN codes \in SUBSET Devices
    /\ \A d \in DOMAIN codes : codes[d] \in Grants
    /\ \A d \in DOMAIN codes :
         /\ codes[d].status \in {"pending", "denied"} => codes[d].username = None
         /\ codes[d].status = "authorized" => codes[d].username \in Users
    /\ DOMAIN byUserCode \in SUBSET UserCodes
    /\ \A uc \in DOMAIN byUserCode : byUserCode[uc] \in Devices
    /\ now \in 0..MaxTime
    /\ users \in SUBSET Users
    /\ device \in [Devices -> {"off", "polling", "granted", "refused"}]
    /\ binding \in [Devices -> Clients \cup {None}]
    /\ label \in [Devices -> UserCodes \cup {None}]
    /\ paid \in [Devices -> Seq(Clients)]

Init ==
    /\ codes = << >>
    /\ byUserCode = << >>
    /\ now = 0
    /\ users = Users
    /\ device = [d \in Devices |-> "off"]
    /\ binding = [d \in Devices |-> None]
    /\ label = [d \in Devices |-> None]
    /\ paid = [d \in Devices |-> << >>]

-----------------------------------------------------------------------------
Without(f, S) == [x \in DOMAIN f \ S |-> f[x]]
With(f, x, y) == [z \in DOMAIN f \cup {x} |-> IF z = x THEN y ELSE f[z]]

Expired(d) == now > codes[d].expires_at
Stale == {d \in DOMAIN codes : Expired(d)}

\* The index entries dropped along with the grants D: those under their user
\* codes, whichever grants they point to.
UserCodesOf(D) == {codes[d].user_code : d \in D}

NewGrant(uc, cl) ==
    [user_code |-> uc, client_id |-> cl, expires_at |-> now + Lifetime,
     status |-> "pending", username |-> None]

\* POST /device_authorization: prune what has expired, then insert.
Create(d, uc, cl) ==
    /\ binding[d] = None
    /\ now + Lifetime < MaxTime
    /\ codes' = With(Without(codes, Stale), d, NewGrant(uc, cl))
    /\ byUserCode' = With(Without(byUserCode, UserCodesOf(Stale)), uc, d)
    /\ device' = [device EXCEPT ![d] = "polling"]
    /\ binding' = [binding EXCEPT ![d] = cl]
    /\ label' = [label EXCEPT ![d] = uc]
    /\ UNCHANGED <<now, users, paid>>

-----------------------------------------------------------------------------
(***************************************************************************)
(* The device polls with its code until an answer other than               *)
(* authorization_pending or the 500 of a missing user.                     *)
(***************************************************************************)
Polling(d) == device[d] = "polling"

\* Pruned by another request, or lost in a restart.
PollNotFound(d) ==
    /\ Polling(d)
    /\ d \notin DOMAIN codes
    /\ device' = [device EXCEPT ![d] = "refused"]
    /\ UNCHANGED <<codes, byUserCode, now, users, history>>

\* Anyone else who presents the code is refused before it is looked at.
PollWrongClient(d, cl) ==
    /\ d \in DOMAIN codes
    /\ codes[d].client_id # cl
    /\ UNCHANGED vars

\* Mutant: a pending grant is reported as such even when it has expired.
PollExpiredDecided(d) ==
    /\ Polling(d)
    /\ d \in DOMAIN codes
    /\ Expired(d)
    /\ codes[d].status # "pending"
    /\ codes' = [codes EXCEPT ![d].status = "expired"]
    /\ device' = [device EXCEPT ![d] = "refused"]
    /\ UNCHANGED <<byUserCode, now, users, history>>

\* The clock is read before the status: approval comes too late.
PollExpired(d) ==
    /\ Polling(d)
    /\ d \in DOMAIN codes
    /\ Expired(d)
    /\ codes' = [codes EXCEPT ![d].status = "expired"]
    /\ device' = [device EXCEPT ![d] = "refused"]
    /\ UNCHANGED <<byUserCode, now, users, history>>

\* authorization_pending, or the approving user has been deleted since: the
\* grant stays as it is and the device asks again.
PollAgain(d) ==
    /\ Polling(d)
    /\ d \in DOMAIN codes
    /\ ~Expired(d)
    /\ \/ codes[d].status = "pending"
       \/ codes[d].status = "authorized" /\ codes[d].username \notin users
    /\ UNCHANGED vars

PollDenied(d) ==
    /\ Polling(d)
    /\ d \in DOMAIN codes
    /\ ~Expired(d)
    /\ codes[d].status = "denied"
    /\ device' = [device EXCEPT ![d] = "refused"]
    /\ UNCHANGED <<codes, byUserCode, now, users, history>>

\* Mutant: the index entry outlives the grant.
DropGrantOnly(d) ==
    /\ codes' = Without(codes, {d})
    /\ UNCHANGED byUserCode

\* Mutant: the grant is answered but not consumed.
KeepGrant(d) == UNCHANGED <<codes, byUserCode>>

Consume(d) ==
    /\ codes' = Without(codes, {d})
    /\ byUserCode' = Without(byUserCode, {codes[d].user_code})

\* The grant is deleted before the tokens are made; the answer may be lost
\* on its way, and the device then polls a code that is gone.
PollAuthorized(d) ==
    /\ Polling(d)
    /\ d \in DOMAIN codes
    /\ ~Expired(d)
    /\ codes[d].status = "authorized"
    /\ codes[d].username \in users
    /\ Consume(d)
    /\ paid' = [paid EXCEPT ![d] = Append(@, codes[d].client_id)]
    /\ \/ device' = [device EXCEPT ![d] = "granted"]
       \/ UNCHANGED device
    /\ UNCHANGED <<now, users, binding, label>>

Poll(d) ==
    \/ PollNotFound(d)
    \/ PollExpired(d)
    \/ PollAgain(d)
    \/ PollDenied(d)
    \/ PollAuthorized(d)

-----------------------------------------------------------------------------
(***************************************************************************)
(* The user at /device.                                                    *)
(***************************************************************************)
Indexed(uc) == uc \in DOMAIN byUserCode /\ byUserCode[uc] \in DOMAIN codes

\* Mutant: a code that was decided already can be decided again.
UndecidedAny(uc) == Indexed(uc) /\ codes[byUserCode[uc]].status # "expired"

Undecided(uc) == Indexed(uc) /\ codes[byUserCode[uc]].status = "pending"

\* INVALID_CODE or ALREADY_USED.
VerifyUnusable(uc) ==
    /\ ~Undecided(uc)
    /\ UNCHANGED vars

VerifyExpired(uc) ==
    /\ Undecided(uc)
    /\ Expired(byUserCode[uc])
    /\ codes' = [codes EXCEPT ![byUserCode[uc]].status = "expired"]
    /\ UNCHANGED <<byUserCode, now, users, device, history>>

VerifyDeny(uc) ==
    /\ Undecided(uc)
    /\ ~Expired(byUserCode[uc])
    /\ codes' = [codes EXCEPT ![byUserCode[uc]].status = "denied"]
    /\ UNCHANGED <<byUserCode, now, users, device, history>>

\* Mutant: a failed login uses the user code up.
VerifyNoLoginBurns(uc) ==
    /\ Undecided(uc)
    /\ ~Expired(byUserCode[uc])
    /\ byUserCode' = Without(byUserCode, {uc})
    /\ UNCHANGED <<codes, now, users, device, history>>

\* Credentials missing or wrong: the user may try again.
VerifyNoLogin(uc) ==
    /\ Undecided(uc)
    /\ ~Expired(byUserCode[uc])
    /\ UNCHANGED vars

VerifyApprove(uc, u) ==
    /\ Undecided(uc)
    /\ ~Expired(byUserCode[uc])
    /\ u \in users
    /\ codes' = [codes EXCEPT ![byUserCode[uc]].status = "authorized",
                              ![byUserCode[uc]].username = u]
    /\ UNCHANGED <<byUserCode, now, users, device, history>>

Verify(uc) ==
    \/ VerifyUnusable(uc)
    \/ VerifyExpired(uc)
    \/ VerifyDeny(uc)
    \/ VerifyNoLogin(uc)
    \/ \E u \in Users : VerifyApprove(uc, u)

-----------------------------------------------------------------------------
Tick ==
    /\ now < MaxTime
    /\ now' = now + 1
    /\ UNCHANGED <<codes, byUserCode, users, device, history>>

ChangeUsers(u) ==
    /\ users' = IF u \in users THEN users \ {u} ELSE users \cup {u}
    /\ UNCHANGED <<codes, byUserCode, now, device, history>>

\* The store is in memory; the devices go on polling.
Restart ==
    /\ codes' = << >>
    /\ byUserCode' = << >>
    /\ UNCHANGED <<now, users, device, history>>

Next ==
    \/ \E d \in Devices, uc \in UserCodes, cl \in Clients : Create(d, uc, cl)
    \/ \E d \in Devices, cl \in Clients : PollWrongClient(d, cl)
    \/ \E d \in Devices : Poll(d)
    \/ \E uc \in UserCodes : Verify(uc)
    \/ Tick
    \/ \E u \in Users : ChangeUsers(u)
    \/ Restart

Spec == Init /\ [][Next]_vars

\* A device keeps polling and the clock keeps running; nothing makes the user
\* come to /device.
Fairness == WF_vars(Tick) /\ \A d \in Devices : WF_vars(Poll(d))

LiveSpec == Spec /\ Fairness

-----------------------------------------------------------------------------
(***************************************************************************)
(* Properties.                                                             *)
(***************************************************************************)
Live(d) == d \in DOMAIN codes /\ ~Expired(d)

\* How far the code d has come, in the terms of OneTimeGrant.
GrantStatus(d) ==
    CASE binding[d] = None -> "unused"
      [] binding[d] # None /\ paid[d] # << >> -> "redeemed"
      [] binding[d] # None /\ paid[d] = << >> /\ Live(d)
           /\ codes[d].status = "pending" -> "offered"
      [] binding[d] # None /\ paid[d] = << >> /\ Live(d)
           /\ codes[d].status = "authorized" -> "approved"
      [] OTHER -> "void"

\* The store implements the promise of OneTimeGrant: a device code pays out at
\* most once, only after a user approved it, only within its lifetime and to
\* the client it was issued to; denied, expired, pruned or lost it never does.
Grant == INSTANCE OneTimeGrant WITH
    Codes <- Devices,
    Parties <- Clients,
    status <- [d \in Devices |-> GrantStatus(d)],
    holder <- binding

PaysOutOnce == Grant!Spec

\* The two mappings agree: a user code leads to a grant of the store, and to
\* one that was issued with it.
IndexNeverDangles ==
    \A uc \in DOMAIN byUserCode :
        /\ byUserCode[uc] \in DOMAIN codes
        /\ codes[byUserCode[uc]].user_code = uc

\* A user can reach every grant that waits for a decision, unless another
\* grant was issued with the same user code: pruning and consuming drop no
\* other index entry.
OnlyCollisionOrphans ==
    \A d \in DOMAIN codes :
        codes[d].status = "pending" =>
          \/ codes[d].user_code \in DOMAIN byUserCode
               /\ byUserCode[codes[d].user_code] = d
          \/ \E e \in Devices \ {d} : label[e] = codes[d].user_code

\* What a user decided stays: no second visit to /device and no poll turns a
\* denial or an approval into another one, or into another user's.
DecisionIsFinal ==
    [][\A d \in DOMAIN codes \cap DOMAIN codes' :
         codes[d].status \in {"denied", "authorized"} =>
           \/ codes'[d] = codes[d]
           \/ codes'[d].status = "expired" /\ Expired(d)]_vars

\* A device gets a final answer, whatever the user does and however answers
\* and restarts fall: nobody polls for ever.
PollingEnds == \A d \in Devices : device[d] = "polling" ~> device[d] # "polling"
=============================================================================
