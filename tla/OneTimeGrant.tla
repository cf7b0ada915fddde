---------------------------- MODULE OneTimeGrant ----------------------------
(***************************************************************************)
(* What the authorization-code and the device-code store both promise      *)
(* about a code they hand out: it is bound to one party when it is         *)
(* offered, it pays out at most once, to that party and only once the user *)
(* has approved, and a code that has lapsed never comes back.              *)
(***************************************************************************)
EXTENDS Sequences

CONSTANTS
    Codes,      \* the codes that can be handed out
    Parties,    \* who a code can be bound to
    None        \* no party yet

VARIABLES
    status,     \* status[c]: how far code c has come
    holder,     \* holder[c]: the party c is bound to
    paid        \* paid[c]: the parties c has paid out to, in order

vars == <<status, holder, paid>>

Init ==
    /\ status = [c \in Codes |-> "unused"]
    /\ holder = [c \in Codes |-> None]
    /\ paid = [c \in Codes |-> << >>]

\* A code is handed out, approved already or awaiting the user.
Offer(c, p, s) ==
    /\ status[c] = "unused"
    /\ status' = [status EXCEPT ![c] = s]
    /\ holder' = [holder EXCEPT ![c] = p]
    /\ UNCHANGED paid

Approve(c) ==
    /\ status[c] = "offered"
    /\ status' = [status EXCEPT ![c] = "approved"]
    /\ UNCHANGED <<holder, paid>>

Redeem(c) ==
    /\ status[c] = "approved"
    /\ status' = [status EXCEPT ![c] = "redeemed"]
    /\ paid' = [paid EXCEPT ![c] = Append(@, holder[c])]
    /\ UNCHANGED holder

\* Denial, expiry or loss of the process: any number of codes lapse at once.
Lapse(C) ==
    /\ \A c \in C : status[c] \in {"offered", "approved"}
    /\ status' = [c \in Codes |-> IF c \in C THEN "void" ELSE status[c]]
    /\ UNCHANGED <<holder, paid>>

Next ==
    \/ \E c \in Codes, p \in Parties, s \in {"offered", "approved"} : Offer(c, p, s)
    \/ \E c \in Codes : Approve(c) \/ Redeem(c)
    \/ \E C \in SUBSET Codes : Lapse(C)

Spec == Init /\ [][Next]_vars
=============================================================================
