------------------------- MODULE OneTimeGrantProofs -------------------------
(***************************************************************************)
(* What follows from the promise of OneTimeGrant, and so holds of every    *)
(* store that implements it.                                               *)
(***************************************************************************)
EXTENDS OneTimeGrant, TLAPS

States == {"unused", "offered", "approved", "redeemed", "void"}

TypeOK ==
    /\ status \in [Codes -> States]
    /\ holder \in [Codes -> Parties \cup {None}]
    /\ paid \in [Codes -> Seq(Parties \cup {None})]

\* A code that was handed out belongs to a party; one that has paid out did so
\* once, to that party; any other has not.
PaidToHolderOnce ==
    \A c \in Codes :
        /\ status[c] # "unused" => holder[c] \in Parties
        /\ paid[c] = IF status[c] = "redeemed" THEN <<holder[c]>> ELSE << >>

\* No code changes hands, and one that was redeemed or has lapsed stays as it is.
HandedOutForGood(c) ==
    /\ status[c] # "unused" => holder'[c] = holder[c]
    /\ status[c] \in {"redeemed", "void"} =>
         status'[c] = status[c] /\ paid'[c] = paid[c]

NeverComesBack == [][\A c \in Codes : HandedOutForGood(c)]_vars

LEMMA PromiseInit == Init => TypeOK /\ PaidToHolderOnce
  BY DEF Init, TypeOK, PaidToHolderOnce, States

LEMMA PromiseStep ==
    TypeOK /\ PaidToHolderOnce /\ [Next]_vars => (TypeOK /\ PaidToHolderOnce)'
<1> SUFFICES ASSUME TypeOK, PaidToHolderOnce, [Next]_vars
             PROVE  TypeOK' /\ PaidToHolderOnce'
  OBVIOUS
<1> USE DEF TypeOK, States, PaidToHolderOnce
<1>1. ASSUME NEW c \in Codes, NEW p \in Parties, NEW s \in {"offered", "approved"},
             Offer(c, p, s)
      PROVE  TypeOK' /\ PaidToHolderOnce'
  BY <1>1 DEF Offer
<1>2. ASSUME NEW c \in Codes, Approve(c) PROVE TypeOK' /\ PaidToHolderOnce'
  BY <1>2 DEF Approve
<1>3. ASSUME NEW c \in Codes, Redeem(c) PROVE TypeOK' /\ PaidToHolderOnce'
  <2>1. paid[c] = << >> /\ holder[c] \in Parties
    BY <1>3 DEF Redeem
  <2>2. Append(paid[c], holder[c]) = <<holder[c]>>
    BY <2>1
  <2>3. Append(paid[c], holder[c]) \in Seq(Parties \cup {None})
    BY <2>1
  <2>4. /\ status' = [status EXCEPT ![c] = "redeemed"]
        /\ paid' = [paid EXCEPT ![c] = <<holder[c]>>]
        /\ holder' = holder
    BY <1>3, <2>2 DEF Redeem
  <2>5. TypeOK'
    BY <2>2, <2>3, <2>4
  <2>6. PaidToHolderOnce'
    BY <2>1, <2>4
  <2> QED
    BY <2>5, <2>6
<1>4. ASSUME NEW C \in SUBSET Codes, Lapse(C) PROVE TypeOK' /\ PaidToHolderOnce'
  BY <1>4 DEF Lapse
<1>5. CASE UNCHANGED vars
  BY <1>5 DEF vars
<1> QED
  BY <1>1, <1>2, <1>3, <1>4, <1>5 DEF Next

\* A code pays out at most once, and only to the party it was handed to.
THEOREM PaysOneParty == Spec => [](TypeOK /\ PaidToHolderOnce)
  BY PromiseInit, PromiseStep, PTL DEF Spec

\* A code never changes hands, and one that has lapsed or was redeemed never
\* pays out again.
THEOREM LapsedForGood == Spec => NeverComesBack
<1>1. TypeOK /\ [Next]_vars => [\A c \in Codes : HandedOutForGood(c)]_vars
  BY DEF TypeOK, Next, Offer, Approve, Redeem, Lapse, HandedOutForGood
<1>2. TypeOK /\ PaidToHolderOnce => TypeOK
  OBVIOUS
<1> QED
  BY <1>1, <1>2, PaysOneParty, PTL DEF Spec, NeverComesBack
=============================================================================
