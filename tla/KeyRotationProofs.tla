------------------------- MODULE KeyRotationProofs -------------------------
(***************************************************************************)
(* Proofs about KeyRotation for every finite set of rotating threads,      *)
(* every set of signing threads and every bound.                           *)
(***************************************************************************)
EXTENDS KeyRotation, FiniteSetTheorems, WellFoundedInduction, TLAPS

-----------------------------------------------------------------------------
(***************************************************************************)
(* What a start loads from the files.  LoadedPrevious goes through         *)
(* keys.json with a recursive function, so the lemmas about it are proved  *)
(* by induction on the position, as sets of numbers closed under           *)
(* successor.                                                              *)
(***************************************************************************)
\* Induction over the natural numbers, for a set of them.
LEMMA NumbersByInduction ==
    ASSUME NEW S \in SUBSET Nat, 0 \in S, \A n \in S : n + 1 \in S
    PROVE  S = Nat
<1> DEFINE T == Nat \ S
           R == {ss \in Nat \X Nat : ss[1] < ss[2]}
<1>1. IsWellFoundedOn(R, Nat)
  BY NatLessThanWellFounded DEF OpToRel
<1>2. SUFFICES ASSUME T # {} PROVE FALSE
  OBVIOUS
<1>3. PICK x \in T : \A y \in T : ~ (<<y, x>> \in R)
  BY <1>1, <1>2, WFMin
<1>4. x # 0 /\ x - 1 \in Nat /\ x - 1 < x /\ x \in Nat
  OBVIOUS
<1>5. <<x - 1, x>> \in R
  BY <1>4
<1>6. x - 1 \in S
  BY <1>3, <1>4, <1>5
<1>7. (x - 1) + 1 \in S /\ (x - 1) + 1 = x
  BY <1>4, <1>6
<1> QED
  BY <1>7

\* One step of _load_previous_keys: what f holds after the n-th kid of keys.json.
Backed(d, n) == d.meta[n] \in DOMAIN d.saved
EntryOf(d, n) == [kid |-> d.meta[n], pub |-> d.saved[d.meta[n]]]

LoadRule(d, f, n) ==
    IF n = 0 THEN << >>
    ELSE IF Backed(d, n) THEN Append(f[n - 1], EntryOf(d, n))
    ELSE f[n - 1]

LEMMA LoadingExists ==
    ASSUME NEW d, NEW N \in Nat
    PROVE  \E f : f = [n \in 0..N |-> LoadRule(d, f, n)]
<1> DEFINE Loads(m) == \E f : f = [n \in 0..m |-> LoadRule(d, f, n)]
           S == {m \in Nat : Loads(m)}
<1>1. 0 \in S
  <2>1. [n \in 0..0 |-> << >>] = [n \in 0..0 |-> LoadRule(d, [k \in 0..0 |-> << >>], n)]
    BY DEF LoadRule
  <2> QED
    BY <2>1
<1>2. ASSUME NEW m \in S PROVE m + 1 \in S
  <2>1. PICK f : f = [n \in 0..m |-> LoadRule(d, f, n)]
    OBVIOUS
  <2> DEFINE g == [n \in 0..(m + 1) |-> IF n \in 0..m THEN f[n] ELSE LoadRule(d, f, m + 1)]
  <2>2. \A n \in 0..m : g[n] = f[n] /\ f[n] = LoadRule(d, f, n)
    BY <2>1
  <2>3. g[m + 1] = LoadRule(d, f, m + 1)
    OBVIOUS
  <2>4. DOMAIN g = 0..(m + 1) /\ g = [n \in 0..(m + 1) |-> g[n]]
    OBVIOUS
  <2> HIDE DEF g
  <2>5. \A n \in 0..(m + 1) : LoadRule(d, g, n) = LoadRule(d, f, n)
    <3> SUFFICES ASSUME NEW n \in 0..(m + 1) PROVE LoadRule(d, g, n) = LoadRule(d, f, n)
      OBVIOUS
    <3>1. n = 0 \/ g[n - 1] = f[n - 1]
      BY <2>2
    <3> QED
      BY <3>1 DEF LoadRule
  <2>6. \A n \in 0..(m + 1) : g[n] = LoadRule(d, g, n)
    BY <2>2, <2>3, <2>5
  <2>7. g = [n \in 0..(m + 1) |-> LoadRule(d, g, n)]
    BY <2>4, <2>6
  <2> QED
    BY <2>7
<1> HIDE DEF Loads
<1>3. S = Nat
  BY <1>1, <1>2, NumbersByInduction
<1> QED
  BY <1>3 DEF Loads

\* What LoadedPrevious has collected after each kid of keys.json.
Loading(d) == CHOOSE f : f = [n \in 0..Len(d.meta) |-> LoadRule(d, f, n)]

LEMMA LoadingUnfolds ==
    ASSUME NEW d, Len(d.meta) \in Nat
    PROVE  /\ LoadedPrevious(d) = Loading(d)[Len(d.meta)]
           /\ Loading(d)[0] = << >>
           /\ \A n \in Nat : n < Len(d.meta) =>
                Loading(d)[n + 1] = IF Backed(d, n + 1)
                                    THEN Append(Loading(d)[n], EntryOf(d, n + 1))
                                    ELSE Loading(d)[n]
<1>1. Loading(d) = [n \in 0..Len(d.meta) |-> LoadRule(d, Loading(d), n)]
  <2>1. \E f : f = [n \in 0..Len(d.meta) |-> LoadRule(d, f, n)]
    BY LoadingExists
  <2> QED
    BY <2>1 DEF Loading
<1>2. LoadedPrevious(d) = Loading(d)[Len(d.meta)]
  BY DEF LoadedPrevious, Loading, LoadRule, Backed, EntryOf
<1>3. \A n \in 0..Len(d.meta) : Loading(d)[n] = LoadRule(d, Loading(d), n)
  BY <1>1
<1>4. Loading(d)[0] = << >>
  BY <1>3 DEF LoadRule
<1>5. ASSUME NEW n \in Nat, n < Len(d.meta)
      PROVE  Loading(d)[n + 1] = IF Backed(d, n + 1)
                                 THEN Append(Loading(d)[n], EntryOf(d, n + 1))
                                 ELSE Loading(d)[n]
  <2>1. n + 1 \in 0..Len(d.meta) /\ n + 1 # 0 /\ (n + 1) - 1 = n
    BY <1>5
  <2> QED
    BY <1>3, <2>1 DEF LoadRule
<1> QED
  BY <1>2, <1>4, <1>5

\* The kids of a sequence fall from its first entry to its last.
Falls(kids) == \A i, j \in DOMAIN kids : i < j => kids[i] > kids[j]
KidsFall(entries) == \A i, j \in DOMAIN entries : i < j => entries[i].kid > entries[j].kid

\* Each entry loaded comes from a kid of keys.json no earlier than its own place,
\* and from the file of that kid; if the kids fall, those loaded do.
LEMMA LoadedFromFiles ==
    ASSUME NEW d, d.meta \in Seq(Key), \A k \in DOMAIN d.saved : d.saved[k] \in Key
    PROVE  /\ LoadedPrevious(d) \in Seq(KeyInfo)
           /\ \A m \in DOMAIN LoadedPrevious(d) :
                \E i \in DOMAIN d.meta :
                    i >= m /\ Backed(d, i) /\ LoadedPrevious(d)[m] = EntryOf(d, i)
           /\ Falls(d.meta) => KidsFall(LoadedPrevious(d))
<1> DEFINE L == Loading(d)
           N == Len(d.meta)
           Good(s, n) ==
               /\ s \in Seq(KeyInfo)
               /\ Len(s) <= n
               /\ \A m \in 1..Len(s) : \E i \in m..n : Backed(d, i) /\ s[m] = EntryOf(d, i)
               /\ Falls(d.meta) =>
                    \A m1, m2 \in 1..Len(s) : m1 < m2 => s[m1].kid > s[m2].kid
           S == {n \in Nat : n <= N => Good(L[n], n)}
<1>1. N \in Nat /\ DOMAIN d.meta = 1..N
  OBVIOUS
<1>2. L[0] = << >>
  BY <1>1, LoadingUnfolds
<1>3. Good(<< >>, 0)
  <2>1. << >> \in Seq(KeyInfo) /\ Len(<< >>) = 0 /\ 1..0 = {}
    OBVIOUS
  <2> QED
    BY <2>1
<1> HIDE DEF Good
<1>z. 0 \in S
  BY <1>2, <1>3
<1>4. ASSUME NEW n \in S PROVE n + 1 \in S
  <2> SUFFICES ASSUME n + 1 <= N PROVE Good(L[n + 1], n + 1)
    OBVIOUS
  <2>1. n \in Nat /\ n < N /\ Good(L[n], n)
    BY <1>1
  <2> USE DEF Good
  <2>2. L[n + 1] = IF Backed(d, n + 1) THEN Append(L[n], EntryOf(d, n + 1)) ELSE L[n]
    BY <1>1, <2>1, LoadingUnfolds
  <2> DEFINE s == L[n]
             e == EntryOf(d, n + 1)
  <2> HIDE DEF L, N
  <2>3. CASE ~Backed(d, n + 1)
    BY <2>1, <2>2, <2>3
  <2>4. CASE Backed(d, n + 1)
    <3>1. e \in KeyInfo /\ e.kid = d.meta[n + 1]
      BY <1>1, <2>1, <2>4 DEF EntryOf, Backed, KeyInfo, N
    <3> HIDE DEF e
    <3>2. /\ s \in Seq(KeyInfo)
          /\ Len(s) \in Nat
          /\ Len(s) <= n
          /\ \A m \in 1..Len(s) : \E i \in m..n : Backed(d, i) /\ s[m] = EntryOf(d, i)
          /\ Falls(d.meta) =>
               \A m1, m2 \in 1..Len(s) : m1 < m2 => s[m1].kid > s[m2].kid
      <4>1. Good(s, n)
        BY <2>1
      <4> HIDE DEF s
      <4>2. s \in Seq(KeyInfo)
        BY <4>1
      <4> QED
        BY <4>1, <4>2
    <3> DEFINE t == Append(s, e)
    <3>3. /\ t \in Seq(KeyInfo)
          /\ Len(t) = Len(s) + 1
          /\ t[Len(s) + 1] = e
          /\ \A m \in 1..Len(s) : t[m] = s[m]
      BY <3>1, <3>2
    <3>4. L[n + 1] = t
      BY <2>2, <2>4 DEF e
    <3> HIDE DEF s, t, Good
    <3>5. \A m \in 1..Len(t) :
            \E i \in m..(n + 1) : Backed(d, i) /\ t[m] = EntryOf(d, i)
      <4> SUFFICES ASSUME NEW m \in 1..Len(t)
                   PROVE  \E i \in m..(n + 1) : Backed(d, i) /\ t[m] = EntryOf(d, i)
        OBVIOUS
      <4>1. CASE m = Len(s) + 1
        BY <2>1, <2>4, <3>2, <3>3, <4>1 DEF e
      <4>2. CASE m # Len(s) + 1
        <5>1. m \in 1..Len(s)
          BY <3>2, <3>3, <4>2
        <5>2. PICK i \in m..n : Backed(d, i) /\ s[m] = EntryOf(d, i)
          BY <3>2, <5>1
        <5> QED
          BY <2>1, <3>3, <5>1, <5>2
      <4> QED
        BY <4>1, <4>2
    <3>6. ASSUME Falls(d.meta), NEW m1 \in 1..Len(t), NEW m2 \in 1..Len(t), m1 < m2
          PROVE  t[m1].kid > t[m2].kid
      <4>1. m1 \in 1..Len(s)
        BY <3>2, <3>3, <3>6
      <4>2. CASE m2 \in 1..Len(s)
        BY <3>2, <3>3, <3>6, <4>1, <4>2
      <4>3. CASE m2 = Len(s) + 1
        <5>1. PICK i \in m1..n : s[m1] = EntryOf(d, i)
          BY <3>2, <4>1
        <5>2. i \in 1..N /\ n + 1 \in 1..N /\ i < n + 1
          BY <1>1, <2>1
        <5>3. d.meta[i] > d.meta[n + 1]
          BY <1>1, <3>6, <5>2 DEF Falls
        <5> QED
          BY <3>1, <3>3, <4>1, <4>3, <5>1, <5>3 DEF EntryOf
      <4> QED
        BY <3>2, <3>3, <4>2, <4>3
    <3> QED
      BY <2>1, <3>2, <3>3, <3>4, <3>5, <3>6 DEF Good
  <2> QED
    BY <2>3, <2>4
<1>5. S = Nat
  BY <1>z, <1>4, NumbersByInduction
<1>6. Good(L[N], N)
  BY <1>1, <1>5
<1> USE DEF Good
<1>7. LoadedPrevious(d) = L[N]
  BY <1>1, LoadingUnfolds
<1> DEFINE p == LoadedPrevious(d)
<1>8. p \in Seq(KeyInfo) /\ DOMAIN p = 1..Len(p)
  BY <1>6, <1>7
<1>9. ASSUME NEW m \in DOMAIN p
      PROVE  \E i \in DOMAIN d.meta : i >= m /\ Backed(d, i) /\ p[m] = EntryOf(d, i)
  <2>1. PICK i \in m..N : Backed(d, i) /\ p[m] = EntryOf(d, i)
    BY <1>6, <1>7, <1>8
  <2>2. i \in DOMAIN d.meta /\ i >= m
    BY <1>1, <1>8
  <2> QED
    BY <2>1, <2>2
<1>10. Falls(d.meta) => KidsFall(p)
  BY <1>6, <1>7, <1>8 DEF KidsFall
<1> QED
  BY <1>8, <1>9, <1>10

\* Files that agree on the kids of keys.json and their public keys load alike.
LEMMA LoadedAlike ==
    ASSUME NEW d, NEW e, d.meta \in Seq(Key), e.meta = d.meta,
           \A i \in DOMAIN d.meta :
               /\ Backed(e, i) <=> Backed(d, i)
               /\ Backed(d, i) => EntryOf(e, i) = EntryOf(d, i)
    PROVE  LoadedPrevious(e) = LoadedPrevious(d)
<1> DEFINE N == Len(d.meta)
           S == {n \in Nat : n <= N => Loading(e)[n] = Loading(d)[n]}
<1>1. N \in Nat /\ DOMAIN d.meta = 1..N
  OBVIOUS
<1>2. 0 \in S
  BY <1>1, LoadingUnfolds
<1>3. ASSUME NEW n \in S PROVE n + 1 \in S
  <2> SUFFICES ASSUME n + 1 <= N PROVE Loading(e)[n + 1] = Loading(d)[n + 1]
    OBVIOUS
  <2>1. n \in Nat /\ n < N /\ n + 1 \in DOMAIN d.meta /\ Loading(e)[n] = Loading(d)[n]
    BY <1>1
  <2>2. Loading(d)[n + 1] = IF Backed(d, n + 1)
                            THEN Append(Loading(d)[n], EntryOf(d, n + 1)) ELSE Loading(d)[n]
    BY <1>1, <2>1, LoadingUnfolds
  <2>3. Loading(e)[n + 1] = IF Backed(e, n + 1)
                            THEN Append(Loading(e)[n], EntryOf(e, n + 1)) ELSE Loading(e)[n]
    BY <1>1, <2>1, LoadingUnfolds
  <2> QED
    BY <2>1, <2>2, <2>3
<1>4. S = Nat
  BY <1>2, <1>3, NumbersByInduction
<1>5. Loading(e)[N] = Loading(d)[N]
  BY <1>1, <1>4
<1> QED
  BY <1>1, <1>5, LoadingUnfolds

\* When keys.json lists the kids of a sequence of entries, and each has its file,
\* the sequence itself is loaded.
LEMMA LoadedBack ==
    ASSUME NEW d, NEW p \in Seq(KeyInfo), d.meta \in Seq(Key), Len(d.meta) = Len(p),
           \A i \in 1..Len(p) : d.meta[i] = p[i].kid /\ Backed(d, i) /\ EntryOf(d, i) = p[i]
    PROVE  LoadedPrevious(d) = p
<1> DEFINE N == Len(p)
           L == Loading(d)
           S == {n \in Nat : n <= N =>
                   /\ L[n] \in Seq(KeyInfo)
                   /\ Len(L[n]) = n
                   /\ \A i \in 1..n : L[n][i] = p[i]}
<1>1. N \in Nat
  OBVIOUS
<1>2. 0 \in S
  <2>1. L[0] = << >>
    BY <1>1, LoadingUnfolds
  <2> HIDE DEF L
  <2>2. L[0] \in Seq(KeyInfo) /\ Len(L[0]) = 0 /\ 1..0 = {}
    BY <2>1
  <2> QED
    BY <2>2
<1>3. ASSUME NEW n \in S PROVE n + 1 \in S
  <2>1. CASE n + 1 <= N
    <3>1. n \in Nat /\ n < N /\ n + 1 \in 1..N
      BY <1>1, <2>1
    <3>2. L[n + 1] = Append(L[n], p[n + 1])
      BY <1>1, <3>1, LoadingUnfolds
    <3>3. /\ L[n] \in Seq(KeyInfo) /\ Len(L[n]) = n
          /\ \A i \in 1..n : L[n][i] = p[i]
      BY <3>1
    <3>4. p[n + 1] \in KeyInfo
      BY <3>1
    <3> DEFINE s == L[n]
               e == p[n + 1]
               t == Append(s, e)
    <3> HIDE DEF s, e
    <3>5. t \in Seq(KeyInfo) /\ Len(t) = n + 1 /\ t[n + 1] = e /\ \A i \in 1..n : t[i] = s[i]
      BY <3>1, <3>3, <3>4 DEF s, e
    <3>6. L[n + 1] = t
      BY <3>2 DEF s, e
    <3>7. \A i \in 1..(n + 1) : t[i] = p[i]
      BY <3>1, <3>3, <3>5 DEF s, e
    <3> HIDE DEF t, L, N
    <3> QED
      BY <3>1, <3>5, <3>6, <3>7
  <2>2. CASE ~(n + 1 <= N)
    BY <2>2
  <2> QED
    BY <2>1, <2>2
<1>4. S = Nat
  BY <1>2, <1>3, NumbersByInduction
<1>5. L[N] \in Seq(KeyInfo) /\ Len(L[N]) = N /\ \A i \in 1..N : L[N][i] = p[i]
  BY <1>1, <1>4
<1>6. LoadedPrevious(d) = L[N]
  BY LoadingUnfolds
<1>7. L[N] = p
  BY <1>5
<1> QED
  BY <1>6, <1>7

-----------------------------------------------------------------------------
(***************************************************************************)
(* The shape of a rotation: which steps lie before and after each file and *)
(* each field of memory is replaced.                                       *)
(***************************************************************************)
Early == {"save", "retire", "prune", "pop", "unlink", "private"}
AfterPrivate == {"public", "kid", "load_private", "load_public", "load_kid",
                 "certify", "load_cert", "metadata"}
AfterPublic == AfterPrivate \ {"public"}
AfterKid == AfterPublic \ {"kid"}
AfterLoadPrivate == AfterKid \ {"load_private"}
AfterLoadPublic == AfterLoadPrivate \ {"load_public"}
AfterLoadKid == AfterLoadPublic \ {"load_kid"}
AfterCertify == AfterLoadKid \ {"certify"}

Memory == [priv : Key, pub : Key, kid : Key, cert : Key, previous : Seq(KeyInfo)]
Rotation == [at : Steps \cup {"idle"}, old : Key \cup {None}, new : Key \cup {None},
             popped : Key \cup {None}, alone : BOOLEAN]

\* A process that is up has all its files; a rotation holds the keys its step
\* needs; and no more rotations are under way than keys can still be made.
Shape ==
    /\ ~Up => Quiet
    /\ Up => Complete /\ disk.cert # None
    /\ \A r \in Rotators :
         /\ Idle(r) => rot[r] = NotRotating
         /\ ~Idle(r) => rot[r].old # None
         /\ At(r, "unlink") => rot[r].popped # None
         /\ rot[r].at \in Early => rot[r].new = None
         /\ rot[r].at \in AfterPrivate => rot[r].new # None
    /\ made + Cardinality(KeysDue) <= MaxKeys

LEMMA KeysAreNumbers == Key \subseteq Nat /\ None \notin Key /\ MaxKeys \in Nat
  BY BoundsAssumption, NoneAssumption DEF Key

LEMMA UpIsTyped == ASSUME TypeOK PROVE Up <=> mem \in Memory
<1>1. mem \in Memory => mem # NoMemory
  <2> SUFFICES ASSUME mem \in Memory, mem = NoMemory PROVE FALSE
    OBVIOUS
  <2>1. mem.kid \in Key /\ mem.kid = None
    BY DEF Memory, NoMemory
  <2> QED
    BY <2>1, KeysAreNumbers
<1> QED
  BY <1>1 DEF TypeOK, Up, Memory

\* One rotation goes on to a step; the others stay where they are.
MovesTo(r, s) ==
    /\ rot' \in [Rotators -> Rotation]
    /\ rot'[r].at = s
    /\ rot'[r].old = rot[r].old
    /\ rot'[r].alone = rot[r].alone
    /\ \A q \in Rotators : q # r => rot'[q] = rot[q]

LEMMA ThenMoves ==
    ASSUME TypeOK, NEW r \in Rotators, NEW s \in Steps, Then(r, s)
    PROVE  MovesTo(r, s) /\ rot'[r].new = rot[r].new /\ rot'[r].popped = rot[r].popped
<1>1. rot \in [Rotators -> Rotation] /\ rot[r] \in Rotation
  BY DEF TypeOK, Rotation
<1>2. rot' = [rot EXCEPT ![r] = [rot[r] EXCEPT !.at = s]]
  BY DEF Then
<1>3. rot'[r] = [rot[r] EXCEPT !.at = s] /\ \A q \in Rotators : q # r => rot'[q] = rot[q]
  BY <1>1, <1>2
<1>4. [rot[r] EXCEPT !.at = s] \in Rotation
  BY <1>1 DEF Rotation
<1>5. rot' \in [Rotators -> Rotation]
  BY <1>1, <1>2, <1>4
<1>6. /\ rot'[r].at = s /\ rot'[r].old = rot[r].old /\ rot'[r].alone = rot[r].alone
      /\ rot'[r].new = rot[r].new /\ rot'[r].popped = rot[r].popped
  BY <1>1, <1>3 DEF Rotation
<1> QED
  BY <1>3, <1>5, <1>6 DEF MovesTo

LEMMA PopMoves ==
    ASSUME TypeOK, NEW r \in Rotators, NEW k \in Key,
           rot' = [rot EXCEPT ![r].at = "unlink", ![r].popped = k]
    PROVE  MovesTo(r, "unlink") /\ rot'[r].new = rot[r].new /\ rot'[r].popped = k
<1>1. rot \in [Rotators -> Rotation] /\ rot[r] \in Rotation
  BY DEF TypeOK, Rotation
<1>2. rot' = [rot EXCEPT ![r] = [rot[r] EXCEPT !.at = "unlink", !.popped = k]]
  BY <1>1
<1>3. /\ rot'[r] = [rot[r] EXCEPT !.at = "unlink", !.popped = k]
      /\ \A q \in Rotators : q # r => rot'[q] = rot[q]
  BY <1>1, <1>2
<1>4. [rot[r] EXCEPT !.at = "unlink", !.popped = k] \in Rotation
  BY <1>1 DEF Rotation, Steps
<1>5. rot' \in [Rotators -> Rotation]
  BY <1>1, <1>2, <1>4
<1>6. /\ rot'[r].at = "unlink" /\ rot'[r].old = rot[r].old /\ rot'[r].alone = rot[r].alone
      /\ rot'[r].new = rot[r].new /\ rot'[r].popped = k
  BY <1>1, <1>3 DEF Rotation
<1> QED
  BY <1>3, <1>5, <1>6 DEF MovesTo

LEMMA PrivateMoves ==
    ASSUME TypeOK, NEW r \in Rotators, NEW k \in Key,
           rot' = [rot EXCEPT ![r].at = "public", ![r].new = k]
    PROVE  MovesTo(r, "public") /\ rot'[r].new = k
<1>1. rot \in [Rotators -> Rotation] /\ rot[r] \in Rotation
  BY DEF TypeOK, Rotation
<1>2. rot' = [rot EXCEPT ![r] = [rot[r] EXCEPT !.at = "public", !.new = k]]
  BY <1>1
<1>3. /\ rot'[r] = [rot[r] EXCEPT !.at = "public", !.new = k]
      /\ \A q \in Rotators : q # r => rot'[q] = rot[q]
  BY <1>1, <1>2
<1>4. [rot[r] EXCEPT !.at = "public", !.new = k] \in Rotation
  BY <1>1 DEF Rotation, Steps
<1>5. rot' \in [Rotators -> Rotation]
  BY <1>1, <1>2, <1>4
<1>6. /\ rot'[r].at = "public" /\ rot'[r].old = rot[r].old /\ rot'[r].alone = rot[r].alone
      /\ rot'[r].new = k
  BY <1>1, <1>3 DEF Rotation
<1> QED
  BY <1>3, <1>5, <1>6 DEF MovesTo

LEMMA EndedMoves ==
    ASSUME TypeOK, NEW r \in Rotators, Ended(r)
    PROVE  /\ rot' \in [Rotators -> Rotation]
           /\ rot'[r] = NotRotating
           /\ \A q \in Rotators : q # r => rot'[q] = rot[q]
<1>1. NotRotating \in Rotation
  BY DEF NotRotating, Rotation
<1> QED
  BY <1>1 DEF TypeOK, Rotation, Ended

\* How many keys are still due after one rotation has moved.
LEMMA KeysDueFinite == IsFiniteSet(KeysDue) /\ Cardinality(KeysDue) \in Nat
  BY RotatorsAssumption, FS_Subset, FS_CardinalityType DEF KeysDue

LEMMA KeysDueFewer ==
    ASSUME KeysDue' \subseteq KeysDue
    PROVE  Cardinality(KeysDue') \in Nat /\ Cardinality(KeysDue') <= Cardinality(KeysDue)
  BY KeysDueFinite, FS_Subset, FS_CardinalityType

-----------------------------------------------------------------------------
(***************************************************************************)
(* The type invariant and Shape, in three parts.                           *)
(***************************************************************************)
FilesTyped ==
    /\ DOMAIN disk = DOMAIN NoFiles
    /\ {disk.priv, disk.pub, disk.kid, disk.cert} \subseteq Key \cup {None}
    /\ disk.meta \in Seq(Key)
    /\ DOMAIN disk.saved \subseteq Key
    /\ \A k \in DOMAIN disk.saved : disk.saved[k] \in Key

MemoryTyped ==
    Up => mem \in Memory /\ Complete /\ disk.cert # None

RotationsTyped ==
    /\ rot \in [Rotators -> Rotation]
    /\ \A r \in Rotators :
         /\ Idle(r) => rot[r] = NotRotating
         /\ ~Idle(r) => rot[r].old # None
         /\ At(r, "unlink") => rot[r].popped # None
         /\ rot[r].at \in Early => rot[r].new = None
         /\ rot[r].at \in AfterPrivate => rot[r].new # None
    /\ ~Up => Quiet
    /\ made + Cardinality(KeysDue) <= MaxKeys

RestTyped ==
    /\ signing \in [Signers -> Key \cup {None}]
    /\ tokens \subseteq [kid : Key, key : Key]
    /\ made \in 0..MaxKeys
    /\ failed \in 0..MaxFailures
    /\ overlaps \in 0..MaxOverlaps

LEMMA TypedParts ==
    TypeOK /\ Shape <=> FilesTyped /\ MemoryTyped /\ RotationsTyped /\ RestTyped
  BY DEF TypeOK, Shape, FilesTyped, MemoryTyped, RotationsTyped, RestTyped, Memory,
     Rotation

\* A rotation that goes on while the process is up keeps the shape.
LEMMA MoveKeepsShape ==
    ASSUME TypeOK, Shape, NEW r \in Rotators, NEW s \in Steps,
           ~Idle(r), MovesTo(r, s), Up', made' = made,
           s \in Early => rot[r].new = None,
           s \in AfterPrivate => rot[r].new # None,
           s = "unlink" => rot'[r].popped # None,
           rot'[r].new = rot[r].new
    PROVE  RotationsTyped'
<1>1. rot' \in [Rotators -> Rotation]
  BY DEF MovesTo
<1>2. ~Idle(r)' /\ \A q \in Rotators : q # r => rot'[q] = rot[q]
  BY DEF MovesTo, Idle, Steps
<1>3. ASSUME NEW q \in Rotators
      PROVE  /\ Idle(q)' => rot'[q] = NotRotating
             /\ ~Idle(q)' => rot'[q].old # None
             /\ At(q, "unlink")' => rot'[q].popped # None
             /\ rot'[q].at \in Early => rot'[q].new = None
             /\ rot'[q].at \in AfterPrivate => rot'[q].new # None
  <2>1. CASE q = r
    BY <1>2, <2>1 DEF MovesTo, Shape, At
  <2>2. CASE q # r
    BY <1>2, <2>2 DEF Shape, Idle, At
  <2> QED
    BY <2>1, <2>2
<1>4. KeysDue' = KeysDue
  BY <1>2 DEF KeysDue, Idle
<1> QED
  BY <1>1, <1>3, <1>4 DEF RotationsTyped, Shape

\* A rotation that ends keeps the shape.
LEMMA EndKeepsShape ==
    ASSUME TypeOK, Shape, NEW r \in Rotators, Ended(r), Up', made' = made
    PROVE  RotationsTyped'
<1>1. /\ rot' \in [Rotators -> Rotation]
      /\ rot'[r] = NotRotating
      /\ \A q \in Rotators : q # r => rot'[q] = rot[q]
  BY EndedMoves
<1>2. ASSUME NEW q \in Rotators
      PROVE  /\ Idle(q)' => rot'[q] = NotRotating
             /\ ~Idle(q)' => rot'[q].old # None
             /\ At(q, "unlink")' => rot'[q].popped # None
             /\ rot'[q].at \in Early => rot'[q].new = None
             /\ rot'[q].at \in AfterPrivate => rot'[q].new # None
  BY <1>1 DEF Shape, Idle, At, NotRotating, Early, AfterPrivate
<1>3. KeysDue' \subseteq KeysDue
  BY <1>1 DEF KeysDue, Idle, NotRotating
<1>4. made' + Cardinality(KeysDue') <= MaxKeys
  BY <1>3, KeysDueFewer, KeysDueFinite, KeysAreNumbers DEF Shape, TypeOK
<1> QED
  BY <1>1, <1>2, <1>4 DEF RotationsTyped

LEMMA SameRotations ==
    ASSUME TypeOK, Shape, rot' = rot, made' = made, Up => Up'
    PROVE  RotationsTyped'
<1>1. KeysDue' = KeysDue
  BY DEF KeysDue, Idle
<1> QED
  BY <1>1 DEF RotationsTyped, TypeOK, Shape, Rotation, Quiet, Idle, At

LEMMA BeginKeepsShape ==
    ASSUME TypeOK, Shape, NEW r \in Rotators, RotateBegin(r)
    PROVE  RotationsTyped'
<1> DEFINE b == [NotRotating EXCEPT !.at = "save", !.old = mem.kid, !.alone = Quiet]
<1>u. Up /\ mem \in Memory /\ mem.kid \in Key /\ mem.kid # None /\ mem' = mem
  BY UpIsTyped, KeysAreNumbers DEF RotateBegin, Memory
<1>1. b \in Rotation
  BY <1>u DEF NotRotating, Rotation, Steps, Quiet
<1>2. b.at = "save" /\ b.old = mem.kid /\ b.new = None
  BY DEF NotRotating
<1>3. /\ \A q \in Rotators : rot'[q] = IF q = r THEN b
                                       ELSE IF Idle(q) THEN rot[q]
                                       ELSE [rot[q] EXCEPT !.alone = FALSE]
      /\ rot' = [q \in Rotators |-> rot'[q]]
  BY DEF RotateBegin
<1> HIDE DEF b
<1>4. rot'[r] = b
  BY <1>3
<1>5. ASSUME NEW q \in Rotators, q # r
      PROVE  /\ rot'[q] \in Rotation
             /\ rot'[q].at = rot[q].at /\ rot'[q].old = rot[q].old
             /\ rot'[q].new = rot[q].new /\ rot'[q].popped = rot[q].popped
             /\ Idle(q) => rot'[q] = rot[q]
  <2>1. rot[q] \in Rotation
    BY DEF TypeOK, Rotation
  <2>2. rot'[q] = IF Idle(q) THEN rot[q] ELSE [rot[q] EXCEPT !.alone = FALSE]
    BY <1>3, <1>5
  <2> QED
    BY <2>1, <2>2 DEF Rotation
<1>6. rot' \in [Rotators -> Rotation]
  BY <1>1, <1>3, <1>4, <1>5
<1>7. ASSUME NEW q \in Rotators
      PROVE  /\ Idle(q)' => rot'[q] = NotRotating
             /\ ~Idle(q)' => rot'[q].old # None
             /\ At(q, "unlink")' => rot'[q].popped # None
             /\ rot'[q].at \in Early => rot'[q].new = None
             /\ rot'[q].at \in AfterPrivate => rot'[q].new # None
  <2>1. CASE q = r
    BY <1>2, <1>4, <1>u, <2>1 DEF Idle, At, Early, AfterPrivate
  <2>2. CASE q # r
    BY <1>5, <2>2 DEF Shape, Idle, At
  <2> QED
    BY <2>1, <2>2
<1>8. KeysDue' = KeysDue \cup {r} /\ r \notin KeysDue
  <2>1. Idle(r)
    BY DEF RotateBegin
  <2> QED
    BY <2>1, <1>2, <1>4, <1>5 DEF KeysDue, Idle
<1>9. Cardinality(KeysDue') = Cardinality(KeysDue) + 1
  BY <1>8, KeysDueFinite, FS_AddElement
<1>10. made' + Cardinality(KeysDue') <= MaxKeys
  <2>1. made + Cardinality(KeysDue) < MaxKeys /\ made' = made /\ made \in Nat
    BY KeysAreNumbers DEF RotateBegin, TypeOK
  <2> QED
    BY <2>1, <1>9, KeysDueFinite, KeysAreNumbers
<1> QED
  BY <1>6, <1>7, <1>10, <1>u DEF RotationsTyped, Up

LEMMA WritePrivateKeepsShape ==
    ASSUME TypeOK, Shape, NEW r \in Rotators, WritePrivate(r)
    PROVE  RotationsTyped' /\ made' \in 0..MaxKeys /\ made' \in Key
<1>1. r \in KeysDue
  BY DEF WritePrivate, KeysDue, Shape, At, Idle, Early
<1>2. Cardinality(KeysDue) > 0
  <2>1. Cardinality(KeysDue) # 0
    BY <1>1, KeysDueFinite, FS_EmptySet
  <2> QED
    BY <2>1, KeysDueFinite
<1>3. made' = made + 1 /\ made \in Nat /\ made + Cardinality(KeysDue) <= MaxKeys
  BY KeysAreNumbers DEF WritePrivate, TypeOK, Shape
<1>4. made' \in 0..MaxKeys /\ made' \in Key
  BY <1>2, <1>3, KeysDueFinite, KeysAreNumbers DEF Key
<1>5. MovesTo(r, "public") /\ rot'[r].new = made'
  BY <1>4, PrivateMoves DEF WritePrivate
<1>6. ~Idle(r)' /\ \A q \in Rotators : q # r => rot'[q] = rot[q]
  BY <1>5 DEF MovesTo, Idle
<1>7. KeysDue' = KeysDue \ {r}
  BY <1>4, <1>5, <1>6, KeysAreNumbers DEF KeysDue, Idle
<1>8. Cardinality(KeysDue') = Cardinality(KeysDue) - 1
  BY <1>1, <1>7, KeysDueFinite, FS_RemoveElement
<1>9. made' + Cardinality(KeysDue') <= MaxKeys
  BY <1>3, <1>8, KeysDueFinite, KeysAreNumbers
<1>10. ASSUME NEW q \in Rotators
       PROVE  /\ Idle(q)' => rot'[q] = NotRotating
              /\ ~Idle(q)' => rot'[q].old # None
              /\ At(q, "unlink")' => rot'[q].popped # None
              /\ rot'[q].at \in Early => rot'[q].new = None
              /\ rot'[q].at \in AfterPrivate => rot'[q].new # None
  <2>1. CASE q = r
    <3>1. rot[r].old # None /\ rot'[r].at = "public" /\ rot'[r].old = rot[r].old
      BY <1>5 DEF WritePrivate, Shape, At, Idle, MovesTo
    <3> QED
      BY <1>4, <1>5, <2>1, <3>1, KeysAreNumbers DEF Idle, At, Early
  <2>2. CASE q # r
    BY <1>6, <2>2 DEF Shape, Idle, At
  <2> QED
    BY <2>1, <2>2
<1>11. Up'
  BY DEF WritePrivate, Up, Shape, Quiet, Idle, At
<1> QED
  BY <1>4, <1>5, <1>9, <1>10, <1>11 DEF RotationsTyped, MovesTo

-----------------------------------------------------------------------------
(***************************************************************************)
(* Effects of the steps on the files and on memory.                        *)
(***************************************************************************)
\* Replacing one file leaves the others.
LEMMA OneFile ==
    ASSUME TypeOK
    PROVE  /\ \A v : LET d == [disk EXCEPT !.priv = v]
                     IN  /\ DOMAIN d = DOMAIN NoFiles
                         /\ d.priv = v /\ d.pub = disk.pub /\ d.kid = disk.kid
                         /\ d.cert = disk.cert /\ d.meta = disk.meta /\ d.saved = disk.saved
           /\ \A v : LET d == [disk EXCEPT !.pub = v]
                     IN  /\ DOMAIN d = DOMAIN NoFiles
                         /\ d.priv = disk.priv /\ d.pub = v /\ d.kid = disk.kid
                         /\ d.cert = disk.cert /\ d.meta = disk.meta /\ d.saved = disk.saved
           /\ \A v : LET d == [disk EXCEPT !.kid = v]
                     IN  /\ DOMAIN d = DOMAIN NoFiles
                         /\ d.priv = disk.priv /\ d.pub = disk.pub /\ d.kid = v
                         /\ d.cert = disk.cert /\ d.meta = disk.meta /\ d.saved = disk.saved
           /\ \A v : LET d == [disk EXCEPT !.cert = v]
                     IN  /\ DOMAIN d = DOMAIN NoFiles
                         /\ d.priv = disk.priv /\ d.pub = disk.pub /\ d.kid = disk.kid
                         /\ d.cert = v /\ d.meta = disk.meta /\ d.saved = disk.saved
           /\ \A v : LET d == [disk EXCEPT !.meta = v]
                     IN  /\ DOMAIN d = DOMAIN NoFiles
                         /\ d.priv = disk.priv /\ d.pub = disk.pub /\ d.kid = disk.kid
                         /\ d.cert = disk.cert /\ d.meta = v /\ d.saved = disk.saved
           /\ \A v : LET d == [disk EXCEPT !.saved = v]
                     IN  /\ DOMAIN d = DOMAIN NoFiles
                         /\ d.priv = disk.priv /\ d.pub = disk.pub /\ d.kid = disk.kid
                         /\ d.cert = disk.cert /\ d.meta = disk.meta /\ d.saved = v
  BY DEF TypeOK, NoFiles

\* The first entries of a sequence and its last one.
LEMMA FrontAndLast ==
    ASSUME NEW S, NEW s \in Seq(S), s # << >>
    PROVE  /\ Len(s) \in Nat \ {0}
           /\ Front(s) \in Seq(S) /\ Len(Front(s)) = Len(s) - 1
           /\ \A i \in 1..(Len(s) - 1) : Front(s)[i] = s[i]
           /\ Last(s) = s[Len(s)] /\ Last(s) \in S
<1>1. Len(s) \in Nat \ {0} /\ Len(s) \in 1..Len(s)
  OBVIOUS
<1>2. Front(s) = SubSeq(s, 1, Len(s) - 1)
  BY DEF Front
<1>3. /\ Front(s) \in Seq(S) /\ Len(Front(s)) = Len(s) - 1
      /\ \A i \in 1..(Len(s) - 1) : Front(s)[i] = s[i]
  <2>1. Len(SubSeq(s, 1, Len(s) - 1)) = Len(s) - 1
    BY <1>1
  <2>2. \A i \in 1..(Len(s) - 1) : SubSeq(s, 1, Len(s) - 1)[i] = s[i]
    BY <1>1
  <2>3. SubSeq(s, 1, Len(s) - 1) \in Seq(S)
    BY <1>1
  <2> QED
    BY <1>2, <2>1, <2>2, <2>3
<1>4. Last(s) = s[Len(s)]
  BY DEF Last
<1>5. Last(s) \in S
  BY <1>1, <1>4
<1> QED
  BY <1>1, <1>3, <1>4, <1>5

LEMMA InFront ==
    ASSUME NEW S, NEW e \in S, NEW s \in Seq(S)
    PROVE  /\ <<e>> \o s \in Seq(S)
           /\ Len(<<e>> \o s) = Len(s) + 1
           /\ (<<e>> \o s)[1] = e
           /\ \A i \in 1..Len(s) : (<<e>> \o s)[i + 1] = s[i]
           /\ \A i \in 2..(Len(s) + 1) : (<<e>> \o s)[i] = s[i - 1]
  OBVIOUS

LEMMA UnlinkKeeps ==
    ASSUME NEW f, NEW k
    PROVE  /\ DOMAIN Restrict(f, DOMAIN f \ {k}) = DOMAIN f \ {k}
           /\ \A x \in DOMAIN f \ {k} : Restrict(f, DOMAIN f \ {k})[x] = f[x]
  BY DEF Restrict

\* What a start loads, field by field.
LEMMA LoadedFields ==
    ASSUME NEW d
    PROVE  /\ Loaded(d).priv = d.priv /\ Loaded(d).pub = d.pub /\ Loaded(d).kid = d.kid
           /\ Loaded(d).cert = d.cert /\ Loaded(d).previous = LoadedPrevious(d)
  BY DEF Loaded

LEMMA StartTyped ==
    ASSUME TypeOK, Start
    PROVE  /\ FilesTyped' /\ mem' = Loaded(disk') /\ mem' \in Memory /\ Up'
           /\ disk'.cert = (IF disk.cert = None THEN disk.pub ELSE disk.cert)
           /\ disk'.priv = disk.priv /\ disk'.pub = disk.pub /\ disk'.kid = disk.kid
           /\ disk'.meta = disk.meta /\ disk'.saved = disk.saved
           /\ Complete' /\ disk'.cert # None
<1>1. disk' = [disk EXCEPT !.cert = IF disk.cert = None THEN disk.pub ELSE disk.cert]
  BY DEF Start
<1>2. /\ DOMAIN disk' = DOMAIN NoFiles
      /\ disk'.cert = (IF disk.cert = None THEN disk.pub ELSE disk.cert)
      /\ disk'.priv = disk.priv /\ disk'.pub = disk.pub /\ disk'.kid = disk.kid
      /\ disk'.meta = disk.meta /\ disk'.saved = disk.saved
  BY <1>1, OneFile
<1>3. FilesTyped' /\ Complete' /\ disk'.cert # None
  BY <1>2 DEF Start, Complete, TypeOK, FilesTyped
<1>4. LoadedPrevious(disk') \in Seq(KeyInfo)
  BY <1>3, LoadedFromFiles DEF FilesTyped
<1>5. {disk'.priv, disk'.pub, disk'.kid, disk'.cert} \subseteq Key
  BY <1>3 DEF Complete, FilesTyped
<1>6. mem' = Loaded(disk')
  BY DEF Start
<1>7. mem' \in Memory
  BY <1>4, <1>5, <1>6 DEF Loaded, Memory
<1>8. mem' # NoMemory
  <2>1. mem'.kid \in Key
    BY <1>7 DEF Memory
  <2> QED
    BY <2>1, KeysAreNumbers DEF NoMemory
<1> QED
  BY <1>2, <1>3, <1>6, <1>7, <1>8 DEF Up

LEMMA StartFreshTyped ==
    ASSUME TypeOK, NEW n \in 0..4, StartFresh(n)
    PROVE  /\ FilesTyped' /\ made' = made + 1 /\ made' \in Key
           /\ disk'.priv = (IF n >= 1 THEN made' ELSE disk.priv)
           /\ disk'.pub = (IF n >= 2 THEN made' ELSE disk.pub)
           /\ disk'.kid = (IF n >= 3 THEN made' ELSE disk.kid)
           /\ disk'.cert = (IF n >= 4 THEN made' ELSE disk.cert)
           /\ disk'.meta = disk.meta /\ disk'.saved = disk.saved
           /\ n < 4 => mem' = mem
           /\ n = 4 => mem' = Loaded(disk') /\ mem' \in Memory /\ Up'
<1>1. /\ disk' = [disk EXCEPT
           !.priv = IF n >= 1 THEN made' ELSE @,
           !.pub  = IF n >= 2 THEN made' ELSE @,
           !.kid  = IF n >= 3 THEN made' ELSE @,
           !.cert = IF n >= 4 THEN made' ELSE @]
      /\ made' = made + 1
      /\ mem' = IF n >= 4 THEN Loaded(disk') ELSE mem
  BY DEF StartFresh
<1>2. made' \in Key
  BY <1>1, KeysAreNumbers DEF StartFresh, TypeOK, Key
<1>3. /\ DOMAIN disk' = DOMAIN NoFiles
      /\ disk'.priv = (IF n >= 1 THEN made' ELSE disk.priv)
      /\ disk'.pub = (IF n >= 2 THEN made' ELSE disk.pub)
      /\ disk'.kid = (IF n >= 3 THEN made' ELSE disk.kid)
      /\ disk'.cert = (IF n >= 4 THEN made' ELSE disk.cert)
      /\ disk'.meta = disk.meta /\ disk'.saved = disk.saved
  BY <1>1 DEF TypeOK, NoFiles
<1>4. FilesTyped'
  BY <1>2, <1>3 DEF TypeOK, FilesTyped
<1>5. ASSUME n = 4 PROVE mem' = Loaded(disk') /\ mem' \in Memory /\ Up'
  <2>1. LoadedPrevious(disk') \in Seq(KeyInfo)
    BY <1>4, LoadedFromFiles DEF FilesTyped
  <2>2. {disk'.priv, disk'.pub, disk'.kid, disk'.cert} \subseteq Key /\ mem' = Loaded(disk')
    BY <1>1, <1>2, <1>3, <1>5
  <2>3. mem' \in Memory
    BY <2>1, <2>2 DEF Loaded, Memory
  <2>4. mem'.kid \in Key
    BY <2>3 DEF Memory
  <2> QED
    BY <2>2, <2>3, <2>4, KeysAreNumbers DEF NoMemory, Up
<1> QED
  BY <1>1, <1>2, <1>3, <1>4, <1>5

\* Fields of memory, and what replacing one leaves.
LEMMA OneField ==
    ASSUME mem \in Memory
    PROVE  /\ \A v : LET m == [mem EXCEPT !.priv = v]
                     IN  /\ m.priv = v /\ m.pub = mem.pub /\ m.kid = mem.kid
                         /\ m.cert = mem.cert /\ m.previous = mem.previous
                         /\ v \in Key => m \in Memory
           /\ \A v : LET m == [mem EXCEPT !.pub = v]
                     IN  /\ m.priv = mem.priv /\ m.pub = v /\ m.kid = mem.kid
                         /\ m.cert = mem.cert /\ m.previous = mem.previous
                         /\ v \in Key => m \in Memory
           /\ \A v : LET m == [mem EXCEPT !.kid = v]
                     IN  /\ m.priv = mem.priv /\ m.pub = mem.pub /\ m.kid = v
                         /\ m.cert = mem.cert /\ m.previous = mem.previous
                         /\ v \in Key => m \in Memory
           /\ \A v : LET m == [mem EXCEPT !.cert = v]
                     IN  /\ m.priv = mem.priv /\ m.pub = mem.pub /\ m.kid = mem.kid
                         /\ m.cert = v /\ m.previous = mem.previous
                         /\ v \in Key => m \in Memory
           /\ \A v : LET m == [mem EXCEPT !.previous = v]
                     IN  /\ m.priv = mem.priv /\ m.pub = mem.pub /\ m.kid = mem.kid
                         /\ m.cert = mem.cert /\ m.previous = v
                         /\ v \in Seq(KeyInfo) => m \in Memory
  BY DEF Memory

LEMMA MemoryIsUp == ASSUME mem' \in Memory PROVE Up'
<1>1. mem'.kid \in Key
  BY DEF Memory
<1> QED
  BY <1>1, KeysAreNumbers DEF Up, NoMemory

-----------------------------------------------------------------------------
(***************************************************************************)
(* The type invariant, action by action.                                   *)
(***************************************************************************)
LEMMA RunningIsUp ==
    ASSUME TypeOK, Shape, NEW r \in Rotators, ~Idle(r)
    PROVE  /\ Up /\ mem \in Memory /\ Complete /\ disk.cert # None
           /\ {disk.priv, disk.pub, disk.kid, disk.cert} \subseteq Key
           /\ rot[r].old \in Key
<1>1. Up /\ Complete /\ disk.cert # None
  BY DEF Shape, Quiet
<1>2. rot[r].old \in Key
  BY DEF TypeOK, Shape
<1> QED
  BY <1>1, <1>2, UpIsTyped DEF TypeOK, Complete

\* The steps that replace a file.
LEMMA SavePreviousTyped ==
    ASSUME TypeOK, Shape, NEW r \in Rotators, SavePrevious(r)
    PROVE  /\ FilesTyped' /\ MemoryTyped' /\ RotationsTyped'
           /\ MovesTo(r, "retire") /\ rot'[r].popped = rot[r].popped
           /\ disk'.priv = disk.priv /\ disk'.pub = disk.pub /\ disk'.kid = disk.kid
           /\ disk'.cert = disk.cert /\ disk'.meta = disk.meta
           /\ DOMAIN disk'.saved = DOMAIN disk.saved \cup {rot[r].old}
           /\ disk'.saved[rot[r].old] = mem.pub
           /\ \A k \in DOMAIN disk.saved : k # rot[r].old => disk'.saved[k] = disk.saved[k]
<1>1. ~Idle(r)
  BY DEF SavePrevious, At, Idle
<1> DEFINE s == [k \in DOMAIN disk.saved \cup {rot[r].old} |->
                   IF k = rot[r].old THEN mem.pub ELSE disk.saved[k]]
<1>2. disk' = [disk EXCEPT !.saved = s] /\ mem' = mem /\ made' = made /\ Then(r, "retire")
  BY DEF SavePrevious
<1>3. /\ DOMAIN s = DOMAIN disk.saved \cup {rot[r].old}
      /\ s[rot[r].old] = mem.pub
      /\ \A k \in DOMAIN disk.saved : k # rot[r].old => s[k] = disk.saved[k]
  OBVIOUS
<1> HIDE DEF s
<1>4. /\ DOMAIN disk' = DOMAIN NoFiles
      /\ disk'.priv = disk.priv /\ disk'.pub = disk.pub /\ disk'.kid = disk.kid
      /\ disk'.cert = disk.cert /\ disk'.meta = disk.meta /\ disk'.saved = s
  BY <1>2, OneFile
<1>5. mem.pub \in Key /\ rot[r].old \in Key /\ Up
  BY <1>1, RunningIsUp DEF Memory
<1>6. FilesTyped'
  BY <1>3, <1>4, <1>5 DEF FilesTyped, TypeOK
<1>7. MemoryTyped'
  BY <1>1, <1>2, <1>4, RunningIsUp DEF MemoryTyped, Complete
<1>8. MovesTo(r, "retire") /\ rot'[r].new = rot[r].new /\ rot'[r].popped = rot[r].popped
  BY <1>2, ThenMoves DEF Steps
<1>9. rot[r].new = None /\ Up'
  BY <1>2, <1>5 DEF SavePrevious, Shape, At, Early, Up
<1>10. RotationsTyped'
  BY <1>1, <1>2, <1>8, <1>9, MoveKeepsShape DEF Steps, AfterPrivate
<1> QED
  BY <1>3, <1>4, <1>6, <1>7, <1>8, <1>10

LEMMA UnlinkTyped ==
    ASSUME TypeOK, Shape, NEW r \in Rotators, Unlink(r)
    PROVE  /\ FilesTyped' /\ MemoryTyped' /\ RotationsTyped'
           /\ MovesTo(r, "prune") /\ rot'[r].popped = rot[r].popped
           /\ disk'.priv = disk.priv /\ disk'.pub = disk.pub /\ disk'.kid = disk.kid
           /\ disk'.cert = disk.cert /\ disk'.meta = disk.meta
           /\ DOMAIN disk'.saved = DOMAIN disk.saved \ {rot[r].popped}
           /\ \A k \in DOMAIN disk.saved \ {rot[r].popped} : disk'.saved[k] = disk.saved[k]
<1>1. ~Idle(r)
  BY DEF Unlink, At, Idle
<1> DEFINE s == Restrict(disk.saved, DOMAIN disk.saved \ {rot[r].popped})
<1>2. disk' = [disk EXCEPT !.saved = s] /\ mem' = mem /\ made' = made /\ Then(r, "prune")
  BY DEF Unlink
<1>3. /\ DOMAIN s = DOMAIN disk.saved \ {rot[r].popped}
      /\ \A k \in DOMAIN disk.saved \ {rot[r].popped} : s[k] = disk.saved[k]
  BY UnlinkKeeps
<1> HIDE DEF s
<1>4. /\ DOMAIN disk' = DOMAIN NoFiles
      /\ disk'.priv = disk.priv /\ disk'.pub = disk.pub /\ disk'.kid = disk.kid
      /\ disk'.cert = disk.cert /\ disk'.meta = disk.meta /\ disk'.saved = s
  BY <1>2, OneFile
<1>6. FilesTyped'
  BY <1>3, <1>4 DEF FilesTyped, TypeOK
<1>7. MemoryTyped'
  BY <1>1, <1>2, <1>4, RunningIsUp DEF MemoryTyped, Complete
<1>8. MovesTo(r, "prune") /\ rot'[r].new = rot[r].new /\ rot'[r].popped = rot[r].popped
  BY <1>2, ThenMoves DEF Steps
<1>9. rot[r].new = None /\ Up'
  BY <1>1, <1>2, RunningIsUp DEF Unlink, Shape, At, Early, Up
<1>10. RotationsTyped'
  BY <1>1, <1>2, <1>8, <1>9, MoveKeepsShape DEF Steps, AfterPrivate
<1> QED
  BY <1>3, <1>4, <1>6, <1>7, <1>8, <1>10

LEMMA WritePrivateTyped ==
    ASSUME TypeOK, Shape, NEW r \in Rotators, WritePrivate(r)
    PROVE  /\ FilesTyped' /\ MemoryTyped' /\ RotationsTyped'
           /\ MovesTo(r, "public") /\ rot'[r].new = made' /\ made' = made + 1 /\ made' \in Key
           /\ disk'.priv = made' /\ disk'.pub = disk.pub /\ disk'.kid = disk.kid
           /\ disk'.cert = disk.cert /\ disk'.meta = disk.meta /\ disk'.saved = disk.saved
<1>1. ~Idle(r)
  BY DEF WritePrivate, At, Idle
<1>2. made' \in Key /\ RotationsTyped'
  BY WritePrivateKeepsShape
<1>3. disk' = [disk EXCEPT !.priv = made'] /\ mem' = mem /\ made' = made + 1
  BY DEF WritePrivate
<1>4. /\ DOMAIN disk' = DOMAIN NoFiles
      /\ disk'.priv = made' /\ disk'.pub = disk.pub /\ disk'.kid = disk.kid
      /\ disk'.cert = disk.cert /\ disk'.meta = disk.meta /\ disk'.saved = disk.saved
  BY <1>3, OneFile
<1>5. FilesTyped'
  BY <1>2, <1>4 DEF FilesTyped, TypeOK
<1>6. MemoryTyped'
  BY <1>1, <1>2, <1>3, <1>4, RunningIsUp, KeysAreNumbers DEF MemoryTyped, Complete
<1>7. MovesTo(r, "public") /\ rot'[r].new = made'
  BY <1>2, PrivateMoves DEF WritePrivate
<1> QED
  BY <1>2, <1>3, <1>4, <1>5, <1>6, <1>7

LEMMA WritePublicTyped ==
    ASSUME TypeOK, Shape, NEW r \in Rotators, WritePublic(r)
    PROVE  /\ FilesTyped' /\ MemoryTyped' /\ RotationsTyped'
           /\ MovesTo(r, "kid") /\ rot'[r].new = rot[r].new
           /\ disk'.priv = disk.priv /\ disk'.pub = rot[r].new /\ disk'.kid = disk.kid
           /\ disk'.cert = disk.cert /\ disk'.meta = disk.meta /\ disk'.saved = disk.saved
<1>1. ~Idle(r) /\ rot[r].new # None
  BY DEF WritePublic, At, Idle, Shape, AfterPrivate
<1>2. rot[r].new \in Key
  BY <1>1 DEF TypeOK
<1>3. disk' = [disk EXCEPT !.pub = rot[r].new] /\ mem' = mem /\ made' = made /\ Then(r, "kid")
  BY DEF WritePublic
<1>4. /\ DOMAIN disk' = DOMAIN NoFiles
      /\ disk'.priv = disk.priv /\ disk'.pub = rot[r].new /\ disk'.kid = disk.kid
      /\ disk'.cert = disk.cert /\ disk'.meta = disk.meta /\ disk'.saved = disk.saved
  BY <1>3, OneFile
<1>5. FilesTyped'
  BY <1>2, <1>4 DEF FilesTyped, TypeOK
<1>6. MemoryTyped' /\ Up'
  BY <1>1, <1>2, <1>3, <1>4, RunningIsUp, KeysAreNumbers DEF MemoryTyped, Complete, Up
<1>7. MovesTo(r, "kid") /\ rot'[r].new = rot[r].new
  BY <1>3, ThenMoves DEF Steps
<1>8. RotationsTyped'
  BY <1>1, <1>3, <1>6, <1>7, MoveKeepsShape DEF Steps, Early
<1> QED
  BY <1>4, <1>5, <1>6, <1>7, <1>8

LEMMA WriteKidTyped ==
    ASSUME TypeOK, Shape, NEW r \in Rotators, WriteKid(r)
    PROVE  /\ FilesTyped' /\ MemoryTyped' /\ RotationsTyped'
           /\ MovesTo(r, "load_private") /\ rot'[r].new = rot[r].new
           /\ disk'.priv = disk.priv /\ disk'.pub = disk.pub /\ disk'.kid = rot[r].new
           /\ disk'.cert = disk.cert /\ disk'.meta = disk.meta /\ disk'.saved = disk.saved
<1>1. ~Idle(r) /\ rot[r].new # None
  BY DEF WriteKid, At, Idle, Shape, AfterPrivate
<1>2. rot[r].new \in Key
  BY <1>1 DEF TypeOK
<1>3. /\ disk' = [disk EXCEPT !.kid = rot[r].new] /\ mem' = mem /\ made' = made
      /\ Then(r, "load_private")
  BY DEF WriteKid
<1>4. /\ DOMAIN disk' = DOMAIN NoFiles
      /\ disk'.priv = disk.priv /\ disk'.pub = disk.pub /\ disk'.kid = rot[r].new
      /\ disk'.cert = disk.cert /\ disk'.meta = disk.meta /\ disk'.saved = disk.saved
  BY <1>3, OneFile
<1>5. FilesTyped'
  BY <1>2, <1>4 DEF FilesTyped, TypeOK
<1>6. MemoryTyped' /\ Up'
  BY <1>1, <1>2, <1>3, <1>4, RunningIsUp, KeysAreNumbers DEF MemoryTyped, Complete, Up
<1>7. MovesTo(r, "load_private") /\ rot'[r].new = rot[r].new
  BY <1>3, ThenMoves DEF Steps
<1>8. RotationsTyped'
  BY <1>1, <1>3, <1>6, <1>7, MoveKeepsShape DEF Steps, Early
<1> QED
  BY <1>4, <1>5, <1>6, <1>7, <1>8

LEMMA CertifyTyped ==
    ASSUME TypeOK, Shape, NEW r \in Rotators, Certify(r)
    PROVE  /\ FilesTyped' /\ MemoryTyped' /\ RotationsTyped'
           /\ MovesTo(r, "load_cert") /\ rot'[r].new = rot[r].new
           /\ disk'.priv = disk.priv /\ disk'.pub = disk.pub /\ disk'.kid = disk.kid
           /\ disk'.cert = mem.pub /\ disk'.meta = disk.meta /\ disk'.saved = disk.saved
<1>1. ~Idle(r) /\ rot[r].new # None
  BY DEF Certify, At, Idle, Shape, AfterPrivate
<1>2. mem.pub \in Key
  BY <1>1, RunningIsUp DEF Memory
<1>3. disk' = [disk EXCEPT !.cert = mem.pub] /\ mem' = mem /\ made' = made /\ Then(r, "load_cert")
  BY DEF Certify
<1>4. /\ DOMAIN disk' = DOMAIN NoFiles
      /\ disk'.priv = disk.priv /\ disk'.pub = disk.pub /\ disk'.kid = disk.kid
      /\ disk'.cert = mem.pub /\ disk'.meta = disk.meta /\ disk'.saved = disk.saved
  BY <1>3, OneFile
<1>5. FilesTyped'
  BY <1>2, <1>4 DEF FilesTyped, TypeOK
<1>6. MemoryTyped' /\ Up'
  BY <1>1, <1>2, <1>3, <1>4, RunningIsUp, KeysAreNumbers DEF MemoryTyped, Complete, Up
<1>7. MovesTo(r, "load_cert") /\ rot'[r].new = rot[r].new
  BY <1>3, ThenMoves DEF Steps
<1>8. RotationsTyped'
  BY <1>1, <1>3, <1>6, <1>7, MoveKeepsShape DEF Steps, Early
<1> QED
  BY <1>4, <1>5, <1>6, <1>7, <1>8

LEMMA SaveMetadataTyped ==
    ASSUME TypeOK, Shape, NEW r \in Rotators, SaveMetadata(r)
    PROVE  /\ FilesTyped' /\ MemoryTyped' /\ RotationsTyped'
           /\ disk'.priv = disk.priv /\ disk'.pub = disk.pub /\ disk'.kid = disk.kid
           /\ disk'.cert = disk.cert /\ disk'.saved = disk.saved
           /\ Len(disk'.meta) = Len(mem.previous)
           /\ \A i \in DOMAIN mem.previous : disk'.meta[i] = mem.previous[i].kid
<1>1. ~Idle(r)
  BY DEF SaveMetadata, At, Idle
<1> DEFINE s == [i \in DOMAIN mem.previous |-> mem.previous[i].kid]
<1>2. mem.previous \in Seq(KeyInfo)
  BY <1>1, RunningIsUp DEF Memory
<1>3. ASSUME NEW i \in DOMAIN mem.previous PROVE mem.previous[i].kid \in Key
  <2>1. mem.previous[i] \in KeyInfo
    BY <1>2, <1>3
  <2> QED
    BY <2>1 DEF KeyInfo
<1>4. s \in Seq(Key) /\ Len(s) = Len(mem.previous)
  BY <1>2, <1>3
<1>5. \A i \in DOMAIN mem.previous : s[i] = mem.previous[i].kid
  OBVIOUS
<1>6. disk' = [disk EXCEPT !.meta = s] /\ mem' = mem /\ made' = made /\ Ended(r)
  BY DEF SaveMetadata
<1> HIDE DEF s
<1>7. /\ DOMAIN disk' = DOMAIN NoFiles
      /\ disk'.priv = disk.priv /\ disk'.pub = disk.pub /\ disk'.kid = disk.kid
      /\ disk'.cert = disk.cert /\ disk'.meta = s /\ disk'.saved = disk.saved
  BY <1>6, OneFile
<1>8. FilesTyped'
  BY <1>4, <1>7 DEF FilesTyped, TypeOK
<1>9. MemoryTyped' /\ Up'
  BY <1>1, <1>6, <1>7, RunningIsUp DEF MemoryTyped, Complete, Up
<1>10. RotationsTyped'
  BY <1>6, <1>9, EndKeepsShape
<1> QED
  BY <1>4, <1>5, <1>7, <1>8, <1>9, <1>10

\* The steps that replace a field of memory.
LEMMA RetireTyped ==
    ASSUME TypeOK, Shape, NEW r \in Rotators, Retire(r)
    PROVE  /\ FilesTyped' /\ MemoryTyped' /\ RotationsTyped' /\ disk' = disk
           /\ MovesTo(r, "prune") /\ rot'[r].popped = rot[r].popped
           /\ mem'.priv = mem.priv /\ mem'.pub = mem.pub /\ mem'.kid = mem.kid
           /\ mem'.cert = mem.cert
           /\ mem'.previous = <<[kid |-> rot[r].old, pub |-> mem.pub]>> \o mem.previous
<1> DEFINE e == [kid |-> rot[r].old, pub |-> mem.pub]
<1>1. ~Idle(r)
  BY DEF Retire, At, Idle
<1>2. /\ mem \in Memory /\ Complete /\ disk.cert # None /\ e \in KeyInfo
      /\ mem.previous \in Seq(KeyInfo)
  BY <1>1, RunningIsUp DEF Memory, KeyInfo
<1>3. /\ mem' = [mem EXCEPT !.previous = <<e>> \o mem.previous]
      /\ disk' = disk /\ made' = made /\ Then(r, "prune")
  BY DEF Retire
<1> HIDE DEF e
<1>4. <<e>> \o mem.previous \in Seq(KeyInfo)
  BY <1>2, InFront
<1>5. /\ mem' \in Memory
      /\ mem'.priv = mem.priv /\ mem'.pub = mem.pub /\ mem'.kid = mem.kid
      /\ mem'.cert = mem.cert /\ mem'.previous = <<e>> \o mem.previous
  BY <1>2, <1>3, <1>4, OneField
<1>6. MovesTo(r, "prune") /\ rot'[r].new = rot[r].new /\ rot'[r].popped = rot[r].popped
  BY <1>3, ThenMoves DEF Steps
<1>7. rot[r].new = None
  BY DEF Retire, Shape, At, Early
<1>8. RotationsTyped'
  BY <1>1, <1>3, <1>5, <1>6, <1>7, MemoryIsUp, MoveKeepsShape DEF Steps, AfterPrivate
<1>9. FilesTyped' /\ MemoryTyped'
  BY <1>2, <1>3, <1>5 DEF FilesTyped, TypeOK, MemoryTyped, Complete
<1> QED
  BY <1>3, <1>5, <1>6, <1>8, <1>9 DEF e

LEMMA PopTyped ==
    ASSUME TypeOK, Shape, NEW r \in Rotators, Pop(r)
    PROVE  /\ FilesTyped' /\ MemoryTyped' /\ RotationsTyped' /\ disk' = disk
           /\ MovesTo(r, "unlink") /\ rot'[r].popped = Last(mem.previous).kid
           /\ Last(mem.previous).kid \in Key
           /\ mem'.priv = mem.priv /\ mem'.pub = mem.pub /\ mem'.kid = mem.kid
           /\ mem'.cert = mem.cert /\ mem'.previous = Front(mem.previous)
<1>1. ~Idle(r)
  BY DEF Pop, At, Idle
<1>2. /\ mem \in Memory /\ Complete /\ disk.cert # None
      /\ mem.previous \in Seq(KeyInfo) /\ mem.previous # << >>
  BY <1>1, RunningIsUp DEF Memory, Pop
<1>3. /\ mem' = [mem EXCEPT !.previous = Front(mem.previous)]
      /\ rot' = [rot EXCEPT ![r].at = "unlink", ![r].popped = Last(mem.previous).kid]
      /\ disk' = disk /\ made' = made
  BY DEF Pop
<1>4. Front(mem.previous) \in Seq(KeyInfo) /\ Last(mem.previous) \in KeyInfo
  BY <1>2, FrontAndLast
<1>5. /\ mem' \in Memory
      /\ mem'.priv = mem.priv /\ mem'.pub = mem.pub /\ mem'.kid = mem.kid
      /\ mem'.cert = mem.cert /\ mem'.previous = Front(mem.previous)
  BY <1>2, <1>3, <1>4, OneField
<1>6. Last(mem.previous).kid \in Key
  BY <1>4 DEF KeyInfo
<1>7. /\ MovesTo(r, "unlink") /\ rot'[r].new = rot[r].new
      /\ rot'[r].popped = Last(mem.previous).kid
  BY <1>3, <1>6, PopMoves
<1>8. rot[r].new = None
  BY DEF Pop, Shape, At, Early
<1>9. RotationsTyped'
  BY <1>1, <1>3, <1>5, <1>6, <1>7, <1>8, MemoryIsUp, MoveKeepsShape, KeysAreNumbers
  DEF Steps, AfterPrivate
<1>10. FilesTyped' /\ MemoryTyped'
  BY <1>2, <1>3, <1>5 DEF FilesTyped, TypeOK, MemoryTyped, Complete
<1> QED
  BY <1>3, <1>5, <1>6, <1>7, <1>9, <1>10

LEMMA LoadPrivateTyped ==
    ASSUME TypeOK, Shape, NEW r \in Rotators, LoadPrivate(r)
    PROVE  /\ FilesTyped' /\ MemoryTyped' /\ RotationsTyped' /\ disk' = disk
           /\ MovesTo(r, "load_public") /\ rot'[r].new = rot[r].new
           /\ mem'.priv = disk.priv
           /\ mem'.pub = mem.pub
           /\ mem'.kid = mem.kid
           /\ mem'.cert = mem.cert
           /\ mem'.previous = mem.previous
<1>1. ~Idle(r) /\ rot[r].new # None
  BY DEF LoadPrivate, At, Idle, Shape, AfterPrivate
<1>2. mem \in Memory /\ Complete /\ disk.cert # None /\ disk.priv \in Key
  BY <1>1, RunningIsUp
<1>3. mem' = [mem EXCEPT !.priv = disk.priv] /\ disk' = disk /\ made' = made /\ Then(r, "load_public")
  BY DEF LoadPrivate
<1>4. /\ mem' \in Memory
      /\ mem'.priv = disk.priv
      /\ mem'.pub = mem.pub
      /\ mem'.kid = mem.kid
      /\ mem'.cert = mem.cert
      /\ mem'.previous = mem.previous
  BY <1>2, <1>3, OneField
<1>5. MovesTo(r, "load_public") /\ rot'[r].new = rot[r].new
  BY <1>3, ThenMoves DEF Steps
<1>6. RotationsTyped'
  BY <1>1, <1>3, <1>4, <1>5, MemoryIsUp, MoveKeepsShape DEF Steps, Early
<1>7. FilesTyped' /\ MemoryTyped'
  BY <1>2, <1>3, <1>4 DEF FilesTyped, TypeOK, MemoryTyped, Complete
<1> QED
  BY <1>3, <1>4, <1>5, <1>6, <1>7

LEMMA LoadPublicTyped ==
    ASSUME TypeOK, Shape, NEW r \in Rotators, LoadPublic(r)
    PROVE  /\ FilesTyped' /\ MemoryTyped' /\ RotationsTyped' /\ disk' = disk
           /\ MovesTo(r, "load_kid") /\ rot'[r].new = rot[r].new
           /\ mem'.priv = mem.priv
           /\ mem'.pub = disk.pub
           /\ mem'.kid = mem.kid
           /\ mem'.cert = mem.cert
           /\ mem'.previous = mem.previous
<1>1. ~Idle(r) /\ rot[r].new # None
  BY DEF LoadPublic, At, Idle, Shape, AfterPrivate
<1>2. mem \in Memory /\ Complete /\ disk.cert # None /\ disk.pub \in Key
  BY <1>1, RunningIsUp
<1>3. mem' = [mem EXCEPT !.pub = disk.pub] /\ disk' = disk /\ made' = made /\ Then(r, "load_kid")
  BY DEF LoadPublic
<1>4. /\ mem' \in Memory
      /\ mem'.priv = mem.priv
      /\ mem'.pub = disk.pub
      /\ mem'.kid = mem.kid
      /\ mem'.cert = mem.cert
      /\ mem'.previous = mem.previous
  BY <1>2, <1>3, OneField
<1>5. MovesTo(r, "load_kid") /\ rot'[r].new = rot[r].new
  BY <1>3, ThenMoves DEF Steps
<1>6. RotationsTyped'
  BY <1>1, <1>3, <1>4, <1>5, MemoryIsUp, MoveKeepsShape DEF Steps, Early
<1>7. FilesTyped' /\ MemoryTyped'
  BY <1>2, <1>3, <1>4 DEF FilesTyped, TypeOK, MemoryTyped, Complete
<1> QED
  BY <1>3, <1>4, <1>5, <1>6, <1>7

LEMMA LoadKidTyped ==
    ASSUME TypeOK, Shape, NEW r \in Rotators, LoadKid(r)
    PROVE  /\ FilesTyped' /\ MemoryTyped' /\ RotationsTyped' /\ disk' = disk
           /\ MovesTo(r, "certify") /\ rot'[r].new = rot[r].new
           /\ mem'.priv = mem.priv
           /\ mem'.pub = mem.pub
           /\ mem'.kid = rot[r].new
           /\ mem'.cert = mem.cert
           /\ mem'.previous = mem.previous
<1>1. ~Idle(r) /\ rot[r].new # None
  BY DEF LoadKid, At, Idle, Shape, AfterPrivate
<1>k. rot[r].new \in Key
  BY <1>1 DEF TypeOK
<1>2. mem \in Memory /\ Complete /\ disk.cert # None /\ rot[r].new \in Key
  BY <1>1, <1>k, RunningIsUp
<1>3. mem' = [mem EXCEPT !.kid = rot[r].new] /\ disk' = disk /\ made' = made /\ Then(r, "certify")
  BY DEF LoadKid
<1>4. /\ mem' \in Memory
      /\ mem'.priv = mem.priv
      /\ mem'.pub = mem.pub
      /\ mem'.kid = rot[r].new
      /\ mem'.cert = mem.cert
      /\ mem'.previous = mem.previous
  BY <1>2, <1>3, OneField
<1>5. MovesTo(r, "certify") /\ rot'[r].new = rot[r].new
  BY <1>3, ThenMoves DEF Steps
<1>6. RotationsTyped'
  BY <1>1, <1>3, <1>4, <1>5, MemoryIsUp, MoveKeepsShape DEF Steps, Early
<1>7. FilesTyped' /\ MemoryTyped'
  BY <1>2, <1>3, <1>4 DEF FilesTyped, TypeOK, MemoryTyped, Complete
<1> QED
  BY <1>3, <1>4, <1>5, <1>6, <1>7

LEMMA LoadCertificateTyped ==
    ASSUME TypeOK, Shape, NEW r \in Rotators, LoadCertificate(r)
    PROVE  /\ FilesTyped' /\ MemoryTyped' /\ RotationsTyped' /\ disk' = disk
           /\ MovesTo(r, "metadata") /\ rot'[r].new = rot[r].new
           /\ mem'.priv = mem.priv
           /\ mem'.pub = mem.pub
           /\ mem'.kid = mem.kid
           /\ mem'.cert = disk.cert
           /\ mem'.previous = mem.previous
<1>1. ~Idle(r) /\ rot[r].new # None
  BY DEF LoadCertificate, At, Idle, Shape, AfterPrivate
<1>2. mem \in Memory /\ Complete /\ disk.cert # None /\ disk.cert \in Key
  BY <1>1, RunningIsUp
<1>3. mem' = [mem EXCEPT !.cert = disk.cert] /\ disk' = disk /\ made' = made /\ Then(r, "metadata")
  BY DEF LoadCertificate
<1>4. /\ mem' \in Memory
      /\ mem'.priv = mem.priv
      /\ mem'.pub = mem.pub
      /\ mem'.kid = mem.kid
      /\ mem'.cert = disk.cert
      /\ mem'.previous = mem.previous
  BY <1>2, <1>3, OneField
<1>5. MovesTo(r, "metadata") /\ rot'[r].new = rot[r].new
  BY <1>3, ThenMoves DEF Steps
<1>6. RotationsTyped'
  BY <1>1, <1>3, <1>4, <1>5, MemoryIsUp, MoveKeepsShape DEF Steps, Early
<1>7. FilesTyped' /\ MemoryTyped'
  BY <1>2, <1>3, <1>4 DEF FilesTyped, TypeOK, MemoryTyped, Complete
<1> QED
  BY <1>3, <1>4, <1>5, <1>6, <1>7

\* The steps that leave the files and memory alone.
LEMMA PruneTyped ==
    ASSUME TypeOK, Shape, NEW r \in Rotators, Prune(r)
    PROVE  /\ RotationsTyped' /\ UNCHANGED <<mem, disk>>
           /\ MovesTo(r, IF TooMany THEN "pop" ELSE "private")
           /\ rot'[r].popped = rot[r].popped
<1> DEFINE s == IF TooMany THEN "pop" ELSE "private"
<1>1. ~Idle(r) /\ rot[r].new = None
  BY DEF Prune, At, Idle, Shape, Early
<1>2. s \in Steps /\ s \notin AfterPrivate /\ s # "unlink"
  BY DEF Steps, AfterPrivate
<1>3. UNCHANGED <<mem, disk, made>> /\ Then(r, s)
  BY DEF Prune
<1> HIDE DEF s
<1>4. MovesTo(r, s) /\ rot'[r].new = rot[r].new /\ rot'[r].popped = rot[r].popped
  BY <1>2, <1>3, ThenMoves
<1>5. Up'
  BY <1>1, <1>3, RunningIsUp DEF Up
<1>6. RotationsTyped'
  BY <1>1, <1>2, <1>3, <1>4, <1>5, MoveKeepsShape
<1> QED
  BY <1>3, <1>4, <1>6 DEF s

LEMMA SameFilesTyped ==
    ASSUME TypeOK, Shape, UNCHANGED <<mem, disk>>
    PROVE  FilesTyped' /\ MemoryTyped'
  BY UpIsTyped DEF TypeOK, Shape, FilesTyped, MemoryTyped, Complete, Up

LEMMA FailTyped ==
    ASSUME TypeOK, Shape, NEW r \in Rotators, Fail(r)
    PROVE  RotationsTyped' /\ UNCHANGED <<mem, disk>>
<1>1. ~Idle(r)
  BY DEF Fail, MayFail, FileSteps, Steps, Idle
<1>2. Up'
  BY <1>1, RunningIsUp DEF Fail, Up
<1> QED
  BY <1>2, EndKeepsShape DEF Fail

LEMMA CrashTyped ==
    ASSUME TypeOK, Shape, Crash
    PROVE  /\ FilesTyped' /\ MemoryTyped' /\ RotationsTyped' /\ disk' = disk /\ ~Up'
           /\ \A r \in Rotators : rot'[r] = NotRotating
<1>1. mem' = NoMemory /\ disk' = disk /\ made' = made /\ rot' = [r \in Rotators |-> NotRotating]
  BY DEF Crash
<1>2. \A r \in Rotators : rot'[r] = NotRotating
  BY <1>1
<1>3. NotRotating \in Rotation /\ NotRotating.at = "idle" /\ NotRotating.new = None
  BY DEF NotRotating, Rotation
<1>4. KeysDue' \subseteq KeysDue /\ Quiet'
  BY <1>2, <1>3 DEF KeysDue, Idle, Quiet
<1>5. made' + Cardinality(KeysDue') <= MaxKeys
  BY <1>1, <1>4, KeysDueFewer, KeysDueFinite, KeysAreNumbers DEF Shape, TypeOK
<1>6. RotationsTyped'
  BY <1>1, <1>2, <1>3, <1>4, <1>5 DEF RotationsTyped, Idle, At, Early, AfterPrivate
<1> QED
  BY <1>1, <1>2, <1>6 DEF FilesTyped, TypeOK, MemoryTyped, Up

LEMMA InitTyped == Init => TypeOK /\ Shape
<1> SUFFICES ASSUME Init PROVE TypeOK /\ Shape
  OBVIOUS
<1>1. FilesTyped /\ MemoryTyped
  BY DEF Init, FilesTyped, MemoryTyped, NoFiles, Up
<1>2. KeysDue = {}
  BY DEF Init, KeysDue, Idle, NotRotating
<1>3. made + Cardinality(KeysDue) <= MaxKeys
  BY <1>2, FS_EmptySet, KeysAreNumbers DEF Init
<1>4. RotationsTyped
  BY <1>3 DEF Init, RotationsTyped, NotRotating, Rotation, Idle, At, Early, AfterPrivate,
     Quiet
<1>5. RestTyped
  BY KeysAreNumbers, BoundsAssumption DEF Init, RestTyped
<1> QED
  BY <1>1, <1>4, <1>5, TypedParts

LEMMA TypeStep == TypeOK /\ Shape /\ [Next]_vars => TypeOK' /\ Shape'
<1> SUFFICES ASSUME TypeOK, Shape, [Next]_vars PROVE TypeOK' /\ Shape'
  OBVIOUS
<1> USE DEF RestTyped
<1>i. FilesTyped /\ MemoryTyped /\ RotationsTyped /\ RestTyped
  BY TypedParts
<1>1. ASSUME Start PROVE FilesTyped' /\ MemoryTyped' /\ RotationsTyped' /\ RestTyped'
  <2>1. RotationsTyped'
    BY <1>1, StartTyped, SameRotations DEF Start
  <2> QED
    BY <1>1, <1>i, <2>1, StartTyped DEF Start, MemoryTyped
<1>2. ASSUME NEW n \in 0..4, StartFresh(n)
      PROVE  FilesTyped' /\ MemoryTyped' /\ RotationsTyped' /\ RestTyped'
  <2>1. Quiet /\ rot' = rot /\ made < MaxKeys /\ made \in Nat /\ ~Up
    BY <1>2, KeysAreNumbers DEF StartFresh, Shape, TypeOK
  <2>2. KeysDue' = {} /\ Quiet'
    BY <2>1 DEF KeysDue, Quiet, Idle
  <2>3. Cardinality(KeysDue') = 0 /\ made' = made + 1
    BY <1>2, <2>2, FS_EmptySet DEF StartFresh
  <2>4. made' + Cardinality(KeysDue') <= MaxKeys /\ made' \in 0..MaxKeys
    BY <2>1, <2>3, KeysAreNumbers
  <2>5. RotationsTyped'
    BY <1>i, <2>1, <2>2, <2>4 DEF RotationsTyped, Idle, At
  <2>6. MemoryTyped'
    BY <1>2, <2>1, StartFreshTyped, KeysAreNumbers DEF MemoryTyped, Complete, Up
  <2> QED
    BY <1>2, <1>i, <2>4, <2>5, <2>6, StartFreshTyped DEF StartFresh
<1>3. ASSUME Crash PROVE FilesTyped' /\ MemoryTyped' /\ RotationsTyped' /\ RestTyped'
  BY <1>3, <1>i, CrashTyped DEF Crash
<1>4. ASSUME NEW r \in Rotators, Rotate(r)
      PROVE  FilesTyped' /\ MemoryTyped' /\ RotationsTyped' /\ RestTyped'
  <2>1. CASE WritePrivate(r)
    BY <1>i, <2>1, WritePrivateTyped, WritePrivateKeepsShape DEF WritePrivate
  <2>2. CASE RotateBegin(r)
    <3>1. RestTyped'
      BY <1>i, <2>2, BoundsAssumption DEF RotateBegin
    <3> QED
      BY <2>2, <3>1, BeginKeepsShape, SameFilesTyped DEF RotateBegin
  <2>3. CASE Fail(r)
    <3>1. RestTyped'
      BY <1>i, <2>3, BoundsAssumption DEF Fail
    <3> QED
      BY <2>3, <3>1, FailTyped, SameFilesTyped
  <2>4. CASE Prune(r)
    BY <1>i, <2>4, PruneTyped, SameFilesTyped DEF Prune
  <2>5. CASE SavePrevious(r)
    BY <1>i, <2>5, SavePreviousTyped DEF SavePrevious
  <2>6. CASE Retire(r)
    BY <1>i, <2>6, RetireTyped DEF Retire
  <2>7. CASE Pop(r)
    BY <1>i, <2>7, PopTyped DEF Pop
  <2>8. CASE Unlink(r)
    BY <1>i, <2>8, UnlinkTyped DEF Unlink
  <2>9. CASE WritePublic(r)
    BY <1>i, <2>9, WritePublicTyped DEF WritePublic
  <2>10. CASE WriteKid(r)
    BY <1>i, <2>10, WriteKidTyped DEF WriteKid
  <2>11. CASE LoadPrivate(r)
    BY <1>i, <2>11, LoadPrivateTyped DEF LoadPrivate
  <2>12. CASE LoadPublic(r)
    BY <1>i, <2>12, LoadPublicTyped DEF LoadPublic
  <2>13. CASE LoadKid(r)
    BY <1>i, <2>13, LoadKidTyped DEF LoadKid
  <2>14. CASE Certify(r)
    BY <1>i, <2>14, CertifyTyped DEF Certify
  <2>15. CASE LoadCertificate(r)
    BY <1>i, <2>15, LoadCertificateTyped DEF LoadCertificate
  <2>16. CASE SaveMetadata(r)
    BY <1>i, <2>16, SaveMetadataTyped DEF SaveMetadata
  <2> QED
    BY <1>4, <2>1, <2>2, <2>3, <2>4, <2>5, <2>6, <2>7, <2>8, <2>9, <2>10, <2>11, <2>12,
       <2>13, <2>14, <2>15, <2>16 DEF Rotate
<1>5. ASSUME NEW t \in Signers, SignHeader(t) \/ Sign(t)
      PROVE  FilesTyped' /\ MemoryTyped' /\ RotationsTyped' /\ RestTyped'
  <2>1. UNCHANGED <<mem, disk, rot, made, failed, overlaps>> /\ mem \in Memory
    BY <1>5, UpIsTyped DEF SignHeader, Sign
  <2>2. RotationsTyped'
    BY <2>1, SameRotations DEF Up
  <2>3. mem.kid \in Key /\ mem.priv \in Key
    BY <2>1 DEF Memory
  <2>4. RestTyped'
    BY <1>5, <1>i, <2>1, <2>3 DEF SignHeader, Sign
  <2> QED
    BY <2>1, <2>2, <2>4, SameFilesTyped
<1>6. ASSUME UNCHANGED vars PROVE FilesTyped' /\ MemoryTyped' /\ RotationsTyped' /\ RestTyped'
  <2>1. RotationsTyped'
    BY <1>6, SameRotations DEF vars, Up
  <2> QED
    BY <1>6, <1>i, <2>1, SameFilesTyped DEF vars
<1>7. FilesTyped' /\ MemoryTyped' /\ RotationsTyped' /\ RestTyped'
  BY <1>1, <1>2, <1>3, <1>4, <1>5, <1>6 DEF Next
<1>8. (TypeOK /\ Shape)' <=> (FilesTyped /\ MemoryTyped /\ RotationsTyped /\ RestTyped)'
  BY TypedParts, PTL
<1> QED
  BY <1>7, <1>8

-----------------------------------------------------------------------------
(***************************************************************************)
(* The order in which files come to exist, and a rotation that runs alone. *)
(***************************************************************************)
\* The kid is written last, and nothing is signed or listed before it is; no kid
\* is ahead of the last key made.
WriteOrder ==
    /\ disk.pub # None => disk.priv # None
    /\ disk.kid # None => disk.pub # None /\ disk.kid <= made
    /\ disk.kid = None => disk.meta = << >> /\ tokens = {}
    /\ Up => mem.kid <= made
    /\ \A r \in Rotators : rot[r].new # None => rot[r].new <= made

\* What a rotation that has run alone has replaced so far carries its new key.
Repaired(r) ==
    /\ rot[r].at \in AfterPrivate => disk.priv = made /\ rot[r].new = made
    /\ rot[r].at \in AfterPublic => disk.pub = made
    /\ rot[r].at \in AfterKid => disk.kid = made
    /\ rot[r].at \in AfterLoadPrivate => mem.priv = made
    /\ rot[r].at \in AfterLoadPublic => mem.pub = made
    /\ rot[r].at \in AfterLoadKid => mem.kid = made
    /\ rot[r].at \in AfterCertify => disk.cert = made
    /\ At(r, "metadata") => mem.cert = made

LoneRotations ==
    \A r \in Rotators :
        rot[r].alone /\ ~Idle(r) =>
            Repaired(r) /\ \A q \in Rotators : q # r => Idle(q)

LEMMA WriteOrderStep ==
    ASSUME TypeOK, Shape, WriteOrder, [Next]_vars
    PROVE  WriteOrder'
<1> USE DEF WriteOrder
<1>n. made \in Nat /\ None \notin Key /\ Key \subseteq Nat
  BY KeysAreNumbers DEF TypeOK
<1>1. ASSUME Start PROVE WriteOrder'
  <2>1. /\ disk.kid # None /\ UNCHANGED <<rot, tokens, made>>
        /\ disk'.priv = disk.priv /\ disk'.pub = disk.pub /\ disk'.kid = disk.kid
        /\ mem' = Loaded(disk')
    BY <1>1, StartTyped DEF Start, Complete
  <2>2. mem'.kid = disk'.kid
    BY <2>1, LoadedFields
  <2> QED
    BY <2>1, <2>2
<1>2. ASSUME NEW n \in 0..4, StartFresh(n) PROVE WriteOrder'
  <2>1. /\ disk.kid = None /\ disk.meta = << >> /\ tokens = {} /\ ~Up
        /\ made' = made + 1 /\ made' \in Key /\ UNCHANGED <<rot, tokens>>
    BY <1>2, <1>n, StartFreshTyped DEF StartFresh, Complete
  <2>0. \A r \in Rotators : rot'[r].new # None => rot'[r].new <= made /\ rot'[r].new \in Nat
    BY <2>1, <1>n DEF TypeOK
  <2>2. \A r \in Rotators : rot'[r].new # None => rot'[r].new <= made'
    BY <2>0, <2>1, <1>n
  <2>3. n < 4 => ~Up'
    BY <1>2, <2>1, StartFreshTyped DEF Up
  <2>4. n = 4 => mem'.kid = made'
    BY <1>2, StartFreshTyped, LoadedFields
  <2>5. /\ disk'.priv = (IF n >= 1 THEN made' ELSE disk.priv)
        /\ disk'.pub = (IF n >= 2 THEN made' ELSE disk.pub)
        /\ disk'.kid = (IF n >= 3 THEN made' ELSE disk.kid)
        /\ disk'.meta = disk.meta
    BY <1>2, StartFreshTyped
  <2>6. made' # None /\ made' <= made'
    BY <2>1, <1>n
  <2>7. Up' => mem'.kid <= made'
    BY <2>3, <2>4, <2>6
  <2>8. disk'.pub # None => disk'.priv # None
    BY <2>5, <2>6
  <2>9. disk'.kid # None => disk'.pub # None /\ disk'.kid <= made'
    BY <2>1, <2>5, <2>6
  <2> QED
    BY <2>1, <2>2, <2>5, <2>7, <2>8, <2>9
<1>3. ASSUME Crash PROVE WriteOrder'
  <2>1. \A r \in Rotators : rot'[r].new = None
    BY <1>3, CrashTyped DEF NotRotating
  <2> QED
    BY <1>3, <2>1, CrashTyped DEF Crash
<1>4. ASSUME NEW r \in Rotators, Rotate(r) PROVE WriteOrder'
  <2> DEFINE Others == \A q \in Rotators : q # r => rot'[q] = rot[q]
  <2>u. ~Idle(r) => Up /\ disk.kid # None
    BY RunningIsUp DEF Complete
  <2>1. CASE WritePrivate(r)
    <3>1. Others /\ rot'[r].new = made' /\ made' = made + 1 /\ made' \in Key
      BY <2>1, WritePrivateTyped DEF MovesTo
    <3>2. mem' = mem /\ tokens' = tokens /\ Up
      BY <2>1, RunningIsUp DEF WritePrivate, At, Idle
    <3>3. /\ disk'.priv = made' /\ disk'.pub = disk.pub /\ disk'.kid = disk.kid
          /\ disk'.meta = disk.meta
      BY <2>1, WritePrivateTyped
    <3>4. \A q \in Rotators : rot[q].new # None => rot[q].new \in Key
      BY DEF TypeOK
    <3>5. \A q \in Rotators : rot'[q].new # None => rot'[q].new <= made'
      BY <3>1, <3>4, <1>n
    <3>6. mem.kid \in Nat /\ (disk.kid # None => disk.kid \in Nat)
      BY <3>2, <1>n, UpIsTyped DEF Memory, TypeOK
    <3>7. mem.kid <= made' /\ (disk.kid # None => disk.kid <= made')
      BY <3>1, <3>2, <3>6, <1>n
    <3> QED
      BY <3>1, <3>2, <3>3, <3>5, <3>7, <1>n DEF Up
  <2>2. CASE RotateBegin(r)
    <3>1. \A q \in Rotators : rot'[q].new = rot[q].new
      BY <2>2 DEF RotateBegin, TypeOK, Idle, NotRotating, Shape
    <3> QED
      BY <2>2, <3>1 DEF RotateBegin, Up
  <2>3. CASE Fail(r) \/ SaveMetadata(r)
    <3>1. \A q \in Rotators : rot'[q].new = None \/ rot'[q].new = rot[q].new
      BY <2>3, EndedMoves DEF Fail, SaveMetadata, NotRotating
    <3>2. UNCHANGED <<mem, tokens, made>>
      BY <2>3 DEF Fail, SaveMetadata
    <3>3. /\ disk'.priv = disk.priv /\ disk'.pub = disk.pub /\ disk'.kid = disk.kid
          /\ disk' = disk \/ disk.kid # None
      BY <2>3, <2>u, SaveMetadataTyped DEF Fail, SaveMetadata, At, Idle
    <3> QED
      BY <3>1, <3>2, <3>3 DEF Up
  <2>4. CASE Prune(r)
    BY <2>4, PruneTyped DEF Prune, Up, Then, TypeOK
  <2>5. CASE SavePrevious(r)
    BY <2>5, SavePreviousTyped DEF SavePrevious, Up, Then, TypeOK
  <2>6. CASE Retire(r)
    BY <2>6, <2>u, RetireTyped DEF Retire, Up, Then, TypeOK, At, Idle
  <2>7. CASE Pop(r)
    BY <2>7, <2>u, PopTyped DEF Pop, Up, TypeOK, At, Idle
  <2>8. CASE Unlink(r)
    BY <2>8, UnlinkTyped DEF Unlink, Up, Then, TypeOK
  <2>9. CASE WritePublic(r)
    <3>1. rot[r].new # None /\ disk.priv # None /\ disk.kid # None
      BY <2>9, RunningIsUp DEF WritePublic, At, Idle, Shape, AfterPrivate, Complete
    <3> QED
      BY <2>9, <3>1, WritePublicTyped DEF WritePublic, Up, Then, TypeOK
  <2>10. CASE WriteKid(r)
    <3>1. rot[r].new # None /\ disk.pub # None
      BY <2>10, RunningIsUp DEF WriteKid, At, Idle, Shape, AfterPrivate, Complete
    <3> QED
      BY <2>10, <3>1, WriteKidTyped DEF WriteKid, Up, Then, TypeOK
  <2>11. CASE LoadPrivate(r)
    BY <2>11, <2>u, LoadPrivateTyped DEF LoadPrivate, Then, TypeOK, At, Idle
  <2>12. CASE LoadPublic(r)
    BY <2>12, <2>u, LoadPublicTyped DEF LoadPublic, Then, TypeOK, At, Idle
  <2>13. CASE LoadKid(r)
    <3>1. rot[r].new # None
      BY <2>13 DEF LoadKid, At, Shape, AfterPrivate
    <3> QED
      BY <2>13, <3>1, <2>u, LoadKidTyped DEF LoadKid, Then, TypeOK, At, Idle
  <2>14. CASE Certify(r)
    BY <2>14, CertifyTyped DEF Certify, Up, Then, TypeOK
  <2>15. CASE LoadCertificate(r)
    BY <2>15, <2>u, LoadCertificateTyped DEF LoadCertificate, Then, TypeOK, At, Idle
  <2> QED
    BY <1>4, <2>1, <2>2, <2>3, <2>4, <2>5, <2>6, <2>7, <2>8, <2>9, <2>10, <2>11, <2>12,
       <2>13, <2>14, <2>15 DEF Rotate
<1>5. ASSUME NEW t \in Signers, SignHeader(t) \/ Sign(t) PROVE WriteOrder'
  BY <1>5 DEF SignHeader, Sign, Up, Shape, Complete
<1>6. ASSUME UNCHANGED vars PROVE WriteOrder'
  BY <1>6 DEF vars, Up
<1> QED
  BY <1>1, <1>2, <1>3, <1>4, <1>5, <1>6 DEF Next

\* A lone rotation that goes on stays alone; one that ends leaves none.
LEMMA LoneMoves ==
    ASSUME LoneRotations, NEW r \in Rotators, NEW s \in Steps, ~Idle(r), MovesTo(r, s),
           rot[r].alone => Repaired(r)'
    PROVE  LoneRotations'
<1> SUFFICES ASSUME NEW q \in Rotators, rot'[q].alone, ~Idle(q)'
             PROVE  Repaired(q)' /\ \A p \in Rotators : p # q => Idle(p)'
  BY DEF LoneRotations
<1>1. CASE q = r
  BY <1>1 DEF MovesTo, LoneRotations, Idle
<1>2. CASE q # r
  BY <1>2 DEF MovesTo, LoneRotations, Idle
<1> QED
  BY <1>1, <1>2

LEMMA LoneEnds ==
    ASSUME TypeOK, LoneRotations, NEW r \in Rotators, ~Idle(r), Ended(r)
    PROVE  LoneRotations'
<1>1. rot'[r] = NotRotating /\ \A q \in Rotators : q # r => rot'[q] = rot[q]
  BY EndedMoves
<1> QED
  BY <1>1 DEF LoneRotations, Idle, NotRotating

LEMMA LoneStep ==
    ASSUME TypeOK, Shape, LoneRotations, [Next]_vars
    PROVE  LoneRotations'
<1>1. ASSUME Start \/ \E n \in 0..4 : StartFresh(n) PROVE LoneRotations'
  <2>1. Quiet /\ rot' = rot
    BY <1>1 DEF Start, StartFresh, Shape
  <2> QED
    BY <2>1 DEF LoneRotations, Quiet, Idle
<1>2. ASSUME Crash PROVE LoneRotations'
  BY <1>2, CrashTyped DEF LoneRotations, Idle, NotRotating
<1>3. ASSUME NEW r \in Rotators, RotateBegin(r) PROVE LoneRotations'
  <2>1. CASE Quiet
    <3>1. /\ rot'[r].at = "save"
          /\ \A q \in Rotators : q # r => rot'[q] = rot[q]
      BY <1>3, <2>1 DEF RotateBegin, Quiet, NotRotating
    <3> QED
      BY <2>1, <3>1 DEF LoneRotations, Quiet, Idle, Repaired, At, AfterPrivate, AfterPublic,
         AfterKid, AfterLoadPrivate, AfterLoadPublic, AfterLoadKid, AfterCertify
  <2>2. CASE ~Quiet
    <3>0. rot'[r] = [NotRotating EXCEPT !.at = "save", !.old = mem.kid, !.alone = Quiet]
      BY <1>3 DEF RotateBegin
    <3>1. ~rot'[r].alone
      BY <2>2, <3>0 DEF NotRotating
    <3>2. ASSUME NEW q \in Rotators, q # r PROVE Idle(q)' \/ ~rot'[q].alone
      <4>1. rot'[q] = IF Idle(q) THEN rot[q] ELSE [rot[q] EXCEPT !.alone = FALSE]
        BY <1>3, <3>2 DEF RotateBegin
      <4> QED
        BY <4>1 DEF Idle, TypeOK
    <3> QED
      BY <3>1, <3>2 DEF LoneRotations
  <2> QED
    BY <2>1, <2>2
<1>4. ASSUME NEW r \in Rotators, Fail(r) \/ SaveMetadata(r) PROVE LoneRotations'
  BY <1>4, LoneEnds DEF Fail, MayFail, FileSteps, Steps, SaveMetadata, At, Idle
<1>5. ASSUME NEW r \in Rotators,
             \/ SavePrevious(r) \/ Retire(r) \/ Prune(r) \/ Pop(r) \/ Unlink(r)
      PROVE  LoneRotations'
  <2>1. PICK s \in {"retire", "prune", "pop", "private", "unlink"} : MovesTo(r, s)
    BY <1>5, SavePreviousTyped, RetireTyped, PruneTyped, PopTyped, UnlinkTyped
  <2>2. s \in Steps /\ ~Idle(r)
    BY <1>5 DEF Steps, SavePrevious, Retire, Prune, Pop, Unlink, At, Idle
  <2>3. Repaired(r)'
    BY <2>1 DEF MovesTo, Repaired, At, AfterPrivate, AfterPublic,
       AfterKid, AfterLoadPrivate, AfterLoadPublic, AfterLoadKid, AfterCertify
  <2> QED
    BY <2>1, <2>2, <2>3, LoneMoves
<1>6. ASSUME NEW r \in Rotators,
             \/ WritePrivate(r) \/ WritePublic(r) \/ WriteKid(r) \/ LoadPrivate(r)
             \/ LoadPublic(r) \/ LoadKid(r) \/ Certify(r) \/ LoadCertificate(r)
      PROVE  LoneRotations'
  <2>1. PICK s \in AfterPrivate : MovesTo(r, s)
    BY <1>6, WritePrivateTyped, WritePublicTyped, WriteKidTyped, LoadPrivateTyped,
       LoadPublicTyped, LoadKidTyped, CertifyTyped, LoadCertificateTyped DEF AfterPrivate
  <2>2. s \in Steps /\ ~Idle(r)
    BY <1>6 DEF Steps, AfterPrivate, WritePrivate, WritePublic, WriteKid, LoadPrivate,
       LoadPublic, LoadKid, Certify, LoadCertificate, At, Idle
  <2>3. ASSUME rot[r].alone PROVE Repaired(r)'
    <3> USE DEF Repaired, At, MovesTo, AfterPrivate, AfterPublic, AfterKid,
        AfterLoadPrivate, AfterLoadPublic, AfterLoadKid, AfterCertify
    <3>0. Repaired(r)
      BY <2>2, <2>3 DEF LoneRotations
    <3>1. CASE WritePrivate(r)
      BY <3>1, WritePrivateTyped
    <3>2. CASE WritePublic(r)
      BY <3>0, <3>2, WritePublicTyped DEF WritePublic
    <3>3. CASE WriteKid(r)
      BY <3>0, <3>3, WriteKidTyped DEF WriteKid
    <3>4. CASE LoadPrivate(r)
      BY <3>0, <3>4, LoadPrivateTyped DEF LoadPrivate
    <3>5. CASE LoadPublic(r)
      BY <3>0, <3>5, LoadPublicTyped DEF LoadPublic
    <3>6. CASE LoadKid(r)
      BY <3>0, <3>6, LoadKidTyped DEF LoadKid
    <3>7. CASE Certify(r)
      BY <3>0, <3>7, CertifyTyped DEF Certify
    <3>8. CASE LoadCertificate(r)
      BY <3>0, <3>8, LoadCertificateTyped DEF LoadCertificate
    <3> QED
      BY <1>6, <3>1, <3>2, <3>3, <3>4, <3>5, <3>6, <3>7, <3>8
  <2> QED
    BY <2>1, <2>2, <2>3, LoneMoves
<1>7. ASSUME UNCHANGED <<mem, disk, rot, made>> PROVE LoneRotations'
  BY <1>7 DEF LoneRotations, Repaired, Idle, At
<1> QED
  BY <1>1, <1>2, <1>3, <1>4, <1>5, <1>6, <1>7 DEF Next, Rotate, SignHeader, Sign, vars

\* A step of one rotation leaves the others where they are.
LEMMA OthersStay ==
    ASSUME TypeOK, Shape, NEW r \in Rotators, Rotate(r), NEW q \in Rotators, q # r
    PROVE  rot'[q].at = rot[q].at
<1>1. CASE RotateBegin(r)
  <2>1. rot'[q] = IF Idle(q) THEN rot[q] ELSE [rot[q] EXCEPT !.alone = FALSE]
    BY <1>1 DEF RotateBegin
  <2> QED
    BY <2>1 DEF TypeOK
<1>2. CASE Fail(r) \/ SaveMetadata(r)
  BY <1>2, EndedMoves DEF Fail, SaveMetadata
<1>3. CASE SavePrevious(r) \/ Retire(r) \/ Prune(r) \/ Pop(r) \/ Unlink(r)
  <2>1. PICK s \in {"retire", "prune", "pop", "unlink", "private"} : MovesTo(r, s)
    BY <1>3, SavePreviousTyped, RetireTyped, PruneTyped, PopTyped, UnlinkTyped
  <2> QED
    BY <2>1 DEF MovesTo
<1>4. CASE \/ WritePrivate(r) \/ WritePublic(r) \/ WriteKid(r) \/ LoadPrivate(r)
           \/ LoadPublic(r) \/ LoadKid(r) \/ Certify(r) \/ LoadCertificate(r)
  <2>1. PICK s \in AfterPrivate : MovesTo(r, s)
    BY <1>4, WritePrivateTyped, WritePublicTyped, WriteKidTyped, LoadPrivateTyped,
       LoadPublicTyped, LoadKidTyped, CertifyTyped, LoadCertificateTyped DEF AfterPrivate
  <2> QED
    BY <2>1 DEF MovesTo
<1> QED
  BY <1>1, <1>2, <1>3, <1>4 DEF Rotate

Base == TypeOK /\ Shape /\ WriteOrder /\ LoneRotations

LEMMA BaseInit == Init => Base
<1> SUFFICES ASSUME Init PROVE Base
  OBVIOUS
<1>1. TypeOK /\ Shape
  BY InitTyped
<1>2. /\ \A r \in Rotators : rot[r] = NotRotating
      /\ disk.pub = None /\ disk.kid = None /\ disk.meta = << >> /\ tokens = {} /\ ~Up
  BY DEF Init, NoFiles, Up
<1> QED
  BY <1>1, <1>2 DEF Base, WriteOrder, LoneRotations, NotRotating, Idle

LEMMA BaseStep == Base /\ [Next]_vars => Base'
  BY TypeStep, WriteOrderStep, LoneStep DEF Base

LEMMA BaseHolds == Spec => []Base
  BY BaseInit, BaseStep, PTL DEF Spec

\* Memory, files, rotations and history hold only what their readers expect,
\* whatever crashes, fails or overlaps.
THEOREM TypeCorrect == Spec => []TypeOK
<1>1. Base => TypeOK
  BY DEF Base
<1> QED
  BY <1>1, BaseHolds, PTL

\* A rotation that runs alone and completes leaves one key everywhere, whatever an
\* earlier crash, exception or overlap had left: rotate_keys writes and reloads
\* every file and field before the metadata.
THEOREM RotationsRepair == Spec => RotationRepairs
<1>1. ASSUME Base, [Next]_vars, NEW r \in Rotators, At(r, "metadata"), rot[r].alone,
             rot'[r].at = "idle", Up', failed' = failed
      PROVE  {mem'.priv, mem'.pub, mem'.kid, mem'.cert,
              disk'.priv, disk'.pub, disk'.kid, disk'.cert} = {made}
  <2>1. ~Idle(r) /\ TypeOK /\ Shape /\ Repaired(r)
    BY <1>1 DEF Base, LoneRotations, Idle, At
  <2>2. Up /\ rot' # rot
    BY <1>1, <2>1, RunningIsUp DEF Idle
  <2>3. PICK q \in Rotators : Rotate(q)
    BY <1>1, <2>2, CrashTyped, <2>1 DEF Next, Start, StartFresh, SignHeader, Sign, vars
  <2>4. q = r
    BY <1>1, <2>1, <2>3, OthersStay DEF Idle
  <2>5. ~Fail(r)
    BY <1>1, <2>1 DEF Fail, TypeOK
  <2>6. SaveMetadata(r)
    BY <1>1, <2>3, <2>4, <2>5 DEF Rotate, RotateBegin, SavePrevious, Retire, Prune, Pop,
       Unlink, WritePrivate, WritePublic, WriteKid, LoadPrivate, LoadPublic, LoadKid,
       Certify, LoadCertificate, At, Idle
  <2>7. /\ mem.priv = made /\ mem.pub = made /\ mem.kid = made /\ mem.cert = made
        /\ disk.priv = made /\ disk.pub = made /\ disk.kid = made /\ disk.cert = made
    BY <1>1, <2>1 DEF Repaired, At, AfterPrivate, AfterPublic, AfterKid,
       AfterLoadPrivate, AfterLoadPublic, AfterLoadKid, AfterCertify
  <2>8. /\ mem' = mem
        /\ disk'.priv = disk.priv /\ disk'.pub = disk.pub /\ disk'.kid = disk.kid
        /\ disk'.cert = disk.cert
    BY <2>1, <2>6, SaveMetadataTyped DEF SaveMetadata
  <2> QED
    BY <2>7, <2>8
<1>2. Base /\ [Next]_vars =>
        [\A r \in Rotators :
           At(r, "metadata") /\ rot[r].alone /\ rot'[r].at = "idle" /\ Up' /\ failed' = failed =>
             {mem'.priv, mem'.pub, mem'.kid, mem'.cert,
              disk'.priv, disk'.pub, disk'.kid, disk'.cert} = {made}]_vars
  BY <1>1
<1> QED
  BY <1>2, BaseHolds, PTL DEF Spec, RotationRepairs

-----------------------------------------------------------------------------
(***************************************************************************)
(* While rotations run alone and to their end.                             *)
(***************************************************************************)
Clean == failed = 0 /\ overlaps = 0
Sole(r) == \A q \in Rotators : q # r => Idle(q)
Running(S) == \E r \in Rotators : rot[r].at \in S

\* The steps between the old kid joining the previous keys and the new kid taking
\* its place, and those before the files stop covering what is published.
Mid == {"prune", "pop", "unlink", "private"} \cup (AfterPrivate \ AfterLoadKid)
BeforePop == {"save", "retire", "prune", "pop"}
Retired == Running({"prune", "pop"})

\* Memory and files agree but for a rotation that has begun to replace them, and
\* a kid never runs ahead of its private key, nor of the public key once the two
\* carry one number.
Orderly ==
    /\ \A r \in Rotators :
         /\ rot[r].alone
         /\ ~Idle(r) /\ rot[r].at \notin AfterLoadKid => rot[r].old = mem.kid
         /\ rot[r].at \in AfterPrivate \ AfterLoadKid => mem.kid < made
    /\ Up /\ ~Running(AfterPrivate) =>
         /\ mem.priv = disk.priv /\ mem.pub = disk.pub
         /\ mem.kid = disk.kid /\ mem.cert = disk.cert
    /\ Up => mem.kid <= mem.priv /\ (mem.priv = mem.kid => mem.pub = mem.kid)
    /\ disk.kid # None => disk.kid <= disk.priv /\ (disk.priv = disk.kid => disk.pub = disk.kid)

LEMMA SoleFacts ==
    \A r \in Rotators : Shape /\ Sole(r) =>
        /\ Running(AfterPrivate) <=> rot[r].at \in AfterPrivate
        /\ Running(Mid) <=> rot[r].at \in Mid
        /\ Retired <=> rot[r].at \in {"prune", "pop"}
        /\ Covered <=> rot[r].at \in {"idle"} \cup BeforePop /\ rot[r].popped = None
<1> SUFFICES ASSUME NEW r \in Rotators, Shape, Sole(r)
             PROVE  /\ Running(AfterPrivate) <=> rot[r].at \in AfterPrivate
                    /\ Running(Mid) <=> rot[r].at \in Mid
                    /\ Retired <=> rot[r].at \in {"prune", "pop"}
                    /\ Covered <=> rot[r].at \in {"idle"} \cup BeforePop /\ rot[r].popped = None
  OBVIOUS
<1>1. \A q \in Rotators : q # r => rot[q].at = "idle" /\ rot[q].popped = None
  BY DEF Sole, Idle, Shape, NotRotating
<1>2. "idle" \notin AfterPrivate /\ "idle" \notin Mid
  BY DEF Mid, AfterPrivate, AfterLoadKid, AfterLoadPublic, AfterLoadPrivate, AfterKid, AfterPublic
<1>3. Covered <=> rot[r].at \in {"idle"} \cup BeforePop /\ rot[r].popped = None
  BY <1>1 DEF Covered, BeforePop
<1> QED
  BY <1>1, <1>2, <1>3 DEF Running, Retired

LEMMA SoleFactsNext ==
    \A r \in Rotators : Shape' /\ Sole(r)' =>
        /\ Running(AfterPrivate)' <=> rot'[r].at \in AfterPrivate
        /\ Running(Mid)' <=> rot'[r].at \in Mid
        /\ Retired' <=> rot'[r].at \in {"prune", "pop"}
        /\ Covered' <=> rot'[r].at \in {"idle"} \cup BeforePop /\ rot'[r].popped = None
<1>1. (\A r \in Rotators : Shape /\ Sole(r) =>
         /\ Running(AfterPrivate) <=> rot[r].at \in AfterPrivate
         /\ Running(Mid) <=> rot[r].at \in Mid
         /\ Retired <=> rot[r].at \in {"prune", "pop"}
         /\ Covered <=> rot[r].at \in {"idle"} \cup BeforePop /\ rot[r].popped = None)'
  BY SoleFacts, PTL
<1> QED
  BY <1>1

LEMMA StaysClean == Base /\ [Next]_vars /\ Clean' => Clean
<1> SUFFICES ASSUME Base, [Next]_vars, Clean' PROVE Clean
  OBVIOUS
<1>1. failed \in Nat /\ overlaps \in Nat
  BY DEF Base, TypeOK
<1>2. failed' \in {failed, failed + 1} /\ overlaps' \in {overlaps, overlaps + 1}
  BY DEF Next, Start, StartFresh, Crash, SignHeader, Sign, vars, Rotate, RotateBegin,
     SavePrevious, Retire, Prune, Pop, Unlink, WritePrivate, WritePublic, WriteKid,
     LoadPrivate, LoadPublic, LoadKid, Certify, LoadCertificate, SaveMetadata, Fail
<1> QED
  BY <1>1, <1>2 DEF Clean

LEMMA UpIsTypedNext == TypeOK' => (Up' <=> mem' \in Memory)
<1>1. TypeOK => (Up <=> mem \in Memory)
  BY UpIsTyped
<1>2. (TypeOK => (Up <=> mem \in Memory))'
  BY <1>1, PTL
<1> QED
  BY <1>2

\* A clean rotation begins when no other runs.
LEMMA CleanBegin ==
    ASSUME Base, Clean, Clean', NEW r \in Rotators, RotateBegin(r)
    PROVE  /\ Quiet
           /\ rot'[r].at = "save" /\ rot'[r].old = mem.kid /\ rot'[r].alone
           /\ rot'[r].popped = None /\ rot'[r].new = None
           /\ \A q \in Rotators : q # r => rot'[q] = rot[q]
           /\ tokens' = tokens
<1>1. Quiet
  BY DEF RotateBegin, Clean
<1>2. rot'[r] = [NotRotating EXCEPT !.at = "save", !.old = mem.kid, !.alone = Quiet]
  BY DEF RotateBegin
<1>3. \A q \in Rotators : q # r => rot'[q] = rot[q]
  BY <1>1 DEF RotateBegin, Quiet
<1> QED
  BY <1>1, <1>2, <1>3 DEF RotateBegin, NotRotating

\* A clean step of a rotation is not its failure, and no other rotation runs.
LEMMA SoleStep ==
    ASSUME Base, Base', Clean, Clean', Orderly, NEW r \in Rotators, Rotate(r)
    PROVE  /\ Sole(r) /\ Sole(r)' /\ ~Fail(r)
           /\ Up /\ mem \in Memory /\ Complete
           /\ {disk.priv, disk.pub, disk.kid, disk.cert} \subseteq Key
           /\ Up' /\ mem' \in Memory
<1>1. ~Fail(r)
  BY DEF Fail, Clean, Base, TypeOK
<1>2. Sole(r)
  <2>1. CASE RotateBegin(r)
    BY <2>1, CleanBegin DEF Quiet, Sole
  <2>2. CASE ~Idle(r)
    BY <2>2 DEF Orderly, Base, LoneRotations, Sole
  <2> QED
    BY <1>1, <2>1, <2>2 DEF Rotate, RotateBegin, SavePrevious, Retire, Prune, Pop, Unlink,
       WritePrivate, WritePublic, WriteKid, LoadPrivate, LoadPublic, LoadKid, Certify,
       LoadCertificate, SaveMetadata, At, Idle
<1>3. Sole(r)'
  BY <1>2, OthersStay DEF Sole, Idle, Base
<1>4. Up
  <2>1. CASE RotateBegin(r)
    BY <2>1 DEF RotateBegin
  <2>2. CASE ~Idle(r)
    BY <2>2, RunningIsUp DEF Base
  <2> QED
    BY <1>1, <2>1, <2>2 DEF Rotate, SavePrevious, Retire, Prune, Pop, Unlink,
       WritePrivate, WritePublic, WriteKid, LoadPrivate, LoadPublic, LoadKid, Certify,
       LoadCertificate, SaveMetadata, At, Idle
<1>5. mem \in Memory /\ Complete /\ {disk.priv, disk.pub, disk.kid, disk.cert} \subseteq Key
  BY <1>4, UpIsTyped DEF Base, Shape, Complete, TypeOK
<1>6. Up'
  <2>1. Shape' => Idle(r)' \/ Up'
    BY DEF Shape, Quiet
  <2>2. CASE mem' = mem
    BY <1>4, <2>2 DEF Up
  <2>3. CASE \/ Retire(r) \/ Pop(r) \/ LoadPrivate(r) \/ LoadPublic(r) \/ LoadKid(r)
             \/ LoadCertificate(r)
    <3>1. ~Idle(r)'
      BY <2>3, RetireTyped, PopTyped, LoadPrivateTyped, LoadPublicTyped, LoadKidTyped,
         LoadCertificateTyped DEF MovesTo, Idle, Base
    <3> QED
      BY <2>1, <3>1 DEF Base
  <2> QED
    BY <1>1, <2>2, <2>3 DEF Rotate, RotateBegin, SavePrevious, Prune, Unlink, WritePrivate,
       WritePublic, WriteKid, Certify, SaveMetadata
<1>7. mem' \in Memory
  BY <1>6, UpIsTypedNext DEF Base
<1> QED
  BY <1>1, <1>2, <1>3, <1>4, <1>5, <1>6, <1>7

\* Orderly, asked of the one rotation that may run.
LEMMA OrderlyFor ==
    ASSUME Base', NEW r \in Rotators, Sole(r)', Up',
           rot'[r].alone,
           ~Idle(r)' /\ rot'[r].at \notin AfterLoadKid => rot'[r].old = mem'.kid,
           rot'[r].at \in AfterPrivate \ AfterLoadKid => mem'.kid < made',
           rot'[r].at \notin AfterPrivate =>
             /\ mem'.priv = disk'.priv /\ mem'.pub = disk'.pub
             /\ mem'.kid = disk'.kid /\ mem'.cert = disk'.cert,
           mem'.kid <= mem'.priv /\ (mem'.priv = mem'.kid => mem'.pub = mem'.kid),
           disk'.kid <= disk'.priv /\ (disk'.priv = disk'.kid => disk'.pub = disk'.kid)
    PROVE  Orderly'
<1>1. \A q \in Rotators : q # r => rot'[q].alone /\ Idle(q)' /\ rot'[q].at \notin AfterPrivate
  BY DEF Base, Shape, Sole, NotRotating, Idle, AfterPrivate
<1>2. Running(AfterPrivate)' <=> rot'[r].at \in AfterPrivate
  BY SoleFactsNext DEF Base
<1> QED
  BY <1>1, <1>2 DEF Orderly

LEMMA OrderlyStep ==
    ASSUME Base, Base', Clean, Clean', Orderly, [Next]_vars
    PROVE  Orderly'
<1>t. TypeOK /\ Shape /\ WriteOrder /\ LoneRotations
  BY DEF Base
<1>n. made \in Nat /\ None \notin Key /\ Key \subseteq Nat
  BY KeysAreNumbers, <1>t DEF TypeOK
<1>1. ASSUME Start PROVE Orderly'
  <2>1. /\ disk'.priv = disk.priv /\ disk'.pub = disk.pub /\ disk'.kid = disk.kid
        /\ disk.kid # None /\ rot' = rot /\ Quiet /\ mem' = Loaded(disk')
    BY <1>1, <1>t, StartTyped DEF Start, Complete, Shape
  <2>2. /\ mem'.priv = disk'.priv /\ mem'.pub = disk'.pub
        /\ mem'.kid = disk'.kid /\ mem'.cert = disk'.cert
    BY <2>1, LoadedFields
  <2> QED
    BY <2>1, <2>2 DEF Orderly, Quiet, Idle, AfterPrivate
<1>2. ASSUME NEW n \in 0..4, StartFresh(n) PROVE Orderly'
  <2>1. /\ ~Up /\ Quiet /\ rot' = rot /\ disk.kid = None /\ made' \in Nat
    BY <1>2, <1>t, <1>n, StartFreshTyped DEF StartFresh, Complete, WriteOrder, Shape
  <2>2. /\ disk'.priv = (IF n >= 1 THEN made' ELSE disk.priv)
        /\ disk'.pub = (IF n >= 2 THEN made' ELSE disk.pub)
        /\ disk'.kid = (IF n >= 3 THEN made' ELSE disk.kid)
        /\ disk'.cert = (IF n >= 4 THEN made' ELSE disk.cert)
    BY <1>2, <1>t, StartFreshTyped
  <2>3. /\ n < 4 => ~Up'
        /\ n = 4 => mem' = Loaded(disk')
    BY <1>2, <1>t, <2>1, StartFreshTyped DEF Up
  <2>4. n = 4 => /\ mem'.priv = disk'.priv /\ mem'.pub = disk'.pub
                 /\ mem'.kid = disk'.kid /\ mem'.cert = disk'.cert
    BY <2>3, LoadedFields
  <2>5. disk'.kid # None => disk'.kid <= disk'.priv /\ (disk'.priv = disk'.kid => disk'.pub = disk'.kid)
    BY <2>1, <2>2
  <2>6. Up' => n = 4
    BY <2>3
  <2>7. Up' => mem'.kid <= mem'.priv /\ (mem'.priv = mem'.kid => mem'.pub = mem'.kid)
    BY <2>1, <2>2, <2>4, <2>6
  <2>8. \A r \in Rotators :
          /\ rot'[r].alone
          /\ Idle(r)'
          /\ rot'[r].at \notin AfterPrivate
    BY <2>1, <1>t DEF Quiet, Idle, Shape, NotRotating, AfterPrivate
  <2> QED
    BY <2>4, <2>5, <2>6, <2>7, <2>8 DEF Orderly
<1>3. ASSUME Crash PROVE Orderly'
  BY <1>3, <1>t, CrashTyped DEF Orderly, NotRotating, Idle, AfterPrivate
<1>4. ASSUME NEW r \in Rotators, Rotate(r) PROVE Orderly'
  <2>s. /\ Sole(r) /\ Sole(r)' /\ ~Fail(r)
        /\ Up /\ mem \in Memory /\ Complete
        /\ {disk.priv, disk.pub, disk.kid, disk.cert} \subseteq Key
        /\ Up' /\ mem' \in Memory
    BY <1>4, SoleStep
  <2>m. {mem.priv, mem.pub, mem.kid, mem.cert} \subseteq Key
    BY <2>s DEF Memory
  <2>i. mem.kid \in Nat /\ disk.kid \in Nat
    BY <1>n, <2>m, <2>s
  <2>w. mem.kid <= made /\ disk.kid <= made
    BY <1>t, <2>s DEF WriteOrder, Complete
  <2>o. /\ rot[r].alone
        /\ ~Idle(r) /\ rot[r].at \notin AfterLoadKid => rot[r].old = mem.kid
        /\ rot[r].at \in AfterPrivate \ AfterLoadKid => mem.kid < made
        /\ mem.kid <= mem.priv /\ (mem.priv = mem.kid => mem.pub = mem.kid)
        /\ disk.kid <= disk.priv /\ (disk.priv = disk.kid => disk.pub = disk.kid)
    BY <2>s DEF Orderly, Complete
  <2>e. rot[r].at \notin AfterPrivate => /\ mem.priv = disk.priv /\ mem.pub = disk.pub
                                        /\ mem.kid = disk.kid /\ mem.cert = disk.cert
    BY <1>t, <2>s, SoleFacts DEF Orderly
  <2>p. ~Idle(r) => Repaired(r)
    BY <1>t, <2>o DEF LoneRotations
  <2> USE DEF MovesTo, At, Idle
  <2>1. CASE RotateBegin(r)
    <3>1. /\ rot'[r].at = "save" /\ rot'[r].old = mem.kid /\ rot'[r].alone
          /\ UNCHANGED <<mem, disk, made>> /\ rot[r].at = "idle"
      BY <2>1, CleanBegin DEF RotateBegin
    <3> QED
      BY <2>e, <2>o, <2>s, <3>1, OrderlyFor DEF AfterPrivate
  <2>2. CASE SavePrevious(r) \/ Retire(r) \/ Prune(r) \/ Pop(r) \/ Unlink(r)
    <3>1. PICK s \in {"retire", "prune", "pop", "unlink", "private"} : MovesTo(r, s)
      BY <2>2, <1>t, SavePreviousTyped, RetireTyped, PruneTyped, PopTyped, UnlinkTyped
    <3>2. rot[r].at \in Early /\ made' = made
      BY <2>2 DEF SavePrevious, Retire, Prune, Pop, Unlink, Early
    <3>3. /\ mem'.priv = mem.priv /\ mem'.pub = mem.pub
          /\ mem'.kid = mem.kid /\ mem'.cert = mem.cert
      BY <2>2, <1>t, RetireTyped, PopTyped DEF SavePrevious, Prune, Unlink
    <3>4. /\ disk'.priv = disk.priv /\ disk'.pub = disk.pub
          /\ disk'.kid = disk.kid /\ disk'.cert = disk.cert
      BY <2>2, <1>t, SavePreviousTyped, UnlinkTyped DEF Retire, Prune, Pop
    <3>5. rot[r].at \notin AfterPrivate /\ rot'[r].at \notin AfterPrivate /\ rot[r].at # "idle"
      BY <3>1, <3>2 DEF Early, AfterPrivate
    <3>6. rot[r].at \notin AfterLoadKid
      BY <3>2 DEF Early, AfterLoadKid, AfterLoadPublic, AfterLoadPrivate, AfterKid, AfterPublic,
         AfterPrivate
    <3> QED
      BY <2>e, <2>o, <2>s, <3>1, <3>3, <3>4, <3>5, <3>6, OrderlyFor
  <2>3. CASE WritePrivate(r)
    <3>1. /\ MovesTo(r, "public") /\ made' = made + 1 /\ mem' = mem
          /\ disk'.priv = made' /\ disk'.pub = disk.pub /\ disk'.kid = disk.kid
      BY <2>3, <1>t, WritePrivateTyped DEF WritePrivate
    <3>2. rot[r].at = "private"
      BY <2>3 DEF WritePrivate
    <3>3. rot[r].old = mem.kid
      BY <2>o, <3>2 DEF AfterLoadKid, AfterLoadPublic, AfterLoadPrivate, AfterKid, AfterPublic,
         AfterPrivate
    <3>4. mem.kid < made' /\ disk.kid < made'
      BY <1>n, <2>i, <2>w, <3>1
    <3>5. disk'.kid <= disk'.priv /\ disk'.priv # disk'.kid
      BY <1>n, <2>i, <3>1, <3>4
    <3> QED
      BY <2>o, <2>s, <3>1, <3>3, <3>4, <3>5, OrderlyFor DEF AfterPrivate
  <2>4. CASE WritePublic(r)
    <3>1. /\ MovesTo(r, "kid") /\ made' = made /\ mem' = mem
          /\ disk'.priv = disk.priv /\ disk'.pub = rot[r].new /\ disk'.kid = disk.kid
      BY <2>4, <1>t, WritePublicTyped DEF WritePublic
    <3>2. rot[r].at = "public"
      BY <2>4 DEF WritePublic
    <3>3. disk.priv = made /\ rot[r].new = made
      BY <2>p, <3>2 DEF Repaired, AfterPrivate
    <3>4. rot[r].at \in AfterPrivate \ AfterLoadKid
      BY <3>2 DEF AfterLoadKid, AfterLoadPublic, AfterLoadPrivate, AfterKid, AfterPublic,
         AfterPrivate
    <3>5. "kid" \in AfterPrivate \ AfterLoadKid
      BY DEF AfterLoadKid, AfterLoadPublic, AfterLoadPrivate, AfterKid, AfterPublic,
         AfterPrivate
    <3> QED
      BY <2>o, <2>s, <3>1, <3>2, <3>3, <3>4, <3>5, OrderlyFor
  <2>5. CASE WriteKid(r)
    <3>1. /\ MovesTo(r, "load_private") /\ made' = made /\ mem' = mem
          /\ disk'.priv = disk.priv /\ disk'.pub = disk.pub /\ disk'.kid = rot[r].new
      BY <2>5, <1>t, WriteKidTyped DEF WriteKid
    <3>2. rot[r].at = "kid"
      BY <2>5 DEF WriteKid
    <3>3. disk.priv = made /\ rot[r].new = made /\ disk.pub = made
      BY <2>p, <3>2 DEF Repaired, AfterPrivate, AfterPublic
    <3>4. {rot[r].at, "load_private"} \subseteq AfterPrivate \ AfterLoadKid
      BY <3>2 DEF AfterLoadKid, AfterLoadPublic, AfterLoadPrivate, AfterKid, AfterPublic,
         AfterPrivate
    <3>5. disk'.kid = made /\ disk'.priv = made /\ disk'.pub = made /\ made <= made
      BY <1>n, <3>1, <3>3
    <3> QED
      BY <2>o, <2>s, <3>1, <3>2, <3>4, <3>5, OrderlyFor
  <2>6. CASE LoadPrivate(r)
    <3>1. /\ MovesTo(r, "load_public") /\ made' = made /\ disk' = disk
          /\ mem'.priv = disk.priv /\ mem'.pub = mem.pub /\ mem'.kid = mem.kid
      BY <2>6, <1>t, LoadPrivateTyped DEF LoadPrivate
    <3>2. rot[r].at = "load_private"
      BY <2>6 DEF LoadPrivate
    <3>3. disk.priv = made
      BY <2>p, <3>2 DEF Repaired, AfterPrivate
    <3>4. {rot[r].at, "load_public"} \subseteq AfterPrivate \ AfterLoadKid
      BY <3>2 DEF AfterLoadKid, AfterLoadPublic, AfterLoadPrivate, AfterKid, AfterPublic,
         AfterPrivate
    <3>5. mem.kid < made /\ rot[r].old = mem.kid
      BY <2>o, <3>2, <3>4
    <3>6. mem'.kid <= mem'.priv /\ mem'.priv # mem'.kid
      BY <1>n, <2>i, <3>1, <3>3, <3>5
    <3> QED
      BY <2>o, <2>s, <3>1, <3>4, <3>5, <3>6, OrderlyFor
  <2>7. CASE LoadPublic(r)
    <3>1. /\ MovesTo(r, "load_kid") /\ made' = made /\ disk' = disk
          /\ mem'.priv = mem.priv /\ mem'.pub = disk.pub /\ mem'.kid = mem.kid
      BY <2>7, <1>t, LoadPublicTyped DEF LoadPublic
    <3>2. rot[r].at = "load_public"
      BY <2>7 DEF LoadPublic
    <3>3. mem.priv = made
      BY <2>p, <3>2 DEF Repaired, AfterLoadPrivate, AfterKid, AfterPublic, AfterPrivate
    <3>4. {rot[r].at, "load_kid"} \subseteq AfterPrivate \ AfterLoadKid
      BY <3>2 DEF AfterLoadKid, AfterLoadPublic, AfterLoadPrivate, AfterKid, AfterPublic,
         AfterPrivate
    <3>5. mem.kid < made /\ rot[r].old = mem.kid
      BY <2>o, <3>2, <3>4
    <3>6. mem'.kid <= mem'.priv /\ mem'.priv # mem'.kid
      BY <1>n, <2>i, <3>1, <3>3, <3>5
    <3> QED
      BY <2>o, <2>s, <3>1, <3>4, <3>5, <3>6, OrderlyFor
  <2>8. CASE LoadKid(r)
    <3>1. /\ MovesTo(r, "certify") /\ made' = made /\ disk' = disk
          /\ mem'.priv = mem.priv /\ mem'.pub = mem.pub /\ mem'.kid = rot[r].new
      BY <2>8, <1>t, LoadKidTyped DEF LoadKid
    <3>2. rot[r].at = "load_kid"
      BY <2>8 DEF LoadKid
    <3>3. mem.priv = made /\ mem.pub = made /\ rot[r].new = made
      BY <2>p, <3>2 DEF Repaired, AfterLoadPublic, AfterLoadPrivate, AfterKid, AfterPublic,
         AfterPrivate
    <3>4. "certify" \in AfterPrivate /\ "certify" \in AfterLoadKid
      BY DEF AfterLoadKid, AfterLoadPublic, AfterLoadPrivate, AfterKid, AfterPublic,
         AfterPrivate
    <3>5. mem'.kid = made /\ mem'.priv = made /\ mem'.pub = made /\ made <= made
      BY <1>n, <3>1, <3>3
    <3> QED
      BY <2>o, <2>s, <3>1, <3>4, <3>5, OrderlyFor
  <2>9. CASE Certify(r) \/ LoadCertificate(r)
    <3>1. PICK s \in {"load_cert", "metadata"} : MovesTo(r, s)
      BY <2>9, <1>t, CertifyTyped, LoadCertificateTyped
    <3>2. /\ disk'.priv = disk.priv /\ disk'.pub = disk.pub /\ disk'.kid = disk.kid
          /\ mem'.priv = mem.priv /\ mem'.pub = mem.pub /\ mem'.kid = mem.kid
      BY <2>9, <1>t, CertifyTyped, LoadCertificateTyped DEF Certify
    <3>3. s \in AfterPrivate /\ s \in AfterLoadKid
      BY DEF AfterLoadKid, AfterLoadPublic, AfterLoadPrivate, AfterKid, AfterPublic,
         AfterPrivate
    <3> QED
      BY <2>o, <2>s, <3>1, <3>2, <3>3, OrderlyFor
  <2>10. CASE SaveMetadata(r)
    <3>1. /\ rot'[r] = NotRotating /\ mem' = mem /\ rot[r].at = "metadata"
          /\ disk'.priv = disk.priv /\ disk'.pub = disk.pub /\ disk'.kid = disk.kid
          /\ disk'.cert = disk.cert
      BY <2>10, <1>t, SaveMetadataTyped, EndedMoves DEF SaveMetadata
    <3>2. /\ mem.priv = made /\ mem.pub = made /\ mem.kid = made /\ mem.cert = made
          /\ disk.priv = made /\ disk.pub = made /\ disk.kid = made /\ disk.cert = made
      BY <2>p, <3>1 DEF Repaired, AfterPrivate, AfterPublic, AfterKid,
         AfterLoadPrivate, AfterLoadPublic, AfterLoadKid, AfterCertify
    <3> QED
      BY <2>o, <2>s, <3>1, <3>2, OrderlyFor DEF NotRotating, AfterPrivate
  <2> QED
    BY <1>4, <2>s, <2>1, <2>2, <2>3, <2>4, <2>5, <2>6, <2>7, <2>8, <2>9, <2>10 DEF Rotate
<1>5. ASSUME UNCHANGED <<mem, disk, rot, made>> PROVE Orderly'
  BY <1>5 DEF Orderly, Running, Up, Idle
<1> QED
  BY <1>1, <1>2, <1>3, <1>4, <1>5 DEF Next, SignHeader, Sign, vars

\* The previous keys in memory: each carries a kid at least its place below the
\* active one (or below its successor, once that is on its way), has its file, and
\* is younger than those after it.
Lim == IF Running(Mid) THEN mem.kid + 1 ELSE mem.kid

PreviousFit ==
    Up =>
      /\ \A i \in DOMAIN mem.previous :
           /\ mem.previous[i].kid <= Lim - i
           /\ mem.previous[i].kid \in DOMAIN disk.saved
           /\ disk.saved[mem.previous[i].kid] = mem.previous[i].pub
      /\ KidsFall(mem.previous)
      /\ \A r \in Rotators :
           /\ At(r, "retire") => /\ rot[r].old \in DOMAIN disk.saved
                                 /\ disk.saved[rot[r].old] = mem.pub
           /\ At(r, "pop") => TooMany
           /\ At(r, "unlink") =>
                \A i \in DOMAIN mem.previous : mem.previous[i].kid > rot[r].popped

\* The kids of keys.json likewise.
MetaFit ==
    disk.kid # None =>
      /\ \A i \in DOMAIN disk.meta : disk.meta[i] <= disk.kid - i
      /\ Falls(disk.meta)

LEMMA PreviousTyped ==
    ASSUME mem \in Memory
    PROVE  /\ mem.previous \in Seq(KeyInfo) /\ Len(mem.previous) \in Nat
           /\ DOMAIN mem.previous = 1..Len(mem.previous)
           /\ \A i \in DOMAIN mem.previous :
                /\ mem.previous[i] \in KeyInfo
                /\ mem.previous[i].kid \in Key /\ mem.previous[i].kid \in Nat
<1>1. mem.previous \in Seq(KeyInfo)
  BY DEF Memory
<1>2. /\ Len(mem.previous) \in Nat /\ DOMAIN mem.previous = 1..Len(mem.previous)
      /\ \A i \in DOMAIN mem.previous : mem.previous[i] \in KeyInfo
  BY <1>1
<1>3. \A e \in KeyInfo : e.kid \in Key /\ e.kid \in Nat
  BY KeysAreNumbers DEF KeyInfo
<1> QED
  BY <1>1, <1>2, <1>3

\* A step that leaves the previous keys and their files, and lets the bound rise.
LEMMA PreviousFrame ==
    ASSUME PreviousFit, mem \in Memory, Up,
           mem'.previous = mem.previous, disk'.saved = disk.saved,
           Lim \in Nat, Lim' \in Nat, Lim <= Lim',
           \A r \in Rotators : rot'[r].at \notin {"retire", "pop", "unlink"}
    PROVE  PreviousFit'
<1>1. /\ DOMAIN mem'.previous = DOMAIN mem.previous
      /\ \A i \in DOMAIN mem.previous : mem'.previous[i] = mem.previous[i]
  OBVIOUS
<1>2. \A i \in DOMAIN mem.previous : mem.previous[i].kid <= Lim' - i
  <2>1. ASSUME NEW i \in DOMAIN mem.previous PROVE mem.previous[i].kid <= Lim' - i
    <3>1. mem.previous[i].kid <= Lim - i /\ i \in Nat /\ mem.previous[i].kid \in Nat
      BY PreviousTyped DEF PreviousFit
    <3> QED
      BY <3>1
  <2> QED
    BY <2>1
<1>3. \A r \in Rotators : ~At(r, "retire")' /\ ~At(r, "pop")' /\ ~At(r, "unlink")'
  BY DEF At
<1>4. KidsFall(mem.previous)'
  BY DEF PreviousFit, KidsFall
<1>5. \A i \in DOMAIN mem.previous :
        /\ mem.previous[i].kid \in DOMAIN disk'.saved
        /\ disk'.saved[mem.previous[i].kid] = mem.previous[i].pub
  BY DEF PreviousFit
<1> HIDE DEF Lim
<1> QED
  BY <1>1, <1>2, <1>3, <1>4, <1>5 DEF PreviousFit

\* PreviousFit, asked of the one rotation that may run.
LEMMA PreviousFor ==
    ASSUME NEW r \in Rotators, Sole(r)',
           \A i \in DOMAIN mem'.previous :
             /\ mem'.previous[i].kid <= Lim' - i
             /\ mem'.previous[i].kid \in DOMAIN disk'.saved
             /\ disk'.saved[mem'.previous[i].kid] = mem'.previous[i].pub,
           KidsFall(mem.previous)',
           rot'[r].at = "retire" => /\ rot'[r].old \in DOMAIN disk'.saved
                                    /\ disk'.saved[rot'[r].old] = mem'.pub,
           rot'[r].at = "pop" => TooMany',
           rot'[r].at = "unlink" =>
             \A i \in DOMAIN mem'.previous : mem'.previous[i].kid > rot'[r].popped
    PROVE  PreviousFit'
<1>1. \A q \in Rotators : q # r => rot'[q].at = "idle"
  BY DEF Sole, Idle
<1>2. \A q \in Rotators : /\ At(q, "retire")' => /\ rot'[q].old \in DOMAIN disk'.saved
                                                 /\ disk'.saved[rot'[q].old] = mem'.pub
                          /\ At(q, "pop")' => TooMany'
                          /\ At(q, "unlink")' =>
                               \A i \in DOMAIN mem'.previous : mem'.previous[i].kid > rot'[q].popped
  BY <1>1 DEF At
<1> QED
  BY <1>2 DEF PreviousFit

LEMMA SoleLimits ==
    ASSUME Base, Base', NEW r \in Rotators, Sole(r), Sole(r)', mem \in Memory, mem' \in Memory
    PROVE  /\ mem.kid \in Nat /\ mem'.kid \in Nat /\ Lim \in Nat /\ Lim' \in Nat
           /\ Lim = IF rot[r].at \in Mid THEN mem.kid + 1 ELSE mem.kid
           /\ Lim' = IF rot'[r].at \in Mid THEN mem'.kid + 1 ELSE mem'.kid
<1>1. mem.kid \in Nat /\ mem'.kid \in Nat
  BY KeysAreNumbers DEF Memory
<1>2. Running(Mid) <=> rot[r].at \in Mid
  BY SoleFacts DEF Base
<1>3. Running(Mid)' <=> rot'[r].at \in Mid
  BY SoleFactsNext DEF Base
<1> QED
  BY <1>1, <1>2, <1>3 DEF Lim

LEMMA PreviousStep ==
    ASSUME Base, Base', Clean, Clean', Orderly, PreviousFit, MetaFit, [Next]_vars
    PROVE  PreviousFit'
<1>t. TypeOK /\ Shape /\ WriteOrder /\ LoneRotations
  BY DEF Base
<1>n. made \in Nat /\ None \notin Key /\ Key \subseteq Nat
  BY KeysAreNumbers, <1>t DEF TypeOK
<1>1. ASSUME mem' = Loaded(disk'), mem' \in Memory, disk'.kid # None,
             MetaFit', Quiet'
      PROVE  PreviousFit'
  <2>1. TypeOK'
    BY DEF Base
  <2>2. disk'.meta \in Seq(Key) /\ \A k \in DOMAIN disk'.saved : disk'.saved[k] \in Key
    BY <2>1 DEF TypeOK
  <2>3. mem'.previous = LoadedPrevious(disk') /\ mem'.kid = disk'.kid
    BY <1>1, LoadedFields
  <2>4. /\ \A m \in DOMAIN LoadedPrevious(disk') :
             \E i \in DOMAIN disk'.meta :
               i >= m /\ Backed(disk', i) /\ LoadedPrevious(disk')[m] = EntryOf(disk', i)
        /\ Falls(disk'.meta) => KidsFall(LoadedPrevious(disk'))
        /\ LoadedPrevious(disk') \in Seq(KeyInfo)
    BY <2>2, LoadedFromFiles
  <2>5. Lim' = mem'.kid /\ mem'.kid \in Nat
    <3>1. "idle" \notin Mid
      BY DEF Mid, AfterPrivate, AfterLoadKid, AfterLoadPublic, AfterLoadPrivate, AfterKid,
         AfterPublic
    <3> QED
      BY <1>1, <1>n, <3>1 DEF Lim, Running, Quiet, Idle, Memory
  <2>6. ASSUME NEW m \in DOMAIN mem'.previous
        PROVE  /\ mem'.previous[m].kid <= Lim' - m
               /\ mem'.previous[m].kid \in DOMAIN disk'.saved
               /\ disk'.saved[mem'.previous[m].kid] = mem'.previous[m].pub
    <3>1. PICK i \in DOMAIN disk'.meta :
            i >= m /\ Backed(disk', i) /\ mem'.previous[m] = EntryOf(disk', i)
      BY <2>3, <2>4
    <3>d. i \in 1..Len(disk'.meta) /\ m \in 1..Len(mem'.previous) /\ disk'.meta[i] \in Key
      BY <2>2, <2>3, <2>4
    <3>n. i \in Nat /\ m \in Nat
      BY <2>2, <2>3, <2>4
    <3>k. disk'.meta[i] \in Nat
      BY <1>n, <3>d
    <3>2. disk'.meta[i] <= disk'.kid - i
      BY <1>1 DEF MetaFit
    <3>3. mem'.previous[m].kid = disk'.meta[i]
      BY <3>1 DEF EntryOf
    <3>4. mem'.previous[m].kid <= Lim' - m
      BY <2>3, <2>5, <3>n, <3>k, <3>1, <3>2, <3>3
    <3> QED
      BY <3>1, <3>4 DEF EntryOf, Backed
  <2>7. KidsFall(mem.previous)'
    BY <1>1, <2>3, <2>4 DEF MetaFit, KidsFall
  <2>8. \A r \in Rotators : ~At(r, "retire")' /\ ~At(r, "pop")' /\ ~At(r, "unlink")'
    BY <1>1 DEF Quiet, Idle, At
  <2> QED
    BY <2>6, <2>7, <2>8 DEF PreviousFit
<1>2. ASSUME Start PROVE PreviousFit'
  <2>1. /\ mem' = Loaded(disk') /\ mem' \in Memory /\ disk'.kid = disk.kid
        /\ disk'.meta = disk.meta /\ disk.kid # None /\ Quiet'
    BY <1>2, <1>t, StartTyped DEF Start, Complete, Shape, Quiet, Idle
  <2>2. MetaFit'
    BY <2>1 DEF MetaFit, Falls
  <2> QED
    BY <1>1, <2>1, <2>2
<1>3. ASSUME NEW n \in 0..4, StartFresh(n) PROVE PreviousFit'
  <2>1. CASE n < 4
    BY <1>3, <1>t, <2>1, StartFreshTyped DEF StartFresh, PreviousFit, Up
  <2>2. CASE n = 4
    <3>1. /\ mem' = Loaded(disk') /\ mem' \in Memory /\ disk'.kid = made' /\ made' \in Key
          /\ disk'.meta = disk.meta /\ disk.kid = None /\ Quiet'
      BY <1>3, <1>t, <2>2, StartFreshTyped
      DEF StartFresh, Complete, WriteOrder, Shape, Quiet, Idle
    <3>2. disk'.meta = << >>
      BY <1>t, <3>1 DEF WriteOrder
    <3>3. MetaFit' /\ disk'.kid # None
      BY <1>n, <3>1, <3>2 DEF MetaFit, Falls
    <3> QED
      BY <1>1, <3>1, <3>3
  <2> QED
    BY <2>1, <2>2
<1>4. ASSUME Crash PROVE PreviousFit'
  BY <1>4, <1>t, CrashTyped DEF PreviousFit
<1>5. ASSUME NEW r \in Rotators, Rotate(r) PROVE PreviousFit'
  <2>s. /\ Sole(r) /\ Sole(r)' /\ ~Fail(r)
        /\ Up /\ mem \in Memory /\ mem' \in Memory
    BY <1>5, SoleStep
  <2>l. /\ mem.kid \in Nat /\ mem'.kid \in Nat /\ Lim \in Nat /\ Lim' \in Nat
        /\ Lim = IF rot[r].at \in Mid THEN mem.kid + 1 ELSE mem.kid
        /\ Lim' = IF rot'[r].at \in Mid THEN mem'.kid + 1 ELSE mem'.kid
    BY <2>s, SoleLimits
  <2>d. /\ mem.previous \in Seq(KeyInfo) /\ Len(mem.previous) \in Nat
        /\ DOMAIN mem.previous = 1..Len(mem.previous)
        /\ \A i \in DOMAIN mem.previous : mem.previous[i].kid \in Nat
    BY <2>s, PreviousTyped
  <2>f. /\ \A i \in DOMAIN mem.previous :
             /\ mem.previous[i].kid <= Lim - i
             /\ mem.previous[i].kid \in DOMAIN disk.saved
             /\ disk.saved[mem.previous[i].kid] = mem.previous[i].pub
        /\ KidsFall(mem.previous)
    BY <2>s DEF PreviousFit
  <2>o. ~Idle(r) /\ rot[r].at \notin AfterLoadKid => rot[r].old = mem.kid
    BY DEF Orderly
  <2>q. \A q \in Rotators : q # r => rot'[q].at = "idle"
    BY <2>s DEF Sole, Idle
  <2> HIDE DEF Lim
  <2> USE DEF MovesTo, At, Idle
  <2>1. CASE RotateBegin(r)
    <3>1. /\ rot'[r].at = "save" /\ UNCHANGED <<mem, disk>> /\ rot[r].at = "idle"
      BY <2>1, CleanBegin DEF RotateBegin
    <3>2. Lim' = Lim
      BY <2>l, <3>1 DEF Mid, AfterPrivate, AfterLoadKid, AfterLoadPublic, AfterLoadPrivate,
         AfterKid, AfterPublic
    <3>3. Lim <= Lim'
      BY <2>l, <3>2
    <3> QED
      BY <2>l, <2>q, <2>s, <3>1, <3>3, PreviousFrame
  <2>2. CASE SavePrevious(r)
    <3>1. /\ MovesTo(r, "retire") /\ mem' = mem /\ rot[r].at = "save"
          /\ DOMAIN disk'.saved = DOMAIN disk.saved \cup {rot[r].old}
          /\ disk'.saved[rot[r].old] = mem.pub
          /\ \A k \in DOMAIN disk.saved : k # rot[r].old => disk'.saved[k] = disk.saved[k]
      BY <2>2, <1>t, SavePreviousTyped DEF SavePrevious
    <3>2. /\ Lim = mem.kid /\ Lim' = mem.kid /\ rot[r].at \notin AfterLoadKid
      BY <2>l, <3>1 DEF Mid, AfterPrivate, AfterLoadKid, AfterLoadPublic, AfterLoadPrivate,
         AfterKid, AfterPublic
    <3>3. rot[r].old = mem.kid
      BY <2>o, <3>1, <3>2
    <3>4. ASSUME NEW i \in DOMAIN mem.previous
          PROVE  /\ mem.previous[i].kid <= Lim' - i
                 /\ mem.previous[i].kid \in DOMAIN disk'.saved
                 /\ disk'.saved[mem.previous[i].kid] = mem.previous[i].pub
      <4>1. mem.previous[i].kid <= mem.kid - i /\ i \in Nat \ {0} /\ mem.previous[i].kid \in Nat
        BY <2>d, <2>f, <3>2
      <4>2. mem.previous[i].kid # rot[r].old
        BY <2>l, <3>3, <4>1
      <4> QED
        BY <2>f, <3>1, <3>2, <4>1, <4>2
    <3> QED
      BY <2>f, <2>s, <3>1, <3>4, PreviousFor DEF KidsFall
  <2>3. CASE Retire(r)
    <3> DEFINE e == [kid |-> rot[r].old, pub |-> mem.pub]
    <3>1. /\ MovesTo(r, "prune") /\ disk' = disk /\ rot[r].at = "retire"
          /\ mem'.kid = mem.kid /\ mem'.previous = <<e>> \o mem.previous
      BY <2>3, <1>t, RetireTyped DEF Retire
    <3>2. Lim = mem.kid /\ Lim' = mem.kid + 1 /\ rot[r].at \notin AfterLoadKid
      BY <2>l, <3>1 DEF Mid, AfterPrivate, AfterLoadKid, AfterLoadPublic, AfterLoadPrivate,
         AfterKid, AfterPublic
    <3>3. rot[r].old = mem.kid
      BY <2>o, <3>1, <3>2
    <3>4. e.kid = mem.kid /\ e.kid \in DOMAIN disk.saved /\ disk.saved[e.kid] = e.pub
      BY <2>s, <3>1, <3>3 DEF PreviousFit
    <3>5. e \in KeyInfo
      BY <2>s, <3>3 DEF KeyInfo, Memory
    <3> HIDE DEF e
    <3> DEFINE p == <<e>> \o mem.previous
    <3>6. /\ Len(p) = Len(mem.previous) + 1 /\ p[1] = e
          /\ \A i \in 2..(Len(mem.previous) + 1) : p[i] = mem.previous[i - 1]
          /\ p \in Seq(KeyInfo)
      BY <2>d, <3>5, InFront
    <3> HIDE DEF p
    <3>7. DOMAIN p = 1..(Len(mem.previous) + 1)
      BY <3>6
    <3>8. \A i \in DOMAIN p : i = 1 \/ /\ i \in 2..(Len(mem.previous) + 1)
                                       /\ i - 1 \in DOMAIN mem.previous
                                       /\ i \in Nat
      BY <2>d, <3>7
    <3>9. ASSUME NEW i \in DOMAIN p
          PROVE  /\ p[i].kid <= Lim' - i
                 /\ p[i].kid \in DOMAIN disk.saved
                 /\ disk.saved[p[i].kid] = p[i].pub
      <4>1. CASE i = 1
        BY <2>l, <3>2, <3>4, <3>6, <4>1
      <4>2. CASE i # 1
        <5>1. p[i] = mem.previous[i - 1] /\ i - 1 \in DOMAIN mem.previous /\ i \in Nat
          BY <3>6, <3>8, <4>2
        <5>2. mem.previous[i - 1].kid <= mem.kid - (i - 1) /\ mem.previous[i - 1].kid \in Nat
          BY <2>d, <2>f, <3>2, <5>1
        <5>3. mem.previous[i - 1].kid <= Lim' - i
          BY <2>l, <3>2, <5>1, <5>2
        <5> QED
          BY <2>f, <5>1, <5>3
      <4> QED
        BY <4>1, <4>2
    <3>10. ASSUME NEW i \in DOMAIN p, NEW j \in DOMAIN p, i < j PROVE p[i].kid > p[j].kid
      <4>0. j # 1 /\ i \in Nat /\ j \in Nat
        BY <3>7, <3>10
      <4>1. p[j] = mem.previous[j - 1] /\ j - 1 \in DOMAIN mem.previous
        BY <3>6, <3>8, <4>0
      <4>2. CASE i = 1
        <5>1. mem.previous[j - 1].kid <= mem.kid - (j - 1) /\ mem.previous[j - 1].kid \in Nat
          BY <2>d, <2>f, <3>2, <4>1
        <5>2. mem.previous[j - 1].kid < mem.kid
          BY <2>l, <3>10, <4>0, <4>2, <5>1
        <5> QED
          BY <2>l, <3>4, <3>6, <4>1, <4>2, <5>1, <5>2
      <4>3. CASE i # 1
        <5>1. p[i] = mem.previous[i - 1] /\ i - 1 \in DOMAIN mem.previous
          BY <3>6, <3>8, <4>3
        <5>2. i - 1 < j - 1
          BY <3>10, <4>0
        <5> QED
          BY <2>f, <4>1, <5>1, <5>2 DEF KidsFall
      <4> QED
        BY <4>2, <4>3
    <3>11. mem'.previous = p
      BY <3>1 DEF p
    <3>12. KidsFall(mem.previous)'
      BY <3>10, <3>11 DEF KidsFall
    <3> QED
      BY <2>s, <3>1, <3>9, <3>11, <3>12, PreviousFor
  <2>4. CASE Prune(r)
    <3>1. /\ mem' = mem /\ disk' = disk /\ rot[r].at = "prune"
          /\ rot'[r].at = IF TooMany THEN "pop" ELSE "private"
      BY <2>4, <1>t, PruneTyped DEF Prune
    <3>2. Lim' = Lim
      BY <2>l, <3>1 DEF Mid
    <3>3. TooMany' <=> TooMany
      BY <3>1 DEF TooMany
    <3> QED
      BY <2>f, <2>s, <3>1, <3>2, <3>3, PreviousFor DEF KidsFall
  <2>5. CASE Pop(r)
    <3>1. /\ MovesTo(r, "unlink") /\ disk' = disk /\ rot[r].at = "pop"
          /\ mem'.kid = mem.kid /\ mem'.previous = Front(mem.previous)
          /\ mem.previous # << >> /\ rot'[r].popped = Last(mem.previous).kid
      BY <2>5, <1>t, PopTyped DEF Pop
    <3>2. Lim' = Lim
      BY <2>l, <3>1 DEF Mid
    <3> DEFINE p == Front(mem.previous)
    <3>3. /\ Len(mem.previous) \in Nat \ {0} /\ p \in Seq(KeyInfo)
          /\ Len(p) = Len(mem.previous) - 1
          /\ \A i \in 1..(Len(mem.previous) - 1) : p[i] = mem.previous[i]
          /\ Last(mem.previous) = mem.previous[Len(mem.previous)]
      BY <2>d, <3>1, FrontAndLast
    <3> HIDE DEF p
    <3>4. /\ DOMAIN p = 1..(Len(mem.previous) - 1) /\ DOMAIN p \subseteq DOMAIN mem.previous
          /\ Len(mem.previous) \in DOMAIN mem.previous
          /\ \A i \in DOMAIN p : p[i] = mem.previous[i] /\ i < Len(mem.previous)
      BY <2>d, <3>3
    <3>5. \A i \in DOMAIN p : p[i].kid > Last(mem.previous).kid
      BY <2>f, <3>3, <3>4 DEF KidsFall
    <3>6. mem'.previous = p
      BY <3>1 DEF p
    <3>7. KidsFall(mem.previous)'
      BY <2>f, <3>4, <3>6 DEF KidsFall
    <3> QED
      BY <2>f, <2>s, <3>1, <3>2, <3>4, <3>5, <3>6, <3>7, PreviousFor
  <2>6. CASE Unlink(r)
    <3>1. /\ MovesTo(r, "prune") /\ mem' = mem /\ rot[r].at = "unlink"
          /\ DOMAIN disk'.saved = DOMAIN disk.saved \ {rot[r].popped}
          /\ \A k \in DOMAIN disk.saved \ {rot[r].popped} : disk'.saved[k] = disk.saved[k]
      BY <2>6, <1>t, UnlinkTyped DEF Unlink
    <3>2. Lim' = Lim
      BY <2>l, <3>1 DEF Mid
    <3>3. \A i \in DOMAIN mem.previous : mem.previous[i].kid > rot[r].popped
      BY <2>s, <3>1 DEF PreviousFit
    <3>4. rot[r].popped \in Nat
      BY <1>t, <1>n, <3>1 DEF TypeOK, Shape
    <3>5. \A i \in DOMAIN mem.previous : mem.previous[i].kid # rot[r].popped
      BY <2>d, <3>3, <3>4
    <3> QED
      BY <2>f, <2>s, <3>1, <3>2, <3>5, PreviousFor DEF KidsFall
  <2>7. CASE \/ WritePrivate(r) \/ WritePublic(r) \/ WriteKid(r)
             \/ LoadPrivate(r) \/ LoadPublic(r)
    <3>1. PICK s \in {"public", "kid", "load_private", "load_public", "load_kid"} : MovesTo(r, s)
      BY <2>7, <1>t, WritePrivateTyped, WritePublicTyped, WriteKidTyped, LoadPrivateTyped,
         LoadPublicTyped
    <3>2. rot[r].at \in {"private", "public", "kid", "load_private", "load_public"}
      BY <2>7 DEF WritePrivate, WritePublic, WriteKid, LoadPrivate, LoadPublic
    <3>3. mem'.kid = mem.kid /\ mem'.previous = mem.previous /\ disk'.saved = disk.saved
      BY <2>7, <1>t, WritePrivateTyped, WritePublicTyped, WriteKidTyped, LoadPrivateTyped,
         LoadPublicTyped DEF WritePrivate, WritePublic, WriteKid
    <3>4. Lim' = Lim
      BY <2>l, <3>1, <3>2, <3>3 DEF Mid, AfterPrivate, AfterLoadKid, AfterLoadPublic,
         AfterLoadPrivate, AfterKid, AfterPublic
    <3>5. Lim <= Lim'
      BY <2>l, <3>4
    <3> QED
      BY <2>l, <2>q, <2>s, <3>1, <3>3, <3>5, PreviousFrame
  <2>8. CASE LoadKid(r)
    <3>1. /\ MovesTo(r, "certify") /\ disk' = disk /\ mem'.previous = mem.previous
          /\ mem'.kid = rot[r].new /\ rot[r].at = "load_kid"
      BY <2>8, <1>t, LoadKidTyped DEF LoadKid
    <3>2. rot[r].at \in AfterPrivate \ AfterLoadKid
      BY <3>1 DEF AfterPrivate, AfterLoadKid, AfterLoadPublic, AfterLoadPrivate, AfterKid,
         AfterPublic
    <3>3. mem.kid < made /\ rot[r].alone
      BY <3>2 DEF Orderly
    <3>4. rot[r].new = made
      BY <1>t, <3>1, <3>2, <3>3 DEF LoneRotations, Repaired
    <3>5. "certify" \notin Mid
      BY DEF Mid, AfterPrivate, AfterLoadKid, AfterLoadPublic, AfterLoadPrivate, AfterKid,
         AfterPublic
    <3>6. Lim <= mem.kid + 1 /\ Lim' = made
      BY <2>l, <3>1, <3>4, <3>5
    <3>7. Lim <= Lim'
      BY <1>n, <2>l, <3>3, <3>6
    <3> QED
      BY <2>l, <2>q, <2>s, <3>1, <3>7, PreviousFrame
  <2>9. CASE Certify(r) \/ LoadCertificate(r) \/ SaveMetadata(r)
    <3>1. rot'[r].at \in {"load_cert", "metadata", "idle"}
      BY <2>9, <1>t, CertifyTyped, LoadCertificateTyped, EndedMoves DEF SaveMetadata, NotRotating
    <3>2. rot[r].at \in {"certify", "load_cert", "metadata"}
      BY <2>9 DEF Certify, LoadCertificate, SaveMetadata
    <3>3. mem'.kid = mem.kid /\ mem'.previous = mem.previous /\ disk'.saved = disk.saved
      BY <2>9, <1>t, CertifyTyped, LoadCertificateTyped, SaveMetadataTyped
      DEF Certify, SaveMetadata
    <3>4. Lim' = Lim
      BY <2>l, <3>1, <3>2, <3>3 DEF Mid, AfterPrivate, AfterLoadKid, AfterLoadPublic,
         AfterLoadPrivate, AfterKid, AfterPublic
    <3>5. Lim <= Lim'
      BY <2>l, <3>4
    <3> QED
      BY <2>l, <2>q, <2>s, <3>1, <3>3, <3>5, PreviousFrame
  <2> QED
    BY <1>5, <2>s, <2>1, <2>2, <2>3, <2>4, <2>5, <2>6, <2>7, <2>8, <2>9 DEF Rotate
<1>6. ASSUME UNCHANGED <<mem, disk, rot>> PROVE PreviousFit'
  BY <1>6 DEF PreviousFit, Lim, Running, Up, KidsFall, At, TooMany
<1> QED
  BY <1>2, <1>3, <1>4, <1>5, <1>6 DEF Next, SignHeader, Sign, vars

LEMMA MetaStep ==
    ASSUME Base, Base', Clean, Clean', Orderly, PreviousFit, MetaFit, [Next]_vars
    PROVE  MetaFit'
<1>t. TypeOK /\ Shape /\ WriteOrder /\ LoneRotations /\ TypeOK'
  BY DEF Base
<1>n. made \in Nat /\ None \notin Key /\ Key \subseteq Nat
  BY KeysAreNumbers, <1>t DEF TypeOK
<1>1. ASSUME disk'.kid = disk.kid, disk'.meta = disk.meta PROVE MetaFit'
  BY <1>1 DEF MetaFit, Falls
<1>2. ASSUME NEW n \in 0..4, StartFresh(n) PROVE MetaFit'
  <2>1. disk.meta = << >> /\ disk'.meta = disk.meta
    BY <1>2, <1>t, StartFreshTyped DEF StartFresh, Complete, WriteOrder
  <2> QED
    BY <2>1 DEF MetaFit, Falls
<1>3. ASSUME NEW r \in Rotators, WriteKid(r) PROVE MetaFit'
  <2>1. /\ disk'.kid = rot[r].new /\ disk'.meta = disk.meta /\ rot[r].at = "kid"
    BY <1>3, <1>t, WriteKidTyped DEF WriteKid, At
  <2>2. rot[r].new = made
    BY <1>t, <2>1 DEF Orderly, LoneRotations, Repaired, Idle, AfterPrivate
  <2>3. disk.kid \in Nat /\ disk.kid # None /\ disk.kid <= made
    BY <1>t, <1>n, <2>1, RunningIsUp DEF Idle, WriteOrder, Complete
  <2>4. ASSUME NEW i \in DOMAIN disk.meta PROVE disk.meta[i] <= made - i
    <3>d. disk.meta \in Seq(Key)
      BY <1>t DEF TypeOK
    <3>1. disk.meta[i] \in Key /\ i \in Nat
      BY <3>d
    <3>n. disk.meta[i] \in Nat
      BY <1>n, <3>1
    <3>2. disk.meta[i] <= disk.kid - i
      BY <2>3 DEF MetaFit
    <3> QED
      BY <1>n, <2>3, <3>n, <3>1, <3>2
  <2> QED
    BY <2>1, <2>2, <2>3, <2>4 DEF MetaFit, Falls
<1>4. ASSUME NEW r \in Rotators, SaveMetadata(r) PROVE MetaFit'
  <2>s. /\ Sole(r) /\ Sole(r)' /\ Up /\ mem \in Memory /\ mem' \in Memory
    BY <1>4, SoleStep DEF Rotate
  <2>1. /\ disk'.kid = disk.kid /\ Len(disk'.meta) = Len(mem.previous)
        /\ \A i \in DOMAIN mem.previous : disk'.meta[i] = mem.previous[i].kid
        /\ rot[r].at = "metadata"
    BY <1>4, <1>t, SaveMetadataTyped DEF SaveMetadata, At
  <2>2. disk'.meta \in Seq(Key)
    BY <1>t DEF TypeOK
  <2>3. DOMAIN disk'.meta = DOMAIN mem.previous
    BY <2>1, <2>2, <2>s, PreviousTyped
  <2>4. mem.kid = made /\ disk.kid = made
    BY <1>t, <2>1 DEF Orderly, LoneRotations, Repaired, Idle, AfterLoadKid,
       AfterLoadPublic, AfterLoadPrivate, AfterKid, AfterPublic, AfterPrivate
  <2>5. Lim = mem.kid
    <3>1. "metadata" \notin Mid
      BY DEF Mid, AfterPrivate, AfterLoadKid, AfterLoadPublic, AfterLoadPrivate, AfterKid,
         AfterPublic
    <3> QED
      BY <2>1, <2>s, <3>1, SoleLimits
  <2>6. /\ \A i \in DOMAIN mem.previous : mem.previous[i].kid <= Lim - i
        /\ KidsFall(mem.previous)
    BY <2>s DEF PreviousFit
  <2> QED
    BY <2>1, <2>3, <2>4, <2>5, <2>6 DEF MetaFit, Falls, KidsFall
<1>5. ASSUME NEW r \in Rotators, Rotate(r) PROVE MetaFit'
  <2>1. ~Fail(r)
    BY <1>5, SoleStep
  <2>2. CASE SavePrevious(r)
    BY <1>1, <1>t, <2>2, SavePreviousTyped
  <2>3. CASE Unlink(r)
    BY <1>1, <1>t, <2>3, UnlinkTyped
  <2>4. CASE WritePrivate(r)
    BY <1>1, <1>t, <2>4, WritePrivateTyped
  <2>5. CASE WritePublic(r)
    BY <1>1, <1>t, <2>5, WritePublicTyped
  <2>6. CASE Certify(r)
    BY <1>1, <1>t, <2>6, CertifyTyped
  <2>7. CASE disk' = disk
    BY <1>1, <2>7
  <2> QED
    BY <1>3, <1>4, <1>5, <2>1, <2>2, <2>3, <2>4, <2>5, <2>6, <2>7
    DEF Rotate, RotateBegin, Retire, Prune, Pop, LoadPrivate, LoadPublic, LoadKid,
        LoadCertificate
<1>6. ASSUME Start PROVE MetaFit'
  BY <1>1, <1>6, <1>t, StartTyped
<1>7. ASSUME UNCHANGED disk PROVE MetaFit'
  BY <1>1, <1>7
<1> QED
  BY <1>2, <1>5, <1>6, <1>7 DEF Next, Crash, SignHeader, Sign, vars

\* What is in memory is what a restart would load, but for an old kid that has just
\* joined the previous keys; as long as the files cover it.
Reloads ==
    Up /\ Covered =>
        mem.previous = IF Retired
                       THEN <<[kid |-> mem.kid, pub |-> mem.pub]>> \o LoadedPrevious(disk)
                       ELSE LoadedPrevious(disk)

LEMMA ReloadsStep ==
    ASSUME Base, Base', Clean, Clean', Orderly, PreviousFit, MetaFit, Reloads, [Next]_vars
    PROVE  Reloads'
<1>t. TypeOK /\ Shape /\ WriteOrder /\ LoneRotations /\ TypeOK'
  BY DEF Base
<1>n. made \in Nat /\ None \notin Key /\ Key \subseteq Nat
  BY KeysAreNumbers, <1>t DEF TypeOK
<1>1. ASSUME Up', mem' = Loaded(disk'), Quiet' PROVE Reloads'
  BY <1>1, LoadedFields DEF Reloads, Retired, Running, Quiet, Idle
<1>2. ASSUME Start PROVE Reloads'
  BY <1>1, <1>2, <1>t, StartTyped DEF Start, Shape, Quiet, Idle
<1>3. ASSUME NEW n \in 0..4, StartFresh(n) PROVE Reloads'
  <2>1. ~Up /\ Quiet'
    BY <1>3, <1>t DEF StartFresh, Shape, Quiet, Idle
  <2>2. CASE n < 4
    BY <1>3, <1>t, <2>1, <2>2, StartFreshTyped DEF Reloads, Up
  <2>3. CASE n = 4
    BY <1>1, <1>3, <1>t, <2>1, <2>3, StartFreshTyped
  <2> QED
    BY <2>2, <2>3
<1>4. ASSUME Crash PROVE Reloads'
  BY <1>4, <1>t, CrashTyped DEF Reloads
<1>5. ASSUME NEW r \in Rotators, Rotate(r) PROVE Reloads'
  <2>s. /\ Sole(r) /\ Sole(r)' /\ ~Fail(r)
        /\ Up /\ mem \in Memory /\ mem' \in Memory /\ Complete
    BY <1>5, SoleStep
  <2>a. /\ Running(AfterPrivate) <=> rot[r].at \in AfterPrivate
        /\ Retired <=> rot[r].at \in {"prune", "pop"}
        /\ Covered <=> rot[r].at \in {"idle"} \cup BeforePop /\ rot[r].popped = None
    BY <1>t, <2>s, SoleFacts
  <2>b. /\ Retired' <=> rot'[r].at \in {"prune", "pop"}
        /\ Covered' <=> rot'[r].at \in {"idle"} \cup BeforePop /\ rot'[r].popped = None
    BY <2>s, SoleFactsNext DEF Base
  <2> USE DEF MovesTo, At, BeforePop
  <2>1. CASE RotateBegin(r)
    <3>1. /\ rot'[r].at = "save" /\ UNCHANGED <<mem, disk>> /\ rot[r].at = "idle"
          /\ rot[r].popped = None
      BY <2>1, <1>t, CleanBegin DEF RotateBegin, Shape, Idle, NotRotating
    <3> QED
      BY <2>a, <2>b, <2>s, <3>1 DEF Reloads
  <2>2. CASE SavePrevious(r)
    <3>1. /\ MovesTo(r, "retire") /\ mem' = mem /\ rot[r].at = "save"
          /\ rot'[r].popped = rot[r].popped /\ disk'.meta = disk.meta
          /\ DOMAIN disk'.saved = DOMAIN disk.saved \cup {rot[r].old}
          /\ \A k \in DOMAIN disk.saved : k # rot[r].old => disk'.saved[k] = disk.saved[k]
      BY <2>2, <1>t, SavePreviousTyped DEF SavePrevious
    <3>2. rot[r].at \notin AfterLoadKid /\ rot[r].at \notin AfterPrivate
      BY <3>1 DEF AfterPrivate, AfterLoadKid, AfterLoadPublic, AfterLoadPrivate,
         AfterKid, AfterPublic
    <3>3. rot[r].old = mem.kid /\ mem.kid = disk.kid
      BY <2>a, <2>s, <3>1, <3>2 DEF Orderly, Idle
    <3>4. disk.meta \in Seq(Key) /\ disk.kid \in Nat /\ disk.kid # None
      BY <1>t, <1>n, <2>s DEF TypeOK, Complete
    <3>5. ASSUME NEW i \in DOMAIN disk.meta
          PROVE  /\ Backed(disk', i) <=> Backed(disk, i)
                 /\ Backed(disk, i) => EntryOf(disk', i) = EntryOf(disk, i)
      <4>d. i \in Nat \ {0} /\ disk.meta[i] \in Key
        BY <3>4
      <4>1. i \in Nat \ {0} /\ disk.meta[i] \in Nat
        BY <1>n, <4>d
      <4>2. disk.meta[i] <= disk.kid - i
        BY <3>4 DEF MetaFit
      <4>3. disk.meta[i] # rot[r].old
        BY <3>3, <3>4, <4>1, <4>2
      <4> QED
        BY <3>1, <4>3 DEF Backed, EntryOf
    <3>6. LoadedPrevious(disk') = LoadedPrevious(disk)
      BY <3>1, <3>4, <3>5, LoadedAlike
    <3> QED
      BY <2>a, <2>b, <2>s, <3>1, <3>6 DEF Reloads
  <2>3. CASE Retire(r)
    <3>1. /\ MovesTo(r, "prune") /\ rot'[r].popped = rot[r].popped
          /\ disk' = disk /\ rot[r].at = "retire" /\ mem'.kid = mem.kid /\ mem'.pub = mem.pub
          /\ mem'.previous = <<[kid |-> rot[r].old, pub |-> mem.pub]>> \o mem.previous
      BY <2>3, <1>t, RetireTyped DEF Retire
    <3>2. rot[r].at \notin AfterLoadKid
      BY <3>1 DEF AfterPrivate, AfterLoadKid, AfterLoadPublic, AfterLoadPrivate,
         AfterKid, AfterPublic
    <3>3. rot[r].old = mem.kid
      BY <3>1, <3>2 DEF Orderly, Idle
    <3>4. CASE rot[r].popped = None
      <4>1. mem.previous = LoadedPrevious(disk)
        BY <2>a, <2>s, <3>1, <3>4 DEF Reloads
      <4> QED
        BY <2>b, <3>1, <3>3, <4>1 DEF Reloads
    <3>5. CASE rot[r].popped # None
      BY <2>b, <3>1, <3>5 DEF Reloads
    <3> QED
      BY <3>4, <3>5
  <2>4. CASE Prune(r)
    <3>1. /\ mem' = mem /\ disk' = disk /\ rot[r].at = "prune"
          /\ rot'[r].at \in {"pop", "private"} /\ rot'[r].popped = rot[r].popped
      BY <2>4, <1>t, PruneTyped DEF Prune
    <3> QED
      BY <2>a, <2>b, <2>s, <3>1 DEF Reloads
  <2>5. CASE Pop(r)
    <3>1. rot'[r].popped # None
      BY <2>5, <1>t, <1>n, PopTyped
    <3> QED
      BY <2>b, <3>1 DEF Reloads
  <2>6. CASE Unlink(r)
    <3>1. rot'[r].popped # None
      BY <2>6, <1>t, UnlinkTyped DEF Unlink, Shape
    <3> QED
      BY <2>b, <3>1 DEF Reloads
  <2>7. CASE \/ WritePrivate(r) \/ WritePublic(r) \/ WriteKid(r) \/ LoadPrivate(r)
             \/ LoadPublic(r) \/ LoadKid(r) \/ Certify(r) \/ LoadCertificate(r)
    <3>1. rot'[r].at \in AfterPrivate
      BY <2>7, <1>t, WritePrivateTyped, WritePublicTyped, WriteKidTyped, LoadPrivateTyped,
         LoadPublicTyped, LoadKidTyped, CertifyTyped, LoadCertificateTyped DEF AfterPrivate
    <3> QED
      BY <2>b, <3>1 DEF Reloads, AfterPrivate
  <2>8. CASE SaveMetadata(r)
    <3>1. /\ rot'[r] = NotRotating /\ mem' = mem /\ disk'.saved = disk.saved
          /\ Len(disk'.meta) = Len(mem.previous)
          /\ \A i \in DOMAIN mem.previous : disk'.meta[i] = mem.previous[i].kid
      BY <2>8, <1>t, SaveMetadataTyped, EndedMoves DEF SaveMetadata
    <3>2. disk'.meta \in Seq(Key)
      BY <1>t DEF TypeOK
    <3>3. /\ mem.previous \in Seq(KeyInfo) /\ DOMAIN mem.previous = 1..Len(mem.previous)
          /\ \A i \in DOMAIN mem.previous : mem.previous[i] \in KeyInfo
      BY <2>s, PreviousTyped
    <3>4. ASSUME NEW i \in 1..Len(mem.previous)
          PROVE  /\ disk'.meta[i] = mem.previous[i].kid
                 /\ Backed(disk', i) /\ EntryOf(disk', i) = mem.previous[i]
      <4>1. /\ mem.previous[i].kid \in DOMAIN disk.saved
            /\ disk.saved[mem.previous[i].kid] = mem.previous[i].pub
        BY <2>s, <3>3 DEF PreviousFit
      <4>2. mem.previous[i] = [kid |-> mem.previous[i].kid, pub |-> mem.previous[i].pub]
        BY <3>3 DEF KeyInfo
      <4> QED
        BY <3>1, <3>3, <4>1, <4>2 DEF Backed, EntryOf
    <3>5. LoadedPrevious(disk') = mem.previous
      BY <3>1, <3>2, <3>3, <3>4, LoadedBack
    <3> QED
      BY <2>b, <3>1, <3>5 DEF Reloads, NotRotating
  <2> QED
    BY <1>5, <2>s, <2>1, <2>2, <2>3, <2>4, <2>5, <2>6, <2>7, <2>8 DEF Rotate
<1>6. ASSUME UNCHANGED <<mem, disk, rot>> PROVE Reloads'
  BY <1>6 DEF Reloads, Retired, Running, Covered, Up
<1> QED
  BY <1>2, <1>3, <1>4, <1>5, <1>6 DEF Next, SignHeader, Sign, vars

\* The key of a number is found by a relying party who asks for its kid, in memory
\* m, or has been replaced so often that nobody promises it any more.
Entry(k) == [kid |-> k, pub |-> k]

Holds(m, k) ==
    \/ m.kid = k /\ m.pub = k
    \/ \E i \in DOMAIN m.previous : m.previous[i] = Entry(k)
    \/ m.kid - k > MaxPrevious

\* The same of the memory of a process in which a rotation may be under way: once
\* it has pruned, it has given up what the next kid would.
ELim == IF Running(Mid) /\ ~Covered THEN mem.kid + 1 ELSE mem.kid

Keeps(k) ==
    \/ ~Running(Mid) /\ mem.kid = k /\ mem.pub = k
    \/ \E i \in DOMAIN mem.previous : mem.previous[i] = Entry(k)
    \/ ELim - k > MaxPrevious

TokensKept ==
    /\ Up => /\ \A x \in tokens : x.kid = x.key => Keeps(x.kid)
             /\ mem.priv = mem.kid => Keeps(mem.kid)
             /\ \A t \in Signers : signing[t] # None => signing[t] <= mem.kid
    /\ ~Up => /\ \A x \in tokens : x.kid = x.key => Holds(Loaded(disk), x.kid)
              /\ \A t \in Signers : signing[t] = None

LEMMA KeepsFrame ==
    ASSUME NEW k \in Nat, Keeps(k), mem'.previous = mem.previous,
           ELim \in Nat, ELim' \in Nat, ELim <= ELim',
           \/ Running(Mid)
           \/ /\ ~Running(Mid)'
              /\ mem'.kid = mem.kid /\ mem'.pub = mem.pub
    PROVE  Keeps(k)'
<1>1. ELim - k > MaxPrevious => ELim' - k > MaxPrevious
  BY BoundsAssumption
<1> HIDE DEF ELim
<1> QED
  BY <1>1 DEF Keeps

LEMMA SoleELim ==
    ASSUME Base, Base', NEW r \in Rotators, Sole(r), Sole(r)', mem \in Memory, mem' \in Memory
    PROVE  /\ mem.kid \in Nat /\ mem'.kid \in Nat /\ ELim \in Nat /\ ELim' \in Nat
           /\ Running(Mid) <=> rot[r].at \in Mid
           /\ Running(Mid)' <=> rot'[r].at \in Mid
           /\ Covered <=> rot[r].at \in {"idle"} \cup BeforePop /\ rot[r].popped = None
           /\ Covered' <=> rot'[r].at \in {"idle"} \cup BeforePop /\ rot'[r].popped = None
           /\ ELim = IF Running(Mid) /\ ~Covered THEN mem.kid + 1 ELSE mem.kid
           /\ ELim' = IF Running(Mid)' /\ ~Covered' THEN mem'.kid + 1 ELSE mem'.kid
<1>1. mem.kid \in Nat /\ mem'.kid \in Nat
  BY KeysAreNumbers DEF Memory
<1>2. /\ Running(Mid) <=> rot[r].at \in Mid
      /\ Covered <=> rot[r].at \in {"idle"} \cup BeforePop /\ rot[r].popped = None
  BY SoleFacts DEF Base
<1>3. /\ Running(Mid)' <=> rot'[r].at \in Mid
      /\ Covered' <=> rot'[r].at \in {"idle"} \cup BeforePop /\ rot'[r].popped = None
  BY SoleFactsNext DEF Base
<1> QED
  BY <1>1, <1>2, <1>3 DEF ELim

\* No step of a rotation gives up a key that is still promised.
LEMMA KeepsStep ==
    ASSUME Base, Base', Clean, Clean', Orderly, PreviousFit, NEW r \in Rotators, Rotate(r),
           NEW k \in Nat, Keeps(k)
    PROVE  Keeps(k)'
<1>t. TypeOK /\ Shape /\ WriteOrder /\ LoneRotations /\ MaxPrevious \in Nat
  BY BoundsAssumption DEF Base
<1>n. made \in Nat /\ None \notin Key /\ Key \subseteq Nat
  BY KeysAreNumbers, <1>t DEF TypeOK
<1>s. /\ Sole(r) /\ Sole(r)' /\ ~Fail(r)
      /\ Up /\ mem \in Memory /\ mem' \in Memory
  BY SoleStep
<1>e. /\ mem.kid \in Nat /\ mem'.kid \in Nat /\ ELim \in Nat /\ ELim' \in Nat
      /\ Running(Mid) <=> rot[r].at \in Mid
      /\ Running(Mid)' <=> rot'[r].at \in Mid
      /\ Covered <=> rot[r].at \in {"idle"} \cup BeforePop /\ rot[r].popped = None
      /\ Covered' <=> rot'[r].at \in {"idle"} \cup BeforePop /\ rot'[r].popped = None
      /\ ELim = IF Running(Mid) /\ ~Covered THEN mem.kid + 1 ELSE mem.kid
      /\ ELim' = IF Running(Mid)' /\ ~Covered' THEN mem'.kid + 1 ELSE mem'.kid
  BY <1>s, SoleELim
<1>d. /\ mem.previous \in Seq(KeyInfo) /\ Len(mem.previous) \in Nat
      /\ DOMAIN mem.previous = 1..Len(mem.previous)
      /\ \A i \in DOMAIN mem.previous : mem.previous[i].kid \in Nat
  BY <1>s, PreviousTyped
<1>m. /\ {"prune", "pop", "unlink", "private", "public", "kid", "load_private",
          "load_public", "load_kid"} \subseteq Mid
      /\ {"idle", "save", "retire", "certify", "load_cert", "metadata"} \cap Mid = {}
  BY DEF Mid, AfterPrivate, AfterLoadKid, AfterLoadPublic, AfterLoadPrivate, AfterKid,
     AfterPublic
<1> HIDE DEF ELim
<1> USE DEF MovesTo, At, Idle, BeforePop
<1>1. CASE RotateBegin(r) \/ SavePrevious(r)
  <2>1. rot[r].at \in {"idle", "save"} /\ rot'[r].at \in {"save", "retire"} /\ mem' = mem
    BY <1>1, <1>t, SavePreviousTyped, CleanBegin DEF RotateBegin, SavePrevious
  <2>2. ~Running(Mid) /\ ~Running(Mid)'
    BY <1>e, <1>m, <2>1
  <2>3. ELim <= ELim'
    BY <1>e, <2>1, <2>2
  <2> QED
    BY <1>e, <2>1, <2>2, <2>3, KeepsFrame
<1>2. CASE Retire(r)
  <2> DEFINE e == [kid |-> rot[r].old, pub |-> mem.pub]
  <2>1. /\ rot'[r].at = "prune" /\ rot[r].at = "retire"
        /\ mem'.kid = mem.kid /\ mem'.previous = <<e>> \o mem.previous
    BY <1>2, <1>t, RetireTyped DEF Retire
  <2>2. rot[r].old = mem.kid
    BY <2>1 DEF Orderly, AfterPrivate, AfterLoadKid, AfterLoadPublic, AfterLoadPrivate,
       AfterKid, AfterPublic
  <2>3. e \in KeyInfo
    BY <1>s, <2>2 DEF KeyInfo, Memory
  <2>4. e = [kid |-> mem.kid, pub |-> mem.pub]
    BY <2>2
  <2> HIDE DEF e
  <2> DEFINE p == <<e>> \o mem.previous
  <2>5. /\ p \in Seq(KeyInfo) /\ Len(p) = Len(mem.previous) + 1 /\ p[1] = e
        /\ \A i \in 1..Len(mem.previous) : p[i + 1] = mem.previous[i]
    BY <1>d, <2>3, InFront
  <2> HIDE DEF p
  <2>6. 1 \in DOMAIN p /\ \A i \in DOMAIN mem.previous : i + 1 \in DOMAIN p
    BY <1>d, <2>5
  <2>7. mem'.previous = p
    BY <2>1 DEF p
  <2>8. CASE mem.kid = k /\ mem.pub = k
    <3>1. p[1] = Entry(k)
      BY <2>4, <2>5, <2>8 DEF Entry
    <3> QED
      BY <2>6, <2>7, <3>1 DEF Keeps
  <2>9. CASE \E i \in DOMAIN mem.previous : mem.previous[i] = Entry(k)
    <3>1. PICK i \in DOMAIN mem.previous : mem.previous[i] = Entry(k)
      BY <2>9
    <3>2. i + 1 \in DOMAIN p /\ p[i + 1] = Entry(k)
      BY <1>d, <2>5, <2>6, <3>1
    <3> QED
      BY <2>7, <3>2 DEF Keeps
  <2>10. CASE ELim - k > MaxPrevious
    <3>1. ELim = mem.kid /\ ELim' >= mem.kid
      BY <1>e, <1>m, <2>1
    <3>2. ELim' - k > MaxPrevious
      BY <1>e, <1>t, <2>10, <3>1
    <3> QED
      BY <3>2 DEF Keeps
  <2> QED
    BY <2>8, <2>9, <2>10 DEF Keeps
<1>3. CASE Prune(r)
  <2>1. /\ mem' = mem /\ rot[r].at = "prune" /\ rot'[r].at \in {"pop", "private"}
        /\ rot'[r].popped = rot[r].popped
    BY <1>3, <1>t, PruneTyped DEF Prune
  <2>2. Running(Mid) /\ Running(Mid)' /\ (Covered' => Covered)
    BY <1>e, <1>m, <2>1
  <2>3. ELim <= ELim'
    BY <1>e, <2>1, <2>2
  <2> QED
    BY <1>e, <2>1, <2>2, <2>3, KeepsFrame
<1>4. CASE Pop(r)
  <2>1. /\ rot'[r].at = "unlink" /\ rot[r].at = "pop"
        /\ mem'.kid = mem.kid /\ mem'.previous = Front(mem.previous)
        /\ mem.previous # << >>
    BY <1>4, <1>t, PopTyped DEF Pop
  <2>2. ELim <= ELim' /\ ELim' = mem.kid + 1
    BY <1>e, <1>m, <2>1
  <2> DEFINE p == Front(mem.previous)
  <2>3. /\ Len(mem.previous) \in Nat \ {0} /\ p \in Seq(KeyInfo)
        /\ Len(p) = Len(mem.previous) - 1
        /\ \A i \in 1..(Len(mem.previous) - 1) : p[i] = mem.previous[i]
    BY <1>d, <2>1, FrontAndLast
  <2> HIDE DEF p
  <2>4. DOMAIN p = 1..(Len(mem.previous) - 1) /\ mem'.previous = p
    BY <2>1, <2>3 DEF p
  <2>5. Len(mem.previous) > MaxPrevious
    BY <1>s, <2>1 DEF PreviousFit, TooMany
  <2>6. CASE \E i \in DOMAIN mem.previous : mem.previous[i] = Entry(k)
    <3>1. PICK i \in DOMAIN mem.previous : mem.previous[i] = Entry(k)
      BY <2>6
    <3>2. CASE i # Len(mem.previous)
      <4>1. i \in DOMAIN p /\ p[i] = Entry(k)
        BY <1>d, <2>3, <2>4, <3>1, <3>2
      <4> QED
        BY <2>4, <4>1 DEF Keeps
    <3>3. CASE i = Len(mem.previous)
      <4>1. mem.previous[i].kid = k
        BY <3>1 DEF Entry
      <4>2. Lim = mem.kid + 1
        BY <1>e, <1>m, <2>1 DEF Lim
      <4>3. k <= (mem.kid + 1) - Len(mem.previous)
        BY <1>s, <3>1, <3>3, <4>1, <4>2 DEF PreviousFit
      <4>4. ELim' - k > MaxPrevious
        BY <1>d, <1>e, <1>t, <2>2, <2>5, <4>3
      <4> QED
        BY <4>4 DEF Keeps
    <3> QED
      BY <3>2, <3>3
  <2>7. CASE ELim - k > MaxPrevious
    <3>1. ELim' - k > MaxPrevious
      BY <1>e, <1>t, <2>2, <2>7
    <3> QED
      BY <3>1 DEF Keeps
  <2> QED
    BY <1>e, <1>m, <2>1, <2>6, <2>7 DEF Keeps
<1>5. CASE Unlink(r)
  <2>1. /\ mem' = mem /\ rot[r].at = "unlink" /\ rot'[r].at = "prune"
        /\ rot'[r].popped = rot[r].popped /\ rot[r].popped # None
    BY <1>5, <1>t, UnlinkTyped DEF Unlink, Shape
  <2>2. Running(Mid) /\ Running(Mid)' /\ ~Covered'
    BY <1>e, <1>m, <2>1
  <2>3. ELim <= ELim'
    BY <1>e, <2>1, <2>2
  <2> QED
    BY <1>e, <2>1, <2>2, <2>3, KeepsFrame
<1>6. CASE \/ WritePrivate(r) \/ WritePublic(r) \/ WriteKid(r)
           \/ LoadPrivate(r) \/ LoadPublic(r)
  <2>1. rot'[r].at \in {"public", "kid", "load_private", "load_public", "load_kid"}
    BY <1>6, <1>t, WritePrivateTyped, WritePublicTyped, WriteKidTyped, LoadPrivateTyped,
       LoadPublicTyped
  <2>2. rot[r].at \in {"private", "public", "kid", "load_private", "load_public"}
    BY <1>6 DEF WritePrivate, WritePublic, WriteKid, LoadPrivate, LoadPublic
  <2>3. mem'.kid = mem.kid /\ mem'.previous = mem.previous
    BY <1>6, <1>t, LoadPrivateTyped, LoadPublicTyped DEF WritePrivate, WritePublic, WriteKid
  <2>4. Running(Mid) /\ Running(Mid)' /\ ~Covered'
    BY <1>e, <1>m, <2>1, <2>2
  <2>5. ELim \in Nat /\ ELim' \in Nat /\ ELim <= ELim'
    BY <1>e, <2>3, <2>4
  <2> QED
    BY <2>3, <2>4, <2>5, KeepsFrame
<1>7. CASE LoadKid(r)
  <2>1. /\ rot'[r].at = "certify" /\ mem'.previous = mem.previous
        /\ mem'.kid = rot[r].new /\ rot[r].at = "load_kid"
    BY <1>7, <1>t, LoadKidTyped DEF LoadKid
  <2>2. rot[r].at \in AfterPrivate \ AfterLoadKid
    BY <2>1 DEF AfterPrivate, AfterLoadKid, AfterLoadPublic, AfterLoadPrivate, AfterKid,
       AfterPublic
  <2>3. mem.kid < made /\ rot[r].alone
    BY <2>2 DEF Orderly
  <2>4. rot[r].new = made
    BY <1>t, <2>1, <2>2, <2>3 DEF LoneRotations, Repaired
  <2>5. Running(Mid) /\ ~Running(Mid)'
    BY <1>e, <1>m, <2>1
  <2>6. ELim \in Nat /\ ELim' \in Nat /\ ELim <= ELim'
    BY <1>e, <1>n, <2>1, <2>3, <2>4, <2>5
  <2> QED
    BY <2>1, <2>5, <2>6, KeepsFrame
<1>8. CASE Certify(r) \/ LoadCertificate(r) \/ SaveMetadata(r)
  <2>1. rot'[r].at \in {"load_cert", "metadata", "idle"}
    BY <1>8, <1>t, CertifyTyped, LoadCertificateTyped, EndedMoves DEF SaveMetadata, NotRotating
  <2>2. rot[r].at \in {"certify", "load_cert", "metadata"}
    BY <1>8 DEF Certify, LoadCertificate, SaveMetadata
  <2>3. mem'.kid = mem.kid /\ mem'.pub = mem.pub /\ mem'.previous = mem.previous
    BY <1>8, <1>t, LoadCertificateTyped DEF Certify, SaveMetadata
  <2>4. ~Running(Mid) /\ ~Running(Mid)'
    BY <1>e, <1>m, <2>1, <2>2
  <2>5. ELim <= ELim'
    BY <1>e, <2>3, <2>4
  <2> QED
    BY <1>e, <2>3, <2>4, <2>5, KeepsFrame
<1> QED
  BY <1>s, <1>1, <1>2, <1>3, <1>4, <1>5, <1>6, <1>7, <1>8 DEF Rotate

LEMMA TokensStep ==
    ASSUME Base, Base', Clean, Clean', Orderly, Orderly', PreviousFit, Reloads, TokensKept,
           [Next]_vars
    PROVE  TokensKept'
<1>t. TypeOK /\ Shape /\ WriteOrder /\ LoneRotations /\ MaxPrevious \in Nat /\ TypeOK'
  BY BoundsAssumption DEF Base
<1>n. made \in Nat /\ None \notin Key /\ Key \subseteq Nat
  BY KeysAreNumbers, <1>t DEF TypeOK
<1>k. \A x \in tokens : x.kid \in Nat
  BY <1>n, <1>t DEF TypeOK
<1>m. "idle" \notin Mid /\ "idle" \notin AfterPrivate
  BY DEF Mid, AfterPrivate, AfterLoadKid, AfterLoadPublic, AfterLoadPrivate, AfterKid,
     AfterPublic
<1>1. ASSUME Start PROVE TokensKept'
  <2>1. /\ ~Up /\ Up' /\ mem' = Loaded(disk') /\ Quiet' /\ mem' \in Memory
        /\ disk'.pub = disk.pub /\ disk'.kid = disk.kid
        /\ disk'.meta = disk.meta /\ disk'.saved = disk.saved
        /\ tokens' = tokens /\ signing' = signing
    BY <1>1, <1>t, StartTyped DEF Start, Shape, Quiet, Idle
  <2>2. LoadedPrevious(disk') = LoadedPrevious(disk)
    <3>1. disk.meta \in Seq(Key)
      BY <1>t DEF TypeOK
    <3>2. \A i \in DOMAIN disk.meta : /\ Backed(disk', i) <=> Backed(disk, i)
                                      /\ Backed(disk, i) => EntryOf(disk', i) = EntryOf(disk, i)
      BY <2>1 DEF Backed, EntryOf
    <3> QED
      BY <2>1, <3>1, <3>2, LoadedAlike
  <2>3. /\ mem'.kid = Loaded(disk).kid /\ mem'.pub = Loaded(disk).pub
        /\ mem'.previous = Loaded(disk).previous
    BY <2>1, <2>2, LoadedFields
  <2>4. ~Running(Mid)' /\ ELim' = mem'.kid
    BY <1>m, <2>1 DEF Running, Quiet, Idle, ELim
  <2>5. ASSUME NEW x \in tokens, x.kid = x.key PROVE Keeps(x.kid)'
    <3>1. Holds(Loaded(disk), x.kid)
      BY <2>1, <2>5 DEF TokensKept
    <3> HIDE DEF ELim
    <3> QED
      BY <2>3, <2>4, <3>1 DEF Keeps, Holds
  <2>6. mem'.priv = mem'.kid => Keeps(mem.kid)'
    BY <2>1, <2>4 DEF Orderly, Keeps
  <2>7. \A t \in Signers : signing'[t] = None
    BY <2>1 DEF TokensKept
  <2> QED
    BY <2>1, <2>5, <2>6, <2>7 DEF TokensKept
<1>2. ASSUME NEW n \in 0..4, StartFresh(n) PROVE TokensKept'
  <2>1. /\ ~Up /\ Quiet' /\ tokens' = {} /\ signing' = signing
    BY <1>2, <1>t DEF StartFresh, Complete, WriteOrder, Shape, Quiet, Idle
  <2>2. ~Running(Mid)'
    BY <1>m, <2>1 DEF Running, Quiet, Idle
  <2>3. Up' /\ mem'.priv = mem'.kid => Keeps(mem.kid)'
    BY <2>2 DEF Orderly, Keeps
  <2>4. \A t \in Signers : signing'[t] = None
    BY <2>1 DEF TokensKept
  <2> QED
    BY <2>1, <2>3, <2>4 DEF TokensKept
<1>3. ASSUME Crash PROVE TokensKept'
  <2>1. /\ Up /\ ~Up' /\ disk' = disk /\ tokens' = (IF Covered THEN tokens ELSE {})
        /\ signing' = [t \in Signers |-> None]
    BY <1>3, <1>t, CrashTyped DEF Crash
  <2>2. ASSUME Covered, NEW x \in tokens, x.kid = x.key PROVE Holds(Loaded(disk), x.kid)
    <3>1. ~Running(AfterPrivate)
      BY <2>2 DEF Covered, Running, AfterPrivate
    <3>2. mem.kid = disk.kid /\ mem.pub = disk.pub
      BY <2>1, <3>1 DEF Orderly
    <3>3. mem.previous = IF Retired
                         THEN <<[kid |-> mem.kid, pub |-> mem.pub]>> \o LoadedPrevious(disk)
                         ELSE LoadedPrevious(disk)
      BY <2>1, <2>2 DEF Reloads
    <3>4. /\ Loaded(disk).kid = mem.kid /\ Loaded(disk).pub = mem.pub
          /\ Loaded(disk).previous = LoadedPrevious(disk)
      BY <3>2, LoadedFields
    <3>5. ELim = mem.kid /\ Keeps(x.kid)
      BY <2>1, <2>2 DEF ELim, TokensKept
    <3> HIDE DEF ELim
    <3>6. CASE \E i \in DOMAIN mem.previous : mem.previous[i] = Entry(x.kid)
      <4>1. PICK i \in DOMAIN mem.previous : mem.previous[i] = Entry(x.kid)
        BY <3>6
      <4>2. CASE ~Retired
        BY <3>3, <3>4, <4>1, <4>2 DEF Holds
      <4>3. CASE Retired
        <5> DEFINE e == [kid |-> mem.kid, pub |-> mem.pub]
                   q == LoadedPrevious(disk)
        <5>1. e \in KeyInfo
          BY <1>t, <2>1, UpIsTyped DEF Memory, KeyInfo
        <5>2. q \in Seq(KeyInfo)
          <6>1. disk.meta \in Seq(Key) /\ \A j \in DOMAIN disk.saved : disk.saved[j] \in Key
            BY <1>t DEF TypeOK
          <6> QED
            BY <6>1, LoadedFromFiles
        <5>3. mem.previous = <<e>> \o q
          BY <3>3, <4>3
        <5>4. e.kid = mem.kid /\ e.pub = mem.pub
          OBVIOUS
        <5> HIDE DEF e, q
        <5> DEFINE p == <<e>> \o q
        <5>5. /\ p \in Seq(KeyInfo) /\ Len(p) = Len(q) + 1 /\ p[1] = e
              /\ \A j \in 2..(Len(q) + 1) : p[j] = q[j - 1]
          BY <5>1, <5>2, InFront
        <5>6. mem.previous = p
          BY <5>3
        <5> HIDE DEF p
        <5>7. i \in 1..(Len(q) + 1) /\ Len(q) \in Nat /\ DOMAIN q = 1..Len(q)
          BY <4>1, <5>2, <5>5, <5>6
        <5>8. CASE i = 1
          <6>1. e = Entry(x.kid)
            BY <4>1, <5>5, <5>6, <5>8
          <6>2. mem.kid = x.kid /\ mem.pub = x.kid
            BY <5>4, <6>1 DEF Entry
          <6> QED
            BY <3>4, <6>2 DEF Holds
        <5>9. CASE i # 1
          <6>1. i - 1 \in DOMAIN q /\ i \in 2..(Len(q) + 1)
            BY <5>7, <5>9
          <6>2. q[i - 1] = Entry(x.kid)
            BY <4>1, <5>5, <5>6, <6>1
          <6>3. Loaded(disk).previous = q
            BY <3>4 DEF q
          <6> QED
            BY <6>1, <6>2, <6>3 DEF Holds
        <5> QED
          BY <5>8, <5>9
      <4> QED
        BY <4>2, <4>3
    <3>7. CASE mem.kid = x.kid /\ mem.pub = x.kid
      BY <3>4, <3>7 DEF Holds
    <3>8. CASE ELim - x.kid > MaxPrevious
      BY <3>4, <3>5, <3>8 DEF Holds
    <3> QED
      BY <3>5, <3>6, <3>7, <3>8 DEF Keeps
  <2>3. \A t \in Signers : signing'[t] = None
    BY <2>1
  <2>4. \A x \in tokens' : x.kid = x.key => Holds(Loaded(disk'), x.kid)
    BY <2>1, <2>2
  <2> QED
    BY <2>1, <2>3, <2>4 DEF TokensKept
<1>4. ASSUME NEW r \in Rotators, Rotate(r) PROVE TokensKept'
  <2>s. /\ Sole(r) /\ Sole(r)' /\ ~Fail(r) /\ Up /\ Up'
        /\ mem \in Memory /\ mem' \in Memory
    BY <1>4, SoleStep
  <2>1. tokens' = tokens /\ signing' = signing
    BY <1>4, <2>s, CleanBegin DEF Rotate, RotateBegin, SavePrevious, Retire, Prune, Pop,
       Unlink, WritePrivate, WritePublic, WriteKid, LoadPrivate, LoadPublic, LoadKid,
       Certify, LoadCertificate, SaveMetadata
  <2>2. ASSUME NEW x \in tokens, x.kid = x.key PROVE Keeps(x.kid)'
    BY <1>4, <1>k, <2>2, <2>s, KeepsStep DEF TokensKept
  <2>3. mem.kid \in Nat /\ mem'.kid \in Nat
    BY <1>n, <2>s DEF Memory
  <2>4. CASE LoadKid(r)
    <3>1. rot[r].at = "load_kid" /\ rot'[r].at = "certify" /\ mem'.kid = rot[r].new
      BY <1>t, <2>4, LoadKidTyped DEF LoadKid, At, MovesTo
    <3>2. rot[r].at \in AfterPrivate \ AfterLoadKid /\ "certify" \notin Mid
      BY <3>1 DEF Mid, AfterPrivate, AfterLoadKid, AfterLoadPublic, AfterLoadPrivate, AfterKid,
         AfterPublic
    <3>3. mem.kid < made /\ rot[r].new = made
      BY <1>t, <3>1, <3>2 DEF Orderly, LoneRotations, Repaired, Idle
    <3>4. ~Running(Mid)'
      BY <2>s, <3>1, <3>2, SoleELim
    <3>5. mem'.priv = mem'.kid => Keeps(mem.kid)'
      BY <2>s, <3>4 DEF Orderly, Keeps
    <3>6. \A t \in Signers : signing[t] # None => signing[t] <= mem'.kid
      <4>1. ASSUME NEW t \in Signers, signing[t] # None PROVE signing[t] <= mem'.kid
        <5>1. signing[t] <= mem.kid /\ signing[t] \in Nat
          BY <1>n, <1>t, <2>s, <4>1 DEF TokensKept, TypeOK
        <5> QED
          BY <1>n, <2>3, <3>1, <3>3, <5>1
      <4> QED
        BY <4>1
    <3> QED
      BY <2>1, <2>2, <2>s, <3>5, <3>6 DEF TokensKept
  <2>5. CASE ~LoadKid(r)
    <3>1. mem'.kid = mem.kid
      BY <1>4, <1>t, <2>5, <2>s, RetireTyped, PopTyped, LoadPrivateTyped, LoadPublicTyped,
         LoadCertificateTyped
      DEF Rotate, RotateBegin, SavePrevious, Prune, Unlink, WritePrivate, WritePublic,
          WriteKid, Certify, SaveMetadata
    <3>2. mem'.priv = mem'.kid => mem.priv = mem.kid
      <4>1. CASE LoadPrivate(r)
        <5>1. mem'.priv = disk.priv /\ rot[r].at = "load_private"
          BY <1>t, <4>1, LoadPrivateTyped DEF LoadPrivate, At
        <5>2. rot[r].at \in AfterPrivate \ AfterLoadKid
          BY <5>1 DEF AfterPrivate, AfterLoadKid, AfterLoadPublic, AfterLoadPrivate, AfterKid,
             AfterPublic
        <5>3. mem.kid < made /\ disk.priv = made
          BY <1>t, <5>1, <5>2 DEF Orderly, LoneRotations, Repaired, Idle
        <5> QED
          BY <1>n, <2>3, <3>1, <5>1, <5>3
      <4>2. CASE ~LoadPrivate(r)
        <5>1. mem'.priv = mem.priv
          BY <1>4, <1>t, <2>5, <2>s, <4>2, RetireTyped, PopTyped, LoadPublicTyped,
             LoadCertificateTyped
          DEF Rotate, RotateBegin, SavePrevious, Prune, Unlink, WritePrivate, WritePublic,
              WriteKid, Certify, SaveMetadata
        <5> QED
          BY <3>1, <5>1
      <4> QED
        BY <4>1, <4>2
    <3>3. mem.priv = mem.kid => Keeps(mem.kid)
      BY <2>s DEF TokensKept
    <3> DEFINE k == mem.kid
    <3>4. k \in Nat /\ k = mem.kid /\ mem'.kid = k
      BY <2>3, <3>1
    <3>5. mem.priv = mem.kid => Keeps(k)
      BY <3>3
    <3>6. ASSUME Keeps(k) PROVE Keeps(k)'
      <4>1. \A j \in Nat : Keeps(j) => Keeps(j)'
        BY <1>4, KeepsStep
      <4>2. PICK j \in Nat : j = mem.kid
        BY <3>4
      <4>3. Keeps(j)'
        BY <3>6, <4>1, <4>2
      <4> QED
        BY <3>4, <4>2, <4>3
    <3> QED
      BY <2>1, <2>2, <2>s, <3>1, <3>2, <3>5, <3>6 DEF TokensKept
  <2> QED
    BY <2>4, <2>5
<1>5. ASSUME NEW t \in Signers, SignHeader(t) PROVE TokensKept'
  <2>1. /\ Up /\ UNCHANGED <<mem, disk, rot, tokens>>
        /\ signing' = [signing EXCEPT ![t] = mem.kid]
    BY <1>5 DEF SignHeader
  <2>k. mem.kid \in Key
    BY <1>t, <2>1, UpIsTyped DEF Memory
  <2>n. mem.kid \in Nat
    BY <1>n, <2>k
  <2>2. mem.kid <= mem.kid
    BY <2>n
  <2>3. \A s \in Signers : signing'[s] # None => signing'[s] <= mem.kid
    BY <1>t, <2>1, <2>2 DEF TokensKept, TypeOK
  <2> QED
    BY <2>1, <2>3 DEF TokensKept, Keeps, ELim, Running, Covered, Up
<1>6. ASSUME NEW t \in Signers, Sign(t) PROVE TokensKept'
  <2>1. /\ Up /\ UNCHANGED <<mem, disk, rot>> /\ signing[t] # None
        /\ signing' = [signing EXCEPT ![t] = None]
        /\ tokens' = tokens \cup {[kid |-> signing[t], key |-> mem.priv]}
    BY <1>6 DEF Sign, Clean
  <2>2. mem \in Memory
    BY <1>t, <2>1, UpIsTyped
  <2>3. mem.kid \in Nat /\ mem.priv \in Nat /\ signing[t] \in Nat
    BY <1>n, <1>t, <2>1, <2>2 DEF Memory, TypeOK
  <2>4. signing[t] <= mem.kid /\ mem.kid <= mem.priv
    BY <2>1 DEF TokensKept, Orderly
  <2>5. signing[t] = mem.priv => mem.priv = mem.kid
    BY <2>3, <2>4
  <2>6. signing[t] = mem.priv => Keeps(signing[t])
    BY <2>1, <2>5 DEF TokensKept
  <2>7. \A x \in tokens' : x.kid = x.key => Keeps(x.kid)
    <3>1. ASSUME NEW x \in tokens', x.kid = x.key PROVE Keeps(x.kid)
      <4>1. CASE x \in tokens
        BY <2>1, <3>1, <4>1 DEF TokensKept
      <4>2. CASE x = [kid |-> signing[t], key |-> mem.priv]
        <5>1. x.kid = signing[t] /\ x.key = mem.priv
          BY <4>2
        <5> QED
          BY <2>6, <3>1, <5>1
      <4> QED
        BY <2>1, <4>1, <4>2
    <3> QED
      BY <3>1
  <2>8. \A s \in Signers : signing'[s] # None => signing'[s] <= mem.kid
    BY <1>t, <2>1 DEF TokensKept, TypeOK
  <2>9. Up' /\ mem' = mem /\ ELim' = ELim /\ (Running(Mid)' <=> Running(Mid))
    BY <2>1 DEF Up, ELim, Running, Covered
  <2>10. \A j : Keeps(j)' <=> Keeps(j)
    <3> HIDE DEF ELim
    <3> QED
      BY <2>9 DEF Keeps
  <2>11. mem.priv = mem.kid => Keeps(mem.kid)
    BY <2>1 DEF TokensKept
  <2>12. mem'.priv = mem'.kid => Keeps(mem.kid)'
    BY <2>9, <2>11 DEF Keeps
  <2> QED
    BY <2>7, <2>8, <2>9, <2>10, <2>12 DEF TokensKept
<1>7. ASSUME UNCHANGED vars PROVE TokensKept'
  BY <1>7 DEF TokensKept, Keeps, ELim, Running, Covered, Up, vars
<1> QED
  BY <1>1, <1>2, <1>3, <1>4, <1>5, <1>6, <1>7 DEF Next

IInv == Orderly /\ PreviousFit /\ MetaFit /\ Reloads /\ TokensKept

LEMMA CleanInit == Init => IInv
<1> SUFFICES ASSUME Init PROVE IInv
  OBVIOUS
<1>1. /\ \A r \in Rotators : rot[r] = NotRotating
      /\ disk.kid = None /\ tokens = {} /\ ~Up
      /\ \A t \in Signers : signing[t] = None
  BY DEF Init, NoFiles, Up
<1>2. Orderly
  BY <1>1 DEF Orderly, NotRotating, Idle, AfterPrivate
<1> QED
  BY <1>1, <1>2 DEF IInv, PreviousFit, MetaFit, Reloads, TokensKept

LEMMA CleanStep ==
    Base /\ Base' /\ (Clean => IInv) /\ [Next]_vars => (Clean' => IInv')
<1> SUFFICES ASSUME Base, Base', Clean => IInv, [Next]_vars, Clean' PROVE IInv'
  OBVIOUS
<1>1. Clean /\ IInv
  BY StaysClean
<1>2. Orderly'
  BY <1>1, OrderlyStep DEF IInv
<1>3. PreviousFit' /\ MetaFit' /\ Reloads'
  BY <1>1, PreviousStep, MetaStep, ReloadsStep DEF IInv
<1>4. TokensKept'
  BY <1>1, <1>2, TokensStep DEF IInv
<1> QED
  BY <1>2, <1>3, <1>4 DEF IInv

LEMMA CleanHolds == Spec => [](Base /\ (Clean => IInv))
<1>1. Init => (Clean => IInv)
  BY CleanInit
<1> QED
  BY <1>1, BaseHolds, CleanStep, PTL DEF Spec

\* As long as rotations run alone and to their end, what the files would give a
\* process that starts on them is what the running process has: _save_metadata and
\* previous/*.pem keep up with previous_keys.
THEOREM RestartChangesNothing == Spec => []RestartIsInvisible
<1>1. Base /\ (Clean => IInv) => RestartIsInvisible
  <2> SUFFICES ASSUME Base, Clean => IInv, Up, Quiet, Clean PROVE Loaded(disk) = mem
    BY DEF RestartIsInvisible, Settled, Clean
  <2>r. \A r \in Rotators : rot[r] = NotRotating
    BY DEF Base, Shape, Quiet
  <2>1. \A r \in Rotators : rot[r].at = "idle" /\ rot[r].popped = None
    BY <2>r DEF NotRotating
  <2>2. Covered /\ ~Retired /\ ~Running(AfterPrivate)
    BY <2>1 DEF Covered, Retired, Running, AfterPrivate
  <2>3. /\ mem.priv = disk.priv /\ mem.pub = disk.pub
        /\ mem.kid = disk.kid /\ mem.cert = disk.cert
    BY <2>2 DEF IInv, Orderly
  <2>4. mem.previous = LoadedPrevious(disk)
    BY <2>2 DEF IInv, Reloads
  <2>5. mem \in Memory
    BY UpIsTyped DEF Base
  <2>6. mem = [priv |-> mem.priv, pub |-> mem.pub, kid |-> mem.kid, cert |-> mem.cert,
               previous |-> mem.previous]
    BY <2>5 DEF Memory
  <2> QED
    BY <2>3, <2>4, <2>6 DEF Loaded
<1> QED
  BY <1>1, CleanHolds, PTL

\* Under the same condition a token whose kid and key belong together verifies
\* against the JWKS, through any number of restarts, until its key has been replaced
\* max_previous_keys + 1 times: the prune keeps the youngest, and no kid is listed
\* twice.
THEOREM RecentTokensAlwaysVerify == Spec => []RecentTokensVerify
<1>1. Base /\ (Clean => IInv) => RecentTokensVerify
  <2> SUFFICES ASSUME Base, Clean => IInv, Up, Quiet, Clean, NEW x \in tokens,
                      x.kid = x.key, mem.kid - x.kid <= MaxPrevious
               PROVE  VerifiesByJwks(x)
    BY DEF RecentTokensVerify, Settled, Clean
  <2>1. mem \in Memory
    BY UpIsTyped DEF Base
  <2>2. ~Running(Mid)
    <3>1. "idle" \notin Mid
      BY DEF Mid, AfterPrivate, AfterLoadKid, AfterLoadPublic, AfterLoadPrivate, AfterKid,
         AfterPublic
    <3> QED
      BY <3>1 DEF Running, Quiet, Idle
  <2>3. ELim = mem.kid /\ Lim = mem.kid
    BY <2>2 DEF ELim, Lim
  <2>n. mem.kid \in Nat /\ x.kid \in Nat /\ MaxPrevious \in Nat
    BY <2>1, KeysAreNumbers, BoundsAssumption DEF Memory, Base, TypeOK
  <2>4. \/ mem.kid = x.kid /\ mem.pub = x.kid
        \/ \E i \in DOMAIN mem.previous : mem.previous[i] = Entry(x.kid)
    <3>1. Keeps(x.kid)
      BY DEF IInv, TokensKept
    <3>2. ~(mem.kid - x.kid > MaxPrevious)
      BY <2>n
    <3> HIDE DEF ELim
    <3> QED
      BY <2>3, <3>1, <3>2 DEF Keeps
  <2> DEFINE e == [kid |-> mem.kid, pub |-> mem.pub]
             p == <<e>> \o mem.previous
  <2>d. /\ mem.previous \in Seq(KeyInfo) /\ Len(mem.previous) \in Nat
        /\ DOMAIN mem.previous = 1..Len(mem.previous)
        /\ \A i \in DOMAIN mem.previous : mem.previous[i].kid \in Nat
    BY <2>1, PreviousTyped
  <2>5. e \in KeyInfo
    BY <2>1 DEF Memory, KeyInfo
  <2>6. e.kid = mem.kid /\ e.pub = mem.pub /\ Jwks = p
    BY DEF Jwks
  <2>f. /\ \A i \in DOMAIN mem.previous : mem.previous[i].kid <= mem.kid - i
        /\ KidsFall(mem.previous)
    BY <2>3 DEF IInv, PreviousFit
  <2> HIDE DEF e
  <2>7. /\ p \in Seq(KeyInfo) /\ Len(p) = Len(mem.previous) + 1 /\ p[1] = e
        /\ \A i \in 2..(Len(mem.previous) + 1) : p[i] = mem.previous[i - 1]
    BY <2>5, <2>d, InFront
  <2> HIDE DEF p
  <2>8. DOMAIN p = 1..(Len(mem.previous) + 1)
    BY <2>7
  <2>9. CASE mem.kid = x.kid /\ mem.pub = x.kid
    <3>1. p[1] = [kid |-> x.kid, pub |-> x.key]
      <4>1. e = [kid |-> x.kid, pub |-> x.key]
        BY <2>9 DEF e
      <4> QED
        BY <2>7, <4>1
    <3>2. 1 \in DOMAIN p /\ \A k \in DOMAIN p : ~(k < 1)
      BY <2>8, <2>d
    <3> QED
      BY <2>6, <3>1, <3>2 DEF VerifiesByJwks
  <2>10. CASE \E i \in DOMAIN mem.previous : mem.previous[i] = Entry(x.kid)
    <3>1. PICK i \in DOMAIN mem.previous : mem.previous[i] = Entry(x.kid)
      BY <2>10
    <3>2. i \in Nat \ {0} /\ i + 1 \in DOMAIN p /\ p[i + 1] = [kid |-> x.kid, pub |-> x.key]
      BY <2>7, <2>8, <2>d, <3>1 DEF Entry
    <3>3. mem.previous[i].kid = x.kid
      BY <3>1 DEF Entry
    <3>4. ASSUME NEW k \in DOMAIN p, k < i + 1 PROVE p[k].kid # x.kid
      <4>1. CASE k = 1
        <5>1. x.kid <= mem.kid - i
          BY <2>f, <3>3
        <5>2. x.kid # mem.kid
          BY <2>n, <3>2, <5>1
        <5> QED
          BY <2>6, <2>7, <4>1, <5>2
      <4>2. CASE k # 1
        <5>1. k \in 2..(Len(mem.previous) + 1) /\ k - 1 \in DOMAIN mem.previous /\ k - 1 < i
          BY <2>8, <2>d, <3>2, <3>4, <4>2
        <5>2. mem.previous[k - 1].kid > mem.previous[i].kid
          BY <2>f, <5>1 DEF KidsFall
        <5>3. p[k] = mem.previous[k - 1] /\ mem.previous[k - 1].kid \in Nat
          BY <2>7, <2>d, <5>1
        <5> QED
          BY <2>n, <3>3, <5>2, <5>3
      <4> QED
        BY <4>1, <4>2
    <3> QED
      BY <2>6, <3>2, <3>4 DEF VerifiesByJwks
  <2> QED
    BY <2>4, <2>9, <2>10
<1> QED
  BY <1>1, CleanHolds, PTL
=============================================================================
