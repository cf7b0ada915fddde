---------------------------- MODULE KeyRotation ----------------------------
(***************************************************************************)
(* CryptoService: the signing key in memory, its files in keys_dir, the    *)
(* JWKS it publishes, and rotate_keys, which replaces all of them one      *)
(* assignment and one file at a time, without a lock, while request        *)
(* threads sign tokens, fetch the JWKS or rotate the keys themselves, and  *)
(* while the process may die.                                              *)
(*                                                                         *)
(* A key pair is named by the order of its generation, and its kid by the  *)
(* same number; a private key, public key, kid and certificate that carry  *)
(* one number belong together.  Writing one file is a single step, which   *)
(* happens, fails with an exception, or is the last thing before a crash.  *)
(***************************************************************************)
EXTENDS Integers, Sequences, FiniteSets, SequencesExt

CONSTANTS
    Rotators,     \* request threads that may rotate the keys (API, web UI)
    Signers,      \* request threads that sign tokens
    MaxPrevious,  \* settings.max_previous_keys
    MaxKeys,      \* bound on the number of keys ever generated
    MaxFailures,  \* bound on the number of aborted rotations
    MaxOverlaps,  \* bound on the number of rotations begun during another
    None          \* absent file or value, or a thread that is not signing

ASSUME BoundsAssumption ==
    {MaxPrevious, MaxKeys, MaxFailures, MaxOverlaps} \subseteq Nat
ASSUME NoneAssumption == None \notin Nat
ASSUME RotatorsAssumption == IsFiniteSet(Rotators)

VARIABLES
    mem,        \* the fields of CryptoService while the process is up
    disk,       \* keys_dir
    rot,        \* rot[r]: the step of rotate_keys r is about to take, its locals
    signing,    \* signing[t]: the kid thread t has put in a header, or None
    tokens,     \* history: tokens signed since published keys were last at risk
    made,       \* history: number of the last key generated
    failed,     \* history: number of rotations aborted by an exception
    overlaps    \* history: number of rotations begun while another was running

vars == <<mem, disk, rot, signing, tokens, made, failed, overlaps>>

Key == 1..MaxKeys
KeyInfo == [kid : Key, pub : Key]

Steps == {"save", "retire", "prune", "pop", "unlink", "private", "public", "kid",
          "load_private", "load_public", "load_kid", "certify", "load_cert",
          "metadata"}

\* The steps at which a file is written, read or removed.
FileSteps == Steps \ {"retire", "prune", "pop", "load_kid"}

NoMemory == [priv |-> None, pub |-> None, kid |-> None, cert |-> None,
             previous |-> << >>]
NoFiles == [priv |-> None, pub |-> None, kid |-> None, cert |-> None,
            meta |-> << >>, saved |-> << >>]
Up == mem # NoMemory

\* old, new and popped are old_kid, new_kid and removed_key of rotate_keys; alone
\* is history: no other rotation has run since this one began.
NotRotating == [at |-> "idle", old |-> None, new |-> None, popped |-> None,
                alone |-> TRUE]
Idle(r) == rot[r].at = "idle"
Quiet == \A r \in Rotators : Idle(r)

TypeOK ==
    /\ Up => mem \in [priv : Key, pub : Key, kid : Key, cert : Key,
                      previous : Seq(KeyInfo)]
    /\ DOMAIN disk = DOMAIN NoFiles
    /\ {disk.priv, disk.pub, disk.kid, disk.cert} \subseteq Key \cup {None}
    /\ disk.meta \in Seq(Key)
    /\ DOMAIN disk.saved \subseteq Key
    /\ \A k \in DOMAIN disk.saved : disk.saved[k] \in Key
    /\ rot \in [Rotators -> [at : Steps \cup {"idle"}, old : Key \cup {None},
                            new : Key \cup {None}, popped : Key \cup {None},
                            alone : BOOLEAN]]
    /\ signing \in [Signers -> Key \cup {None}]
    /\ tokens \subseteq [kid : Key, key : Key]
    /\ made \in 0..MaxKeys
    /\ failed \in 0..MaxFailures
    /\ overlaps \in 0..MaxOverlaps

Init ==
    /\ mem = NoMemory
    /\ disk = NoFiles
    /\ rot = [r \in Rotators |-> NotRotating]
    /\ signing = [t \in Signers |-> None]
    /\ tokens = {}
    /\ made = 0
    /\ failed = 0
    /\ overlaps = 0

-----------------------------------------------------------------------------
(***************************************************************************)
(* Start of the process.                                                   *)
(***************************************************************************)
\* Mutant: a start looks for the private key only.
HasPrivate == disk.priv # None

Complete == None \notin {disk.priv, disk.pub, disk.kid}

\* _load_previous_keys: in the order of keys.json, those whose file exists.
LoadedPrevious(d) ==
    LET loaded[n \in 0..Len(d.meta)] ==
          IF n = 0 THEN << >>
          ELSE IF d.meta[n] \in DOMAIN d.saved
               THEN Append(loaded[n - 1], [kid |-> d.meta[n], pub |-> d.saved[d.meta[n]]])
               ELSE loaded[n - 1]
    IN  loaded[Len(d.meta)]

\* What a process that starts on the files d has in memory.
Loaded(d) == [priv |-> d.priv, pub |-> d.pub, kid |-> d.kid, cert |-> d.cert,
              previous |-> LoadedPrevious(d)]

\* _ensure_keys: load what is there; make the certificate if it is missing.
Start ==
    /\ ~Up
    /\ Complete
    /\ disk' = [disk EXCEPT !.cert = IF @ = None THEN disk.pub ELSE @]
    /\ mem' = Loaded(disk')
    /\ UNCHANGED <<rot, signing, tokens, made, failed, overlaps>>

\* _ensure_keys when one of the three files is missing: generate all of them
\* and a certificate.  The process may die after any of the writes (bound: not
\* when this is the last key the model can make).
StartFresh(n) ==
    /\ ~Up
    /\ ~Complete
    /\ made < MaxKeys
    /\ n < 4 => made + 1 < MaxKeys
    /\ made' = made + 1
    /\ disk' = [disk EXCEPT
         !.priv = IF n >= 1 THEN made' ELSE @,
         !.pub  = IF n >= 2 THEN made' ELSE @,
         !.kid  = IF n >= 3 THEN made' ELSE @,
         !.cert = IF n >= 4 THEN made' ELSE @]
    /\ mem' = IF n >= 4 THEN Loaded(disk') ELSE mem
    /\ UNCHANGED <<rot, signing, tokens, failed, overlaps>>

\* The files still cover what the JWKS promises: no rotation has pruned a key or
\* gone on to the new one.
Covered ==
    \A r \in Rotators : /\ rot[r].at \in {"idle", "save", "retire", "prune", "pop"}
                        /\ rot[r].popped = None

\* The process dies, between two requests or inside rotate_keys.  Where the files
\* do not cover what the JWKS promised, the tokens signed so far lose their claim
\* to be verified.
Crash ==
    /\ Up
    /\ mem' = NoMemory
    /\ rot' = [r \in Rotators |-> NotRotating]
    /\ signing' = [t \in Signers |-> None]
    /\ tokens' = IF Covered THEN tokens ELSE {}
    /\ UNCHANGED <<disk, made, failed, overlaps>>

-----------------------------------------------------------------------------
(***************************************************************************)
(* rotate_keys, in program order.                                          *)
(***************************************************************************)
At(r, s) == rot[r].at = s
Then(r, s) == rot' = [rot EXCEPT ![r].at = s]
Ended(r) == rot' = [rot EXCEPT ![r] = NotRotating]

\* The rotations that have yet to make their key.
KeysDue == {r \in Rotators : ~Idle(r) /\ rot[r].new = None}

\* A rotation begins by reading old_kid.
RotateBegin(r) ==
    /\ Up
    /\ Idle(r)
    /\ made + Cardinality(KeysDue) < MaxKeys
    /\ Quiet \/ overlaps < MaxOverlaps
    /\ rot' = [q \in Rotators |->
         IF q = r THEN [NotRotating EXCEPT !.at = "save", !.old = mem.kid, !.alone = Quiet]
         ELSE IF Idle(q) THEN rot[q]
         ELSE [rot[q] EXCEPT !.alone = FALSE]]
    /\ overlaps' = IF Quiet THEN overlaps ELSE overlaps + 1
    /\ tokens' = IF Quiet THEN tokens ELSE {}
    /\ UNCHANGED <<mem, disk, signing, made, failed>>

\* The public key goes to previous/<old_kid>_public.pem.
SavePrevious(r) ==
    /\ At(r, "save")
    /\ disk' = [disk EXCEPT !.saved =
         [k \in DOMAIN @ \cup {rot[r].old} |-> IF k = rot[r].old THEN mem.pub ELSE @[k]]]
    /\ Then(r, "retire")
    /\ UNCHANGED <<mem, signing, tokens, made, failed, overlaps>>

Retire(r) ==
    /\ At(r, "retire")
    /\ mem' = [mem EXCEPT !.previous = <<[kid |-> rot[r].old, pub |-> mem.pub]>> \o @]
    /\ Then(r, "prune")
    /\ UNCHANGED <<disk, signing, tokens, made, failed, overlaps>>

TooMany == Len(mem.previous) > MaxPrevious

Prune(r) ==
    /\ At(r, "prune")
    /\ Then(r, IF TooMany THEN "pop" ELSE "private")
    /\ UNCHANGED <<mem, disk, signing, tokens, made, failed, overlaps>>

\* Mutant: the youngest of the previous keys is removed instead of the oldest.
PopYoungest(r) ==
    /\ At(r, "pop")
    /\ mem.previous # << >>
    /\ mem' = [mem EXCEPT !.previous = Tail(@)]
    /\ rot' = [rot EXCEPT ![r].at = "unlink", ![r].popped = Head(mem.previous).kid]
    /\ UNCHANGED <<disk, signing, tokens, made, failed, overlaps>>

Pop(r) ==
    /\ At(r, "pop")
    /\ mem.previous # << >>
    /\ mem' = [mem EXCEPT !.previous = Front(@)]
    /\ rot' = [rot EXCEPT ![r].at = "unlink", ![r].popped = Last(mem.previous).kid]
    /\ UNCHANGED <<disk, signing, tokens, made, failed, overlaps>>

Unlink(r) ==
    /\ At(r, "unlink")
    /\ disk' = [disk EXCEPT !.saved = Restrict(@, DOMAIN @ \ {rot[r].popped})]
    /\ Then(r, "prune")
    /\ UNCHANGED <<mem, signing, tokens, made, failed, overlaps>>

WritePrivate(r) ==
    /\ At(r, "private")
    /\ made' = made + 1
    /\ disk' = [disk EXCEPT !.priv = made']
    /\ rot' = [rot EXCEPT ![r].at = "public", ![r].new = made']
    /\ UNCHANGED <<mem, signing, tokens, failed, overlaps>>

WritePublic(r) ==
    /\ At(r, "public")
    /\ disk' = [disk EXCEPT !.pub = rot[r].new]
    /\ Then(r, "kid")
    /\ UNCHANGED <<mem, signing, tokens, made, failed, overlaps>>

\* Mutant: the new kid stays in memory only.
WriteKidNever(r) ==
    /\ At(r, "kid")
    /\ Then(r, "load_private")
    /\ UNCHANGED <<mem, disk, signing, tokens, made, failed, overlaps>>

WriteKid(r) ==
    /\ At(r, "kid")
    /\ disk' = [disk EXCEPT !.kid = rot[r].new]
    /\ Then(r, "load_private")
    /\ UNCHANGED <<mem, signing, tokens, made, failed, overlaps>>

LoadPrivate(r) ==
    /\ At(r, "load_private")
    /\ mem' = [mem EXCEPT !.priv = disk.priv]
    /\ Then(r, "load_public")
    /\ UNCHANGED <<disk, signing, tokens, made, failed, overlaps>>

\* Mutant: the public key in memory is not replaced.
LoadPublicNever(r) ==
    /\ At(r, "load_public")
    /\ Then(r, "load_kid")
    /\ UNCHANGED <<mem, disk, signing, tokens, made, failed, overlaps>>

LoadPublic(r) ==
    /\ At(r, "load_public")
    /\ mem' = [mem EXCEPT !.pub = disk.pub]
    /\ Then(r, "load_kid")
    /\ UNCHANGED <<disk, signing, tokens, made, failed, overlaps>>

LoadKid(r) ==
    /\ At(r, "load_kid")
    /\ mem' = [mem EXCEPT !.kid = rot[r].new]
    /\ Then(r, "certify")
    /\ UNCHANGED <<disk, signing, tokens, made, failed, overlaps>>

\* The certificate is issued for the public key in memory.
Certify(r) ==
    /\ At(r, "certify")
    /\ disk' = [disk EXCEPT !.cert = mem.pub]
    /\ Then(r, "load_cert")
    /\ UNCHANGED <<mem, signing, tokens, made, failed, overlaps>>

LoadCertificate(r) ==
    /\ At(r, "load_cert")
    /\ mem' = [mem EXCEPT !.cert = disk.cert]
    /\ Then(r, "metadata")
    /\ UNCHANGED <<disk, signing, tokens, made, failed, overlaps>>

SaveMetadata(r) ==
    /\ At(r, "metadata")
    /\ disk' = [disk EXCEPT !.meta =
         [i \in DOMAIN mem.previous |-> mem.previous[i].kid]]
    /\ Ended(r)
    /\ UNCHANGED <<mem, signing, tokens, made, failed, overlaps>>

\* A file cannot be written, read or unlinked, or another rotation has popped the
\* last key: the exception leaves the rotation where it is, and the process goes
\* on with what it has.
MayFail(r) ==
    rot[r].at \in FileSteps \cup (IF mem.previous = << >> THEN {"pop"} ELSE {})

Fail(r) ==
    /\ MayFail(r)
    /\ failed < MaxFailures
    /\ failed' = failed + 1
    /\ Ended(r)
    /\ UNCHANGED <<mem, disk, signing, tokens, made, overlaps>>

Rotate(r) ==
    \/ RotateBegin(r) \/ SavePrevious(r) \/ Retire(r)
    \/ Prune(r) \/ Pop(r) \/ Unlink(r)
    \/ WritePrivate(r) \/ WritePublic(r) \/ WriteKid(r)
    \/ LoadPrivate(r) \/ LoadPublic(r) \/ LoadKid(r)
    \/ Certify(r) \/ LoadCertificate(r) \/ SaveMetadata(r)
    \/ Fail(r)

-----------------------------------------------------------------------------
(***************************************************************************)
(* create_jwt: the header is made from kid, then the token is signed with  *)
(* priv_pem.                                                               *)
(***************************************************************************)
SignHeader(t) ==
    /\ Up
    /\ signing[t] = None
    /\ signing' = [signing EXCEPT ![t] = mem.kid]
    /\ UNCHANGED <<mem, disk, rot, tokens, made, failed, overlaps>>

Sign(t) ==
    /\ Up
    /\ signing[t] # None
    /\ tokens' = IF overlaps > 0 THEN {}
                 ELSE tokens \cup {[kid |-> signing[t], key |-> mem.priv]}
    /\ signing' = [signing EXCEPT ![t] = None]
    /\ UNCHANGED <<mem, disk, rot, made, failed, overlaps>>

\* get_jwks: the active key first, then the previous ones.
Jwks == <<[kid |-> mem.kid, pub |-> mem.pub]>> \o mem.previous

\* A relying party takes the first key of the set that carries the kid.
VerifiesByJwks(x) ==
    \E i \in DOMAIN Jwks :
        /\ Jwks[i] = [kid |-> x.kid, pub |-> x.key]
        /\ \A k \in DOMAIN Jwks : k < i => Jwks[k].kid # x.kid

\* verify_jwt, behind /userinfo, /introspect and the refresh grant.
Verifies(x) == x.key = mem.pub

Next ==
    \/ Start
    \/ \E n \in 0..4 : StartFresh(n)
    \/ Crash
    \/ \E r \in Rotators : Rotate(r)
    \/ \E t \in Signers : SignHeader(t) \/ Sign(t)

Spec == Init /\ [][Next]_vars

-----------------------------------------------------------------------------
(***************************************************************************)
(* Properties.                                                             *)
(***************************************************************************)
\* No rotation is running, and none was ever aborted or overlapped another: a
\* rotation that follows an aborted one, or overlaps it, may list the old key
\* twice, and the prune of the one entry unlinks the file of the other.
Settled == Up /\ Quiet /\ failed = 0 /\ overlaps = 0

\* Whenever no rotation is running and all have run alone and to their end, a
\* restart would bring back exactly the keys, kid, certificate and previous keys
\* the process has now.
RestartIsInvisible == Settled => Loaded(disk) = mem

\* As long as rotations run alone and to their end, a token signed whole verifies
\* against the JWKS until its key has been replaced MaxPrevious + 1 times, through
\* any number of restarts.
RecentTokensVerify ==
    Settled =>
        \A x \in tokens :
            x.kid = x.key /\ mem.kid - x.kid <= MaxPrevious => VerifiesByJwks(x)

\* A rotation that no other overlaps, and that completes, repairs whatever a
\* crash, an exception or an overlap left behind earlier: key, public key, kid and
\* certificate belong together again, in memory and on disk.
RotationRepairs ==
    [][\A r \in Rotators :
         At(r, "metadata") /\ rot[r].alone /\ rot'[r].at = "idle" /\ Up' /\ failed' = failed =>
           {mem'.priv, mem'.pub, mem'.kid, mem'.cert,
            disk'.priv, disk'.pub, disk'.kid, disk'.cert} = {made}]_vars

\* SECURITY.md:106: tokens signed with previous keys remain valid until those
\* keys are rotated out.
PreviousKeysStayValid ==
    Settled => \A x \in tokens : VerifiesByJwks(x) => Verifies(x)

\* SECURITY.md:89: validation is seamless during rotation; every token signed
\* around a rotation verifies against the JWKS once the rotation is over.
SeamlessRotation ==
    Settled /\ mem.kid = mem.priv =>
        \A x \in tokens : mem.kid - x.kid <= MaxPrevious => VerifiesByJwks(x)
=============================================================================
