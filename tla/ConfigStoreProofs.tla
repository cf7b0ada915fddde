------------------------- MODULE ConfigStoreProofs -------------------------
(***************************************************************************)
(* Proofs about ConfigStore for every set of users, clients and web        *)
(* threads, every set of deployments and every bound.                      *)
(*                                                                         *)
(* The documents come first: what each of the operators of ConfigDocuments *)
(* makes of a document that is as it should be (Good).  The invariant says *)
(* that all documents there are, in files, backups, bucket and in the      *)
(* hands of the threads, are good; that the web process holds what the     *)
(* files say unless it is about to load them; and how far an operation has *)
(* come that has the system to itself.                                     *)
(***************************************************************************)
EXTENDS ConfigStore, WellFoundedInduction, TLAPS

USE ThreadsAssumption, BoundsAssumption

-----------------------------------------------------------------------------
(***************************************************************************)
(* Operators on documents.                                                 *)
(***************************************************************************)
AllKeys == UNION {Keys(f) : f \in Files}
AnyDoc == {NoDoc} \cup UNION {[ks -> Value] : ks \in SUBSET AllKeys}

LEMMA EntriesAreKeys ==
    ASSUME NEW f \in Files
    PROVE  /\ Entries(f) \subseteq Managed(f) /\ Managed(f) \subseteq Keys(f)
           /\ Keys(f) \subseteq AllKeys
           /\ "custom" \in Keys(f) /\ "custom" \notin Managed(f)
           /\ "default_user" \notin Entries(f)
           /\ f = "users" <=> "default_user" \in Keys(f)
           /\ f = "users" => "default_user" \in Managed(f)
<1>1. Keys(f) \subseteq AllKeys
  BY DEF AllKeys
<1>2. CASE f = "users"
  BY <1>1, <1>2, KindsAssumption DEF Entries, Managed, Keys
<1>3. CASE f = "settings"
  BY <1>1, <1>3, KindsAssumption DEF Entries, Managed, Keys, Sections
<1> QED
  BY <1>2, <1>3 DEF Files

\* A document is a document of the model, and not a missing file.
LEMMA DocumentsExist ==
    ASSUME NEW f \in Files, NEW d, IsDocument(d, f) \/ IsMemory(d, f)
    PROVE  d \in AnyDoc /\ d # NoDoc
<1>1. DOMAIN d \in SUBSET Keys(f) /\ d \in [DOMAIN d -> Value]
  BY EntriesAreKeys DEF IsDocument, IsMemory, Values, Value
<1>2. DOMAIN d \in SUBSET AllKeys
  BY <1>1, EntriesAreKeys
<1> QED
  BY <1>1, <1>2, ValuesAssumption DEF AnyDoc

LEMMA MemoryIsDocument ==
    ASSUME NEW f \in Files, NEW m, IsMemory(m, f)
    PROVE  IsDocument(m, f)
  BY EntriesAreKeys DEF IsDocument, IsMemory, Values, Value

\* Overlaying one function by another.
LEMMA Overlaid ==
    ASSUME NEW T, NEW d, d \in [DOMAIN d -> T], NEW u, u \in [DOMAIN u -> T]
    PROVE  /\ DOMAIN (d ++ u) = DOMAIN d \cup DOMAIN u
           /\ \A k \in DOMAIN d : (d ++ u)[k] = d[k]
           /\ \A k \in DOMAIN u \ DOMAIN d : (d ++ u)[k] = u[k]
           /\ d ++ u \in [DOMAIN (d ++ u) -> T]
  BY DEF ++

LEMMA TakenOut ==
    ASSUME NEW T, NEW d, d \in [DOMAIN d -> T], NEW ks
    PROVE  /\ DOMAIN Without(d, ks) = DOMAIN d \ ks
           /\ \A x \in DOMAIN d \ ks : Without(d, ks)[x] = d[x]
           /\ Without(d, ks) \in [DOMAIN Without(d, ks) -> T]
  BY DEF Without, Restrict

\* default_user names a user of its document, or nobody.
DefaultKnown(d) ==
    /\ "default_user" \in DOMAIN d
    /\ d["default_user"] \in (DOMAIN d \cap Users) \cup {NoUser}

\* The keys that no operation has been about, of a file there was from the first.
Keeps(d, f, h) ==
    \A k \in DOMAIN First(f) \ h.touched : k \in DOMAIN d /\ d[k] = First(f)[k]

\* A document as it should be in deployment v, with history h: the users of one
\* load unless the MCP process has spoilt them.
Good(d, f, v, h) ==
    /\ IsDocument(d, f)
    /\ f = "users" /\ ~h.spoilt => Loadable(d)
    /\ f = "users" /\ v.files /\ ~h.spoilt => DefaultKnown(d)
    /\ v.files /\ ~v.s3 => Keeps(d, f, h)

\* And what a running process holds.
MemGood(m, f, v, h) ==
    /\ IsMemory(m, f)
    /\ f = "users" /\ ~h.spoilt => Loadable(m)
    /\ f = "users" => "default_user" \in DOMAIN m
    /\ f = "users" /\ v.files /\ ~h.spoilt => DefaultKnown(m)

\* Nothing becomes bad when more keys are touched or a default user deleted.
LEMMA GoodStaysGood ==
    ASSUME NEW d, NEW f, NEW h, NEW k, Good(d, f, env, h),
           h.touched \subseteq k.touched, h.spoilt => k.spoilt
    PROVE  Good(d, f, env, k)
  BY DEF Good, Keeps

LEMMA MemGoodStaysGood ==
    ASSUME NEW m, NEW f, NEW h, NEW k, MemGood(m, f, env, h),
           h.spoilt => k.spoilt
    PROVE  MemGood(m, f, env, k)
  BY DEF MemGood

LEMMA GoodIsDocument ==
    ASSUME NEW f \in Files, NEW d, NEW h, Good(d, f, env, h) \/ MemGood(d, f, env, h)
    PROVE  d \in AnyDoc /\ d # NoDoc
  BY DocumentsExist DEF Good, MemGood

-----------------------------------------------------------------------------
(***************************************************************************)
(* Loading and editing.                                                    *)
(***************************************************************************)
LEMMA ExpandedIsHeld ==
    ASSUME NEW v \in Value
    PROVE  Expand(v) \in Held /\ (v # Bad => Expand(v) # Bad)
  BY ValuesAssumption DEF Expand, Value, Held, Loaded

\* What a document that is there holds loads, if the document does.
LEMMA LoadableEntries ==
    ASSUME NEW f \in Files, NEW d, IsDocument(d, f) \/ IsMemory(d, f)
    PROVE  Loadable(d) <=> \A k \in DOMAIN d \ {"default_user"} : d[k] # Bad
  BY DocumentsExist DEF Loadable

LEMMA SettingsLoad ==
    ASSUME NEW d, d # NoDoc => IsDocument(d, "settings")
    PROVE  /\ IsMemory(SettingsFrom(d), "settings")
           /\ Loadable(d) => Loadable(SettingsFrom(d))
<1>1. CASE d = NoDoc
  <2>1. SettingsFrom(d) = DefaultSettings
    BY <1>1 DEF SettingsFrom
  <2>2. DOMAIN DefaultSettings \subseteq Managed("settings")
    BY FallbackAssumption DEF DefaultSettings, Managed, Sections
  <2>3. Builtin \in Held /\ Builtin # Bad
    BY ValuesAssumption DEF Held, Loaded
  <2> QED
    BY <2>1, <2>2, <2>3 DEF IsMemory, DefaultSettings, Loadable
<1>2. CASE d # NoDoc
  <2> DEFINE ks == DOMAIN d \cap Managed("settings")
             m == [k \in ks |-> Expand(d[k])]
  <2>1. SettingsFrom(d) = m
    BY <1>2 DEF SettingsFrom
  <2>2. \A k \in ks : Expand(d[k]) \in Held /\ (d[k] # Bad => Expand(d[k]) # Bad)
    BY <1>2, ExpandedIsHeld DEF IsDocument, Values
  <2>3. Loadable(d) => \A k \in ks \ {"default_user"} : m[k] # Bad
    BY <1>2, <2>2 DEF Loadable
  <2> QED
    BY <2>1, <2>2, <2>3 DEF IsMemory, Loadable
<1> QED
  BY <1>1, <1>2

\* The user that default_user falls back to.
LEMMA FallbackUser ==
    LET d == Only("default_user", Admin)
    IN  IsMemory(d, "users") /\ DOMAIN d = {"default_user"} /\ d["default_user"] = Admin
  BY FallbackAssumption DEF Only, IsMemory, Managed, Held, Loaded

\* What _load_users leaves in memory, from a file or without one.
LEMMA UsersLoad ==
    ASSUME NEW d, NEW m, IsMemory(m, "users"), "default_user" \in DOMAIN m,
           d # NoDoc => IsDocument(d, "users")
    PROVE  /\ IsMemory(UsersFrom(d, m), "users")
           /\ "default_user" \in DOMAIN UsersFrom(d, m)
           /\ Loadable(d) /\ Loadable(m) => Loadable(UsersFrom(d, m))
           /\ d # NoDoc =>
                /\ DOMAIN UsersFrom(d, m)
                     = (DOMAIN d \cap Managed("users")) \cup {"default_user"} \cup DOMAIN m
                /\ \A k \in DOMAIN d \cap Managed("users") : UsersFrom(d, m)[k] = d[k]
                /\ "default_user" \notin DOMAIN d
                     => UsersFrom(d, m)["default_user"] = Admin
           /\ d = NoDoc =>
                /\ DOMAIN UsersFrom(d, m) = {Admin, "default_user"}
                /\ UsersFrom(d, m)[Admin] = Builtin
                /\ UsersFrom(d, m)["default_user"] = m["default_user"]
<1>0. /\ Admin \in Users /\ Admin # "default_user" /\ Admin \in Held /\ Builtin \in Held
      /\ Admin \in Managed("users") /\ "default_user" \in Managed("users")
      /\ Builtin # Bad /\ Files = {"users", "settings"}
  BY FallbackAssumption, KindsAssumption, ValuesAssumption DEF Managed, Held, Loaded, Files
<1>1. CASE d = NoDoc
  <2>1. UsersFrom(d, m) = Only(Admin, Builtin) ++ Only("default_user", m["default_user"])
    BY <1>1 DEF UsersFrom
  <2>2. m["default_user"] \in Held
    BY DEF IsMemory
  <2> DEFINE w == Only(Admin, Builtin) ++ Only("default_user", m["default_user"])
  <2>3. /\ DOMAIN w = {Admin, "default_user"} /\ w[Admin] = Builtin
        /\ w["default_user"] = m["default_user"]
    BY <1>0 DEF ++, Only
  <2>4. w \in [DOMAIN w -> Held]
    BY <1>0, <2>2 DEF ++, Only
  <2> HIDE DEF w
  <2>5. Loadable(w)
    BY <1>0, <2>3 DEF Loadable
  <2> QED
    BY <1>0, <1>1, <2>1, <2>3, <2>4, <2>5 DEF IsMemory, w
<1>2. CASE d # NoDoc
  <2> DEFINE kept == Restrict(d, DOMAIN d \cap Managed("users"))
             rest == Without(m, {"default_user"})
             under == Only("default_user", Admin) ++ rest
  <2>1. UsersFrom(d, m) = kept ++ under
    BY <1>2 DEF UsersFrom
  <2>2. /\ DOMAIN kept = DOMAIN d \cap Managed("users")
        /\ \A k \in DOMAIN kept : kept[k] = d[k]
        /\ kept \in [DOMAIN kept -> Held]
    BY <1>2 DEF Restrict, IsDocument, Values
  <2>3. /\ DOMAIN rest = DOMAIN m \ {"default_user"}
        /\ \A k \in DOMAIN rest : rest[k] = m[k]
        /\ rest \in [DOMAIN rest -> Held]
    <3>1. m \in [DOMAIN m -> Held]
      BY DEF IsMemory
    <3> HIDE DEF rest
    <3>2. /\ DOMAIN rest = DOMAIN m \ {"default_user"}
          /\ \A k \in DOMAIN m \ {"default_user"} : rest[k] = m[k]
          /\ rest \in [DOMAIN rest -> Held]
      BY <3>1, TakenOut DEF rest
    <3> QED
      BY <3>2
  <2>4. /\ DOMAIN under = DOMAIN m
        /\ under["default_user"] = Admin
        /\ \A k \in DOMAIN under \ {"default_user"} : under[k] = m[k]
        /\ under \in [DOMAIN under -> Held]
    BY <1>0, <2>3 DEF ++, Only
  <2> HIDE DEF kept, rest, under
  <2>5. /\ DOMAIN (kept ++ under) = DOMAIN kept \cup DOMAIN under
        /\ \A k \in DOMAIN kept : (kept ++ under)[k] = kept[k]
        /\ \A k \in DOMAIN under \ DOMAIN kept : (kept ++ under)[k] = under[k]
        /\ kept ++ under \in [DOMAIN (kept ++ under) -> Held]
    BY <2>2, <2>4, Overlaid
  <2>6. DOMAIN m \subseteq Managed("users")
    BY DEF IsMemory
  <2>7. ASSUME Loadable(d), Loadable(m) PROVE Loadable(kept ++ under)
    <3>1. /\ \A k \in DOMAIN d \ {"default_user"} : d[k] # Bad
          /\ \A k \in DOMAIN m \ {"default_user"} : m[k] # Bad
      BY <1>0, <1>2, <2>7, LoadableEntries
    <3> QED
      BY <2>2, <2>4, <2>5, <3>1 DEF Loadable
  <2> QED
    BY <1>0, <1>2, <2>1, <2>2, <2>4, <2>5, <2>6, <2>7 DEF IsMemory
<1> QED
  BY <1>1, <1>2

LEMMA UsersLoadWell ==
    ASSUME NEW d, NEW m, NEW h, IsMemory(m, "users"), "default_user" \in DOMAIN m,
           d # NoDoc => Good(d, "users", env, h), env.files => d # NoDoc,
           ~h.spoilt => Loadable(m)
    PROVE  MemGood(UsersFrom(d, m), "users", env, h)
<1>1. /\ d # NoDoc => IsDocument(d, "users")
      /\ ~h.spoilt => Loadable(d)
  BY DEF Good, Loadable
<1>2. ASSUME env.files, ~h.spoilt PROVE DefaultKnown(UsersFrom(d, m))
  <2>1. d # NoDoc /\ DefaultKnown(d)
    BY <1>2 DEF Good
  <2>2. /\ "default_user" \in Managed("users") /\ Users \subseteq Managed("users")
        /\ DOMAIN UsersFrom(d, m)
             = (DOMAIN d \cap Managed("users")) \cup {"default_user"} \cup DOMAIN m
        /\ \A k \in DOMAIN d \cap Managed("users") : UsersFrom(d, m)[k] = d[k]
    BY <1>1, <2>1, UsersLoad DEF Managed
  <2> QED
    BY <2>1, <2>2 DEF DefaultKnown
<1> QED
  BY <1>1, <1>2, UsersLoad DEF MemGood

\* And what it leaves when it gets to a bad user.
LEMMA UsersAboveWell ==
    ASSUME NEW d, NEW m, NEW part, IsMemory(m, "users"), "default_user" \in DOMAIN m,
           IsDocument(d, "users"), part \subseteq GoodUsers(d)
    PROVE  /\ IsMemory(UsersAbove(d, part, m), "users")
           /\ "default_user" \in DOMAIN UsersAbove(d, part, m)
           /\ Loadable(m) => Loadable(UsersAbove(d, part, m))
<1> DEFINE ks == DOMAIN d \cap (part \cup {"default_user"})
           e == Restrict(d, ks)
<1>1. /\ DOMAIN e = ks /\ \A k \in ks : e[k] = d[k]
      /\ e \in [DOMAIN e -> Held] /\ DOMAIN e \subseteq Keys("users")
  BY DEF Restrict, IsDocument, Values
<1>2. \A k \in ks \ {"default_user"} : d[k] # Bad
  BY DEF GoodUsers
<1> HIDE DEF ks
<1>3. Loadable(e)
  <2> HIDE DEF e
  <2> QED
    BY <1>1, <1>2 DEF Loadable
<1> HIDE DEF e
<1>4. IsDocument(e, "users")
  BY <1>1 DEF IsDocument, Values
<1>5. UsersAbove(d, part, m) = UsersFrom(e, m)
  BY DEF UsersAbove, e, ks
<1> QED
  BY <1>3, <1>4, <1>5, UsersLoad

\* Memory does not become bad by a setting from the command line.
LEMMA ProfileWell ==
    ASSUME NEW m, IsMemory(m, "settings"), Loadable(m)
    PROVE  /\ IsMemory(With(m, "security_profile", Profile), "settings")
           /\ Loadable(With(m, "security_profile", Profile))
<1> DEFINE w == With(m, "security_profile", Profile)
<1>1. /\ "security_profile" \in Managed("settings") /\ Profile \in Held /\ Profile # Bad
      /\ "settings" \in Files
  BY ValuesAssumption DEF Managed, Held, Loaded, Files
<1>2. \A k \in DOMAIN m \ {"default_user"} : m[k] # Bad
  BY <1>1, LoadableEntries
<1>3. m \in [DOMAIN m -> Held]
  BY DEF IsMemory
<1>4. /\ DOMAIN w = DOMAIN m \cup {"security_profile"}
      /\ \A k \in DOMAIN w : w[k] = IF k = "security_profile" THEN Profile ELSE m[k]
      /\ w \in [DOMAIN w -> Held]
  BY <1>1, <1>3 DEF With, Only, ++
<1> HIDE DEF w
<1>5. IsMemory(w, "settings") /\ Loadable(w)
  BY <1>1, <1>2, <1>4 DEF IsMemory, Loadable
<1> QED
  BY <1>5 DEF w

\* What a process has in memory once it has started on these files.
LEMMA StartedWell ==
    ASSUME NEW p, NEW docs, NEW h,
           \A f \in Files : Loadable(docs[f]) /\ (docs[f] # NoDoc => Good(docs[f], f, env, h)),
           env.files => docs["users"] # NoDoc
    PROVE  /\ Started(p, docs) = [f \in Files |-> Started(p, docs)[f]]
           /\ \A f \in Files : /\ MemGood(Started(p, docs)[f], f, env, h)
                               /\ Loadable(Started(p, docs)[f])
<1> DEFINE fallback == Only("default_user", Admin)
           from == UsersFrom(docs["users"], fallback)
           settings == SettingsFrom(docs["settings"])
           kept == IF p = "web" /\ env.profile
                     THEN With(settings, "security_profile", Profile) ELSE settings
<1>1. MemGood(from, "users", env, h) /\ Loadable(from)
  <2>1. /\ IsMemory(fallback, "users") /\ DOMAIN fallback = {"default_user"}
    BY FallbackUser
  <2> HIDE DEF fallback
  <2>2. Loadable(fallback)
    BY <2>1 DEF Loadable
  <2>3. /\ docs["users"] # NoDoc => Good(docs["users"], "users", env, h)
        /\ docs["users"] # NoDoc => IsDocument(docs["users"], "users")
        /\ Loadable(docs["users"])
    BY DEF Files, Good
  <2> QED
    BY <2>1, <2>2, <2>3, UsersLoadWell, UsersLoad
<1>2. IsMemory(settings, "settings") /\ Loadable(settings)
  BY SettingsLoad DEF Files, Good
<1>3. IsMemory(kept, "settings") /\ Loadable(kept)
  <2> HIDE DEF settings
  <2> QED
    BY <1>2, ProfileWell
<1>4. Started(p, docs) = [f \in Files |-> IF f = "users" THEN from ELSE kept]
  BY DEF Started, Files
<1> HIDE DEF from, kept
<1>5. MemGood(kept, "settings", env, h)
  BY <1>3 DEF MemGood
<1> QED
  BY <1>1, <1>3, <1>4, <1>5 DEF Files

LEMMA ReadWell ==
    ASSUME NEW f \in Files, NEW d, NEW h,
           d # NoDoc => Good(d, f, env, h), env.files => d # NoDoc
    PROVE  Good(Read(f, d), f, env, h)
<1>1. CASE d # NoDoc
  BY <1>1 DEF Read
<1>2. CASE d = NoDoc /\ f = "users"
  <2> DEFINE fallback == Only("default_user", Admin)
  <2>1. IsDocument(fallback, f) /\ DOMAIN fallback = {"default_user"}
    BY <1>2, FallbackUser, MemoryIsDocument
  <2>2. Read(f, d) = fallback
    BY <1>2 DEF Read
  <2> HIDE DEF fallback
  <2>3. Loadable(fallback)
    BY <2>1 DEF Loadable
  <2> QED
    BY <1>2, <2>1, <2>2, <2>3 DEF Good
<1>3. CASE d = NoDoc /\ f # "users"
  <2>1. IsDocument(NoEntries, f)
    BY DEF NoEntries, IsDocument
  <2> QED
    BY <1>3, <2>1 DEF Read, Good
<1> QED
  BY <1>1, <1>2, <1>3

LEMMA PutWell ==
    ASSUME NEW f \in Files, NEW d, NEW h, NEW k \in Entries(f), NEW v \in Held,
           Good(d, f, env, h), k \in h.touched, f = "users" => v # Bad
    PROVE  Good(With(d, k, v), f, env, h)
<1> DEFINE w == With(d, k, v)
<1>1. k \in Keys(f) /\ k # "default_user" /\ v \in Values(f)
  BY EntriesAreKeys DEF Values, Value
<1>2. /\ DOMAIN w = DOMAIN d \cup {k}
      /\ \A x \in DOMAIN d \ {k} : w[x] = d[x]
      /\ w \in [DOMAIN w -> Values(f)]
  <2>1. d \in [DOMAIN d -> Values(f)]
    BY DEF Good, IsDocument
  <2> QED
    BY <1>1, <2>1 DEF With, Only, ++
<1> HIDE DEF w
<1>3. IsDocument(w, f)
  BY <1>1, <1>2 DEF Good, IsDocument
<1>4. DefaultKnown(d) => DefaultKnown(w)
  BY <1>1, <1>2 DEF DefaultKnown
<1>5. Keeps(d, f, h) => Keeps(w, f, h)
  BY <1>2 DEF Keeps
<1>6. f = "users" /\ Loadable(d) => Loadable(w)
  <2>1. w[k] = v
    BY DEF w, With, Only, ++
  <2>2. IsDocument(d, f)
    BY DEF Good
  <2> QED
    BY <1>2, <1>3, <2>1, <2>2, LoadableEntries
<1> QED
  BY <1>3, <1>4, <1>5, <1>6 DEF Good, w

\* When the default user is deleted, an heir is found among those left, or nobody.
LEMMA DropWell ==
    ASSUME NEW f \in Files, NEW d, NEW h, NEW k \in Entries(f),
           Good(d, f, env, h), {k, "default_user"} \subseteq h.touched
    PROVE  Good(Drop(d, k), f, env, h)
<1> DEFINE left == Without(d, {k})
           heir == Heir(left)
<1>1. /\ DOMAIN left = DOMAIN d \ {k}
      /\ \A x \in DOMAIN d \ {k} : left[x] = d[x]
      /\ left \in [DOMAIN left -> Values(f)]
  <2>1. d \in [DOMAIN d -> Values(f)]
    BY DEF Good, IsDocument
  <2> QED
    BY <2>1, TakenOut
<1>2. heir \in (DOMAIN left \cap Users) \cup {NoUser}
  BY DEF Heir
<1> HIDE DEF left, heir
<1>3. IsDocument(left, f) /\ k # "default_user" /\ IsDocument(d, f)
  BY <1>1, EntriesAreKeys DEF Good, IsDocument
<1>6. Loadable(d) => Loadable(left)
  BY <1>1, <1>3, LoadableEntries
<1>4. CASE k \in Users /\ "default_user" \in DOMAIN d /\ d["default_user"] = k
  <2> DEFINE w == [left EXCEPT !["default_user"] = heir]
  <2>1. Drop(d, k) = w
    BY <1>4 DEF Drop, left, heir
  <2>2. f = "users" /\ heir \in Held /\ Values(f) = Held
    BY <1>2, <1>4, EntriesAreKeys DEF Good, IsDocument, Held, Loaded, Values
  <2>3. IsDocument(w, f) /\ DOMAIN w = DOMAIN left
    BY <1>3, <2>2 DEF IsDocument
  <2>4. DefaultKnown(w)
    BY <1>1, <1>2, <1>3, <1>4, <2>3 DEF DefaultKnown
  <2>5. Keeps(d, f, h) => Keeps(w, f, h)
    BY <1>1, <2>3 DEF Keeps
  <2>6. Loadable(left) => Loadable(w)
    BY <1>3, <2>3, LoadableEntries
  <2> QED
    BY <1>6, <2>1, <2>3, <2>4, <2>5, <2>6 DEF Good
<1>5. CASE ~(k \in Users /\ "default_user" \in DOMAIN d /\ d["default_user"] = k)
  <2>1. Drop(d, k) = left
    BY <1>5 DEF Drop, left
  <2>2. f = "users" /\ DefaultKnown(d) => DefaultKnown(left)
    BY <1>1, <1>3, <1>5 DEF DefaultKnown, Entries
  <2>3. Keeps(d, f, h) => Keeps(left, f, h)
    BY <1>1 DEF Keeps
  <2> QED
    BY <1>3, <1>6, <2>1, <2>2, <2>3 DEF Good
<1> QED
  BY <1>4, <1>5

LEMMA SaveWell ==
    ASSUME NEW f \in Files, NEW d, NEW m, NEW h, MemGood(m, f, env, h),
           d # NoDoc => Good(d, f, env, h), env.files => d # NoDoc,
           Managed(f) \subseteq h.touched
    PROVE  Good(SaveInto(f, d, m), f, env, h)
<1> DEFINE others == IF d = NoDoc THEN NoEntries ELSE Without(d, Managed(f))
           w == m ++ others
<1>1. /\ d = NoDoc => DOMAIN others = {}
      /\ d # NoDoc => DOMAIN others = DOMAIN d \ Managed(f)
      /\ d # NoDoc => \A x \in DOMAIN others : others[x] = d[x]
      /\ others \in [DOMAIN others -> Values(f)]
  <2>1. CASE d = NoDoc
    BY <2>1 DEF NoEntries
  <2>2. CASE d # NoDoc
    <3>1. d \in [DOMAIN d -> Values(f)]
      BY <2>2 DEF Good, IsDocument
    <3>2. /\ DOMAIN Without(d, Managed(f)) = DOMAIN d \ Managed(f)
          /\ \A x \in DOMAIN d \ Managed(f) : Without(d, Managed(f))[x] = d[x]
          /\ Without(d, Managed(f)) \in [DOMAIN Without(d, Managed(f)) -> Values(f)]
      BY <3>1, TakenOut
    <3> QED
      BY <2>2, <3>2
  <2> QED
    BY <2>1, <2>2
<1>2. IsDocument(m, f)
  BY MemoryIsDocument DEF MemGood
<1> HIDE DEF others
<1>3. /\ DOMAIN w = DOMAIN m \cup DOMAIN others
      /\ \A x \in DOMAIN m : w[x] = m[x]
      /\ \A x \in DOMAIN others \ DOMAIN m : w[x] = others[x]
      /\ w \in [DOMAIN w -> Values(f)]
  BY <1>1, <1>2, Overlaid DEF IsDocument
<1> HIDE DEF w
<1>4. IsDocument(w, f)
  BY <1>1, <1>2, <1>3 DEF IsDocument, Good
<1>5. DefaultKnown(m) => DefaultKnown(w)
  BY <1>3 DEF DefaultKnown
<1>6. env.files /\ Keeps(d, f, h) => Keeps(w, f, h)
  <2>1. DOMAIN m \subseteq Managed(f)
    BY DEF MemGood, IsMemory
  <2> QED
    BY <1>1, <1>3, <2>1 DEF Keeps
<1>7. f = "users" /\ ~h.spoilt => Loadable(w)
  <2> SUFFICES ASSUME f = "users", ~h.spoilt PROVE Loadable(w)
    OBVIOUS
  <2>1. \A k \in DOMAIN m \ {"default_user"} : m[k] # Bad
    BY LoadableEntries DEF MemGood
  <2>2. d # NoDoc => \A k \in DOMAIN d \ {"default_user"} : d[k] # Bad
    BY LoadableEntries DEF Good
  <2> QED
    BY <1>1, <1>3, <2>1, <2>2 DEF Loadable
<1> QED
  BY <1>4, <1>5, <1>6, <1>7 DEF Good, MemGood, SaveInto, others, w

\* An edit of thread t leaves a good document, if its keys count as touched.
LEMMA EditedWell ==
    ASSUME NEW t \in Threads, NEW e \in EditsOf(t), NEW d, NEW m, NEW h,
           MemGood(m, e.file, env, h), d # NoDoc => Good(d, e.file, env, h),
           env.files => d # NoDoc, Named(e) \subseteq h.touched
    PROVE  Good(Edited(d, e, m), e.file, env, h)
<1>1. CASE t = Mcp
  <2>1. PICK f \in Files : e = Save(f)
    BY <1>1 DEF EditsOf
  <2>2. e.file = f /\ e.kind = "save"
    BY <2>1 DEF Save, EditOf
  <2>3. Edited(d, e, m) = SaveInto(f, d, m) /\ Named(e) = Managed(f)
    BY <2>2 DEF Edited, Named
  <2> QED
    BY <2>2, <2>3, SaveWell
<1>2. CASE t # Mcp
  <2>1. PICK f \in Files : e \in WriterEdits(f)
    BY <1>2 DEF EditsOf
  <2>2. /\ e.file = f /\ e.kind \in {"put", "drop"} /\ e.key \in Entries(f)
        /\ e.val \in Held /\ (f = "users" => e.val # Bad)
    BY <2>1, ValuesAssumption DEF WriterEdits, Held
  <2>3. Good(Read(f, d), f, env, h)
    BY <2>2, ReadWell
  <2>4. CASE e.kind = "put"
    <3>1. e.key \in h.touched /\ Edited(d, e, m) = With(Read(f, d), e.key, e.val)
      BY <2>2, <2>4 DEF Named, Edited
    <3> QED
      BY <2>2, <2>3, <3>1, PutWell
  <2>5. CASE e.kind = "drop"
    <3>1. /\ {e.key, "default_user"} \subseteq h.touched
          /\ Edited(d, e, m) = Drop(Read(f, d), e.key)
      BY <2>2, <2>5 DEF Named, Edited
    <3> QED
      BY <2>2, <2>3, <3>1, DropWell
  <2> QED
    BY <2>2, <2>4, <2>5
<1> QED
  BY <1>1, <1>2

-----------------------------------------------------------------------------
(***************************************************************************)
(* The inductive invariant.                                                *)
(***************************************************************************)
Edit == UNION {EditsOf(t) : t \in Threads}
Solos == [alone : BOOLEAN, s3ok : BOOLEAN, fresh : BOOLEAN, edits : Seq(Edit),
          file : [Files -> AnyDoc], memory : [Files -> AnyDoc]]
Hists == [op : [Threads -> Solos], touched : SUBSET AllKeys,
          spoilt : BOOLEAN, behind : BOOLEAN]

Shapes ==
    /\ env \in Deployments
    /\ file \in [Files -> AnyDoc] /\ bak \in [Files -> AnyDoc]
    /\ bucket \in [Files -> AnyDoc]
    /\ mem \in [Procs -> [Files -> AnyDoc]]
    /\ run \in [Threads -> [at : Stages, edits : Seq(Edit), doc : AnyDoc]]
    /\ ops \in 0..env.ops /\ mcpOps \in 0..MaxMcpOps /\ failures \in 0..MaxFailures
    /\ hist \in Hists

\* All documents are good, and what the web process holds loads.  A file that is
\* there stays, so one that has a backup is there; while users.yaml is not,
\* default_user is the fallback.
Documents ==
    /\ \A f \in Files :
         /\ file[f] # NoDoc => Good(file[f], f, env, hist)
         /\ bak[f] # NoDoc => Good(bak[f], f, env, hist) /\ file[f] # NoDoc
         /\ bucket[f] # NoDoc => Good(bucket[f], f, env, hist) /\ env.s3
         /\ env.files => file[f] # NoDoc
         /\ \A p \in Procs : Up(p) => MemGood(mem[p][f], f, env, hist)
         /\ Loadable(mem["web"][f])
    /\ Up("web") /\ file["users"] = NoDoc
         => mem["web"]["users"]["default_user"] = Admin

\* Only a process that is running has anybody at work, or anything in memory.
Running ==
    /\ \A p \in Procs : Up(p) \/ mem[p] = Nothing
    /\ \A t \in Threads : Busy(t) => Up(Proc(t))

\* Where a thread can be with its edits, all of which have been named, and the
\* document in its hands.
StageFits(t) ==
    /\ run[t].edits \in Seq(EditsOf(t))
    /\ \A i \in 1..Len(run[t].edits) : Named(run[t].edits[i]) \subseteq hist.touched
    /\ run[t].at \in {"load", "write", "replace", "push"} => run[t].edits # << >>
    /\ run[t].at \in {"sync", "pull", "push"} => env.s3
    /\ run[t].at = "push" => t = Mcp
    /\ run[t].at = "sync" => run[t].edits = << >>
    /\ run[t].at \in {"write", "replace"} => Good(run[t].doc, Current(t).file, env, hist)
    /\ t = Mcp =>
         /\ run[t].edits \in {<< >>, SaveEdits, <<Save("settings")>>}
         /\ run[t].at \in {"pull", "settings", "users"} => run[t].edits = << >>

StagesFit == \A t \in Threads : StageFits(t)

\* The web process holds what the files say or is about to load them, unless
\* they changed behind its back or do not load.
HoldsUsers ==
    LET fresh == UsersFrom(file["users"], Only("default_user", Admin))
    IN  /\ DOMAIN fresh \subseteq DOMAIN mem["web"]["users"]
        /\ \A k \in DOMAIN fresh : mem["web"]["users"][k] = fresh[k]
HoldsSettings == mem["web"]["settings"] = SettingsFrom(file["settings"])
About(stages) == \E t \in WebThreads : run[t].at \in stages

MemoryFollows ==
    Up("web") /\ ~hist.behind =>
      /\ Loadable(file["settings"]) => HoldsSettings \/ About({"pull", "settings"})
      /\ Loadable(file["settings"]) /\ Loadable(file["users"])
           => HoldsUsers \/ About({"pull", "settings", "users"})

\* An operation that has had the system to itself: nobody else is at work, and the
\* edits it has left are the last ones it began with.
Done(t) == Len(hist.op[t].edits) - Len(run[t].edits)
Alone(t) ==
    hist.op[t].alone =>
      /\ Busy(t) /\ \A u \in Threads \ {t} : ~Busy(u)
      /\ t = Mcp /\ run[t].edits # << >> => hist.op[t].memory = mem["mcp"]
      /\ Len(run[t].edits) <= Len(hist.op[t].edits)
      /\ \A i \in 1..Len(run[t].edits) :
           run[t].edits[i] = hist.op[t].edits[Done(t) + i]

\* Without a bucket the files hold the edits it has made, and none else.
Made(t) == AfterEdits(hist.op[t].file, hist.op[t].edits, hist.op[t].memory)
EditsMade(t) ==
    hist.op[t].alone /\ ~env.s3 =>
      /\ run[t].at \in {"load", "write", "replace"} => file = Made(t)[Done(t)]
      /\ run[t].at \in {"write", "replace"} =>
           [file EXCEPT ![Current(t).file] = run[t].doc] = Made(t)[Done(t) + 1]
      /\ run[t].at = "replace" => bak[Current(t).file] = file[Current(t).file]
      /\ run[t].at \in {"settings", "users"} =>
           file = Made(t)[IF run[t].edits = << >> THEN Done(t) ELSE Done(t) + 1]

\* With a bucket that has not failed it, files and bucket agree once they have been
\* pulled, and after a push as far as it has come.
BucketFollows(t) ==
    hist.op[t].alone /\ env.s3 /\ hist.op[t].s3ok =>
      /\ run[t].at \in {"settings", "users"} => file = bucket
      /\ t = Mcp /\ run[t].edits = <<Save("settings")>> =>
           file["users"] = bucket["users"]

\* A secret that was left blank is the one in the file the operation began with.
SecretKept(op, e) ==
    /\ e.kind = "put"
    /\ LET before == op.file[e.file]
       IN  before # NoDoc /\ e.key \in DOMAIN before => e.val = Expand(before[e.key])
SecretsKept(t) ==
    hist.op[t].alone /\ hist.op[t].fresh =>
      \A i \in 1..Len(hist.op[t].edits) :
        hist.op[t].edits[i].keeps =>
          Len(hist.op[t].edits) = 1 /\ SecretKept(hist.op[t], hist.op[t].edits[i])

SoloSteps ==
    \A t \in Threads : Alone(t) /\ EditsMade(t) /\ BucketFollows(t) /\ SecretsKept(t)

IInv == Shapes /\ Documents /\ StagesFit /\ MemoryFollows /\ SoloSteps

-----------------------------------------------------------------------------
(***************************************************************************)
(* History, and what is kept by a step that does little.                   *)
(***************************************************************************)
LEMMA NothingAlone == NoOperation \in Solos /\ ~NoOperation.alone
<1>1. << >> \in Seq(Edit)
  OBVIOUS
<1>2. [f \in Files |-> NoDoc] \in [Files -> AnyDoc]
  BY DEF AnyDoc
<1>3. NoEntries \in AnyDoc
  <2>1. NoEntries \in [{} -> Value] /\ {} \in SUBSET AllKeys
    BY DEF NoEntries
  <2> QED
    BY <2>1 DEF AnyDoc
<1> QED
  BY <1>1, <1>2, <1>3 DEF NoOperation, Solos

\* The history when thread t's operation is over.
LEMMA OverHistory ==
    ASSUME NEW h \in Hists, NEW t \in Threads
    PROVE  /\ Over(h, t) \in Hists
           /\ Over(h, t).touched = h.touched /\ Over(h, t).spoilt = h.spoilt
           /\ Over(h, t).behind = h.behind
           /\ Over(h, t).op[t] = NoOperation
           /\ \A u \in Threads \ {t} : Over(h, t).op[u] = h.op[u]
  BY NothingAlone DEF Over, Hists

\* The history when process p has changed the files.
LEMMA BehindHistory ==
    ASSUME NEW h \in Hists, NEW p, NEW changed
    PROVE  /\ Behind(h, p, changed) \in Hists
           /\ Behind(h, p, changed).touched = h.touched
           /\ Behind(h, p, changed).spoilt = h.spoilt
           /\ Behind(h, p, changed).behind = (h.behind \/ (p = "mcp" /\ changed # file))
           /\ Behind(h, p, changed).op = h.op
  BY DEF Behind, Hists

\* The history when thread t begins an operation.
LEMMA BegunHistory ==
    ASSUME Shapes, NEW t \in Threads, NEW edits \in Seq(Edit),
           \A i \in 1..Len(edits) : Named(edits[i]) \subseteq AllKeys
    PROVE  /\ Begun(t, edits) \in Hists
           /\ hist.touched \subseteq Begun(t, edits).touched
           /\ \A i \in 1..Len(edits) : Named(edits[i]) \subseteq Begun(t, edits).touched
           /\ Begun(t, edits).spoilt = hist.spoilt
           /\ Begun(t, edits).behind = hist.behind
           /\ \A u \in Threads \ {t} : Begun(t, edits).op[u] = NoOperation
           /\ Begun(t, edits).op[t].alone =>
                /\ \A w \in Threads : ~Busy(w)
                /\ Begun(t, edits).op[t]
                     = [alone |-> TRUE, s3ok |-> TRUE, fresh |-> Fresh,
                        edits |-> edits, file |-> file, memory |-> mem[Proc(t)]]
<1> DEFINE begun == [alone |-> TRUE, s3ok |-> TRUE, fresh |-> Fresh,
                     edits |-> edits, file |-> file, memory |-> mem[Proc(t)]]
           op == [u \in Threads |->
                    IF u = t /\ \A w \in Threads : ~Busy(w) THEN begun ELSE NoOperation]
           touched == hist.touched \cup UNION {Named(e) : e \in Range(edits)}
<1>1. Begun(t, edits) = [hist EXCEPT !.op = op, !.touched = touched]
  BY DEF Begun
<1>2. begun \in Solos
  <2>1. Proc(t) \in Procs
    BY DEF Proc, Procs
  <2>2. Fresh \in BOOLEAN
    BY DEF Fresh
  <2> QED
    BY <2>1, <2>2 DEF Shapes, Solos
<1>3. op \in [Threads -> Solos]
  <2> HIDE DEF begun
  <2> QED
    BY <1>2, NothingAlone
<1>4. /\ touched \subseteq AllKeys /\ hist.touched \subseteq touched
      /\ \A i \in 1..Len(edits) : Named(edits[i]) \subseteq touched
  <2>1. \A e \in Range(edits) : \E i \in 1..Len(edits) : e = edits[i]
    BY DEF Range
  <2>2. \A i \in 1..Len(edits) : edits[i] \in Range(edits)
    BY DEF Range
  <2> QED
    BY <2>1, <2>2 DEF Shapes, Hists
<1>5. /\ \A u \in Threads \ {t} : op[u] = NoOperation
      /\ op[t].alone => /\ \A w \in Threads : ~Busy(w)
                        /\ op[t] = begun
  <2> HIDE DEF begun
  <2> QED
    BY NothingAlone
<1> HIDE DEF op, touched
<1>6. /\ [hist EXCEPT !.op = op, !.touched = touched] \in Hists
      /\ [hist EXCEPT !.op = op, !.touched = touched].op = op
      /\ [hist EXCEPT !.op = op, !.touched = touched].touched = touched
      /\ [hist EXCEPT !.op = op, !.touched = touched].behind = hist.behind
      /\ [hist EXCEPT !.op = op, !.touched = touched].spoilt = hist.spoilt
  BY <1>3, <1>4 DEF Shapes, Hists
<1> QED
  BY <1>1, <1>4, <1>5, <1>6

\* Documents that move between files, backups and bucket, or are added, stay good.
Grows ==
    /\ env' = env
    /\ hist.touched \subseteq hist'.touched /\ (hist.spoilt => hist'.spoilt)

LEMMA DocumentsMove ==
    ASSUME Documents, Grows,
           \A f \in Files :
             /\ file'[f] # file[f] => file'[f] # NoDoc /\ Good(file'[f], f, env, hist)
             /\ bak'[f] \in {bak[f], file[f]}
             /\ bucket'[f] = bucket[f] \/ (bucket'[f] = file[f] /\ env.s3)
             /\ \A p \in Procs : Up(p)' => MemGood(mem'[p][f], f, env, hist')
             /\ Loadable(mem'["web"][f])
    PROVE  (Up("web")' /\ file'["users"] = NoDoc
              => mem'["web"]["users"]["default_user"] = Admin) => Documents'
<1>1. SUFFICES ASSUME NEW f \in Files
               PROVE  /\ file'[f] # NoDoc => Good(file'[f], f, env, hist')
                      /\ bak'[f] # NoDoc =>
                           Good(bak'[f], f, env, hist') /\ file'[f] # NoDoc
                      /\ bucket'[f] # NoDoc => Good(bucket'[f], f, env, hist') /\ env.s3
                      /\ env.files => file'[f] # NoDoc
                      /\ \A p \in Procs : Up(p)' => MemGood(mem'[p][f], f, env, hist')
                      /\ Loadable(mem'["web"][f])
  BY DEF Documents, Grows
<1>2. \A d : Good(d, f, env, hist) => Good(d, f, env, hist')
  BY GoodStaysGood DEF Grows
<1>3. /\ file[f] # NoDoc => Good(file[f], f, env, hist)
      /\ bak[f] # NoDoc => Good(bak[f], f, env, hist) /\ file[f] # NoDoc
      /\ bucket[f] # NoDoc => Good(bucket[f], f, env, hist) /\ env.s3
      /\ env.files => file[f] # NoDoc
  BY DEF Documents
<1> QED
  BY <1>2, <1>3

\* The same when memory stays as it is.
LEMMA FilesMove ==
    ASSUME Documents, Grows, mem' = mem,
           \A f \in Files :
             /\ file'[f] # file[f] => file'[f] # NoDoc /\ Good(file'[f], f, env, hist)
             /\ bak'[f] \in {bak[f], file[f]}
             /\ bucket'[f] = bucket[f] \/ (bucket'[f] = file[f] /\ env.s3)
    PROVE  Documents'
<1>1. \A f \in Files :
        /\ \A p \in Procs : Up(p)' => MemGood(mem'[p][f], f, env, hist')
        /\ Loadable(mem'["web"][f])
  BY MemGoodStaysGood DEF Documents, Grows, Up
<1>2. Up("web")' /\ file'["users"] = NoDoc
        => mem'["web"]["users"]["default_user"] = Admin
  BY DEF Documents, Files, Up
<1> QED
  BY <1>1, <1>2, DocumentsMove

LEMMA StageStays ==
    ASSUME NEW u \in Threads, StageFits(u), Grows, run'[u] = run[u]
    PROVE  StageFits(u)'
<1>1. run[u].at \in {"write", "replace"} => Good(run[u].doc, Current(u).file, env, hist')
  BY GoodStaysGood DEF StageFits, Grows
<1> QED
  BY <1>1 DEF StageFits, Grows, Current

\* What the web process holds agrees with the files as before.
LEMMA FollowsStill ==
    ASSUME MemoryFollows,
           Up("web")' /\ ~hist'.behind =>
             /\ ~hist.behind /\ file' = file /\ mem'["web"] = mem["web"]
             /\ \A t \in WebThreads :
                  run[t].at \in {"pull", "settings", "users"} => run'[t].at = run[t].at
    PROVE  MemoryFollows'
<1>1. SUFFICES ASSUME Up("web")', ~hist'.behind PROVE MemoryFollows'
  BY DEF MemoryFollows
<1>2. HoldsUsers => HoldsUsers'
  BY <1>1 DEF HoldsUsers
<1>3. HoldsSettings => HoldsSettings'
  BY <1>1 DEF HoldsSettings
<1>4. \A S \in SUBSET {"pull", "settings", "users"} : About(S) => About(S)'
  BY <1>1 DEF About
<1> QED
  BY <1>1, <1>2, <1>3, <1>4 DEF MemoryFollows, Up

LEMMA NoneAlone ==
    ASSUME \A u \in Threads : ~hist'.op[u].alone
    PROVE  SoloSteps'
  BY DEF SoloSteps, Alone, EditsMade, BucketFollows, SecretsKept

\* While t is at work nobody else is alone, so only t's operation is looked at.
LEMMA OneAlone ==
    ASSUME SoloSteps, NEW t \in Threads, Busy(t),
           \A u \in Threads \ {t} : hist'.op[u] = hist.op[u],
           hist'.op[t].alone =>
             Alone(t)' /\ EditsMade(t)' /\ BucketFollows(t)' /\ SecretsKept(t)'
    PROVE  SoloSteps'
<1>1. \A u \in Threads \ {t} : ~hist.op[u].alone
  BY DEF SoloSteps, Alone
<1>2. \A u \in Threads \ {t} : ~hist'.op[u].alone
  BY <1>1
<1>3. \A u \in Threads : ~hist'.op[u].alone
        => (Alone(u)' /\ EditsMade(u)' /\ BucketFollows(u)' /\ SecretsKept(u)')
  BY DEF Alone, EditsMade, BucketFollows, SecretsKept
<1> QED
  BY <1>2, <1>3 DEF SoloSteps

-----------------------------------------------------------------------------
(***************************************************************************)
(* Edits made one after the other.                                         *)
(***************************************************************************)
\* Induction over the natural numbers, for a set of them.
LEMMA NumbersByInduction ==
    ASSUME NEW S \in SUBSET Nat, 0 \in S, \A n \in S : n + 1 \in S
    PROVE  S = Nat
<1> DEFINE T == Nat \ S
           R == {ss \in Nat \X Nat : ss[1] < ss[2]}
<1>1. IsWellFoundedOn(R, Nat)
  BY NatLessThanWellFounded DEF OpToRel
<1>2. SUFFICES ASSUME T # {} PROVE FALSE
  OBVIOUS
<1>3. PICK x \in T : \A y \in T : ~ (<<y, x>> \in R)
  BY <1>1, <1>2, WFMin
<1>4. x # 0 /\ x - 1 \in Nat /\ x - 1 < x /\ x \in Nat
  OBVIOUS
<1>5. <<x - 1, x>> \in R
  BY <1>4
<1>6. x - 1 \in S
  BY <1>3, <1>4, <1>5
<1>7. (x - 1) + 1 \in S /\ (x - 1) + 1 = x
  BY <1>4, <1>6
<1> QED
  BY <1>7

EditRule(docs, edits, memory, after, n) ==
    IF n = 0 THEN docs ELSE Make(after[n - 1], edits[n], memory)

LEMMA EditingExists ==
    ASSUME NEW docs, NEW edits, NEW memory, NEW N \in Nat
    PROVE  \E g : g = [n \in 0..N |-> EditRule(docs, edits, memory, g, n)]
<1> DEFINE Edits(m) == \E g : g = [n \in 0..m |-> EditRule(docs, edits, memory, g, n)]
           S == {m \in Nat : Edits(m)}
<1>1. 0 \in S
  <2>1. [n \in 0..0 |-> docs]
          = [n \in 0..0 |-> EditRule(docs, edits, memory, [k \in 0..0 |-> docs], n)]
    BY DEF EditRule
  <2> QED
    BY <2>1
<1>2. ASSUME NEW m \in S PROVE m + 1 \in S
  <2>1. PICK g : g = [n \in 0..m |-> EditRule(docs, edits, memory, g, n)]
    OBVIOUS
  <2> DEFINE next == EditRule(docs, edits, memory, g, m + 1)
             h == [n \in 0..(m + 1) |-> IF n \in 0..m THEN g[n] ELSE next]
  <2> HIDE DEF next
  <2>2. \A n \in 0..m : h[n] = g[n] /\ g[n] = EditRule(docs, edits, memory, g, n)
    <3>1. \A n \in 0..m : h[n] = g[n]
      OBVIOUS
    <3> QED
      BY <2>1, <3>1
  <2>3. h[m + 1] = EditRule(docs, edits, memory, g, m + 1)
    BY DEF next
  <2>4. DOMAIN h = 0..(m + 1) /\ h = [n \in 0..(m + 1) |-> h[n]]
    OBVIOUS
  <2> HIDE DEF h
  <2>5. \A n \in 0..(m + 1) :
          EditRule(docs, edits, memory, h, n) = EditRule(docs, edits, memory, g, n)
    <3> SUFFICES ASSUME NEW n \in 0..(m + 1)
                 PROVE  EditRule(docs, edits, memory, h, n)
                          = EditRule(docs, edits, memory, g, n)
      OBVIOUS
    <3>1. n = 0 \/ h[n - 1] = g[n - 1]
      BY <2>2
    <3> QED
      BY <3>1 DEF EditRule
  <2>6. \A n \in 0..(m + 1) : h[n] = EditRule(docs, edits, memory, h, n)
    BY <2>2, <2>3, <2>5
  <2>7. h = [n \in 0..(m + 1) |-> EditRule(docs, edits, memory, h, n)]
    BY <2>4, <2>6
  <2> QED
    BY <2>7
<1> HIDE DEF Edits
<1>3. S = Nat
  BY <1>1, <1>2, NumbersByInduction
<1> QED
  BY <1>3 DEF Edits

\* AfterEdits makes one edit after the other.
LEMMA EditsUnfold ==
    ASSUME NEW docs, NEW edits, NEW memory, Len(edits) \in Nat
    PROVE  /\ AfterEdits(docs, edits, memory)[0] = docs
           /\ \A n \in Nat : n < Len(edits) =>
                AfterEdits(docs, edits, memory)[n + 1]
                  = Make(AfterEdits(docs, edits, memory)[n], edits[n + 1], memory)
<1> DEFINE A == AfterEdits(docs, edits, memory)
           N == Len(edits)
<1>1. A = CHOOSE g : g = [n \in 0..N |-> EditRule(docs, edits, memory, g, n)]
  BY DEF AfterEdits, EditRule
<1>2. \E g : g = [n \in 0..N |-> EditRule(docs, edits, memory, g, n)]
  BY EditingExists
<1> HIDE DEF A
<1>3. A = [n \in 0..N |-> EditRule(docs, edits, memory, A, n)]
  BY <1>1, <1>2
<1>4. \A n \in 0..N : A[n] = EditRule(docs, edits, memory, A, n)
  BY <1>3
<1>5. A[0] = docs
  BY <1>4 DEF EditRule
<1>6. ASSUME NEW n \in Nat, n < N PROVE A[n + 1] = Make(A[n], edits[n + 1], memory)
  <2>1. n + 1 \in 0..N /\ n + 1 # 0 /\ (n + 1) - 1 = n
    BY <1>6
  <2> QED
    BY <1>4, <2>1 DEF EditRule
<1> QED
  BY <1>5, <1>6 DEF A

-----------------------------------------------------------------------------
(***************************************************************************)
(* Beginning an operation.                                                 *)
(***************************************************************************)
LEMMA EditShape ==
    ASSUME NEW t \in Threads, NEW e \in EditsOf(t)
    PROVE  /\ e.file \in Files /\ Named(e) \subseteq AllKeys /\ e \in Edit
           /\ t = Mcp => /\ e.kind = "save" /\ ~e.keeps
                         /\ \E f \in Files : e = Save(f) /\ e.file = f
           /\ t # Mcp => /\ e.kind \in {"put", "drop"} /\ e.key \in Entries(e.file)
                         /\ e.val \in Held
<1>1. CASE t = Mcp
  <2>1. PICK f \in Files : e = Save(f)
    BY <1>1 DEF EditsOf
  <2>2. e.file = f /\ e.kind = "save" /\ ~e.keeps
    BY <2>1 DEF Save, EditOf
  <2>3. Named(e) = Managed(f)
    BY <2>2 DEF Named
  <2>4. e \in Edit
    BY DEF Edit
  <2> QED
    BY <1>1, <2>1, <2>2, <2>3, <2>4, EntriesAreKeys
<1>2. CASE t # Mcp
  <2>1. PICK f \in Files : e \in WriterEdits(f)
    BY <1>2 DEF EditsOf
  <2>2. e.file = f /\ e.kind \in {"put", "drop"} /\ e.key \in Entries(f) /\ e.val \in Held
    BY <2>1 DEF WriterEdits, Held
  <2>3. Named(e) \subseteq {e.key, "default_user"}
    BY <2>2 DEF Named
  <2>4. "default_user" \in AllKeys
    BY EntriesAreKeys DEF Files
  <2>5. e \in Edit
    BY DEF Edit
  <2> QED
    BY <1>2, <2>2, <2>3, <2>4, <2>5, EntriesAreKeys
<1> QED
  BY <1>1, <1>2

\* What an operation may begin with; a blank secret is the one in memory.
Legal(t, stage, edits) ==
    /\ stage \in {"load", "sync", "pull", "settings"}
    /\ edits \in Seq(EditsOf(t))
    /\ (stage = "load") = (edits # << >>)
    /\ stage \in {"sync", "pull"} => env.s3
    /\ stage = "settings" => ~env.s3
    /\ t = Mcp => edits \in {<< >>, SaveEdits}
    /\ \A i \in 1..Len(edits) : edits[i].keeps =>
         /\ Len(edits) = 1 /\ edits[i].kind = "put"
         /\ edits[i].key \in DOMAIN mem["web"][edits[i].file]
         /\ edits[i].val = mem["web"][edits[i].file][edits[i].key]

\* When nobody is at work and nothing in the files is missing in the web process's
\* memory, a secret there is the one in the file.
LEMMA MemorySecret ==
    ASSUME Documents, MemoryFollows, Fresh, Up("web"), \A w \in Threads : ~Busy(w),
           NEW f \in Files, NEW k \in Entries(f), file[f] # NoDoc, k \in DOMAIN file[f]
    PROVE  mem["web"][f][k] = Expand(file[f][k])
<1>1. HoldsSettings /\ HoldsUsers
  <2>1. \A t \in WebThreads : run[t].at = "idle"
    BY DEF Busy, Threads
  <2>2. \A S \in SUBSET {"pull", "settings", "users"} : ~About(S)
    BY <2>1 DEF About
  <2> QED
    BY <2>2 DEF MemoryFollows, Fresh, Files
<1>2. k \in Managed(f)
  BY EntriesAreKeys
<1>3. CASE f = "settings"
  BY <1>1, <1>2, <1>3 DEF HoldsSettings, SettingsFrom
<1>4. CASE f = "users"
  <2> DEFINE fresh == UsersFrom(file["users"], Only("default_user", Admin))
  <2>1. IsDocument(file["users"], "users")
    BY <1>4 DEF Documents, Good
  <2>2. k \in DOMAIN fresh /\ fresh[k] = file["users"][k]
    <3> DEFINE m == Only("default_user", Admin)
    <3>1. IsMemory(m, "users") /\ "default_user" \in DOMAIN m
      BY FallbackUser
    <3> HIDE DEF m
    <3>2. /\ DOMAIN UsersFrom(file["users"], m)
               = (DOMAIN file["users"] \cap Managed("users"))
                   \cup {"default_user"} \cup DOMAIN m
          /\ \A x \in DOMAIN file["users"] \cap Managed("users") :
               UsersFrom(file["users"], m)[x] = file["users"][x]
      BY <1>4, <2>1, <3>1, UsersLoad
    <3> QED
      BY <1>2, <1>4, <3>2 DEF m
  <2>3. mem["web"]["users"][k] = fresh[k]
    BY <1>1, <2>2 DEF HoldsUsers
  <2>4. file["users"][k] \in Held
    BY <1>4, <2>1 DEF IsDocument, Values
  <2> QED
    BY <1>4, <2>2, <2>3, <2>4, ValuesAssumption DEF Expand
<1> QED
  BY <1>3, <1>4 DEF Files

LEMMA BeginKeeps ==
    ASSUME IInv, NEW t \in Threads, NEW stage, NEW edits,
           Legal(t, stage, edits), Begin(t, stage, edits)
    PROVE  IInv'
<1>1. /\ ~Busy(t)
      /\ run' = [run EXCEPT ![t] = [at |-> stage, edits |-> edits, doc |-> NoDoc]]
      /\ hist' = Begun(t, edits)
      /\ ops < env.ops /\ ops' = ops + 1
      /\ mcpOps' = IF t = Mcp THEN mcpOps + 1 ELSE mcpOps
      /\ t = Mcp => mcpOps < MaxMcpOps
      /\ env' = env /\ file' = file /\ bak' = bak /\ bucket' = bucket
      /\ mem' = mem /\ failures' = failures /\ Up(Proc(t))
  BY DEF Begin
<1>2. Shapes /\ Documents /\ StagesFit /\ MemoryFollows /\ SoloSteps
  BY DEF IInv
<1>3. edits \in Seq(Edit) /\ \A i \in 1..Len(edits) : Named(edits[i]) \subseteq AllKeys
  <2>1. edits \in Seq(EditsOf(t)) /\ EditsOf(t) \subseteq Edit
    BY DEF Legal, Edit
  <2>2. \A i \in 1..Len(edits) : edits[i] \in EditsOf(t)
    BY <2>1
  <2>3. edits \in Seq(Edit)
    BY <2>1
  <2> QED
    BY <2>2, <2>3, EditShape
<1>4. /\ hist' \in Hists /\ hist.touched \subseteq hist'.touched
      /\ \A i \in 1..Len(edits) : Named(edits[i]) \subseteq hist'.touched
      /\ hist'.spoilt = hist.spoilt /\ hist'.behind = hist.behind
      /\ \A u \in Threads \ {t} : hist'.op[u] = NoOperation
      /\ hist'.op[t].alone =>
           /\ \A w \in Threads : ~Busy(w)
           /\ hist'.op[t] = [alone |-> TRUE, s3ok |-> TRUE, fresh |-> Fresh,
                             edits |-> edits, file |-> file, memory |-> mem[Proc(t)]]
  BY <1>1, <1>2, <1>3, BegunHistory
<1>5. Grows
  BY <1>1, <1>4 DEF Grows
<1>6. /\ run'[t] = [at |-> stage, edits |-> edits, doc |-> NoDoc]
      /\ \A u \in Threads \ {t} : run'[u] = run[u]
      /\ run' \in [Threads -> [at : Stages, edits : Seq(Edit), doc : AnyDoc]]
  <2>1. [at |-> stage, edits |-> edits, doc |-> NoDoc]
          \in [at : Stages, edits : Seq(Edit), doc : AnyDoc]
    BY <1>3 DEF Legal, Stages, AnyDoc
  <2> QED
    BY <1>1, <1>2, <2>1 DEF Shapes
<1>7. Shapes'
  <2>1. env.ops \in Nat
    BY <1>2, DeploymentsAssumption DEF Shapes
  <2> QED
    BY <1>1, <1>2, <1>4, <1>6, <2>1 DEF Shapes
<1>8. Documents'
  BY <1>1, <1>2, <1>5, FilesMove
<1>9. StagesFit'
  <2>1. ASSUME NEW u \in Threads \ {t} PROVE StageFits(u)'
    BY <1>2, <1>5, <1>6, StageStays DEF StagesFit
  <2>2. StageFits(t)'
    BY <1>1, <1>4, <1>6 DEF StageFits, Legal
  <2> QED
    BY <2>1, <2>2 DEF StagesFit
<1>10. MemoryFollows'
  <2>1. run[t].at = "idle"
    BY <1>1 DEF Busy
  <2>2. \A u \in WebThreads :
          run[u].at \in {"pull", "settings", "users"} => run'[u].at = run[u].at
    BY <1>6, <2>1 DEF Threads
  <2> QED
    BY <1>1, <1>2, <1>4, <2>2, FollowsStill
<1>11. SoloSteps'
  <2>1. \A u \in Threads \ {t} : ~hist'.op[u].alone
    BY <1>4, NothingAlone
  <2>2. SUFFICES ASSUME hist'.op[t].alone
                 PROVE  Alone(t)' /\ EditsMade(t)' /\ BucketFollows(t)' /\ SecretsKept(t)'
    <3>1. \A u \in Threads : ~hist'.op[u].alone
            => (Alone(u)' /\ EditsMade(u)' /\ BucketFollows(u)' /\ SecretsKept(u)')
      BY DEF Alone, EditsMade, BucketFollows, SecretsKept
    <3> QED
      BY <2>1, <3>1 DEF SoloSteps
  <2> DEFINE op == hist'.op[t]
  <2>3. /\ \A w \in Threads : ~Busy(w)
        /\ op.edits = edits /\ op.file = file /\ op.memory = mem[Proc(t)]
        /\ op.fresh = Fresh
    BY <1>4, <2>2
  <2>4. Done(t)' = 0 /\ Len(edits) \in Nat
    BY <1>3, <1>6, <2>3 DEF Done
  <2>5. Alone(t)'
    <3>1. Busy(t)' /\ \A u \in Threads \ {t} : ~Busy(u)'
      BY <1>6, <2>3 DEF Busy, Legal
    <3>2. t = Mcp => op.memory = mem'["mcp"]
      BY <1>1, <2>3 DEF Proc
    <3>3. /\ Len(run'[t].edits) <= Len(op.edits)
          /\ \A i \in 1..Len(run'[t].edits) : run'[t].edits[i] = op.edits[Done(t)' + i]
      BY <1>3, <1>6, <2>3, <2>4
    <3> QED
      BY <3>1, <3>2, <3>3 DEF Alone
  <2>6. EditsMade(t)'
    <3>1. Made(t)'[0] = file
      BY <2>3, <2>4, EditsUnfold DEF Made
    <3>2. stage # "load" => edits = << >>
      BY DEF Legal
    <3> QED
      BY <1>1, <1>6, <2>4, <3>1, <3>2 DEF EditsMade, Legal
  <2>7. BucketFollows(t)'
    <3>1. t = Mcp => edits # <<Save("settings")>>
      <4>1. Len(SaveEdits) = 2
        BY DEF SaveEdits
      <4>2. Len(<<Save("settings")>>) = 1 /\ Len(<< >>) = 0
        OBVIOUS
      <4> QED
        BY <4>1, <4>2 DEF Legal
    <3> QED
      BY <1>1, <1>6, <3>1 DEF BucketFollows, Legal
  <2>8. SecretsKept(t)'
    <3> SUFFICES ASSUME Fresh, NEW i \in 1..Len(edits), edits[i].keeps
                 PROVE  Len(edits) = 1 /\ SecretKept(op, edits[i])
      BY <2>3 DEF SecretsKept
    <3> DEFINE e == edits[i]
    <3>1. /\ Len(edits) = 1 /\ e.kind = "put" /\ e \in EditsOf(t)
          /\ e.val = mem["web"][e.file][e.key]
      BY DEF Legal
    <3>2. e.file \in Files /\ e.key \in Entries(e.file) /\ t # Mcp
      BY <3>1, EditShape
    <3>4. Up("web")
      BY <1>1, <3>2 DEF Proc
    <3> HIDE DEF e
    <3>3. file[e.file] # NoDoc /\ e.key \in DOMAIN file[e.file]
            => e.val = Expand(file[e.file][e.key])
      BY <1>2, <2>3, <3>1, <3>2, <3>4, MemorySecret
    <3> QED
      BY <2>3, <3>1, <3>3 DEF SecretKept, e
  <2> QED
    BY <2>5, <2>6, <2>7, <2>8
<1> QED
  BY <1>7, <1>8, <1>9, <1>10, <1>11 DEF IInv

LEMMA BeginBounds ==
    ASSUME Shapes, NEW t, NEW stage, NEW edits, Begin(t, stage, edits)
    PROVE  Stamp \in 0..MaxOps
<1>1. ops < env.ops
  BY DEF Begin
<1>2. ops \in 0..env.ops /\ env.ops \in 0..MaxOps
  BY DeploymentsAssumption DEF Shapes
<1> QED
  BY <1>1, <1>2 DEF Stamp

\* The edits of the forms.
LEMMA FormEdits ==
    ASSUME NEW t \in WebThreads, NEW f \in Files, NEW k \in Entries(f)
    PROVE  /\ Stamp \in 0..MaxOps =>
                /\ Put(f, k) \in EditsOf(t) /\ ~Put(f, k).keeps
                /\ PutNew(f, k) \in EditsOf(t) /\ ~PutNew(f, k).keeps
                /\ f = "settings" => \A v \in {Stamp, Bad} :
                     Store(f, k, v) \in EditsOf(t) /\ ~Store(f, k, v).keeps
           /\ DropEdit(f, k) \in EditsOf(t) /\ ~DropEdit(f, k).keeps
           /\ mem["web"][f][k] \in Loaded =>
                /\ Keep(f, k) \in EditsOf(t) /\ Keep(f, k).kind = "put"
                /\ Keep(f, k).file = f /\ Keep(f, k).key = k
                /\ Keep(f, k).val = mem["web"][f][k]
<1>1. \A e \in WriterEdits(f) : e \in EditsOf(t)
  BY DEF EditsOf
<1>2. Stamp \in 0..MaxOps =>
        /\ Put(f, k) \in WriterEdits(f) /\ ~Put(f, k).keeps
        /\ PutNew(f, k) \in WriterEdits(f) /\ ~PutNew(f, k).keeps
  BY DEF Put, PutNew, Store, EditOf, WriterEdits, Held, Loaded
<1>5. Stamp \in 0..MaxOps /\ f = "settings" => \A v \in {Stamp, Bad} :
        Store(f, k, v) \in WriterEdits(f) /\ ~Store(f, k, v).keeps
  BY DEF Store, EditOf, WriterEdits, Held, Loaded
<1>3. DropEdit(f, k) \in WriterEdits(f) /\ ~DropEdit(f, k).keeps
  BY DEF DropEdit, EditOf, WriterEdits, Held, Loaded
<1>4. mem["web"][f][k] \in Loaded =>
        /\ Keep(f, k) \in WriterEdits(f) /\ Keep(f, k).kind = "put"
        /\ Keep(f, k).file = f /\ Keep(f, k).key = k
        /\ Keep(f, k).val = mem["web"][f][k]
  BY DEF Keep, EditOf, WriterEdits, Held
<1> QED
  BY <1>1, <1>2, <1>3, <1>4, <1>5

LEMMA OneEditIsLegal ==
    ASSUME NEW t \in WebThreads, NEW e \in EditsOf(t),
           e.keeps => /\ e.kind = "put" /\ e.key \in DOMAIN mem["web"][e.file]
                      /\ e.val = mem["web"][e.file][e.key]
    PROVE  Legal(t, "load", <<e>>)
<1>1. <<e>> \in Seq(EditsOf(t)) /\ Len(<<e>>) = 1 /\ <<e>>[1] = e /\ <<e>> # << >>
  OBVIOUS
<1>2. \A i \in 1..1 : i = 1
  OBVIOUS
<1> QED
  BY <1>1, <1>2 DEF Legal

\* A form with one entry in it, whose secret may be blank.
LEMMA EditPageBegins ==
    ASSUME Shapes, Documents, NEW t \in WebThreads, NEW f \in Files, NEW k \in Entries(f),
           NEW blank \in BOOLEAN, k \in DOMAIN mem["web"][f],
           Begin(t, "load", <<IF blank THEN Keep(f, k) ELSE Put(f, k)>>)
    PROVE  \E stage, edits : Legal(t, stage, edits) /\ Begin(t, stage, edits)
<1>1. Stamp \in 0..MaxOps
  BY BeginBounds
<1>2. mem["web"][f][k] \in Loaded
  <2>1. Up("web") /\ "web" \in Procs
    BY DEF Begin, Proc, Procs
  <2>2. IsMemory(mem["web"][f], f) /\ Loadable(mem["web"][f]) /\ k # "default_user"
    BY <2>1, EntriesAreKeys DEF Documents, MemGood
  <2>3. mem["web"][f][k] \in Held /\ mem["web"][f][k] # Bad
    BY <2>2, LoadableEntries DEF IsMemory
  <2> QED
    BY <2>3 DEF Held
<1>3. CASE blank
  <2>1. /\ Keep(f, k) \in EditsOf(t) /\ Keep(f, k).kind = "put"
        /\ Keep(f, k).file = f /\ Keep(f, k).key = k
        /\ Keep(f, k).val = mem["web"][f][k]
    BY <1>2, FormEdits
  <2>2. Legal(t, "load", <<Keep(f, k)>>)
    BY <2>1, OneEditIsLegal
  <2> QED
    BY <1>3, <2>2
<1>4. CASE ~blank
  <2>1. Put(f, k) \in EditsOf(t) /\ ~Put(f, k).keeps
    BY <1>1, FormEdits
  <2>2. Legal(t, "load", <<Put(f, k)>>)
    BY <2>1, OneEditIsLegal
  <2> QED
    BY <1>4, <2>2
<1> QED
  BY <1>3, <1>4

LEMMA WebRequestBegins ==
    ASSUME Shapes, Documents, NEW t \in WebThreads, WebRequest(t)
    PROVE  \E stage, edits : Legal(t, stage, edits) /\ Begin(t, stage, edits)
<1> DEFINE G == \E stage, edits : Legal(t, stage, edits) /\ Begin(t, stage, edits)
<1>1. ASSUME NEW f \in Files, NEW k \in Entries(f), Begin(t, "load", <<PutNew(f, k)>>)
      PROVE  G
  BY <1>1, BeginBounds, FormEdits, OneEditIsLegal
<1>2. ASSUME NEW f \in Files, NEW k \in Entries(f), Begin(t, "load", <<DropEdit(f, k)>>)
      PROVE  G
  BY <1>2, FormEdits, OneEditIsLegal
<1>3. ASSUME NEW u \in Users, UserCreate(t, u) \/ UserDelete(t, u)
             \/ \E blank \in BOOLEAN : UserEdit(t, u, blank)
      PROVE  G
  <2>1. "users" \in Files /\ u \in Entries("users")
    BY DEF Files, Entries
  <2> QED
    BY <1>1, <1>2, <1>3, <2>1, EditPageBegins DEF UserCreate, UserDelete, UserEdit
<1>4. ASSUME NEW c \in Clients, ClientCreate(t, c) \/ ClientDelete(t, c)
             \/ (\E blank \in BOOLEAN : ClientEdit(t, c, blank))
             \/ ClientRegenerateSecret(t, c)
      PROVE  G
  <2>1. "settings" \in Files /\ c \in Entries("settings")
    BY DEF Files, Entries
  <2>2. ClientRegenerateSecret(t, c) => \E blank \in BOOLEAN : ClientEdit(t, c, blank)
    BY DEF ClientRegenerateSecret
  <2> QED
    BY <1>1, <1>2, <1>4, <2>1, <2>2, EditPageBegins
    DEF ClientCreate, ClientDelete, ClientEdit
<1>5. \A k \in Sections : k \in Entries("settings")
  BY DEF Entries
<1>6. ASSUME NEW oauth \in {Stamp, Bad}, NEW classes \in BOOLEAN,
             SettingsPage(t, oauth, classes)
      PROVE  G
  <2> DEFINE a == Store("settings", "oauth", oauth)
             b == Put("settings", "saml")
             c == Put("settings", "allowed_identity_classes")
             edits == IF classes THEN Append(<<a, b>>, c) ELSE <<a, b>>
  <2>1. Begin(t, "load", edits)
    BY <1>6 DEF SettingsPage
  <2>2. Stamp \in 0..MaxOps
    BY <2>1, BeginBounds
  <2>3. a \in EditsOf(t) /\ ~a.keeps /\ b \in EditsOf(t) /\ ~b.keeps
        /\ c \in EditsOf(t) /\ ~c.keeps
    BY <1>5, <2>2, FormEdits DEF Sections, Files
  <2> HIDE DEF a, b, c
  <2>4. /\ <<a, b>> \in Seq(EditsOf(t)) /\ Len(<<a, b>>) = 2
        /\ \A i \in 1..2 : <<a, b>>[i] \in {a, b}
    BY <2>3
  <2>5. /\ Append(<<a, b>>, c) \in Seq(EditsOf(t)) /\ Len(Append(<<a, b>>, c)) = 3
        /\ \A i \in 1..3 : Append(<<a, b>>, c)[i] \in {a, b, c}
    BY <2>3, <2>4
  <2>6. /\ edits \in Seq(EditsOf(t)) /\ edits # << >>
        /\ \A i \in 1..Len(edits) : edits[i] \in {a, b, c}
    BY <2>4, <2>5
  <2>7. Legal(t, "load", edits)
    <3> HIDE DEF edits
    <3> QED
      BY <2>3, <2>6 DEF Legal
  <2> QED
    BY <2>1, <2>7
<1>7. ASSUME PrefixesPage(t) PROVE G
  <2>1. Begin(t, "load", <<Put("settings", "authority_prefixes")>>)
    BY <1>7 DEF PrefixesPage
  <2>2. Stamp \in 0..MaxOps
    BY <2>1, BeginBounds
  <2> QED
    BY <1>5, <2>1, <2>2, FormEdits, OneEditIsLegal DEF Sections, Files
<1>8. ASSUME ConfigSync(t) PROVE G
  <2>1. Begin(t, "sync", << >>) /\ env.s3
    BY <1>8 DEF ConfigSync
  <2>2. Legal(t, "sync", << >>)
    BY <2>1 DEF Legal
  <2> QED
    BY <2>1, <2>2
<1> QED
  BY <1>3, <1>4, <1>6, <1>7, <1>8 DEF WebRequest

LEMMA ReloadBegins ==
    ASSUME NEW t \in Threads, Reload(t), env \in Deployments
    PROVE  \E stage, edits : Legal(t, stage, edits) /\ Begin(t, stage, edits)
<1> DEFINE stage == IF env.s3 THEN "pull" ELSE "settings"
<1>1. Begin(t, stage, << >>)
  BY DEF Reload
<1>2. Legal(t, stage, << >>)
  BY DEF Legal
<1> QED
  BY <1>1, <1>2

LEMMA McpSaveBegins ==
    ASSUME McpSave
    PROVE  \E stage, edits : Legal(Mcp, stage, edits) /\ Begin(Mcp, stage, edits)
<1>1. Begin(Mcp, "load", SaveEdits)
  BY DEF McpSave
<1>2. /\ SaveEdits \in Seq(EditsOf(Mcp)) /\ SaveEdits # << >> /\ Len(SaveEdits) = 2
      /\ \A i \in 1..Len(SaveEdits) : SaveEdits[i] \in EditsOf(Mcp)
  BY DEF SaveEdits, EditsOf, Files
<1>3. \A i \in 1..Len(SaveEdits) : ~SaveEdits[i].keeps
  BY <1>2, EditShape DEF Threads
<1>4. Legal(Mcp, "load", SaveEdits)
  BY <1>2, <1>3 DEF Legal
<1> QED
  BY <1>1, <1>4

-----------------------------------------------------------------------------
(***************************************************************************)
(* The tools that edit the MCP process's memory.                           *)
(***************************************************************************)
LEMMA McpEditKeeps ==
    ASSUME IInv, NEW f \in Files, NEW m, NEW spoils \in BOOLEAN,
           McpEdit(f, m, spoils), MemGood(m, f, env, hist')
    PROVE  IInv'
<1>1. /\ ~Busy(Mcp) /\ ops < env.ops /\ mcpOps < MaxMcpOps
      /\ mem' = [mem EXCEPT !["mcp"][f] = m]
      /\ ops' = ops + 1 /\ mcpOps' = mcpOps + 1 /\ failures' = failures
      /\ hist' = [hist EXCEPT !.spoilt = @ \/ spoils]
      /\ env' = env /\ file' = file /\ bak' = bak /\ bucket' = bucket /\ run' = run
      /\ Up("mcp")
  BY DEF McpEdit
<1>2. Shapes /\ Documents /\ StagesFit /\ MemoryFollows /\ SoloSteps
  BY DEF IInv
<1>3. /\ hist' \in Hists /\ hist'.touched = hist.touched /\ hist'.op = hist.op
      /\ hist'.behind = hist.behind /\ (hist.spoilt => hist'.spoilt)
  BY <1>1, <1>2 DEF Shapes, Hists
<1>4. Grows
  BY <1>1, <1>3 DEF Grows
<1>5. /\ mem' \in [Procs -> [Files -> AnyDoc]]
      /\ mem'["web"] = mem["web"]
      /\ \A g \in Files, p \in Procs :
           mem'[p][g] = mem[p][g] \/ (p = "mcp" /\ g = f /\ mem'[p][g] = m)
  <2>1. m \in AnyDoc
    BY GoodIsDocument
  <2> QED
    BY <1>1, <1>2, <2>1 DEF Shapes, Procs
<1>6. Shapes'
  <2>1. env.ops \in Nat
    BY <1>2, DeploymentsAssumption DEF Shapes
  <2> QED
    BY <1>1, <1>2, <1>3, <1>5, <2>1 DEF Shapes
<1>7. Documents'
  <2>1. \A g \in Files :
          /\ \A p \in Procs : Up(p)' => MemGood(mem'[p][g], g, env, hist')
          /\ Loadable(mem'["web"][g])
    <3>1. \A p \in Procs : Up(p)' => Up(p)
      BY <1>1, <1>5 DEF Up, Procs
    <3> QED
      BY <1>2, <1>3, <1>5, <3>1, MemGoodStaysGood DEF Documents
  <2>2. Up("web")' /\ file'["users"] = NoDoc
          => mem'["web"]["users"]["default_user"] = Admin
    BY <1>1, <1>2, <1>5 DEF Documents, Up
  <2> QED
    BY <1>1, <1>2, <1>4, <2>1, <2>2, DocumentsMove
<1>8. StagesFit'
  BY <1>1, <1>2, <1>4, StageStays DEF StagesFit
<1>9. MemoryFollows'
  BY <1>1, <1>2, <1>3, <1>5, FollowsStill
<1>10. SoloSteps'
  <2>1. SUFFICES ASSUME NEW u \in Threads, hist.op[u].alone
                 PROVE  Alone(u)' /\ EditsMade(u)' /\ BucketFollows(u)' /\ SecretsKept(u)'
    <3>1. \A u \in Threads : ~hist'.op[u].alone
            => (Alone(u)' /\ EditsMade(u)' /\ BucketFollows(u)' /\ SecretsKept(u)')
      BY DEF Alone, EditsMade, BucketFollows, SecretsKept
    <3> QED
      BY <1>3, <3>1 DEF SoloSteps
  <2>2. Alone(u) /\ EditsMade(u) /\ BucketFollows(u) /\ SecretsKept(u)
    BY <1>2 DEF SoloSteps
  <2>3. u # Mcp
    BY <1>1, <2>1, <2>2 DEF Alone
  <2>4. Alone(u)'
    BY <1>1, <1>3, <2>2, <2>3 DEF Alone, Done, Busy
  <2>5. EditsMade(u)'
    BY <1>1, <1>3, <2>2 DEF EditsMade, Made, Done, Current
  <2>6. BucketFollows(u)' /\ SecretsKept(u)'
    BY <1>1, <1>3, <2>2 DEF BucketFollows, SecretsKept
  <2> QED
    BY <2>4, <2>5, <2>6
<1> QED
  BY <1>6, <1>7, <1>8, <1>9, <1>10 DEF IInv

\* What one of the tools leaves in memory: an entry added to it or changed in it,
\* one removed, some settings changed.
LEMMA McpBegun ==
    ASSUME Shapes, Documents, NEW f \in Files, NEW m, NEW spoils \in BOOLEAN,
           McpEdit(f, m, spoils)
    PROVE  /\ Stamp \in Loaded /\ MemGood(mem["mcp"][f], f, env, hist)
           /\ hist'.spoilt = (hist.spoilt \/ spoils)
<1>1. ops < env.ops /\ ops \in 0..env.ops /\ env.ops \in 0..MaxOps /\ Up("mcp")
  BY DeploymentsAssumption DEF McpEdit, Shapes
<1>2. Stamp \in Loaded
  BY <1>1 DEF Stamp, Loaded
<1>3. MemGood(mem["mcp"][f], f, env, hist)
  BY <1>1 DEF Documents, Procs
<1> QED
  BY <1>2, <1>3 DEF McpEdit, Shapes, Hists

LEMMA McpPuts ==
    ASSUME Shapes, Documents, NEW f \in Files, NEW k \in Entries(f),
           McpAdd(f, k) \/ \E v \in {Stamp, Bad} : McpChange(f, k, v)
    PROVE  \E spoils \in BOOLEAN : \E m :
             McpEdit(f, m, spoils) /\ MemGood(m, f, env, hist')
<1> DEFINE old == mem["mcp"][f]
<1>1. PICK v \in {Stamp, Bad}, spoils \in BOOLEAN :
        McpEdit(f, With(old, k, v), spoils) /\ (v = Bad => spoils)
  <2>1. CASE McpAdd(f, k)
    <3>1. McpEdit(f, With(old, k, Stamp), FALSE)
      BY <2>1 DEF McpAdd
    <3>2. Stamp # Bad
      BY <3>1, McpBegun, ValuesAssumption
    <3> QED
      BY <3>1, <3>2
  <2>2. CASE \E v \in {Stamp, Bad} : McpChange(f, k, v)
    <3>1. PICK v \in {Stamp, Bad} : McpEdit(f, With(old, k, v), v = Bad)
      BY <2>2 DEF McpChange
    <3>2. (v = Bad) \in BOOLEAN
      OBVIOUS
    <3> QED
      BY <3>1, <3>2
  <2> QED
    BY <2>1, <2>2
<1> DEFINE m == With(old, k, v)
<1>2. /\ Stamp \in Loaded /\ MemGood(old, f, env, hist)
      /\ hist'.spoilt = (hist.spoilt \/ spoils)
  BY <1>1, McpBegun
<1>3. v \in Held
  BY <1>2 DEF Held
<1> HIDE DEF old
<1>4. /\ DOMAIN m = DOMAIN old \cup {k} /\ m[k] = v
      /\ \A x \in DOMAIN old \ {k} : m[x] = old[x]
      /\ m \in [DOMAIN m -> Held]
  <2>1. old \in [DOMAIN old -> Held]
    BY <1>2 DEF MemGood, IsMemory
  <2> QED
    BY <1>3, <2>1 DEF With, Only, ++
<1> HIDE DEF m
<1>5. k \in Managed(f) /\ k # "default_user"
  BY EntriesAreKeys
<1>6. IsMemory(m, f) /\ IsMemory(old, f)
  BY <1>2, <1>4, <1>5 DEF MemGood, IsMemory
<1>7. DefaultKnown(old) => DefaultKnown(m)
  BY <1>4, <1>5 DEF DefaultKnown
<1>8. f = "users" /\ ~hist'.spoilt => Loadable(m)
  <2> SUFFICES ASSUME f = "users", ~hist'.spoilt PROVE Loadable(m)
    OBVIOUS
  <2>1. v # Bad /\ ~hist.spoilt
    BY <1>1, <1>2
  <2>2. \A x \in DOMAIN old \ {"default_user"} : old[x] # Bad
    BY <1>2, <1>6, <2>1, LoadableEntries DEF MemGood
  <2> QED
    BY <1>4, <2>1, <2>2 DEF Loadable
<1>9. MemGood(m, f, env, hist')
  BY <1>2, <1>4, <1>6, <1>7, <1>8 DEF MemGood
<1> QED
  BY <1>1, <1>9 DEF m

LEMMA McpRemoves ==
    ASSUME Shapes, Documents, NEW f \in Files, NEW k \in Entries(f), McpRemove(f, k)
    PROVE  \E spoils \in BOOLEAN : \E m :
             McpEdit(f, m, spoils) /\ MemGood(m, f, env, hist')
<1> DEFINE old == mem["mcp"][f]
           m == Without(old, {k})
           spoils == f = "users"
<1>1. McpEdit(f, m, spoils) /\ spoils \in BOOLEAN
  BY DEF McpRemove
<1>2. MemGood(old, f, env, hist) /\ hist'.spoilt = (hist.spoilt \/ spoils)
  BY <1>1, McpBegun
<1> HIDE DEF old
<1>4. DOMAIN m = DOMAIN old \ {k} /\ m \in [DOMAIN m -> Held]
  <2>1. old \in [DOMAIN old -> Held]
    BY <1>2 DEF MemGood, IsMemory
  <2> QED
    BY <2>1 DEF Without, Restrict
<1> HIDE DEF m
<1>5. k # "default_user"
  BY EntriesAreKeys
<1>6. MemGood(m, f, env, hist')
  BY <1>2, <1>4, <1>5 DEF MemGood, IsMemory
<1> QED
  BY <1>1, <1>6 DEF m

LEMMA McpUpdatesSettings ==
    ASSUME Shapes, Documents, NEW ks, ks \in {{"oauth"}, {"oauth", "saml"}},
           NEW oauth \in {Stamp, Bad}, McpUpdateSettings(ks, oauth)
    PROVE  \E m : McpEdit("settings", m, FALSE) /\ MemGood(m, "settings", env, hist')
<1> DEFINE old == mem["mcp"]["settings"]
           new == [k \in ks |-> Stamp]
           top == Only("oauth", oauth)
           m == top ++ (new ++ old)
<1>1. McpEdit("settings", m, FALSE)
  BY DEF McpUpdateSettings
<1>2. Stamp \in Held /\ oauth \in Held /\ IsMemory(old, "settings")
  <2>1. "settings" \in Files
    BY DEF Files
  <2> QED
    BY <1>1, <2>1, McpBegun DEF Held, MemGood
<1>4. /\ DOMAIN new = ks /\ new \in [DOMAIN new -> Held] /\ ks \subseteq Managed("settings")
      /\ DOMAIN top = {"oauth"} /\ top \in [DOMAIN top -> Held]
      /\ "oauth" \in Managed("settings")
  BY <1>2 DEF Managed, Sections, Only
<1> HIDE DEF old, new, top
<1>5. DOMAIN m = {"oauth"} \cup ks \cup DOMAIN old /\ m \in [DOMAIN m -> Held]
  <2> DEFINE under == new ++ old
  <2>1. old \in [DOMAIN old -> Held]
    BY <1>2 DEF IsMemory
  <2>2. DOMAIN under = ks \cup DOMAIN old /\ under \in [DOMAIN under -> Held]
    <3>1. new \in [DOMAIN new -> Held] /\ DOMAIN new = ks
      BY <1>4
    <3> QED
      BY <2>1, <3>1, Overlaid
  <2> HIDE DEF under
  <2>3. /\ DOMAIN (top ++ under) = {"oauth"} \cup DOMAIN under
        /\ top ++ under \in [DOMAIN (top ++ under) -> Held]
    BY <1>4, <2>2, Overlaid
  <2> QED
    BY <2>2, <2>3 DEF under
<1> HIDE DEF m
<1>6. IsMemory(m, "settings")
  BY <1>2, <1>4, <1>5 DEF IsMemory
<1>7. MemGood(m, "settings", env, hist')
  BY <1>6 DEF MemGood
<1> QED
  BY <1>1, <1>7 DEF m

\* The MCP server's tools begin an operation or edit its memory.
LEMMA McpToolActs ==
    ASSUME Shapes, Documents, McpTool
    PROVE  McpSave \/ \E f \in Files, spoils \in BOOLEAN : \E m :
                         McpEdit(f, m, spoils) /\ MemGood(m, f, env, hist')
<1> DEFINE G == \E f \in Files, spoils \in BOOLEAN : \E m :
                  McpEdit(f, m, spoils) /\ MemGood(m, f, env, hist')
<1>1. ASSUME NEW f \in Files, NEW k \in Entries(f),
             \/ McpAdd(f, k) \/ (\E v \in {Stamp, Bad} : McpChange(f, k, v))
             \/ McpRemove(f, k)
      PROVE  G
  BY <1>1, McpPuts, McpRemoves
<1>2. ASSUME NEW u \in Users,
             \/ McpCreateUser(u) \/ (\E v \in {Stamp, Bad} : McpUpdateUser(u, v))
             \/ McpDeleteUser(u)
      PROVE  G
  <2>1. "users" \in Files /\ u \in Entries("users")
    BY DEF Files, Entries
  <2> QED
    BY <1>1, <1>2, <2>1 DEF McpCreateUser, McpUpdateUser, McpDeleteUser
<1>3. ASSUME NEW c \in Clients,
             McpCreateClient(c) \/ McpUpdateClient(c) \/ McpDeleteClient(c)
      PROVE  G
  <2>1. "settings" \in Files /\ c \in Entries("settings")
    BY DEF Files, Entries
  <2> QED
    BY <1>1, <1>3, <2>1 DEF McpCreateClient, McpUpdateClient, McpDeleteClient
<1>4. ASSUME NEW ks \in {{"oauth"}, {"oauth", "saml"}}, NEW oauth \in {Stamp, Bad},
             McpUpdateSettings(ks, oauth)
      PROVE  G
  <2>1. PICK m : McpEdit("settings", m, FALSE) /\ MemGood(m, "settings", env, hist')
    BY <1>4, McpUpdatesSettings
  <2> QED
    BY <2>1 DEF Files
<1> QED
  BY <1>2, <1>3, <1>4 DEF McpTool

LEMMA McpToolKeeps == ASSUME IInv, McpTool PROVE IInv'
<1>1. ASSUME McpSave PROVE IInv'
  BY <1>1, McpSaveBegins, BeginKeeps DEF Threads
<1> QED
  BY <1>1, McpToolActs, McpEditKeeps DEF IInv

-----------------------------------------------------------------------------
(***************************************************************************)
(* Pulling, and starting again.                                            *)
(***************************************************************************)
LEMMA PulledFiles ==
    ASSUME Shapes, NEW n \in 0..2
    PROVE  /\ Pulled(n).file \in [Files -> AnyDoc] /\ Pulled(n).bucket \in [Files -> AnyDoc]
           /\ \A f \in Files :
                /\ \/ Pulled(n).file[f] = file[f]
                   \/ bucket[f] # NoDoc /\ Pulled(n).file[f] = bucket[f]
                /\ \/ Pulled(n).bucket[f] = bucket[f]
                   \/ n # 0 /\ Pulled(n).bucket[f] = file[f]
           /\ n = 0 => Pulled(n).file = file /\ Pulled(n).bucket = bucket
           /\ n = 2 => Pulled(n).file = Pulled(n).bucket
<1> DEFINE handled == {PullOrder[i] : i \in 1..n}
           fs == [f \in Files |->
                    IF f \in handled /\ bucket[f] # NoDoc THEN bucket[f] ELSE file[f]]
           bs == [f \in Files |->
                    IF f \in handled /\ bucket[f] = NoDoc THEN file[f] ELSE bucket[f]]
<1>1. Pulled(n).file = fs /\ Pulled(n).bucket = bs
  BY DEF Pulled
<1>2. n = 0 => handled = {}
  OBVIOUS
<1>3. n = 2 => Files \subseteq handled
  <2>1. PullOrder[1] = "settings" /\ PullOrder[2] = "users"
    BY DEF PullOrder
  <2> QED
    BY <2>1 DEF Files
<1> HIDE DEF handled
<1>4. /\ file \in [Files -> AnyDoc] /\ bucket \in [Files -> AnyDoc]
  BY DEF Shapes
<1>5. fs \in [Files -> AnyDoc] /\ bs \in [Files -> AnyDoc]
  BY <1>4
<1>6. n = 0 => fs = file /\ bs = bucket
  BY <1>2, <1>4
<1>7. n = 2 => fs = bs
  BY <1>3
<1>8. \A f \in Files :
        /\ fs[f] = file[f] \/ (bucket[f] # NoDoc /\ fs[f] = bucket[f])
        /\ bs[f] = bucket[f] \/ (n # 0 /\ bs[f] = file[f])
  BY <1>2
<1> HIDE DEF fs, bs
<1> QED
  BY <1>1, <1>5, <1>6, <1>7, <1>8

\* A process that is not running holds nothing.
LEMMA NothingHeld ==
    /\ Nothing \in [Files -> AnyDoc]
    /\ "default_user" \notin DOMAIN Nothing["users"]
    /\ \A f \in Files : Loadable(Nothing[f]) /\ IsMemory(Nothing[f], f)
<1>1. NoEntries \in AnyDoc
  <2>1. NoEntries \in [{} -> Value] /\ {} \in SUBSET AllKeys
    BY DEF NoEntries
  <2> QED
    BY <2>1 DEF AnyDoc
<1>2. Nothing = [f \in Files |-> NoEntries] /\ DOMAIN NoEntries = {} /\ "users" \in Files
  BY DEF Nothing, NoEntries, Files
<1>3. \A f \in Files : Loadable(NoEntries) /\ IsMemory(NoEntries, f)
  BY DEF NoEntries, Loadable, IsMemory
<1> HIDE DEF NoEntries
<1> QED
  BY <1>1, <1>2, <1>3

LEMMA StartedHolds ==
    ASSUME NEW p, NEW docs
    PROVE  /\ Started(p, docs)["users"]
                = UsersFrom(docs["users"], Only("default_user", Admin))
           /\ ~(p = "web" /\ env.profile)
                => Started(p, docs)["settings"] = SettingsFrom(docs["settings"])
  BY DEF Started, Files

LEMMA RestartKeeps ==
    ASSUME IInv, NEW p \in Procs, NEW pull \in Pulls, Restart(p, pull)
    PROVE  IInv'
<1> DEFINE n == pull.n
           new == Pulled(pull.n).file
           up == \A f \in Files : Loadable(new[f])
           held == IF up THEN Started(p, new) ELSE Nothing
<1>1. /\ ops < env.ops /\ ops' = ops + 1
      /\ p = "mcp" => mcpOps < MaxMcpOps
      /\ mcpOps' = IF p = "mcp" THEN mcpOps + 1 ELSE mcpOps
      /\ env.s3 \/ n = 0
      /\ file' = new /\ bucket' = Pulled(n).bucket
      /\ mem' = [mem EXCEPT ![p] = held]
      /\ hist' = [Behind(hist, p, new) EXCEPT
                    !.op = [t \in Threads |-> NoOperation],
                    !.behind = IF p = "web" THEN env.profile ELSE @]
      /\ run' = [t \in Threads |->
                   IF Proc(t) = p /\ Busy(t) THEN Idle ELSE run[t]]
      /\ CountFailure(env.s3 /\ ~pull.ok)
      /\ env' = env /\ bak' = bak
  BY DEF Restart
<1>2. Shapes /\ Documents /\ StagesFit /\ MemoryFollows /\ SoloSteps
  BY DEF IInv
<1>3. n \in 0..2 /\ env \in Deployments /\ env.profile \in BOOLEAN /\ env.ops \in Nat
  BY <1>2, DeploymentsAssumption DEF Pulls, Shapes
<1>4. /\ new \in [Files -> AnyDoc] /\ bucket' \in [Files -> AnyDoc]
      /\ \A f \in Files :
           /\ new[f] = file[f] \/ (bucket[f] # NoDoc /\ new[f] = bucket[f])
           /\ bucket'[f] = bucket[f] \/ (env.s3 /\ bucket'[f] = file[f])
  BY <1>1, <1>2, <1>3, PulledFiles
<1> HIDE DEF new, n, held
<1>5. /\ hist' \in Hists /\ hist'.touched = hist.touched
      /\ hist'.spoilt = hist.spoilt
      /\ \A t \in Threads : hist'.op[t] = NoOperation
      /\ p = "web" => hist'.behind = env.profile
      /\ p # "web" => hist'.behind = (hist.behind \/ (p = "mcp" /\ new # file))
  <2> DEFINE h == Behind(hist, p, new)
  <2>1. /\ h \in Hists /\ h.touched = hist.touched /\ h.spoilt = hist.spoilt
        /\ h.behind = (hist.behind \/ (p = "mcp" /\ new # file))
    BY <1>2, BehindHistory DEF Shapes
  <2>2. hist' = [h EXCEPT !.op = [t \in Threads |-> NoOperation],
                          !.behind = IF p = "web" THEN env.profile ELSE @]
    BY <1>1
  <2>3. [t \in Threads |-> NoOperation] \in [Threads -> Solos]
    BY NothingAlone
  <2> HIDE DEF h
  <2> QED
    BY <1>3, <2>1, <2>2, <2>3 DEF Hists
<1>6. Grows
  BY <1>1, <1>5 DEF Grows
<1>7. \A f \in Files : new[f] # NoDoc => Good(new[f], f, env, hist)
  BY <1>2, <1>4 DEF Documents
<1>8. \A f \in Files : new[f] = NoDoc => file[f] = NoDoc
  BY <1>4
<1>9. /\ held \in [Files -> AnyDoc]
      /\ \A f \in Files : Loadable(held[f]) /\ (up => MemGood(held[f], f, env, hist))
      /\ ~up => "default_user" \notin DOMAIN held["users"]
  <2>1. CASE up
    <3>1. env.files => new["users"] # NoDoc
      BY <1>2, <1>8 DEF Documents, Files
    <3>2. /\ Started(p, new) = [f \in Files |-> Started(p, new)[f]]
          /\ \A f \in Files : /\ MemGood(Started(p, new)[f], f, env, hist)
                              /\ Loadable(Started(p, new)[f])
      BY <1>7, <2>1, <3>1, StartedWell
    <3>3. \A f \in Files : Started(p, new)[f] \in AnyDoc
      BY <3>2, GoodIsDocument
    <3>4. Started(p, new) \in [Files -> AnyDoc]
      BY <3>2, <3>3
    <3> QED
      BY <2>1, <3>2, <3>4 DEF held
  <2>2. CASE ~up
    BY <2>2, NothingHeld DEF held
  <2> QED
    BY <2>1, <2>2
<1> HIDE DEF up
<1>10. /\ \A q \in Procs : mem'[q] = IF q = p THEN held ELSE mem[q]
       /\ mem' \in [Procs -> [Files -> AnyDoc]]
       /\ Up(p)' => up
       /\ \A q \in Procs \ {p} : Up(q)' => Up(q)
  <2>1. /\ \A q \in Procs : mem'[q] = IF q = p THEN held ELSE mem[q]
        /\ mem' \in [Procs -> [Files -> AnyDoc]]
    BY <1>1, <1>2, <1>9 DEF Shapes
  <2> QED
    BY <1>9, <2>1 DEF Up
<1>11. /\ run' \in [Threads -> [at : Stages, edits : Seq(Edit), doc : AnyDoc]]
       /\ \A t \in Threads : run'[t] = Idle \/ (run'[t] = run[t] /\ (Proc(t) = p => ~Busy(t)))
  <2>1. Idle \in [at : Stages, edits : Seq(Edit), doc : AnyDoc]
    BY DEF Idle, Stages, AnyDoc
  <2> QED
    BY <1>1, <1>2, <2>1 DEF Shapes
<1>12. Shapes'
  <2>1. failures' \in 0..MaxFailures
    BY <1>1, <1>2 DEF CountFailure, Shapes
  <2> QED
    BY <1>1, <1>2, <1>3, <1>4, <1>5, <1>10, <1>11, <2>1 DEF Shapes
<1>13. Documents'
  <2>1. \A f \in Files :
          /\ file'[f] # file[f] => file'[f] # NoDoc /\ Good(file'[f], f, env, hist)
          /\ bak'[f] \in {bak[f], file[f]}
          /\ bucket'[f] = bucket[f] \/ (bucket'[f] = file[f] /\ env.s3)
    BY <1>1, <1>4, <1>7
  <2>2. \A f \in Files : /\ \A q \in Procs : Up(q)' => MemGood(mem'[q][f], f, env, hist')
                         /\ Loadable(mem'["web"][f])
    BY <1>2, <1>5, <1>9, <1>10, MemGoodStaysGood DEF Documents, Procs
  <2>3. ASSUME Up("web")', file'["users"] = NoDoc
        PROVE  mem'["web"]["users"]["default_user"] = Admin
    <3>1. CASE p = "web"
      <4> DEFINE m == Only("default_user", Admin)
      <4>1. IsMemory(m, "users") /\ "default_user" \in DOMAIN m /\ m["default_user"] = Admin
        BY FallbackUser
      <4>2. mem'["web"]["users"] = UsersFrom(new["users"], m)
        <5>1. up /\ mem'["web"] = held
          BY <1>10, <2>3, <3>1
        <5> QED
          BY <3>1, <5>1, StartedHolds DEF held
      <4> HIDE DEF m
      <4>3. UsersFrom(NoDoc, m)["default_user"] = m["default_user"]
        BY <4>1, UsersLoad
      <4> QED
        BY <1>1, <2>3, <4>1, <4>2, <4>3
    <3>2. CASE p # "web"
      <4>1. file["users"] = NoDoc /\ Up("web")
        BY <1>1, <1>8, <1>10, <2>3, <3>2 DEF Files, Procs
      <4> QED
        BY <1>2, <1>10, <3>2, <4>1 DEF Documents, Procs
    <3> QED
      BY <3>1, <3>2
  <2> QED
    BY <1>2, <1>6, <2>1, <2>2, <2>3, DocumentsMove
<1>14. StagesFit'
  <2>1. ASSUME NEW t \in Threads, run'[t] = Idle PROVE StageFits(t)'
    BY <2>1 DEF StageFits, Idle
  <2>2. ASSUME NEW t \in Threads, run'[t] = run[t] PROVE StageFits(t)'
    BY <1>2, <1>6, <2>2, StageStays DEF StagesFit
  <2> QED
    BY <1>11, <2>1, <2>2 DEF StagesFit
<1>15. MemoryFollows'
  <2>1. CASE p = "web"
    <3>1. SUFFICES ASSUME ~env.profile, Up("web")' PROVE HoldsSettings' /\ HoldsUsers'
      BY <1>5, <2>1 DEF MemoryFollows
    <3>2. mem'["web"] = Started(p, new)
      BY <1>10, <2>1, <3>1 DEF held
    <3>3. /\ mem'["web"]["settings"] = SettingsFrom(file'["settings"])
          /\ mem'["web"]["users"]
               = UsersFrom(file'["users"], Only("default_user", Admin))
      BY <1>1, <3>1, <3>2, StartedHolds
    <3> QED
      BY <3>3 DEF HoldsSettings, HoldsUsers
  <2>2. CASE p = "mcp"
    <3>1. \A t \in WebThreads : run'[t] = run[t]
      BY <1>1, <2>2 DEF Threads, Proc
    <3>2. mem'["web"] = mem["web"]
      BY <1>10, <2>2 DEF Procs
    <3> QED
      BY <1>1, <1>2, <1>5, <2>2, <3>1, <3>2, FollowsStill
  <2> QED
    BY <2>1, <2>2 DEF Procs
<1>16. SoloSteps'
  BY <1>5, NothingAlone, NoneAlone
<1> QED
  BY <1>12, <1>13, <1>14, <1>15, <1>16 DEF IInv

-----------------------------------------------------------------------------
(***************************************************************************)
(* Where a thread goes.                                                    *)
(***************************************************************************)
Places == [at : Stages, edits : Seq(Edit), doc : AnyDoc]

LEMMA RunChanges ==
    ASSUME Shapes, NEW t \in Threads, NEW r \in Places, run' = [run EXCEPT ![t] = r]
    PROVE  /\ run'[t] = r /\ \A u \in Threads \ {t} : run'[u] = run[u]
           /\ run' \in [Threads -> Places]
  BY DEF Shapes, Places

LEMMA IdlePlace == Idle \in Places /\ Idle.at = "idle" /\ Idle.edits = << >>
<1>1. "idle" \in Stages /\ NoDoc \in AnyDoc /\ << >> \in Seq(Edit)
  BY DEF Stages, AnyDoc
<1> QED
  BY <1>1 DEF Idle, Places

LEMMA GotoRun ==
    ASSUME Shapes, NEW t \in Threads, NEW stage \in Stages, Goto(t, stage)
    PROVE  /\ run'[t].at = stage /\ run'[t].edits = run[t].edits /\ run'[t].doc = run[t].doc
           /\ \A u \in Threads \ {t} : run'[u] = run[u]
           /\ run' \in [Threads -> Places]
  BY DEF Shapes, Places, Goto

LEMMA EndRun ==
    ASSUME Shapes, NEW t \in Threads, End(t)
    PROVE  /\ run'[t] = Idle /\ \A u \in Threads \ {t} : run'[u] = run[u]
           /\ run' \in [Threads -> Places]
  BY IdlePlace, RunChanges DEF End

LEMMA Tails ==
    ASSUME NEW S, NEW s \in Seq(S), Len(s) > 1
    PROVE  /\ Tail(s) \in Seq(S) /\ Len(Tail(s)) = Len(s) - 1 /\ Tail(s) # << >>
           /\ \A i \in 1..Len(Tail(s)) : Tail(s)[i] = s[i + 1]
<1>1. Len(s) \in Nat /\ s # << >>
  OBVIOUS
<1>2. Tail(s) \in Seq(S) /\ Len(Tail(s)) = Len(s) - 1
  BY <1>1
<1>3. \A i \in 1..Len(Tail(s)) : Tail(s)[i] = s[i + 1]
  BY <1>1, <1>2
<1>4. Tail(s) # << >>
  BY <1>1, <1>2
<1> QED
  BY <1>2, <1>3, <1>4

\* The edit a thread is at.
LEMMA CurrentEdit ==
    ASSUME NEW t \in Threads, StageFits(t), run[t].edits # << >>
    PROVE  /\ Len(run[t].edits) \in Nat /\ Len(run[t].edits) >= 1
           /\ Current(t) = run[t].edits[1] /\ Current(t) \in EditsOf(t)
           /\ Current(t).file \in Files /\ Named(Current(t)) \subseteq hist.touched
           /\ t = Mcp => /\ Current(t).kind = "save"
                         /\ Current(t) \in {Save("users"), Save("settings")}
           /\ t # Mcp => Current(t).kind \in {"put", "drop"}
<1>1. run[t].edits \in Seq(EditsOf(t))
  BY DEF StageFits
<1>2. /\ Len(run[t].edits) \in Nat /\ Len(run[t].edits) >= 1
      /\ Current(t) = run[t].edits[1] /\ run[t].edits[1] \in EditsOf(t)
  BY <1>1 DEF Current
<1>3. Named(Current(t)) \subseteq hist.touched
  BY <1>2 DEF StageFits
<1> QED
  BY <1>2, <1>3, EditShape DEF Files

\* An operation that has been alone so far goes on with the same edits.
LEMMA AloneGoesOn ==
    ASSUME SoloSteps, NEW t \in Threads, Busy(t), hist'.op[t].alone => hist.op[t].alone,
           hist'.op[t].edits = hist.op[t].edits, hist'.op[t].memory = hist.op[t].memory,
           run'[t].edits = run[t].edits, run'[t].at # "idle",
           \A u \in Threads \ {t} : run'[u] = run[u],
           t = Mcp /\ run[t].edits # << >> => mem'["mcp"] = mem["mcp"]
    PROVE  Alone(t)' /\ Done(t)' = Done(t)
<1>1. Done(t)' = Done(t)
  BY DEF Done
<1>2. SUFFICES ASSUME hist.op[t].alone PROVE Alone(t)'
  BY <1>1 DEF Alone
<1>3. Alone(t)
  BY DEF SoloSteps
<1>4. Busy(t)' /\ \A u \in Threads \ {t} : ~Busy(u)'
  BY <1>2, <1>3 DEF Busy, Alone
<1> QED
  BY <1>1, <1>2, <1>3, <1>4 DEF Alone

\* Nobody is alone any more once t has ended.
LEMMA SoloEnds ==
    ASSUME SoloSteps, NEW t \in Threads, Busy(t), ~hist'.op[t].alone,
           \A u \in Threads \ {t} : hist'.op[u] = hist.op[u]
    PROVE  SoloSteps'
  BY OneAlone

\* The bounds of the counters, over a step within an operation.
LEMMA CountersStay ==
    ASSUME Shapes, env' = env, ops' = ops, mcpOps' = mcpOps,
           failures' = failures \/ \E failed \in BOOLEAN : CountFailure(failed)
    PROVE  /\ env' \in Deployments /\ ops' \in 0..env'.ops /\ mcpOps' \in 0..MaxMcpOps
           /\ failures' \in 0..MaxFailures
  BY DEF Shapes, CountFailure

-----------------------------------------------------------------------------
(***************************************************************************)
(* Reading a file and backing it up.                                       *)
(***************************************************************************)
LEMMA MemoryMatters ==
    ASSUME NEW t \in Threads, NEW e \in EditsOf(t), t # Mcp, NEW d, NEW m1, NEW m2
    PROVE  Edited(d, e, m1) = Edited(d, e, m2)
<1>1. e.kind \in {"put", "drop"}
  BY EditShape
<1> QED
  BY <1>1 DEF Edited

LEMMA LoadFileKeeps ==
    ASSUME IInv, Running, NEW t \in Threads, LoadFile(t) PROVE IInv'
<1> DEFINE e == Current(t)
           f == Current(t).file
           doc == Edited(file[f], e, mem[Proc(t)][f])
<1>1. Shapes /\ Documents /\ StagesFit /\ MemoryFollows /\ SoloSteps /\ StageFits(t)
  BY DEF IInv, StagesFit
<1>2. /\ run[t].at = "load"
      /\ run' = [run EXCEPT ![t].at = "write", ![t].doc = doc]
      /\ env' = env /\ file' = file /\ bak' = bak /\ bucket' = bucket /\ mem' = mem
      /\ ops' = ops /\ mcpOps' = mcpOps /\ failures' = failures /\ hist' = hist
  BY DEF LoadFile
<1>3. Busy(t) /\ run[t].edits # << >>
  BY <1>1, <1>2 DEF Busy, StageFits
<1>4. e \in EditsOf(t) /\ f \in Files /\ Named(e) \subseteq hist.touched /\ e.file = f
  BY <1>1, <1>3, CurrentEdit
<1>5. Proc(t) \in Procs /\ (t = Mcp => Proc(t) = "mcp") /\ Up(Proc(t))
  BY <1>3 DEF Proc, Procs, Running
<1>6. Good(doc, f, env, hist)
  <2>1. /\ MemGood(mem[Proc(t)][f], f, env, hist)
        /\ file[f] # NoDoc => Good(file[f], f, env, hist)
        /\ env.files => file[f] # NoDoc
    BY <1>1, <1>4, <1>5 DEF Documents
  <2> HIDE DEF e, f
  <2> QED
    BY <1>4, <2>1, EditedWell
<1>7. doc \in AnyDoc
  BY <1>4, <1>6, GoodIsDocument
<1> HIDE DEF e, f, doc
<1>8. /\ run'[t].at = "write" /\ run'[t].edits = run[t].edits /\ run'[t].doc = doc
      /\ \A u \in Threads \ {t} : run'[u] = run[u]
      /\ run' \in [Threads -> Places]
  BY <1>1, <1>2, <1>7 DEF Shapes, Places, Stages
<1>9. Grows
  BY <1>2 DEF Grows
<1>10. Shapes'
  BY <1>1, <1>2, <1>8 DEF Shapes, Places
<1>11. Documents'
  BY <1>1, <1>2, <1>9, FilesMove
<1>12. StagesFit'
  <2>1. ASSUME NEW u \in Threads \ {t} PROVE StageFits(u)'
    BY <1>1, <1>8, <1>9, StageStays DEF StagesFit
  <2>2. Current(t)' = e
    BY <1>8 DEF Current, e
  <2>3. e.file = f
    BY DEF e, f
  <2>4. StageFits(t)'
    BY <1>1, <1>2, <1>3, <1>6, <1>8, <2>2, <2>3 DEF StageFits
  <2> QED
    BY <2>1, <2>4 DEF StagesFit
<1>13. MemoryFollows'
  <2>1. \A u \in WebThreads :
          run[u].at \in {"pull", "settings", "users"} => run'[u].at = run[u].at
    BY <1>2, <1>8 DEF Threads
  <2> QED
    BY <1>1, <1>2, <2>1, FollowsStill
<1>14. SoloSteps'
  <2>1. SUFFICES ASSUME hist.op[t].alone
                 PROVE  Alone(t)' /\ EditsMade(t)' /\ BucketFollows(t)' /\ SecretsKept(t)'
    BY <1>1, <1>2, <1>3, OneAlone
  <2>2. Alone(t)' /\ Done(t)' = Done(t)
    BY <1>1, <1>2, <1>3, <1>8, AloneGoesOn
  <2>3. EditsMade(t)'
    <3>1. SUFFICES ASSUME ~env.s3
                   PROVE  [file EXCEPT ![f] = doc] = Made(t)[Done(t) + 1]
                            /\ file = Made(t)[Done(t)]
      <4>1. Current(t)'.file = f /\ Made(t)' = Made(t)
        BY <1>2, <1>8 DEF Current, Made, f
      <4> QED
        BY <1>2, <1>8, <2>2, <4>1 DEF EditsMade
    <3> DEFINE op == hist.op[t]
               n == Done(t)
    <3>2. /\ file = Made(t)[n]
          /\ t = Mcp => op.memory = mem["mcp"]
          /\ Len(run[t].edits) <= Len(op.edits)
          /\ \A i \in 1..Len(run[t].edits) : run[t].edits[i] = op.edits[n + i]
      BY <1>1, <1>2, <1>3, <2>1, <3>1 DEF SoloSteps, Alone, EditsMade
    <3>3. /\ Len(run[t].edits) \in Nat /\ Len(run[t].edits) >= 1
          /\ e = run[t].edits[1]
      BY <1>1, <1>3, CurrentEdit DEF e
    <3>4. Len(op.edits) \in Nat
      BY <1>1 DEF Shapes, Hists, Solos
    <3>5. n \in Nat /\ n < Len(op.edits) /\ e = op.edits[n + 1]
      <4>1. n = Len(op.edits) - Len(run[t].edits)
        BY DEF Done
      <4> HIDE DEF n, op
      <4>2. Len(run[t].edits) <= Len(op.edits)
        BY <3>2
      <4>3. \A a, b \in Nat : b >= 1 /\ b <= a
              => a - b \in Nat /\ a - b < a /\ 1 \in 1..b
        OBVIOUS
      <4>4. n \in Nat /\ n < Len(op.edits) /\ 1 \in 1..Len(run[t].edits)
        BY <3>3, <3>4, <4>1, <4>2, <4>3
      <4> QED
        BY <3>2, <3>3, <4>4
    <3>6. Made(t)[n + 1] = Make(Made(t)[n], op.edits[n + 1], op.memory)
      BY <3>4, <3>5, EditsUnfold DEF Made
    <3>7. Made(t)[n + 1] = [file EXCEPT ![f] = Edited(file[f], e, op.memory[f])]
      BY <3>2, <3>5, <3>6, <1>4 DEF Make
    <3>8. Edited(file[f], e, op.memory[f]) = doc
      <4>1. CASE t = Mcp
        BY <1>5, <3>2, <4>1 DEF doc, e, f
      <4>2. CASE t # Mcp
        BY <1>4, <4>2, MemoryMatters DEF doc, e, f
      <4> QED
        BY <4>1, <4>2
    <3> QED
      BY <3>2, <3>7, <3>8
  <2>4. BucketFollows(t)'
    BY <1>1, <1>2, <1>8 DEF SoloSteps, BucketFollows
  <2>5. SecretsKept(t)'
    BY <1>1, <1>2 DEF SoloSteps, SecretsKept
  <2> QED
    BY <2>2, <2>3, <2>4, <2>5
<1> QED
  BY <1>10, <1>11, <1>12, <1>13, <1>14 DEF IInv

-----------------------------------------------------------------------------
(***************************************************************************)
(* The end of an edit and of an operation.                                 *)
(***************************************************************************)
\* When thread t's operation ends, the others are where they were.
LEMMA EndKeeps ==
    ASSUME IInv, NEW t \in Threads, Busy(t), Shapes', Documents', MemoryFollows', Grows,
           run'[t] = Idle, hist'.op[t] = NoOperation,
           \A u \in Threads \ {t} : run'[u] = run[u] /\ hist'.op[u] = hist.op[u]
    PROVE  IInv'
<1>1. StagesFit /\ SoloSteps
  BY DEF IInv
<1>2. StagesFit'
  <2>1. ASSUME NEW u \in Threads \ {t} PROVE StageFits(u)'
    BY <1>1, StageStays DEF StagesFit
  <2>2. StageFits(t)'
    BY DEF StageFits, Idle
  <2> QED
    BY <2>1, <2>2 DEF StagesFit
<1>3. SoloSteps'
  BY <1>1, SoloEnds, NothingAlone
<1> QED
  BY <1>2, <1>3 DEF IInv

\* Where the next edit, or the end of the last one, leaves a thread.
LEMMA OnwardRun ==
    ASSUME Shapes, NEW t \in Threads, NEW h \in Hists, Onward(t, h)
    PROVE  /\ \A u \in Threads \ {t} : run'[u] = run[u]
           /\ run' \in [Threads -> Places]
           /\ Len(run[t].edits) <= 1 => run'[t] = Idle /\ hist' = Over(h, t)
           /\ Len(run[t].edits) > 1 =>
                /\ run'[t] = [at |-> "load", edits |-> Tail(run[t].edits), doc |-> NoDoc]
                /\ hist' = h
<1>1. run[t].edits \in Seq(Edit) /\ Len(run[t].edits) \in Nat
  BY DEF Shapes
<1>2. CASE Len(run[t].edits) <= 1
  <2>1. End(t) /\ hist' = Over(h, t)
    BY <1>2 DEF Onward
  <2> QED
    BY <1>1, <1>2, <2>1, EndRun
<1>3. CASE Len(run[t].edits) > 1
  <2> DEFINE r == [at |-> "load", edits |-> Tail(run[t].edits), doc |-> NoDoc]
  <2>1. run' = [run EXCEPT ![t] = r] /\ hist' = h
    BY <1>1, <1>3 DEF Onward
  <2>2. r \in Places
    <3>1. Tail(run[t].edits) \in Seq(Edit)
      BY <1>1, <1>3, Tails
    <3> QED
      BY <3>1 DEF Places, Stages, AnyDoc
  <2> HIDE DEF r
  <2>3. run'[t] = r /\ (\A u \in Threads \ {t} : run'[u] = run[u])
          /\ run' \in [Threads -> Places]
    BY <2>1, <2>2, RunChanges
  <2> QED
    BY <1>1, <1>3, <2>1, <2>3 DEF r
<1> QED
  BY <1>1, <1>2, <1>3

\* The history that Onward is given leads to one of the same kind.
LEMMA OnwardHistory ==
    ASSUME Shapes, NEW t \in Threads, NEW h \in Hists, Onward(t, h)
    PROVE  /\ hist' \in Hists /\ hist'.touched = h.touched
           /\ hist'.spoilt = h.spoilt /\ hist'.behind = h.behind
<1>1. Len(run[t].edits) \in Nat
  BY DEF Shapes
<1>2. hist' \in {h, Over(h, t)}
  BY <1>1 DEF Onward
<1> QED
  BY <1>2, OverHistory

\* A thread at its next edit.
LEMMA NextFits ==
    ASSUME NEW t \in Threads, StageFits(t), Grows, Len(run[t].edits) > 1,
           run'[t] = [at |-> "load", edits |-> Tail(run[t].edits), doc |-> NoDoc]
    PROVE  /\ StageFits(t)'
           /\ t = Mcp => run[t].edits = SaveEdits
<1> DEFINE rest == Tail(run[t].edits)
<1>1. run[t].edits \in Seq(EditsOf(t)) /\ Len(run[t].edits) \in Nat
  BY DEF StageFits
<1>2. /\ rest \in Seq(EditsOf(t)) /\ rest # << >> /\ Len(rest) = Len(run[t].edits) - 1
      /\ \A i \in 1..Len(rest) : rest[i] = run[t].edits[i + 1]
  BY <1>1, Tails
<1>3. \A i \in 1..Len(rest) : Named(rest[i]) \subseteq hist'.touched
  <2>1. \A i \in 1..Len(rest) : i + 1 \in 1..Len(run[t].edits)
    BY <1>1, <1>2
  <2> QED
    BY <1>2, <2>1 DEF StageFits, Grows
<1>4. t = Mcp => run[t].edits = SaveEdits /\ rest = <<Save("settings")>>
  <2>1. ASSUME t = Mcp PROVE run[t].edits = SaveEdits
    <3>1. Len(<< >>) = 0 /\ Len(<<Save("settings")>>) = 1
      OBVIOUS
    <3> QED
      BY <2>1, <3>1 DEF StageFits
  <2>2. Tail(SaveEdits) = <<Save("settings")>>
    BY DEF SaveEdits
  <2> QED
    BY <2>1, <2>2
<1> HIDE DEF rest
<1>5. run'[t].at = "load" /\ run'[t].edits = rest
  BY DEF rest
<1> QED
  BY <1>2, <1>3, <1>4, <1>5 DEF StageFits

\* When thread t is done with an edit: what is left to show of the whole step.
LEMMA OnwardKeeps ==
    ASSUME IInv, NEW t \in Threads, Busy(t), NEW h \in Hists, Onward(t, h),
           Shapes', Documents', MemoryFollows', Grows,
           \A u \in Threads \ {t} : h.op[u] = hist.op[u],
           h.op[t].alone = hist.op[t].alone, h.op[t].fresh = hist.op[t].fresh,
           h.op[t].edits = hist.op[t].edits, h.op[t].file = hist.op[t].file,
           h.op[t].memory = hist.op[t].memory,
           t = Mcp /\ run[t].edits # << >> => mem'["mcp"] = mem["mcp"],
           hist.op[t].alone /\ ~env.s3 /\ run[t].edits # << >>
             => file' = Made(t)[Done(t) + 1],
           h.op[t].s3ok /\ env.s3 /\ t = Mcp /\ run[t].edits = SaveEdits
             => file'["users"] = bucket'["users"]
    PROVE  IInv'
<1>1. Shapes /\ StagesFit /\ SoloSteps /\ StageFits(t)
  BY DEF IInv, StagesFit
<1>2. Len(run[t].edits) \in Nat /\ run[t].edits \in Seq(Edit)
  BY <1>1 DEF Shapes
<1>3. \A u \in Threads \ {t} : run'[u] = run[u]
  BY <1>1, OnwardRun
<1>4. CASE Len(run[t].edits) <= 1
  <2>1. run'[t] = Idle /\ hist' = Over(h, t)
    BY <1>1, <1>4, OnwardRun
  <2>2. hist'.op[t] = NoOperation /\ \A u \in Threads \ {t} : hist'.op[u] = hist.op[u]
    BY <2>1, OverHistory
  <2> QED
    BY <1>3, <2>1, <2>2, EndKeeps
<1>5. CASE Len(run[t].edits) > 1
  <2> DEFINE rest == Tail(run[t].edits)
  <2>1. run'[t] = [at |-> "load", edits |-> rest, doc |-> NoDoc] /\ hist' = h
    BY <1>1, <1>5, OnwardRun
  <2>2. /\ Len(rest) = Len(run[t].edits) - 1 /\ run[t].edits # << >>
        /\ \A i \in 1..Len(rest) : rest[i] = run[t].edits[i + 1]
    BY <1>2, <1>5, Tails
  <2>3. StageFits(t)' /\ (t = Mcp => run[t].edits = SaveEdits)
    BY <1>1, <1>5, <2>1, NextFits
  <2>4. StagesFit'
    <3>1. ASSUME NEW u \in Threads \ {t} PROVE StageFits(u)'
      BY <1>1, <1>3, StageStays DEF StagesFit
    <3> QED
      BY <2>3, <3>1 DEF StagesFit
  <2>5. SoloSteps'
    <3>1. SUFFICES ASSUME hist.op[t].alone
                   PROVE  Alone(t)' /\ EditsMade(t)' /\ BucketFollows(t)' /\ SecretsKept(t)'
      BY <1>1, <2>1, OneAlone
    <3> HIDE DEF rest
    <3>2. run'[t].at = "load" /\ run'[t].edits = rest
      BY <2>1
    <3>3. /\ \A u \in Threads \ {t} : ~Busy(u)
          /\ t = Mcp => hist.op[t].memory = mem["mcp"]
          /\ Len(run[t].edits) <= Len(hist.op[t].edits)
          /\ \A i \in 1..Len(run[t].edits) :
               run[t].edits[i] = hist.op[t].edits[Done(t) + i]
      BY <1>1, <2>2, <3>1 DEF SoloSteps, Alone
    <3>4. Len(hist.op[t].edits) \in Nat
      BY <1>1 DEF Shapes, Hists, Solos
    <3>5. Done(t)' = Done(t) + 1 /\ Done(t) \in Int
      <4>1. Done(t) = Len(hist.op[t].edits) - Len(run[t].edits)
        BY DEF Done
      <4>2. Done(t)' = Len(hist.op[t].edits) - Len(rest)
        BY <2>1, <3>2 DEF Done
      <4> QED
        BY <1>2, <2>2, <3>4, <4>1, <4>2
    <3>6. Alone(t)'
      <4>1. Busy(t)' /\ \A u \in Threads \ {t} : ~Busy(u)'
        BY <1>3, <3>2, <3>3 DEF Busy
      <4>2. Len(rest) <= Len(hist.op[t].edits)
        BY <1>2, <2>2, <3>3, <3>4
      <4>3. ASSUME NEW i \in 1..Len(rest)
            PROVE  rest[i] = hist.op[t].edits[Done(t)' + i]
        <5>1. i + 1 \in 1..Len(run[t].edits) /\ (Done(t) + 1) + i = Done(t) + (i + 1)
          BY <1>2, <2>2, <3>5
        <5> QED
          BY <2>2, <3>3, <3>5, <5>1
      <4> QED
        BY <2>1, <2>2, <3>2, <3>3, <4>1, <4>2, <4>3 DEF Alone
    <3>7. EditsMade(t)'
      <4>1. Made(t)' = Made(t)
        BY <2>1 DEF Made
      <4> QED
        BY <2>1, <2>2, <3>1, <3>2, <3>5, <4>1 DEF EditsMade, Grows
    <3>8. BucketFollows(t)'
      <4>1. SUFFICES ASSUME env'.s3, hist'.op[t].s3ok, t = Mcp
                     PROVE  file'["users"] = bucket'["users"]
        BY <3>2 DEF BucketFollows
      <4>2. h.op[t].s3ok /\ env.s3
        BY <2>1, <4>1 DEF Grows
      <4>3. t = Mcp /\ run[t].edits = SaveEdits
        BY <2>3, <4>1
      <4> QED
        BY <4>2, <4>3
    <3>9. SecretsKept(t)'
      <4>1. /\ hist'.op[t].fresh = hist.op[t].fresh
            /\ hist'.op[t].edits = hist.op[t].edits
            /\ hist'.op[t].file = hist.op[t].file
        BY <2>1
      <4>2. \A e : SecretKept(hist.op[t], e) => SecretKept(hist'.op[t], e)
        BY <4>1 DEF SecretKept
      <4>3. SecretsKept(t)
        BY <1>1 DEF SoloSteps
      <4> QED
        BY <3>1, <4>1, <4>2, <4>3 DEF SecretsKept
    <3> QED
      BY <3>6, <3>7, <3>8, <3>9
  <2> QED
    BY <2>4, <2>5 DEF IInv
<1> QED
  BY <1>2, <1>4, <1>5

LEMMA RefuseEditKeeps == ASSUME IInv, NEW t \in Threads, RefuseEdit(t) PROVE IInv'
<1>1. Shapes /\ Documents /\ MemoryFollows
  BY DEF IInv
<1>2. /\ run[t].at = "load" /\ End(t) /\ hist' = Over(hist, t)
      /\ env' = env /\ file' = file /\ bak' = bak /\ bucket' = bucket /\ mem' = mem
      /\ ops' = ops /\ mcpOps' = mcpOps /\ failures' = failures
  BY DEF RefuseEdit
<1>3. /\ run'[t] = Idle /\ \A u \in Threads \ {t} : run'[u] = run[u]
      /\ run' \in [Threads -> Places]
  BY <1>1, <1>2, EndRun
<1>4. /\ hist' \in Hists /\ hist'.touched = hist.touched
      /\ hist'.spoilt = hist.spoilt /\ hist'.behind = hist.behind
      /\ hist'.op[t] = NoOperation /\ \A u \in Threads \ {t} : hist'.op[u] = hist.op[u]
  BY <1>1, <1>2, OverHistory DEF Shapes
<1>5. Grows /\ Busy(t)
  BY <1>2, <1>4 DEF Grows, Busy
<1>6. Shapes'
  BY <1>1, <1>2, <1>3, <1>4 DEF Shapes, Places
<1>7. Documents'
  BY <1>1, <1>2, <1>5, FilesMove
<1>8. MemoryFollows'
  <2>1. \A u \in WebThreads :
          run[u].at \in {"pull", "settings", "users"} => run'[u].at = run[u].at
    BY <1>2, <1>3 DEF Threads
  <2> QED
    BY <1>1, <1>2, <1>4, <2>1, FollowsStill
<1> QED
  BY <1>3, <1>4, <1>5, <1>6, <1>7, <1>8, EndKeeps

\* The backup becomes what the file holds, or stays.
LEMMA BackupMoves ==
    ASSUME Shapes, NEW f \in Files, TakeBackup(f) \/ bak' = bak
    PROVE  /\ bak' \in [Files -> AnyDoc]
           /\ \A g \in Files : bak'[g] \in {bak[g], file[g]}
           /\ TakeBackup(f) /\ file[f] # NoDoc => bak'[f] = file[f]
           /\ TakeBackup(f) /\ file[f] = NoDoc => bak'[f] = bak[f]
  BY DEF Shapes, TakeBackup

LEMMA BackupKeeps == ASSUME IInv, NEW t \in Threads, Backup(t) PROVE IInv'
<1>1. Shapes /\ Documents /\ StagesFit /\ MemoryFollows /\ SoloSteps /\ StageFits(t)
  BY DEF IInv, StagesFit
<1>2. /\ run[t].at = "write" /\ TakeBackup(Current(t).file) /\ Goto(t, "replace")
      /\ env' = env /\ file' = file /\ bucket' = bucket /\ mem' = mem
      /\ ops' = ops /\ mcpOps' = mcpOps /\ failures' = failures /\ hist' = hist
  BY DEF Backup
<1>3. Busy(t) /\ run[t].edits # << >> /\ Current(t).file \in Files
  <2>1. Busy(t) /\ run[t].edits # << >>
    BY <1>1, <1>2 DEF Busy, StageFits
  <2> QED
    BY <1>1, <2>1, CurrentEdit
<1>4. /\ run'[t].at = "replace" /\ run'[t].edits = run[t].edits /\ run'[t].doc = run[t].doc
      /\ \A u \in Threads \ {t} : run'[u] = run[u]
      /\ run' \in [Threads -> Places]
  BY <1>1, <1>2, GotoRun DEF Stages
<1>5. /\ bak' \in [Files -> AnyDoc]
      /\ \A g \in Files : bak'[g] \in {bak[g], file[g]}
      /\ file[Current(t).file] # NoDoc => bak'[Current(t).file] = file[Current(t).file]
      /\ file[Current(t).file] = NoDoc => bak'[Current(t).file] = bak[Current(t).file]
  BY <1>1, <1>2, <1>3, BackupMoves
<1>6. Grows /\ Current(t)' = Current(t)
  BY <1>2, <1>4 DEF Grows, Current
<1>7. Shapes'
  BY <1>1, <1>2, <1>4, <1>5 DEF Shapes, Places
<1>8. Documents'
  BY <1>1, <1>2, <1>5, <1>6, FilesMove
<1>9. StagesFit'
  <2>1. ASSUME NEW u \in Threads \ {t} PROVE StageFits(u)'
    BY <1>1, <1>4, <1>6, StageStays DEF StagesFit
  <2>2. Good(run[t].doc, Current(t).file, env, hist)
    BY <1>1, <1>2 DEF StageFits
  <2>3. StageFits(t)'
    BY <1>1, <1>2, <1>3, <1>4, <1>6, <2>2 DEF StageFits
  <2> QED
    BY <2>1, <2>3 DEF StagesFit
<1>10. MemoryFollows'
  <2>1. \A u \in WebThreads :
          run[u].at \in {"pull", "settings", "users"} => run'[u].at = run[u].at
    BY <1>2, <1>4 DEF Threads
  <2> QED
    BY <1>1, <1>2, <2>1, FollowsStill
<1>11. SoloSteps'
  <2>1. SUFFICES ASSUME hist.op[t].alone
                 PROVE  Alone(t)' /\ EditsMade(t)' /\ BucketFollows(t)' /\ SecretsKept(t)'
    BY <1>1, <1>2, <1>3, OneAlone
  <2>2. Alone(t)' /\ Done(t)' = Done(t)
    BY <1>1, <1>2, <1>3, <1>4, AloneGoesOn
  <2>3. EditsMade(t)'
    <3>1. Made(t)' = Made(t)
      BY <1>2 DEF Made
    <3>2. SUFFICES ASSUME ~env.s3
                   PROVE  /\ file = Made(t)[Done(t)]
                          /\ [file EXCEPT ![Current(t).file] = run[t].doc] = Made(t)[Done(t) + 1]
                          /\ bak'[Current(t).file] = file[Current(t).file]
      BY <1>2, <1>4, <1>6, <2>2, <3>1 DEF EditsMade
    <3>3. /\ file = Made(t)[Done(t)]
          /\ [file EXCEPT ![Current(t).file] = run[t].doc] = Made(t)[Done(t) + 1]
      BY <1>1, <1>2, <2>1, <3>2 DEF SoloSteps, EditsMade
    <3>4. file[Current(t).file] = NoDoc => bak[Current(t).file] = NoDoc
      BY <1>1, <1>3 DEF Documents
    <3> QED
      BY <1>5, <3>3, <3>4
  <2>4. BucketFollows(t)'
    BY <1>1, <1>2, <1>4 DEF SoloSteps, BucketFollows
  <2>5. SecretsKept(t)'
    BY <1>1, <1>2 DEF SoloSteps, SecretsKept
  <2> QED
    BY <2>2, <2>3, <2>4, <2>5
<1> QED
  BY <1>7, <1>8, <1>9, <1>10, <1>11 DEF IInv

LEMMA FailBackupKeeps == ASSUME IInv, NEW t \in Threads, FailBackup(t) PROVE IInv'
<1>1. Shapes /\ Documents /\ MemoryFollows /\ StageFits(t)
  BY DEF IInv, StagesFit
<1>2. /\ run[t].at = "write" /\ (TakeBackup(Current(t).file) \/ bak' = bak)
      /\ End(t) /\ hist' = Over(hist, t) /\ CountFailure(TRUE)
      /\ env' = env /\ file' = file /\ bucket' = bucket /\ mem' = mem
      /\ ops' = ops /\ mcpOps' = mcpOps
  BY DEF FailBackup
<1>3. Current(t).file \in Files
  <2>1. run[t].edits # << >>
    BY <1>1, <1>2 DEF StageFits
  <2> QED
    BY <1>1, <2>1, CurrentEdit
<1>4. /\ run'[t] = Idle /\ \A u \in Threads \ {t} : run'[u] = run[u]
      /\ run' \in [Threads -> Places]
  BY <1>1, <1>2, EndRun
<1>5. /\ hist' \in Hists /\ hist'.touched = hist.touched
      /\ hist'.spoilt = hist.spoilt /\ hist'.behind = hist.behind
      /\ hist'.op[t] = NoOperation /\ \A u \in Threads \ {t} : hist'.op[u] = hist.op[u]
  BY <1>1, <1>2, OverHistory DEF Shapes
<1>6. Grows /\ Busy(t)
  BY <1>2, <1>5 DEF Grows, Busy
<1>7. bak' \in [Files -> AnyDoc] /\ \A g \in Files : bak'[g] \in {bak[g], file[g]}
  BY <1>1, <1>2, <1>3, BackupMoves
<1>8. Shapes'
  BY <1>1, <1>2, <1>4, <1>5, <1>7, CountersStay DEF Shapes, Places
<1>9. Documents'
  BY <1>1, <1>2, <1>6, <1>7, FilesMove
<1>10. MemoryFollows'
  <2>1. \A u \in WebThreads :
          run[u].at \in {"pull", "settings", "users"} => run'[u].at = run[u].at
    BY <1>2, <1>4 DEF Threads
  <2> QED
    BY <1>1, <1>2, <1>5, <2>1, FollowsStill
<1> QED
  BY <1>4, <1>5, <1>6, <1>8, <1>9, <1>10, EndKeeps

LEMMA FailReplaceKeeps == ASSUME IInv, NEW t \in Threads, FailReplace(t) PROVE IInv'
<1> DEFINE f == Current(t).file
           after == [file EXCEPT ![f] = IF bak[f] = NoDoc THEN @ ELSE bak[f]]
<1>1. Shapes /\ Documents /\ MemoryFollows /\ StageFits(t)
  BY DEF IInv, StagesFit
<1>2. /\ run[t].at = "replace" /\ End(t) /\ CountFailure(TRUE)
      /\ file' = after
      /\ hist' = [Over(hist, t) EXCEPT !.behind = @ \/ after # file]
      /\ env' = env /\ bak' = bak /\ bucket' = bucket /\ mem' = mem
      /\ ops' = ops /\ mcpOps' = mcpOps
  BY DEF FailReplace
<1>3. f \in Files
  <2>1. run[t].edits # << >>
    BY <1>1, <1>2 DEF StageFits
  <2> QED
    BY <1>1, <2>1, CurrentEdit
<1>4. /\ run'[t] = Idle /\ \A u \in Threads \ {t} : run'[u] = run[u]
      /\ run' \in [Threads -> Places]
  BY <1>1, <1>2, EndRun
<1>5. /\ after \in [Files -> AnyDoc]
      /\ \A g \in Files : after[g] = file[g] \/ (bak[g] # NoDoc /\ after[g] = bak[g])
  BY <1>1, <1>3 DEF Shapes
<1> HIDE DEF f, after
<1>6. /\ hist' \in Hists /\ hist'.touched = hist.touched
      /\ hist'.spoilt = hist.spoilt
      /\ hist'.behind = (hist.behind \/ after # file)
      /\ hist'.op[t] = NoOperation /\ \A u \in Threads \ {t} : hist'.op[u] = hist.op[u]
  <2> DEFINE h == Over(hist, t)
  <2>1. /\ h \in Hists /\ h.touched = hist.touched /\ h.spoilt = hist.spoilt
        /\ h.behind = hist.behind
        /\ h.op[t] = NoOperation /\ \A u \in Threads \ {t} : h.op[u] = hist.op[u]
    BY <1>1, OverHistory DEF Shapes
  <2>2. hist' = [h EXCEPT !.behind = @ \/ after # file]
    BY <1>2
  <2> HIDE DEF h
  <2>3. (h.behind \/ after # file) \in BOOLEAN
    OBVIOUS
  <2> QED
    BY <2>1, <2>2, <2>3 DEF Hists
<1>7. Grows /\ Busy(t)
  BY <1>2, <1>6 DEF Grows, Busy
<1>8. Shapes'
  BY <1>1, <1>2, <1>4, <1>5, <1>6, CountersStay DEF Shapes, Places
<1>9. Documents'
  <2>1. \A g \in Files : bak[g] # NoDoc => Good(bak[g], g, env, hist)
    BY <1>1 DEF Documents
  <2> QED
    BY <1>1, <1>2, <1>5, <1>7, <2>1, FilesMove
<1>10. MemoryFollows'
  <2>1. \A u \in WebThreads :
          run[u].at \in {"pull", "settings", "users"} => run'[u].at = run[u].at
    BY <1>2, <1>4 DEF Threads
  <2> QED
    BY <1>1, <1>2, <1>6, <2>1, FollowsStill
<1> QED
  BY <1>4, <1>6, <1>7, <1>8, <1>9, <1>10, EndKeeps

LEMMA ReplaceKeeps == ASSUME IInv, NEW t \in Threads, Replace(t) PROVE IInv'
<1> DEFINE e == Current(t)
           f == Current(t).file
           after == [file EXCEPT ![f] = run[t].doc]
           h == Behind(hist, Proc(t), after)
           stage == IF e.kind = "save" THEN "push" ELSE IF env.s3 THEN "pull" ELSE "settings"
<1>1. Shapes /\ Documents /\ StagesFit /\ MemoryFollows /\ SoloSteps /\ StageFits(t)
  BY DEF IInv, StagesFit
<1>2. /\ run[t].at = "replace" /\ file' = after
      /\ IF e.kind = "save" /\ ~env.s3 THEN Onward(t, h)
         ELSE Goto(t, stage) /\ hist' = h
      /\ env' = env /\ bak' = bak /\ bucket' = bucket /\ mem' = mem
      /\ ops' = ops /\ mcpOps' = mcpOps /\ failures' = failures
  BY DEF Replace
<1>3. Busy(t) /\ run[t].edits # << >>
  BY <1>1, <1>2 DEF Busy, StageFits
<1>4. /\ f \in Files /\ e.file = f
      /\ t = Mcp => e.kind = "save"
      /\ t # Mcp => e.kind # "save"
  BY <1>1, <1>3, CurrentEdit
<1>5. Good(run[t].doc, f, env, hist) /\ run[t].doc # NoDoc /\ run[t].doc \in AnyDoc
  <2>1. Good(run[t].doc, f, env, hist)
    BY <1>1, <1>2 DEF StageFits
  <2> HIDE DEF f
  <2> QED
    BY <1>4, <2>1, GoodIsDocument
<1>6. /\ after \in [Files -> AnyDoc] /\ after[f] = run[t].doc
      /\ \A g \in Files \ {f} : after[g] = file[g]
  BY <1>1, <1>4, <1>5 DEF Shapes
<1>7. /\ h \in Hists /\ h.touched = hist.touched /\ h.spoilt = hist.spoilt
      /\ h.behind = (hist.behind \/ (Proc(t) = "mcp" /\ after # file))
      /\ h.op = hist.op
  BY <1>1, BehindHistory DEF Shapes
<1>8. Proc(t) = "mcp" <=> t = Mcp
  BY DEF Proc
<1>9. ASSUME hist.op[t].alone, ~env.s3 PROVE after = Made(t)[Done(t) + 1]
  BY <1>1, <1>2, <1>9 DEF SoloSteps, EditsMade
<1> HIDE DEF e, f, after, h, stage
<1>10. CASE e.kind = "save" /\ ~env.s3
  <2>1. Onward(t, h) /\ t = Mcp
    BY <1>2, <1>4, <1>10
  <2>2. /\ \A u \in Threads \ {t} : run'[u] = run[u]
        /\ run' \in [Threads -> Places]
    BY <1>1, <1>7, <2>1, OnwardRun
  <2>3. /\ hist' \in Hists /\ hist'.touched = hist.touched
        /\ hist'.spoilt = hist.spoilt /\ hist'.behind = h.behind
    BY <1>1, <1>7, <2>1, OnwardHistory
  <2>4. Grows
    BY <1>2, <2>3 DEF Grows
  <2>5. Shapes'
    BY <1>1, <1>2, <1>6, <2>2, <2>3 DEF Shapes, Places
  <2>6. Documents'
    BY <1>1, <1>2, <1>5, <1>6, <2>4, FilesMove
  <2>7. MemoryFollows'
    <3>1. \A u \in WebThreads : run'[u] = run[u]
      BY <2>1, <2>2 DEF Threads
    <3> QED
      BY <1>1, <1>2, <1>7, <1>8, <2>1, <2>3, <3>1, FollowsStill
  <2> QED
    BY <1>2, <1>3, <1>7, <1>9, <1>10, <2>1, <2>4, <2>5, <2>6, <2>7, OnwardKeeps
<1>11. CASE ~(e.kind = "save" /\ ~env.s3)
  <2>1. Goto(t, stage) /\ hist' = h /\ stage \in Stages
    BY <1>2, <1>11 DEF stage, Stages
  <2>2. /\ run'[t].at = stage /\ run'[t].edits = run[t].edits
        /\ \A u \in Threads \ {t} : run'[u] = run[u]
        /\ run' \in [Threads -> Places]
    BY <1>1, <2>1, GotoRun
  <2>3. /\ stage = "push" => t = Mcp /\ env.s3
        /\ stage = "pull" => t # Mcp /\ env.s3
        /\ stage = "settings" => t # Mcp /\ ~env.s3
        /\ stage \in {"push", "pull", "settings"}
    BY <1>4, <1>11 DEF stage
  <2>4. Grows
    BY <1>2, <1>7, <2>1 DEF Grows
  <2>5. Shapes'
    BY <1>1, <1>2, <1>6, <1>7, <2>1, <2>2 DEF Shapes, Places
  <2>6. Documents'
    BY <1>1, <1>2, <1>5, <1>6, <2>4, FilesMove
  <2>7. StagesFit'
    <3>1. ASSUME NEW u \in Threads \ {t} PROVE StageFits(u)'
      BY <1>1, <2>2, <2>4, StageStays DEF StagesFit
    <3>2. StageFits(t)'
      BY <1>1, <1>2, <1>3, <1>7, <2>1, <2>2, <2>3 DEF StageFits
    <3> QED
      BY <3>1, <3>2 DEF StagesFit
  <2>8. MemoryFollows'
    <3>1. CASE t = Mcp
      <4>1. \A u \in WebThreads : run'[u] = run[u]
        BY <2>2, <3>1 DEF Threads
      <4> QED
        BY <1>1, <1>2, <1>7, <1>8, <2>1, <3>1, <4>1, FollowsStill
    <3>2. CASE t # Mcp
      <4>1. t \in WebThreads /\ run'[t].at \in {"pull", "settings"}
        BY <2>2, <2>3, <3>2 DEF Threads
      <4> QED
        BY <4>1 DEF MemoryFollows, About
    <3> QED
      BY <3>1, <3>2
  <2>9. SoloSteps'
    <3>1. SUFFICES ASSUME hist.op[t].alone
                   PROVE  Alone(t)' /\ EditsMade(t)' /\ BucketFollows(t)' /\ SecretsKept(t)'
      BY <1>1, <1>3, <1>7, <2>1, OneAlone
    <3>2. Alone(t)' /\ Done(t)' = Done(t)
      <4>1. run'[t].at # "idle"
        BY <2>2, <2>3
      <4> QED
        BY <1>1, <1>2, <1>3, <1>7, <2>1, <2>2, <4>1, AloneGoesOn
    <3>3. EditsMade(t)'
      <4>1. Made(t)' = Made(t)
        BY <1>7, <2>1 DEF Made
      <4> QED
        BY <1>2, <1>3, <1>9, <2>2, <2>3, <3>1, <3>2, <4>1 DEF EditsMade
    <3>4. BucketFollows(t)'
      <4>1. SUFFICES ASSUME t = Mcp, run[t].edits = <<Save("settings")>>, env.s3,
                            hist.op[t].s3ok
                     PROVE  file'["users"] = bucket'["users"]
        BY <1>2, <1>7, <2>1, <2>2, <2>3 DEF BucketFollows
      <4>2. f = "settings"
        <5>1. Current(t) = Save("settings")
          BY <4>1 DEF Current
        <5> QED
          BY <5>1 DEF f, Save, EditOf
      <4>3. file["users"] = bucket["users"]
        BY <1>1, <3>1, <4>1 DEF SoloSteps, BucketFollows
      <4> QED
        BY <1>2, <1>6, <4>2, <4>3 DEF Files
    <3>5. SecretsKept(t)'
      BY <1>1, <1>7, <2>1 DEF SoloSteps, SecretsKept
    <3> QED
      BY <3>2, <3>3, <3>4, <3>5
  <2> QED
    BY <2>5, <2>6, <2>7, <2>8, <2>9 DEF IInv
<1> QED
  BY <1>10, <1>11

-----------------------------------------------------------------------------
(***************************************************************************)
(* Pushing and pulling.                                                    *)
(***************************************************************************)
LEMMA PushKeeps ==
    ASSUME IInv, NEW t \in Threads, NEW ok \in BOOLEAN, Push(t, ok) PROVE IInv'
<1> DEFINE f == Current(t).file
           h == [hist EXCEPT !.op[t].s3ok = @ /\ ok]
<1>1. Shapes /\ Documents /\ StagesFit /\ MemoryFollows /\ SoloSteps /\ StageFits(t)
  BY DEF IInv, StagesFit
<1>2. /\ run[t].at = "push"
      /\ bucket' = IF ok THEN [bucket EXCEPT ![f] = file[f]] ELSE bucket
      /\ Onward(t, h) /\ CountFailure(~ok)
      /\ env' = env /\ file' = file /\ bak' = bak /\ mem' = mem
      /\ ops' = ops /\ mcpOps' = mcpOps
  BY DEF Push
<1>3. Busy(t) /\ run[t].edits # << >> /\ t = Mcp /\ env.s3
  BY <1>1, <1>2 DEF Busy, StageFits
<1>4. f \in Files
  BY <1>1, <1>3, CurrentEdit
<1>5. /\ bucket' \in [Files -> AnyDoc]
      /\ \A g \in Files : bucket'[g] \in {bucket[g], file[g]}
      /\ ok => bucket'[f] = file[f]
  BY <1>1, <1>2, <1>4 DEF Shapes
<1>6. /\ h \in Hists /\ h.touched = hist.touched /\ h.spoilt = hist.spoilt
      /\ h.behind = hist.behind
      /\ \A u \in Threads \ {t} : h.op[u] = hist.op[u]
      /\ h.op[t] = [hist.op[t] EXCEPT !.s3ok = @ /\ ok]
  <2> DEFINE solo == [hist.op[t] EXCEPT !.s3ok = @ /\ ok]
             op == [hist.op EXCEPT ![t] = solo]
  <2>1. hist \in Hists /\ hist.op \in [Threads -> Solos]
    BY <1>1 DEF Shapes, Hists
  <2>2. solo \in Solos
    BY <2>1 DEF Solos
  <2>3. h = [hist EXCEPT !.op = op]
    BY <2>1 DEF Hists
  <2> HIDE DEF solo
  <2>4. op \in [Threads -> Solos] /\ op[t] = solo /\ \A u \in Threads \ {t} : op[u] = hist.op[u]
    BY <2>1, <2>2
  <2> HIDE DEF op, h
  <2>5. /\ h \in Hists /\ h.touched = hist.touched /\ h.spoilt = hist.spoilt
        /\ h.behind = hist.behind /\ h.op = op
    BY <2>1, <2>3, <2>4 DEF Hists
  <2> QED
    BY <2>4, <2>5 DEF solo
<1> HIDE DEF h, f
<1>7. /\ h.op[t].alone = hist.op[t].alone /\ h.op[t].fresh = hist.op[t].fresh
      /\ h.op[t].edits = hist.op[t].edits /\ h.op[t].file = hist.op[t].file
      /\ h.op[t].memory = hist.op[t].memory
      /\ h.op[t].s3ok => ok
  <2>1. hist.op[t] \in Solos
    BY <1>1 DEF Shapes, Hists
  <2> QED
    BY <1>6, <2>1 DEF Solos
<1>8. /\ \A u \in Threads \ {t} : run'[u] = run[u]
      /\ run' \in [Threads -> Places]
  BY <1>1, <1>2, <1>6, OnwardRun
<1>9. /\ hist' \in Hists /\ hist'.touched = hist.touched
      /\ hist'.spoilt = hist.spoilt /\ hist'.behind = hist.behind
  BY <1>1, <1>2, <1>6, OnwardHistory
<1>10. Grows
  BY <1>2, <1>9 DEF Grows
<1>11. Shapes'
  BY <1>1, <1>2, <1>5, <1>8, <1>9, CountersStay DEF Shapes, Places
<1>12. Documents'
  BY <1>1, <1>2, <1>3, <1>5, <1>10, FilesMove
<1>13. MemoryFollows'
  <2>1. \A u \in WebThreads : run'[u] = run[u]
    BY <1>3, <1>8 DEF Threads
  <2> QED
    BY <1>1, <1>2, <1>9, <2>1, FollowsStill
<1>14. ASSUME h.op[t].s3ok, run[t].edits = SaveEdits
       PROVE  file'["users"] = bucket'["users"]
  <2>1. Current(t) = Save("users")
    BY <1>14 DEF Current, SaveEdits
  <2>2. f = "users"
    BY <2>1 DEF f, Save, EditOf
  <2> QED
    BY <1>2, <1>5, <1>7, <1>14, <2>2
<1> QED
  BY <1>2, <1>3, <1>6, <1>7, <1>10, <1>11, <1>12, <1>13, <1>14, OnwardKeeps

\* The files and the bucket of a pull are as good as before.
LEMMA PullMoves ==
    ASSUME Shapes, Documents, NEW n \in 0..2, env.s3, Grows, bak' = bak, mem' = mem,
           file' = Pulled(n).file, bucket' = Pulled(n).bucket
    PROVE  /\ Documents'
           /\ file' \in [Files -> AnyDoc] /\ bucket' \in [Files -> AnyDoc]
           /\ n = 2 => file' = bucket'
<1>1. /\ file' \in [Files -> AnyDoc] /\ bucket' \in [Files -> AnyDoc]
      /\ \A f \in Files :
           /\ file'[f] = file[f] \/ (bucket[f] # NoDoc /\ file'[f] = bucket[f])
           /\ bucket'[f] = bucket[f] \/ bucket'[f] = file[f]
      /\ n = 2 => file' = bucket'
  BY PulledFiles
<1>2. \A f \in Files : bucket[f] # NoDoc => Good(bucket[f], f, env, hist)
  BY DEF Documents
<1> QED
  BY <1>1, <1>2, FilesMove

LEMMA PullKeeps ==
    ASSUME IInv, NEW t \in Threads, NEW pull \in Pulls, Pull(t, pull) PROVE IInv'
<1> DEFINE b == Behind(hist, Proc(t), file')
<1>1. Shapes /\ Documents /\ StagesFit /\ MemoryFollows /\ SoloSteps /\ StageFits(t)
  BY DEF IInv, StagesFit
<1>2. /\ run[t].at = "pull" /\ Goto(t, "settings")
      /\ file' = Pulled(pull.n).file /\ bucket' = Pulled(pull.n).bucket
      /\ hist' = [b EXCEPT !.op[t].s3ok = @ /\ pull.ok]
      /\ CountFailure(~pull.ok)
      /\ env' = env /\ bak' = bak /\ mem' = mem /\ ops' = ops /\ mcpOps' = mcpOps
  BY DEF Pull
<1>3. Busy(t) /\ env.s3 /\ (t = Mcp => run[t].edits = << >>)
  BY <1>1, <1>2 DEF Busy, StageFits
<1>4. pull.n \in 0..2 /\ pull.ok \in BOOLEAN /\ (pull.ok => pull.n = 2)
  <2>1. PICK n \in 0..2 : pull = [n |-> n, ok |-> n = 2]
    BY DEF Pulls
  <2>2. pull.n = n /\ pull.ok = (n = 2)
    BY <2>1
  <2> QED
    BY <2>2
<1>5. /\ b \in Hists /\ b.touched = hist.touched /\ b.spoilt = hist.spoilt
      /\ b.behind = (hist.behind \/ (Proc(t) = "mcp" /\ file' # file))
      /\ b.op = hist.op
  BY <1>1, BehindHistory DEF Shapes
<1> HIDE DEF b
<1>6. /\ hist' \in Hists /\ hist'.touched = hist.touched
      /\ hist'.spoilt = hist.spoilt /\ hist'.behind = b.behind
      /\ \A u \in Threads \ {t} : hist'.op[u] = hist.op[u]
      /\ hist'.op[t] = [hist.op[t] EXCEPT !.s3ok = @ /\ pull.ok]
  <2> DEFINE solo == [hist.op[t] EXCEPT !.s3ok = @ /\ pull.ok]
             op == [hist.op EXCEPT ![t] = solo]
  <2>1. b.op \in [Threads -> Solos] /\ hist.op \in [Threads -> Solos]
    BY <1>5 DEF Hists
  <2>2. solo \in Solos
    BY <1>4, <2>1 DEF Solos
  <2>3. hist' = [b EXCEPT !.op = op]
    BY <1>2, <1>5, <2>1 DEF Hists
  <2> HIDE DEF solo
  <2>4. op \in [Threads -> Solos] /\ op[t] = solo /\ \A u \in Threads \ {t} : op[u] = hist.op[u]
    BY <2>1, <2>2
  <2> HIDE DEF op
  <2>5. /\ hist' \in Hists /\ hist'.touched = b.touched /\ hist'.spoilt = b.spoilt
        /\ hist'.behind = b.behind /\ hist'.op = op
    BY <1>5, <2>3, <2>4 DEF Hists
  <2> QED
    BY <1>5, <2>4, <2>5 DEF solo
<1>7. /\ hist'.op[t].alone = hist.op[t].alone /\ hist'.op[t].fresh = hist.op[t].fresh
      /\ hist'.op[t].edits = hist.op[t].edits /\ hist'.op[t].file = hist.op[t].file
      /\ hist'.op[t].memory = hist.op[t].memory
      /\ hist'.op[t].s3ok => pull.ok
  <2>1. hist.op[t] \in Solos
    BY <1>1 DEF Shapes, Hists
  <2> QED
    BY <1>4, <1>6, <2>1 DEF Solos
<1>8. /\ run'[t].at = "settings" /\ run'[t].edits = run[t].edits
      /\ \A u \in Threads \ {t} : run'[u] = run[u]
      /\ run' \in [Threads -> Places]
  BY <1>1, <1>2, GotoRun DEF Stages
<1>9. Grows
  BY <1>2, <1>6 DEF Grows
<1>10. /\ Documents' /\ (pull.ok => file' = bucket')
       /\ file' \in [Files -> AnyDoc] /\ bucket' \in [Files -> AnyDoc]
  BY <1>1, <1>2, <1>3, <1>4, <1>9, PullMoves
<1>11. Shapes'
  <2>1. (~pull.ok) \in BOOLEAN
    OBVIOUS
  <2> QED
    BY <1>1, <1>2, <1>6, <1>8, <1>10, <2>1, CountersStay DEF Shapes, Places
<1>12. StagesFit'
  <2>1. ASSUME NEW u \in Threads \ {t} PROVE StageFits(u)'
    BY <1>1, <1>8, <1>9, StageStays DEF StagesFit
  <2>2. StageFits(t)'
    BY <1>1, <1>2, <1>3, <1>6, <1>8 DEF StageFits
  <2> QED
    BY <2>1, <2>2 DEF StagesFit
<1>13. MemoryFollows'
  <2>1. CASE t = Mcp
    <3>1. \A u \in WebThreads : run'[u] = run[u]
      BY <1>8, <2>1 DEF Threads
    <3>2. Proc(t) = "mcp"
      BY <2>1 DEF Proc
    <3> QED
      BY <1>1, <1>2, <1>5, <1>6, <3>1, <3>2, FollowsStill
  <2>2. CASE t # Mcp
    <3>1. t \in WebThreads
      BY <2>2 DEF Threads
    <3> QED
      BY <1>8, <3>1 DEF MemoryFollows, About
  <2> QED
    BY <2>1, <2>2
<1>14. SoloSteps'
  <2>1. SUFFICES ASSUME hist.op[t].alone
                 PROVE  Alone(t)' /\ EditsMade(t)' /\ BucketFollows(t)' /\ SecretsKept(t)'
    BY <1>1, <1>3, <1>6, <1>7, OneAlone
  <2>2. Alone(t)'
    BY <1>1, <1>2, <1>3, <1>7, <1>8, AloneGoesOn
  <2>3. EditsMade(t)'
    BY <1>2, <1>3 DEF EditsMade
  <2>4. BucketFollows(t)'
    BY <1>7, <1>10 DEF BucketFollows, Files
  <2>5. SecretsKept(t)'
    <3>1. \A e : SecretKept(hist.op[t], e) => SecretKept(hist'.op[t], e)
      BY <1>7 DEF SecretKept
    <3>2. SecretsKept(t)
      BY <1>1 DEF SoloSteps
    <3> QED
      BY <1>7, <3>1, <3>2 DEF SecretsKept
  <2> QED
    BY <2>2, <2>3, <2>4, <2>5
<1> QED
  BY <1>10, <1>11, <1>12, <1>13, <1>14 DEF IInv

LEMMA SyncKeeps ==
    ASSUME IInv, NEW t \in Threads, NEW pull \in Pulls, Sync(t, pull) PROVE IInv'
<1> DEFINE h == Behind(hist, Proc(t), file')
<1>1. Shapes /\ Documents /\ StagesFit /\ MemoryFollows /\ SoloSteps /\ StageFits(t)
  BY DEF IInv, StagesFit
<1>2. /\ run[t].at = "sync"
      /\ file' = Pulled(pull.n).file /\ bucket' = Pulled(pull.n).bucket
      /\ IF pull.ok THEN Goto(t, "pull") /\ hist' = h
         ELSE End(t) /\ hist' = [Over(h, t) EXCEPT !.behind = @ \/ file' # file]
      /\ CountFailure(~pull.ok)
      /\ env' = env /\ bak' = bak /\ mem' = mem /\ ops' = ops /\ mcpOps' = mcpOps
  BY DEF Sync
<1>3. Busy(t) /\ env.s3 /\ run[t].edits = << >>
  BY <1>1, <1>2 DEF Busy, StageFits
<1>4. pull.n \in 0..2 /\ (~pull.ok) \in BOOLEAN
  BY DEF Pulls
<1>5. /\ h \in Hists /\ h.touched = hist.touched /\ h.spoilt = hist.spoilt
      /\ h.behind = (hist.behind \/ (Proc(t) = "mcp" /\ file' # file))
      /\ h.op = hist.op
  BY <1>1, BehindHistory DEF Shapes
<1> HIDE DEF h
<1>6. CASE pull.ok
  <2>1. Goto(t, "pull") /\ hist' = h
    BY <1>2, <1>6
  <2>2. /\ run'[t].at = "pull" /\ run'[t].edits = run[t].edits
        /\ \A u \in Threads \ {t} : run'[u] = run[u]
        /\ run' \in [Threads -> Places]
    BY <1>1, <2>1, GotoRun DEF Stages
  <2>3. Grows
    BY <1>2, <1>5, <2>1 DEF Grows
  <2>4. Documents' /\ file' \in [Files -> AnyDoc] /\ bucket' \in [Files -> AnyDoc]
    BY <1>1, <1>2, <1>3, <1>4, <2>3, PullMoves
  <2>5. Shapes'
    BY <1>1, <1>2, <1>4, <1>5, <2>1, <2>2, <2>4, CountersStay DEF Shapes, Places
  <2>6. StagesFit'
    <3>1. ASSUME NEW u \in Threads \ {t} PROVE StageFits(u)'
      BY <1>1, <2>2, <2>3, StageStays DEF StagesFit
    <3>2. StageFits(t)'
      BY <1>1, <1>2, <1>3, <2>2 DEF StageFits
    <3> QED
      BY <3>1, <3>2 DEF StagesFit
  <2>7. MemoryFollows'
    <3>1. CASE t = Mcp
      <4>1. \A u \in WebThreads : run'[u] = run[u]
        BY <2>2, <3>1 DEF Threads
      <4>2. Proc(t) = "mcp"
        BY <3>1 DEF Proc
      <4> QED
        BY <1>1, <1>2, <1>5, <2>1, <4>1, <4>2, FollowsStill
    <3>2. CASE t # Mcp
      <4>1. t \in WebThreads
        BY <3>2 DEF Threads
      <4> QED
        BY <2>2, <4>1 DEF MemoryFollows, About
    <3> QED
      BY <3>1, <3>2
  <2>8. SoloSteps'
    <3>1. SUFFICES ASSUME hist.op[t].alone
                   PROVE  Alone(t)' /\ EditsMade(t)' /\ BucketFollows(t)' /\ SecretsKept(t)'
      BY <1>1, <1>3, <1>5, <2>1, OneAlone
    <3>2. Alone(t)'
      BY <1>1, <1>2, <1>3, <1>5, <2>1, <2>2, AloneGoesOn
    <3>3. EditsMade(t)'
      BY <1>2, <1>3 DEF EditsMade
    <3>4. BucketFollows(t)'
      <4>1. << >> # <<Save("settings")>>
        OBVIOUS
      <4> QED
        BY <1>3, <2>2, <4>1 DEF BucketFollows
    <3>5. SecretsKept(t)'
      BY <1>1, <1>5, <2>1 DEF SoloSteps, SecretsKept
    <3> QED
      BY <3>2, <3>3, <3>4, <3>5
  <2> QED
    BY <2>4, <2>5, <2>6, <2>7, <2>8 DEF IInv
<1>7. CASE ~pull.ok
  <2> DEFINE over == Over(h, t)
  <2>1. End(t) /\ hist' = [over EXCEPT !.behind = @ \/ file' # file]
    BY <1>2, <1>7
  <2>2. /\ run'[t] = Idle /\ \A u \in Threads \ {t} : run'[u] = run[u]
        /\ run' \in [Threads -> Places]
    BY <1>1, <2>1, EndRun
  <2>3. /\ over \in Hists /\ over.touched = h.touched /\ over.spoilt = h.spoilt
        /\ over.behind = h.behind
        /\ over.op[t] = NoOperation /\ \A u \in Threads \ {t} : over.op[u] = h.op[u]
    BY <1>5, OverHistory
  <2> HIDE DEF over
  <2>4. /\ hist' \in Hists /\ hist'.touched = hist.touched
        /\ hist'.spoilt = hist.spoilt
        /\ hist'.behind = (h.behind \/ file' # file)
        /\ hist'.op[t] = NoOperation
        /\ \A u \in Threads \ {t} : hist'.op[u] = hist.op[u]
    <3>1. (over.behind \/ file' # file) \in BOOLEAN
      OBVIOUS
    <3> QED
      BY <1>5, <2>1, <2>3, <3>1 DEF Hists
  <2>5. Grows
    BY <1>2, <2>4 DEF Grows
  <2>6. Documents' /\ file' \in [Files -> AnyDoc] /\ bucket' \in [Files -> AnyDoc]
    BY <1>1, <1>2, <1>3, <1>4, <2>5, PullMoves
  <2>7. Shapes'
    BY <1>1, <1>2, <1>4, <2>2, <2>4, <2>6, CountersStay DEF Shapes, Places
  <2>8. MemoryFollows'
    <3>1. \A u \in WebThreads :
            run[u].at \in {"pull", "settings", "users"} => run'[u].at = run[u].at
      BY <1>2, <2>2 DEF Threads
    <3> QED
      BY <1>1, <1>2, <1>5, <2>4, <3>1, FollowsStill
  <2> QED
    BY <1>3, <2>2, <2>4, <2>5, <2>6, <2>7, <2>8, EndKeeps
<1> QED
  BY <1>6, <1>7

-----------------------------------------------------------------------------
(***************************************************************************)
(* Loading.                                                                *)
(***************************************************************************)
\* Process p has replaced what it holds of one file.
Holding(p, f, m) == mem' = [mem EXCEPT ![p][f] = m]

LEMMA MemoryMoves ==
    ASSUME Shapes, Documents, NEW p \in Procs, NEW f \in Files, NEW m, Up(p),
           MemGood(m, f, env, hist), p = "web" => Loadable(m), Holding(p, f, m)
    PROVE  /\ mem' \in [Procs -> [Files -> AnyDoc]]
           /\ mem'[p][f] = m
           /\ \A q \in Procs, g \in Files : (q # p \/ g # f) => mem'[q][g] = mem[q][g]
           /\ \A g \in Files : /\ \A q \in Procs : Up(q)' => MemGood(mem'[q][g], g, env, hist)
                               /\ Loadable(mem'["web"][g])
           /\ \A q \in Procs \ {p} : mem'[q] = mem[q]
           /\ Up("web")' => Up("web")
<1>1. m \in AnyDoc
  BY GoodIsDocument
<1>2. mem \in [Procs -> [Files -> AnyDoc]] /\ "web" \in Procs
  BY DEF Shapes, Procs
<1>3. /\ mem' \in [Procs -> [Files -> AnyDoc]] /\ mem'[p][f] = m
      /\ \A q \in Procs, g \in Files : (q # p \/ g # f) => mem'[q][g] = mem[q][g]
      /\ \A q \in Procs \ {p} : mem'[q] = mem[q]
  BY <1>1, <1>2 DEF Holding
<1>4. \A q \in Procs : Up(q)' => Up(q)
  BY <1>3 DEF Up
<1>5. ASSUME NEW g \in Files
      PROVE  /\ \A q \in Procs : Up(q)' => MemGood(mem'[q][g], g, env, hist)
             /\ Loadable(mem'["web"][g])
  <2>1. \A q \in Procs : mem'[q][g] = mem[q][g] \/ (q = p /\ g = f /\ mem'[q][g] = m)
    BY <1>3
  <2> QED
    BY <1>2, <1>4, <2>1 DEF Documents
<1> QED
  BY <1>2, <1>3, <1>4, <1>5

LEMMA LoadSettingsKeeps ==
    ASSUME IInv, Running, NEW t \in Threads, LoadSettings(t) PROVE IInv'
<1> DEFINE m == SettingsFrom(file["settings"])
<1>1. Shapes /\ Documents /\ StagesFit /\ MemoryFollows /\ SoloSteps /\ StageFits(t)
  BY DEF IInv, StagesFit
<1>2. /\ run[t].at = "settings" /\ Goto(t, "users")
      /\ mem' = [mem EXCEPT ![Proc(t)]["settings"] = m]
      /\ hist' = [hist EXCEPT !.behind = @ /\ t = Mcp]
      /\ env' = env /\ file' = file /\ bak' = bak /\ bucket' = bucket
      /\ ops' = ops /\ mcpOps' = mcpOps /\ failures' = failures
      /\ Loadable(file["settings"])
  BY DEF LoadSettings
<1>3. Busy(t) /\ (t = Mcp => run[t].edits = << >>) /\ Up(Proc(t))
  BY <1>1, <1>2 DEF Busy, StageFits, Running
<1>4. /\ Proc(t) \in Procs /\ (t = Mcp => Proc(t) = "mcp") /\ (t # Mcp => Proc(t) = "web")
      /\ "web" \in Procs /\ "settings" \in Files /\ "users" \in Files
  BY DEF Proc, Procs, Files
<1>5. MemGood(m, "settings", env, hist) /\ Loadable(m)
  <2>1. file["settings"] # NoDoc => IsDocument(file["settings"], "settings")
    BY <1>1, <1>4 DEF Documents, Good
  <2> QED
    BY <1>2, <2>1, SettingsLoad DEF MemGood
<1> HIDE DEF m
<1>6. /\ mem' \in [Procs -> [Files -> AnyDoc]] /\ mem'[Proc(t)]["settings"] = m
      /\ \A g \in Files :
           /\ \A q \in Procs : Up(q)' => MemGood(mem'[q][g], g, env, hist)
           /\ Loadable(mem'["web"][g])
      /\ \A q \in Procs, g \in Files :
           (q # Proc(t) \/ g # "settings") => mem'[q][g] = mem[q][g]
      /\ \A q \in Procs \ {Proc(t)} : mem'[q] = mem[q]
      /\ Up("web")' => Up("web")
  <2>1. Holding(Proc(t), "settings", m)
    BY <1>2 DEF Holding
  <2> QED
    BY <1>1, <1>3, <1>4, <1>5, <2>1, MemoryMoves
<1>7. /\ hist' \in Hists /\ hist'.touched = hist.touched
      /\ hist'.spoilt = hist.spoilt /\ hist'.op = hist.op
      /\ hist'.behind = (hist.behind /\ t = Mcp)
  <2>1. (hist.behind /\ t = Mcp) \in BOOLEAN
    OBVIOUS
  <2> QED
    BY <1>1, <1>2, <2>1 DEF Shapes, Hists
<1>8. /\ run'[t].at = "users" /\ run'[t].edits = run[t].edits
      /\ \A u \in Threads \ {t} : run'[u] = run[u]
      /\ run' \in [Threads -> Places]
  BY <1>1, <1>2, GotoRun DEF Stages
<1>9. Grows
  BY <1>2, <1>7 DEF Grows
<1>10. Shapes'
  BY <1>1, <1>2, <1>6, <1>7, <1>8 DEF Shapes, Places
<1>11. Documents'
  <2>1. \A g \in Files : /\ \A q \in Procs : Up(q)' => MemGood(mem'[q][g], g, env, hist')
                         /\ Loadable(mem'["web"][g])
    BY <1>6, <1>7, MemGoodStaysGood
  <2>2. mem'["web"]["users"] = mem["web"]["users"]
    BY <1>4, <1>6
  <2>3. Up("web")' /\ file'["users"] = NoDoc
          => mem'["web"]["users"]["default_user"] = Admin
    BY <1>1, <1>2, <1>6, <2>2 DEF Documents
  <2> QED
    BY <1>1, <1>2, <1>9, <2>1, <2>3, DocumentsMove
<1>12. StagesFit'
  <2>1. ASSUME NEW u \in Threads \ {t} PROVE StageFits(u)'
    BY <1>1, <1>8, <1>9, StageStays DEF StagesFit
  <2>2. StageFits(t)'
    BY <1>1, <1>2, <1>3, <1>7, <1>8 DEF StageFits
  <2> QED
    BY <2>1, <2>2 DEF StagesFit
<1>13. MemoryFollows'
  <2>1. CASE t = Mcp
    <3>1. \A u \in WebThreads : run'[u] = run[u]
      BY <1>8, <2>1 DEF Threads
    <3>2. mem'["web"] = mem["web"]
      BY <1>4, <1>6, <2>1
    <3> QED
      BY <1>1, <1>2, <1>7, <2>1, <3>1, <3>2, FollowsStill
  <2>2. CASE t # Mcp
    <3>1. t \in WebThreads
      BY <2>2 DEF Threads
    <3>2. HoldsSettings'
      BY <1>2, <1>4, <1>6, <2>2 DEF HoldsSettings, m
    <3> QED
      BY <1>8, <3>1, <3>2 DEF MemoryFollows, About
  <2> QED
    BY <2>1, <2>2
<1>14. SoloSteps'
  <2>1. SUFFICES ASSUME hist.op[t].alone
                 PROVE  Alone(t)' /\ EditsMade(t)' /\ BucketFollows(t)' /\ SecretsKept(t)'
    BY <1>1, <1>3, <1>7, OneAlone
  <2>2. Alone(t)' /\ Done(t)' = Done(t)
    BY <1>1, <1>2, <1>3, <1>7, <1>8, AloneGoesOn
  <2>3. EditsMade(t)'
    <3>1. Made(t)' = Made(t) /\ EditsMade(t)
      BY <1>1, <1>7 DEF SoloSteps, Made
    <3> QED
      BY <1>2, <1>7, <1>8, <2>2, <3>1 DEF EditsMade
  <2>4. BucketFollows(t)'
    <3>1. BucketFollows(t)
      BY <1>1 DEF SoloSteps
    <3> QED
      BY <1>2, <1>7, <1>8, <3>1 DEF BucketFollows
  <2>5. SecretsKept(t)'
    BY <1>1, <1>7 DEF SoloSteps, SecretsKept
  <2> QED
    BY <2>2, <2>3, <2>4, <2>5
<1> QED
  BY <1>10, <1>11, <1>12, <1>13, <1>14 DEF IInv

\* The web process holds the users of the file once it has loaded them, whatever it
\* held before.
LEMMA UsersAreHeld ==
    ASSUME Documents, mem'["web"]["users"] = UsersFrom(file["users"], mem["web"]["users"]),
           file' = file, Up("web")
    PROVE  /\ HoldsUsers'
           /\ file["users"] = NoDoc => mem'["web"]["users"]["default_user"] = Admin
<1> DEFINE d == file["users"]
           old == mem["web"]["users"]
           fallback == Only("default_user", Admin)
<1>1. /\ IsMemory(old, "users") /\ "default_user" \in DOMAIN old
      /\ d # NoDoc => IsDocument(d, "users")
      /\ d = NoDoc => old["default_user"] = Admin
  BY DEF Documents, Good, MemGood, Files, Procs
<1>2. /\ IsMemory(fallback, "users") /\ DOMAIN fallback = {"default_user"}
      /\ fallback["default_user"] = Admin
  BY FallbackUser
<1> HIDE DEF d, old, fallback
<1> DEFINE new == UsersFrom(d, old)
           fresh == UsersFrom(d, fallback)
<1>3. mem'["web"]["users"] = new /\ file'["users"] = d
  BY DEF d, old
<1>4. CASE d = NoDoc
  <2>1. /\ DOMAIN new = {Admin, "default_user"} /\ new[Admin] = Builtin
        /\ new["default_user"] = old["default_user"]
    BY <1>1, <1>4, UsersLoad
  <2>2. /\ DOMAIN fresh = {Admin, "default_user"} /\ fresh[Admin] = Builtin
        /\ fresh["default_user"] = fallback["default_user"]
    BY <1>2, <1>4, UsersLoad
  <2> HIDE DEF new, fresh
  <2>3. DOMAIN fresh \subseteq DOMAIN new /\ \A k \in DOMAIN fresh : new[k] = fresh[k]
    BY <1>1, <1>2, <1>4, <2>1, <2>2
  <2>4. new["default_user"] = Admin
    BY <1>1, <1>4, <2>1
  <2> QED
    BY <1>3, <2>3, <2>4 DEF HoldsUsers, fresh, fallback
<1>5. CASE d # NoDoc
  <2>1. /\ DOMAIN new = (DOMAIN d \cap Managed("users")) \cup {"default_user"} \cup DOMAIN old
        /\ \A k \in DOMAIN d \cap Managed("users") : new[k] = d[k]
        /\ "default_user" \notin DOMAIN d => new["default_user"] = Admin
    BY <1>1, <1>5, UsersLoad
  <2>2. /\ DOMAIN fresh
             = (DOMAIN d \cap Managed("users")) \cup {"default_user"} \cup DOMAIN fallback
        /\ \A k \in DOMAIN d \cap Managed("users") : fresh[k] = d[k]
        /\ "default_user" \notin DOMAIN d => fresh["default_user"] = Admin
    BY <1>1, <1>2, <1>5, UsersLoad
  <2>3. "default_user" \in Managed("users")
    BY DEF Managed
  <2> HIDE DEF new, fresh
  <2>4. DOMAIN fresh \subseteq DOMAIN new /\ \A k \in DOMAIN fresh : new[k] = fresh[k]
    BY <1>2, <2>1, <2>2, <2>3
  <2>5. file["users"] # NoDoc
    BY <1>5 DEF d
  <2> QED
    BY <1>3, <2>4, <2>5 DEF HoldsUsers, fresh, fallback
<1> QED
  BY <1>4, <1>5

LEMMA LoadUsersKeeps ==
    ASSUME IInv, Running, NEW t \in Threads, LoadUsers(t) PROVE IInv'
<1> DEFINE m == UsersFrom(file["users"], mem[Proc(t)]["users"])
<1>0. /\ Proc(t) \in Procs /\ (t = Mcp => Proc(t) = "mcp") /\ (t # Mcp => Proc(t) = "web")
      /\ "web" \in Procs /\ "users" \in Files /\ "settings" \in Files
  BY DEF Proc, Procs, Files
<1>1. Shapes /\ Documents /\ StagesFit /\ MemoryFollows /\ SoloSteps /\ StageFits(t)
  BY DEF IInv, StagesFit
<1>2. /\ run[t].at = "users" /\ Onward(t, hist)
      /\ mem' = [mem EXCEPT ![Proc(t)]["users"] = m]
      /\ env' = env /\ file' = file /\ bak' = bak /\ bucket' = bucket
      /\ ops' = ops /\ mcpOps' = mcpOps /\ failures' = failures
  <2>1. mem' = [mem EXCEPT ![Proc(t)]["users"] = UsersFrom(file["users"], @)]
    BY DEF LoadUsers
  <2>2. mem \in [Procs -> [Files -> AnyDoc]]
    BY <1>1 DEF Shapes
  <2>3. mem' = [mem EXCEPT ![Proc(t)]["users"] = m]
    BY <1>0, <2>1, <2>2
  <2> QED
    BY <2>3 DEF LoadUsers
<1>3. /\ Busy(t) /\ (t = Mcp => run[t].edits = << >>) /\ hist \in Hists
      /\ Up(Proc(t)) /\ Loadable(file["users"])
  BY <1>1, <1>2 DEF Busy, StageFits, Shapes, Running, LoadUsers
<1>4. MemGood(m, "users", env, hist) /\ (Proc(t) = "web" => Loadable(m))
  <2>1. /\ MemGood(mem[Proc(t)]["users"], "users", env, hist)
        /\ Loadable(mem["web"]["users"])
        /\ file["users"] # NoDoc => Good(file["users"], "users", env, hist)
        /\ env.files => file["users"] # NoDoc
    BY <1>0, <1>1, <1>3 DEF Documents
  <2>2. /\ IsMemory(mem[Proc(t)]["users"], "users")
        /\ "default_user" \in DOMAIN mem[Proc(t)]["users"]
        /\ ~hist.spoilt => Loadable(mem[Proc(t)]["users"])
        /\ file["users"] # NoDoc => IsDocument(file["users"], "users")
    BY <2>1 DEF MemGood, Good
  <2>3. MemGood(m, "users", env, hist)
    BY <2>1, <2>2, UsersLoadWell
  <2>4. Proc(t) = "web" => Loadable(m)
    BY <1>3, <2>1, <2>2, UsersLoad
  <2> QED
    BY <2>3, <2>4
<1>5. t # Mcp => m = UsersFrom(file["users"], mem["web"]["users"])
  BY <1>0
<1> HIDE DEF m
<1>6. /\ mem' \in [Procs -> [Files -> AnyDoc]] /\ mem'[Proc(t)]["users"] = m
      /\ \A g \in Files :
           /\ \A q \in Procs : Up(q)' => MemGood(mem'[q][g], g, env, hist)
           /\ Loadable(mem'["web"][g])
      /\ \A q \in Procs, g \in Files :
           (q # Proc(t) \/ g # "users") => mem'[q][g] = mem[q][g]
      /\ \A q \in Procs \ {Proc(t)} : mem'[q] = mem[q]
      /\ Up("web")' => Up("web")
  <2>1. Holding(Proc(t), "users", m)
    BY <1>2 DEF Holding
  <2> QED
    BY <1>0, <1>1, <1>3, <1>4, <2>1, MemoryMoves
<1>7. /\ \A u \in Threads \ {t} : run'[u] = run[u]
      /\ run' \in [Threads -> Places]
  BY <1>1, <1>2, <1>3, OnwardRun
<1>8. /\ hist' \in Hists /\ hist'.touched = hist.touched
      /\ hist'.spoilt = hist.spoilt /\ hist'.behind = hist.behind
  BY <1>1, <1>2, <1>3, OnwardHistory
<1>9. Grows
  BY <1>2, <1>8 DEF Grows
<1>10. Shapes'
  BY <1>1, <1>2, <1>6, <1>7, <1>8 DEF Shapes, Places
<1>11. ASSUME t # Mcp
       PROVE  /\ HoldsUsers'
              /\ file["users"] = NoDoc => mem'["web"]["users"]["default_user"] = Admin
  <2>1. mem'["web"]["users"] = UsersFrom(file["users"], mem["web"]["users"])
    BY <1>0, <1>5, <1>6, <1>11
  <2> QED
    BY <1>0, <1>1, <1>2, <1>3, <1>11, <2>1, UsersAreHeld
<1>12. Documents'
  <2>1. \A g \in Files : /\ \A q \in Procs : Up(q)' => MemGood(mem'[q][g], g, env, hist')
                         /\ Loadable(mem'["web"][g])
    BY <1>6, <1>8, MemGoodStaysGood
  <2>2. Up("web")' /\ file'["users"] = NoDoc
          => mem'["web"]["users"]["default_user"] = Admin
    <3>1. t = Mcp => mem'["web"] = mem["web"]
      BY <1>0, <1>6
    <3> QED
      BY <1>1, <1>2, <1>6, <1>11, <3>1 DEF Documents
  <2> QED
    BY <1>1, <1>2, <1>9, <2>1, <2>2, DocumentsMove
<1>13. MemoryFollows'
  <2>1. CASE t = Mcp
    <3>1. \A u \in WebThreads : run'[u] = run[u]
      BY <1>7, <2>1 DEF Threads
    <3>2. mem'["web"] = mem["web"]
      BY <1>0, <1>6, <2>1
    <3> QED
      BY <1>1, <1>2, <1>8, <2>1, <3>1, <3>2, FollowsStill
  <2>2. CASE t # Mcp
    <3>1. mem'["web"]["settings"] = mem["web"]["settings"]
      BY <1>0, <1>6
    <3>2. HoldsSettings => HoldsSettings'
      BY <1>2, <3>1 DEF HoldsSettings
    <3>3. About({"pull", "settings"}) => About({"pull", "settings"})'
      <4>1. SUFFICES ASSUME NEW w \in WebThreads, run[w].at \in {"pull", "settings"}
                     PROVE  run'[w].at \in {"pull", "settings"}
        BY DEF About
      <4>2. w \in Threads \ {t}
        BY <1>2, <4>1 DEF Threads
      <4> QED
        BY <1>7, <4>1, <4>2
    <3> QED
      BY <1>1, <1>2, <1>6, <1>8, <1>11, <2>2, <3>2, <3>3 DEF MemoryFollows
  <2> QED
    BY <2>1, <2>2
<1>14. ASSUME hist.op[t].alone, ~env.s3, run[t].edits # << >>
       PROVE  file' = Made(t)[Done(t) + 1]
  BY <1>1, <1>2, <1>14 DEF SoloSteps, EditsMade
<1>15. << >> # SaveEdits
  BY DEF SaveEdits
<1> QED
  BY <1>2, <1>3, <1>9, <1>10, <1>12, <1>13, <1>14, <1>15, OnwardKeeps

\* A file that does not load ends the operation, and leaves nothing to follow.
LEMMA FailLoadSettingsKeeps ==
    ASSUME IInv, NEW t \in Threads, FailLoadSettings(t) PROVE IInv'
<1>1. Shapes /\ Documents /\ MemoryFollows
  BY DEF IInv
<1>2. /\ run[t].at = "settings" /\ ~Loadable(file["settings"])
      /\ End(t) /\ hist' = Over(hist, t)
      /\ env' = env /\ file' = file /\ bak' = bak /\ bucket' = bucket /\ mem' = mem
      /\ ops' = ops /\ mcpOps' = mcpOps /\ failures' = failures
  BY DEF FailLoadSettings
<1>3. /\ run'[t] = Idle /\ \A u \in Threads \ {t} : run'[u] = run[u]
      /\ run' \in [Threads -> Places]
  BY <1>1, <1>2, EndRun
<1>4. /\ hist' \in Hists /\ hist'.touched = hist.touched
      /\ hist'.spoilt = hist.spoilt
      /\ hist'.op[t] = NoOperation /\ \A u \in Threads \ {t} : hist'.op[u] = hist.op[u]
  BY <1>1, <1>2, OverHistory DEF Shapes
<1>5. Grows /\ Busy(t)
  BY <1>2, <1>4 DEF Grows, Busy
<1>6. Shapes'
  BY <1>1, <1>2, <1>3, <1>4 DEF Shapes, Places
<1>7. Documents'
  BY <1>1, <1>2, <1>5, FilesMove
<1>8. MemoryFollows'
  BY <1>2 DEF MemoryFollows
<1> QED
  BY <1>3, <1>4, <1>5, <1>6, <1>7, <1>8, EndKeeps

LEMMA FailLoadUsersKeeps ==
    ASSUME IInv, Running, NEW t \in Threads, FailLoadUsers(t) PROVE IInv'
<1>0. /\ Proc(t) \in Procs /\ "web" \in Procs /\ "users" \in Files /\ "settings" \in Files
  BY DEF Proc, Procs, Files
<1>1. Shapes /\ Documents /\ MemoryFollows
  BY DEF IInv
<1> DEFINE old == mem[Proc(t)]["users"]
<1>2. PICK part \in SUBSET GoodUsers(file["users"]) :
        mem' = [mem EXCEPT ![Proc(t)]["users"] = UsersAbove(file["users"], part, old)]
  BY <1>0, <1>1 DEF FailLoadUsers, Shapes
<1> DEFINE m == UsersAbove(file["users"], part, old)
<1>3. /\ run[t].at = "users" /\ ~Loadable(file["users"])
      /\ End(t) /\ hist' = Over(hist, t)
      /\ env' = env /\ file' = file /\ bak' = bak /\ bucket' = bucket
      /\ ops' = ops /\ mcpOps' = mcpOps /\ failures' = failures
  BY DEF FailLoadUsers
<1>4. Busy(t) /\ Up(Proc(t))
  BY <1>3 DEF Busy, Running
<1>5. /\ MemGood(old, "users", env, hist) /\ Loadable(mem["web"]["users"])
      /\ file["users"] # NoDoc /\ Good(file["users"], "users", env, hist)
  BY <1>0, <1>1, <1>3, <1>4 DEF Documents, Loadable
<1>6. MemGood(m, "users", env, hist) /\ (Proc(t) = "web" => Loadable(m))
  <2>1. /\ IsMemory(old, "users") /\ "default_user" \in DOMAIN old
        /\ IsDocument(file["users"], "users") /\ hist.spoilt
    BY <1>3, <1>5 DEF MemGood, Good
  <2>2. /\ IsMemory(m, "users") /\ "default_user" \in DOMAIN m
        /\ Loadable(old) => Loadable(m)
    BY <2>1, UsersAboveWell
  <2> HIDE DEF m
  <2> QED
    BY <1>5, <2>1, <2>2 DEF MemGood
<1>7. Holding(Proc(t), "users", m)
  BY <1>2 DEF Holding
<1> HIDE DEF m, old
<1>8. /\ mem' \in [Procs -> [Files -> AnyDoc]]
      /\ \A q \in Procs, g \in Files :
           (q # Proc(t) \/ g # "users") => mem'[q][g] = mem[q][g]
      /\ \A g \in Files : /\ \A q \in Procs : Up(q)' => MemGood(mem'[q][g], g, env, hist)
                          /\ Loadable(mem'["web"][g])
      /\ Up("web")' => Up("web")
  BY <1>0, <1>1, <1>4, <1>6, <1>7, MemoryMoves
<1>9. /\ run'[t] = Idle /\ \A u \in Threads \ {t} : run'[u] = run[u]
      /\ run' \in [Threads -> Places]
  BY <1>1, <1>3, EndRun
<1>10. /\ hist' \in Hists /\ hist'.touched = hist.touched
       /\ hist'.spoilt = hist.spoilt /\ hist'.behind = hist.behind
       /\ hist'.op[t] = NoOperation /\ \A u \in Threads \ {t} : hist'.op[u] = hist.op[u]
  BY <1>1, <1>3, OverHistory DEF Shapes
<1>11. Grows
  BY <1>3, <1>10 DEF Grows
<1>12. Shapes'
  BY <1>1, <1>3, <1>8, <1>9, <1>10 DEF Shapes, Places
<1>13. Documents'
  <2>1. \A g \in Files : /\ \A q \in Procs : Up(q)' => MemGood(mem'[q][g], g, env, hist')
                         /\ Loadable(mem'["web"][g])
    BY <1>8, <1>10, MemGoodStaysGood
  <2> QED
    BY <1>1, <1>3, <1>5, <1>11, <2>1, DocumentsMove
<1>14. MemoryFollows'
  <2>1. HoldsSettings => HoldsSettings'
    <3>1. mem'["web"]["settings"] = mem["web"]["settings"]
      BY <1>0, <1>8
    <3> QED
      BY <1>3, <3>1 DEF HoldsSettings
  <2>2. About({"pull", "settings"}) => About({"pull", "settings"})'
    <3>1. SUFFICES ASSUME NEW w \in WebThreads, run[w].at \in {"pull", "settings"}
                   PROVE  run'[w].at \in {"pull", "settings"}
      BY DEF About
    <3>2. w \in Threads \ {t}
      BY <1>3, <3>1 DEF Threads
    <3> QED
      BY <1>9, <3>1, <3>2
  <2> QED
    BY <1>1, <1>3, <1>8, <1>10, <2>1, <2>2 DEF MemoryFollows
<1> QED
  BY <1>4, <1>9, <1>10, <1>11, <1>12, <1>13, <1>14, EndKeeps

-----------------------------------------------------------------------------
(***************************************************************************)
(* The invariant holds.                                                    *)
(***************************************************************************)
\* The documents a system is deployed with.
LEMMA FirstIsGood ==
    ASSUME NEW f \in Files, NEW h, h.touched = {}
    PROVE  Good(First(f), f, env, h) /\ Loadable(First(f))
<1>0. 0 \in Loaded /\ 0 # Bad /\ Placeholder # Bad
  BY ValuesAssumption DEF Held, Loaded
<1>1. CASE f = "users"
  <2> DEFINE under == [k \in Users \cup {"custom"} |-> 0]
  <2>1. /\ under \in [DOMAIN under -> Held] /\ DOMAIN under = Users \cup {"custom"}
        /\ \A k \in DOMAIN under : under[k] = 0
    BY DEF Held, Loaded
  <2>2. Admin \in Held /\ Admin \in Users
    BY FallbackAssumption DEF Held, Loaded
  <2>3. First(f) = With(under, "default_user", Admin)
    BY <1>1 DEF First, FirstUsers
  <2> HIDE DEF under
  <2> DEFINE d == With(under, "default_user", Admin)
  <2>4. /\ DOMAIN d = Users \cup {"custom", "default_user"} /\ d["default_user"] = Admin
        /\ d \in [DOMAIN d -> Held]
        /\ \A k \in DOMAIN d \ {"default_user"} : d[k] = 0
    BY <2>1, <2>2 DEF With, Only, ++
  <2> HIDE DEF d
  <2>5. IsDocument(d, f) /\ DefaultKnown(d)
    BY <1>1, <2>2, <2>4 DEF IsDocument, Values, Keys, Managed, DefaultKnown
  <2>6. First(f) = d
    BY <2>3 DEF d
  <2>7. Keeps(d, f, h)
    BY <2>6 DEF Keeps
  <2>8. Loadable(d)
    BY <1>0, <2>4 DEF Loadable
  <2> QED
    BY <2>5, <2>6, <2>7, <2>8 DEF Good
<1>2. CASE f = "settings"
  <2> DEFINE under == [k \in {"oauth", "custom"} |-> 0]
  <2>1. /\ under \in [DOMAIN under -> Value] /\ DOMAIN under = {"oauth", "custom"}
        /\ \A k \in DOMAIN under : under[k] = 0
    BY DEF Held, Loaded, Value
  <2>2. Placeholder \in Value /\ DemoClient \in Clients
    BY FallbackAssumption DEF Value
  <2>3. First(f) = With(under, DemoClient, Placeholder)
    BY <1>2 DEF First, FirstSettings
  <2> HIDE DEF under
  <2> DEFINE d == With(under, DemoClient, Placeholder)
  <2>4. /\ DOMAIN d = {"oauth", "custom", DemoClient} /\ d \in [DOMAIN d -> Value]
        /\ \A k \in DOMAIN d : d[k] \in {0, Placeholder}
    BY <2>1, <2>2 DEF With, Only, ++
  <2> HIDE DEF d
  <2>5. IsDocument(d, f)
    BY <1>2, <2>2, <2>4 DEF IsDocument, Values, Keys, Managed, Sections
  <2>6. First(f) = d
    BY <2>3 DEF d
  <2>7. Keeps(d, f, h)
    BY <2>6 DEF Keeps
  <2>8. Loadable(d)
    BY <1>0, <2>4 DEF Loadable
  <2> QED
    BY <1>2, <2>5, <2>6, <2>7, <2>8 DEF Good
<1> QED
  BY <1>1, <1>2 DEF Files

LEMMA InitHolds == Init => IInv /\ Running
<1> SUFFICES ASSUME Init PROVE IInv /\ Running
  OBVIOUS
<1> DEFINE none == [f \in Files |-> NoDoc]
<1>1. /\ env \in Deployments
      /\ file = [f \in Files |-> IF env.files THEN First(f) ELSE NoDoc]
      /\ bak = none /\ bucket \in {file, none} /\ (env.s3 \/ bucket = none)
      /\ mem = [p \in Procs |-> Started(p, file)]
      /\ run = [t \in Threads |-> Idle]
      /\ ops = 0 /\ mcpOps = 0 /\ failures = 0
      /\ hist = [op |-> [t \in Threads |-> NoOperation], touched |-> {},
                 spoilt |-> FALSE, behind |-> env.profile]
  BY DEF Init
<1>2. env.profile \in BOOLEAN /\ env.ops \in Nat
  BY <1>1, DeploymentsAssumption
<1>3. /\ hist \in Hists /\ hist.touched = {} /\ hist.behind = env.profile
      /\ \A t \in Threads : hist.op[t] = NoOperation
  <2>1. [t \in Threads |-> NoOperation] \in [Threads -> Solos]
    BY NothingAlone
  <2> QED
    BY <1>1, <1>2, <2>1 DEF Hists
<1>4. \A f \in Files : /\ Good(First(f), f, env, hist) /\ Loadable(First(f))
                       /\ First(f) \in AnyDoc /\ First(f) # NoDoc
  BY <1>3, FirstIsGood, GoodIsDocument
<1>5. /\ \A f \in Files : file[f] = (IF env.files THEN First(f) ELSE NoDoc)
      /\ file \in [Files -> AnyDoc] /\ none \in [Files -> AnyDoc]
      /\ \A f \in Files : none[f] = NoDoc
  <2>1. NoDoc \in AnyDoc
    BY DEF AnyDoc
  <2>2. \A f \in Files : (IF env.files THEN First(f) ELSE NoDoc) \in AnyDoc
    BY <1>4, <2>1
  <2> QED
    BY <1>1, <2>1, <2>2
<1>6. \A f \in Files : /\ file[f] # NoDoc => Good(file[f], f, env, hist)
                       /\ Loadable(file[f])
                       /\ env.files => file[f] # NoDoc
  BY <1>4, <1>5 DEF Loadable
<1>7. ASSUME NEW p \in Procs
      PROVE  /\ mem[p] \in [Files -> AnyDoc] /\ mem[p] = Started(p, file)
             /\ \A f \in Files : MemGood(mem[p][f], f, env, hist) /\ Loadable(mem[p][f])
             /\ Up(p)
  <2>1. mem[p] = Started(p, file)
    BY <1>1
  <2>2. "users" \in Files
    BY DEF Files
  <2>3. /\ Started(p, file) = [f \in Files |-> Started(p, file)[f]]
        /\ \A f \in Files : /\ MemGood(Started(p, file)[f], f, env, hist)
                            /\ Loadable(Started(p, file)[f])
    BY <1>6, <2>2, StartedWell
  <2>4. \A f \in Files : Started(p, file)[f] \in AnyDoc
    BY <2>3, GoodIsDocument
  <2>5. Up(p)
    BY <2>1, <2>2, <2>3 DEF Up, MemGood
  <2> QED
    BY <2>1, <2>3, <2>4, <2>5
<1> HIDE DEF none
<1>8. run \in [Threads -> Places] /\ \A t \in Threads : run[t] = Idle
  BY <1>1, IdlePlace
<1>9. Shapes
  <2>1. mem \in [Procs -> [Files -> AnyDoc]]
    <3>1. \A p \in Procs : Started(p, file) \in [Files -> AnyDoc]
      BY <1>7
    <3> QED
      BY <1>1, <3>1
  <2>2. bak \in [Files -> AnyDoc] /\ bucket \in [Files -> AnyDoc]
    BY <1>1, <1>5
  <2> QED
    BY <1>1, <1>2, <1>3, <1>5, <1>8, <2>1, <2>2 DEF Shapes, Places
<1>10. Documents
  <2>1. \A f \in Files :
          /\ bak[f] = NoDoc
          /\ bucket[f] # NoDoc => bucket[f] = file[f] /\ env.s3
    BY <1>1, <1>5
  <2>2. ASSUME file["users"] = NoDoc PROVE mem["web"]["users"]["default_user"] = Admin
    <3> DEFINE m == Only("default_user", Admin)
    <3>1. IsMemory(m, "users") /\ "default_user" \in DOMAIN m /\ m["default_user"] = Admin
      BY FallbackUser
    <3>2. mem["web"]["users"] = UsersFrom(NoDoc, m)
      BY <1>7, <2>2, StartedHolds DEF Procs
    <3> HIDE DEF m
    <3>3. UsersFrom(NoDoc, m)["default_user"] = m["default_user"]
      BY <3>1, UsersLoad
    <3> QED
      BY <3>1, <3>2, <3>3
  <2> QED
    BY <1>6, <1>7, <2>1, <2>2 DEF Documents, Procs
<1>11. StagesFit
  <2>1. ASSUME NEW t \in Threads PROVE StageFits(t)
    <3>1. run[t] = Idle
      BY <1>8
    <3> QED
      BY <3>1 DEF StageFits, Idle
  <2> QED
    BY <2>1 DEF StagesFit
<1>12. MemoryFollows
  <2>1. SUFFICES ASSUME ~env.profile PROVE HoldsSettings /\ HoldsUsers
    BY <1>3 DEF MemoryFollows
  <2>2. mem["web"] = Started("web", file)
    BY <1>7 DEF Procs
  <2> QED
    BY <2>1, <2>2, StartedHolds DEF HoldsSettings, HoldsUsers
<1>13. SoloSteps
  BY <1>3, NothingAlone DEF SoloSteps, Alone, EditsMade, BucketFollows, SecretsKept
<1>14. Running
  <2>1. \A t \in Threads : ~Busy(t)
    BY <1>8 DEF Busy, Idle
  <2> QED
    BY <1>7, <2>1 DEF Running
<1> QED
  BY <1>9, <1>10, <1>11, <1>12, <1>13, <1>14 DEF IInv

LEMMA StutterKeeps == ASSUME IInv, UNCHANGED vars PROVE IInv'
<1>1. /\ env' = env /\ file' = file /\ bak' = bak /\ bucket' = bucket /\ mem' = mem
      /\ run' = run /\ ops' = ops /\ mcpOps' = mcpOps /\ failures' = failures
      /\ hist' = hist
  BY DEF vars
<1>2. Shapes'
  BY <1>1 DEF IInv, Shapes
<1>3. Documents'
  BY <1>1 DEF IInv, Documents, Up
<1>4. StagesFit'
  <2>1. Grows
    BY <1>1 DEF Grows
  <2> QED
    BY <1>1, <2>1, StageStays DEF IInv, StagesFit
<1>5. MemoryFollows'
  BY <1>1, FollowsStill DEF IInv
<1>6. SoloSteps'
  <2>1. ASSUME NEW t \in Threads
        PROVE  Alone(t)' /\ EditsMade(t)' /\ BucketFollows(t)' /\ SecretsKept(t)'
    <3>1. Alone(t) /\ EditsMade(t) /\ BucketFollows(t) /\ SecretsKept(t)
      BY DEF IInv, SoloSteps
    <3>2. Done(t)' = Done(t) /\ Made(t)' = Made(t) /\ Current(t)' = Current(t)
      BY <1>1 DEF Done, Made, Current
    <3>3. Alone(t)'
      BY <1>1, <3>1, <3>2 DEF Alone, Busy
    <3>4. EditsMade(t)'
      BY <1>1, <3>1, <3>2 DEF EditsMade
    <3>5. BucketFollows(t)' /\ SecretsKept(t)'
      BY <1>1, <3>1 DEF BucketFollows, SecretsKept
    <3> QED
      BY <3>3, <3>4, <3>5
  <2> QED
    BY <2>1 DEF SoloSteps
<1> QED
  BY <1>2, <1>3, <1>4, <1>5, <1>6 DEF IInv

LEMMA StepKeeps == ASSUME IInv, Running, NEW t \in Threads, Step(t) PROVE IInv'
<1>1. ASSUME NEW ok \in BOOLEAN, Push(t, ok) PROVE IInv'
  BY <1>1, PushKeeps
<1>2. ASSUME NEW pull \in Pulls, Pull(t, pull) \/ Sync(t, pull) PROVE IInv'
  BY <1>2, PullKeeps, SyncKeeps
<1>3. ASSUME \/ LoadFile(t) \/ RefuseEdit(t) \/ Backup(t) \/ FailBackup(t)
             \/ Replace(t) \/ FailReplace(t) \/ LoadSettings(t) \/ LoadUsers(t)
             \/ FailLoadSettings(t) \/ FailLoadUsers(t)
      PROVE  IInv'
  BY <1>3, LoadFileKeeps, RefuseEditKeeps, BackupKeeps, FailBackupKeeps, ReplaceKeeps,
     FailReplaceKeeps, LoadSettingsKeeps, LoadUsersKeeps, FailLoadSettingsKeeps,
     FailLoadUsersKeeps
<1> QED
  BY <1>1, <1>2, <1>3 DEF Step

\* A step of one thread leaves the others where they are.
LEMMA StepsAreOwn ==
    ASSUME Shapes, NEW t \in Threads, Step(t)
    PROVE  \A u \in Threads \ {t} : run'[u] = run[u]
<1> DEFINE G == \A u \in Threads \ {t} : run'[u] = run[u]
<1>0. hist \in Hists
  BY DEF Shapes
<1>1. ASSUME NEW stage, Goto(t, stage) PROVE G
  BY <1>1 DEF Goto, Shapes
<1>2. ASSUME End(t) PROVE G
  BY <1>2, EndRun
<1>3. ASSUME NEW h, Onward(t, h) PROVE G
  <2>1. CASE Len(run[t].edits) <= 1
    BY <1>2, <1>3, <2>1 DEF Onward
  <2>2. CASE ~(Len(run[t].edits) <= 1)
    BY <1>3, <2>2 DEF Onward, Shapes
  <2> QED
    BY <2>1, <2>2
<1>4. LoadFile(t) => G
  BY DEF LoadFile, Shapes
<1> HIDE DEF G
<1>5. RefuseEdit(t) \/ Backup(t) \/ FailBackup(t) \/ FailReplace(t) \/ LoadSettings(t)
        \/ FailLoadSettings(t) \/ FailLoadUsers(t) => G
  BY <1>1, <1>2 DEF RefuseEdit, Backup, FailBackup, FailReplace, LoadSettings,
     FailLoadSettings, FailLoadUsers
<1>6. Replace(t) \/ LoadUsers(t) => G
  BY <1>1, <1>3 DEF Replace, LoadUsers
<1>7. ASSUME NEW ok \in BOOLEAN, Push(t, ok) PROVE G
  BY <1>3, <1>7 DEF Push
<1>8. ASSUME NEW pull \in Pulls, Pull(t, pull) \/ Sync(t, pull) PROVE G
  BY <1>1, <1>2, <1>8 DEF Pull, Sync
<1>9. G
  BY <1>4, <1>5, <1>6, <1>7, <1>8 DEF Step
<1> QED
  BY <1>9 DEF G

\* Nobody is at work in a process that is down: a reload keeps a default user, and
\* whoever was at work when it died is idle when it fails to start.
LEMMA RunningStays ==
    ASSUME IInv, Running, [Next]_vars PROVE Running'
<1>0. Shapes /\ Documents /\ env \in Deployments
  BY DEF IInv, Shapes
<1>1. \A d, users : "default_user" \in DOMAIN UsersFrom(d, users)
  BY DEF UsersFrom, ++, Only
<1>2. ASSUME NEW p \in Procs, NEW f \in Files, NEW m, Up(p), Holding(p, f, m),
             f = "users" => "default_user" \in DOMAIN m,
             \A t \in Threads : Busy(t)' => Busy(t)
      PROVE  Running'
  <2>1. \A q \in Procs : Up(q) => Up(q)'
    BY <1>0, <1>2 DEF Holding, Up, Shapes, Files
  <2>2. \A q \in Procs : Up(q) \/ mem'[q] = mem[q]
    BY <1>0, <1>2 DEF Holding, Shapes
  <2> QED
    BY <1>2, <2>1, <2>2 DEF Running, Proc, Procs
<1>3. ASSUME mem' = mem, \A t \in Threads : Busy(t)' => Busy(t) \/ Up(Proc(t))
      PROVE  Running'
  BY <1>3 DEF Running, Up
<1>4. ASSUME NEW t \in Threads, NEW stage, NEW edits, Begin(t, stage, edits) PROVE Running'
  <2>1. mem' = mem /\ Up(Proc(t)) /\ \A u \in Threads \ {t} : run'[u] = run[u]
    BY <1>0, <1>4 DEF Begin, Shapes
  <2> QED
    BY <1>3, <2>1 DEF Busy
<1>5. CASE McpTool
  <2>1. ASSUME NEW f \in Files, NEW m, NEW spoils \in BOOLEAN,
               McpEdit(f, m, spoils), MemGood(m, f, env, hist')
        PROVE  Running'
    <3>1. Holding("mcp", f, m) /\ Up("mcp") /\ run' = run
      BY <2>1 DEF McpEdit, Holding
    <3> QED
      BY <1>2, <2>1, <3>1 DEF MemGood, Busy, Procs
  <2> QED
    BY <1>0, <1>4, <1>5, <2>1, McpToolActs, McpSaveBegins DEF Threads
<1>6. ASSUME NEW t \in Threads, Step(t) PROVE Running'
  <2>1. Busy(t) /\ Up(Proc(t)) /\ Proc(t) \in Procs
    BY <1>6 DEF Step, LoadFile, RefuseEdit, Backup, FailBackup, Replace, FailReplace,
       Push, Pull, Sync, LoadSettings, FailLoadSettings, LoadUsers, FailLoadUsers,
       Busy, Running, Proc, Procs
  <2>2. \A u \in Threads : Busy(u)' => Busy(u)
    BY <1>0, <1>6, <2>1, StepsAreOwn DEF Busy
  <2>3. \/ mem' = mem
        \/ \E m : Holding(Proc(t), "settings", m)
        \/ \E m : Holding(Proc(t), "users", m) /\ "default_user" \in DOMAIN m
    <3>1. LoadSettings(t) => \E m : Holding(Proc(t), "settings", m)
      BY DEF LoadSettings, Holding
    <3>2. LoadUsers(t) \/ FailLoadUsers(t) =>
            \E m : Holding(Proc(t), "users", m) /\ "default_user" \in DOMAIN m
      <4>1. LoadUsers(t) \/ FailLoadUsers(t) => \E d :
              mem' = [mem EXCEPT ![Proc(t)]["users"] = UsersFrom(d, @)]
        BY DEF LoadUsers, FailLoadUsers, UsersAbove
      <4> QED
        BY <1>0, <1>1, <2>1, <4>1 DEF Holding, Shapes, Files
    <3> QED
      BY <1>6, <3>1, <3>2 DEF Step, LoadFile, RefuseEdit, Backup, FailBackup, Replace,
         FailReplace, Push, Pull, Sync, FailLoadSettings
  <2> QED
    BY <1>2, <1>3, <2>1, <2>2, <2>3 DEF Files
<1>7. ASSUME NEW p \in Procs, NEW pull \in Pulls, Restart(p, pull) PROVE Running'
  <2> DEFINE new == Pulled(pull.n).file
             held == IF \A f \in Files : Loadable(new[f]) THEN Started(p, new) ELSE Nothing
  <2>1. /\ mem' = [mem EXCEPT ![p] = held]
        /\ run' = [t \in Threads |-> IF Proc(t) = p /\ Busy(t) THEN Idle ELSE run[t]]
    BY <1>7 DEF Restart
  <2>2. held = Nothing \/ "default_user" \in DOMAIN held["users"]
    BY <1>1, StartedHolds
  <2> HIDE DEF held
  <2>3. /\ \A q \in Procs \ {p} : mem'[q] = mem[q] /\ (Up(q)' <=> Up(q))
        /\ Up(p)' \/ mem'[p] = Nothing
    BY <1>0, <2>1, <2>2 DEF Shapes, Up
  <2>4. ASSUME NEW t \in Threads, Busy(t)' PROVE Proc(t) # p /\ Busy(t)
    BY <2>1, <2>4 DEF Busy, Idle
  <2> QED
    BY <2>3, <2>4 DEF Running, Proc, Procs
<1>8. CASE Exhausted \/ UNCHANGED vars
  BY <1>3, <1>8 DEF Exhausted, vars, Busy
<1>9. ASSUME NEW t \in WebThreads, WebRequest(t) PROVE Running'
  BY <1>0, <1>4, <1>9, WebRequestBegins DEF Threads
<1>10. ASSUME NEW t \in Threads, Reload(t) PROVE Running'
  BY <1>0, <1>4, <1>10, ReloadBegins
<1> QED
  BY <1>5, <1>6, <1>7, <1>8, <1>9, <1>10 DEF Next

\* Every step keeps the inductive invariant.
THEOREM Inductive == IInv /\ Running /\ [Next]_vars => IInv' /\ Running'
<1> SUFFICES ASSUME IInv, Running, [Next]_vars PROVE IInv' /\ Running'
  OBVIOUS
<1>7. Running'
  BY RunningStays DEF IInv
<1>1. ASSUME NEW t \in WebThreads, WebRequest(t) PROVE IInv'
  BY <1>1, WebRequestBegins, BeginKeeps DEF IInv, Threads
<1>2. ASSUME NEW t \in Threads, Reload(t) PROVE IInv'
  <2>1. env \in Deployments
    BY DEF IInv, Shapes
  <2> QED
    BY <1>2, <2>1, ReloadBegins, BeginKeeps
<1>3. ASSUME NEW t \in Threads, Step(t) PROVE IInv'
  BY <1>3, StepKeeps
<1>4. ASSUME NEW p \in Procs, NEW pull \in Pulls, Restart(p, pull) PROVE IInv'
  BY <1>4, RestartKeeps
<1>5. ASSUME Exhausted \/ UNCHANGED vars PROVE IInv'
  BY <1>5, StutterKeeps DEF Exhausted
<1>6. ASSUME McpTool PROVE IInv'
  BY <1>6, McpToolKeeps
<1> QED
  BY <1>1, <1>2, <1>3, <1>4, <1>5, <1>6, <1>7 DEF Next

\* So it holds in every state the configuration can get into.
THEOREM Invariance == Spec => [](IInv /\ Running)
  BY InitHolds, Inductive, PTL DEF Spec

-----------------------------------------------------------------------------
(***************************************************************************)
(* What follows from it.                                                   *)
(***************************************************************************)
\* The model is type correct: every document, in a file, a backup, the bucket or a
\* thread's hands, and what each process holds, is of the keys and values of its file.
THEOREM TypeCorrect == Spec => []TypeOK
<1>1. IInv /\ Running => TypeOK
  <2> SUFFICES ASSUME IInv, Running PROVE TypeOK
    OBVIOUS
  <2>1. Shapes /\ Documents /\ StagesFit
    BY DEF IInv
  <2>2. ASSUME NEW f \in Files
        PROVE  /\ \A d \in {file[f], bak[f], bucket[f]} \ {NoDoc} : IsDocument(d, f)
               /\ \A p \in Procs : IsMemory(mem[p][f], f) /\ (Up(p) \/ mem[p] = Nothing)
               /\ Loadable(mem["web"][f])
               /\ bucket[f] # NoDoc => env.s3
    BY <2>1, NothingHeld DEF Documents, Good, MemGood, Running
  <2>3. ASSUME NEW t \in Threads
        PROVE  /\ run[t].at \in Stages /\ (Busy(t) => Up(Proc(t)))
               /\ run[t].edits \in Seq(EditsOf(t))
               /\ run[t].at \in {"load", "write", "replace", "push"} => run[t].edits # << >>
               /\ run[t].at \in {"write", "replace"}
                    => IsDocument(run[t].doc, Head(run[t].edits).file)
    <3>1. run[t].at \in Stages
      BY <2>1 DEF Shapes
    <3> QED
      BY <2>1, <3>1 DEF StagesFit, StageFits, Current, Good, Running
  <2>4. hist.touched \subseteq UNION {Keys(f) : f \in Files}
    BY <2>1 DEF Shapes, Hists, AllKeys
  <2> QED
    BY <2>1, <2>2, <2>3, <2>4 DEF TypeOK, Shapes
<1> QED
  BY <1>1, Invariance, PTL

\* UntouchedKeysSurvive, the promise of the line edits and of the saves that keep
\* unmanaged keys (serialization.py), holds for any writers, failures and crashes.
THEOREM UntouchedKeysAreSafe == Spec => []UntouchedKeysSurvive
<1>1. IInv => UntouchedKeysSurvive
  BY DEF IInv, Documents, Good, Keeps, UntouchedKeysSurvive
<1> QED
  BY <1>1, Invariance, PTL

\* DefaultUserExists: no interleaving of saves, restores from a backup, pulls and
\* restarts leaves default_user naming a user that its document does not have.
THEOREM DefaultUserIsKnown == Spec => []DefaultUserExists
<1>1. IInv => DefaultUserExists
  <2> SUFFICES ASSUME IInv, env.files, ~hist.spoilt
               PROVE  /\ \A d \in {file["users"], bak["users"], bucket["users"]} \ {NoDoc} :
                           d["default_user"] \in DOMAIN d \cup {NoUser}
                      /\ Up("web") => mem["web"]["users"]["default_user"]
                                         \in DOMAIN mem["web"]["users"] \cup {NoUser}
    BY DEF DefaultUserExists
  <2>1. \A d \in {file["users"], bak["users"], bucket["users"]} \ {NoDoc} : DefaultKnown(d)
    BY DEF IInv, Documents, Good, Files
  <2>2. Up("web") => DefaultKnown(mem["web"]["users"])
    BY DEF IInv, Documents, MemGood, Files, Procs
  <2> QED
    BY <2>1, <2>2 DEF DefaultKnown
<1> QED
  BY <1>1, Invariance, PTL

\* WebMemoryFollowsItsSaves: the reload at the end of each of its saves leaves the
\* web process with what the files say, if that loads, however its request threads
\* overlap and whatever values that do not load were written before.
THEOREM WebMemoryFollows == Spec => []WebMemoryFollowsItsSaves
<1>1. IInv => WebMemoryFollowsItsSaves
  <2> SUFFICES ASSUME IInv, Up("web"), ~hist.behind, \A t \in WebThreads : ~Busy(t),
                      Loadable(file["settings"])
               PROVE  HoldsSettings /\ (Loadable(file["users"]) => HoldsUsers)
    BY DEF WebMemoryFollowsItsSaves, HoldsSettings, HoldsUsers
  <2>1. ~About({"pull", "settings"}) /\ ~About({"pull", "settings", "users"})
    BY DEF About, Busy
  <2> QED
    BY <2>1 DEF IInv, MemoryFollows
<1> QED
  BY <1>1, Invariance, PTL

-----------------------------------------------------------------------------
(***************************************************************************)
(* How an operation ends.                                                  *)
(***************************************************************************)
\* The steps that may end an operation.
Last(t) ==
    \/ RefuseEdit(t) \/ FailBackup(t) \/ Replace(t) \/ FailReplace(t) \/ LoadUsers(t)
    \/ FailLoadSettings(t) \/ FailLoadUsers(t)
    \/ \E ok \in BOOLEAN : Push(t, ok)
    \/ \E pull \in Pulls : Sync(t, pull)

LEMMA EndingSteps ==
    ASSUME IInv, Next, NEW t \in Threads, Ending(t)
    PROVE  Last(t) \/ \E p \in Procs, pull \in Pulls : Restart(p, pull)
<1> DEFINE G == Last(t) \/ \E p \in Procs, pull \in Pulls : Restart(p, pull)
<1>1. /\ run[t].at # "idle" /\ run'[t].at = "idle"
      /\ Shapes /\ Documents /\ env \in Deployments
  BY DEF Ending, Busy, IInv, Shapes
<1>2. ASSUME NEW u \in Threads, NEW stage, NEW edits, Begin(u, stage, edits) PROVE FALSE
  <2>1. ~Busy(u) /\ run' = [run EXCEPT ![u] = [at |-> stage, edits |-> edits, doc |-> NoDoc]]
    BY <1>2 DEF Begin
  <2>2. run'[t] = run[t]
    BY <1>1, <2>1 DEF Busy, Shapes
  <2> QED
    BY <1>1, <2>2
<1>3. ASSUME run' = run PROVE FALSE
  BY <1>1, <1>3
<1>4. ASSUME NEW u \in WebThreads, WebRequest(u) PROVE FALSE
  BY <1>1, <1>2, <1>4, WebRequestBegins DEF Threads
<1>5. ASSUME NEW u \in Threads, Reload(u) PROVE FALSE
  BY <1>1, <1>2, <1>5, ReloadBegins
<1>6. ~McpTool
  <2>1. ASSUME NEW f, NEW m, NEW spoils, McpEdit(f, m, spoils) PROVE FALSE
    BY <1>3, <2>1 DEF McpEdit
  <2>2. ~McpSave
    BY <1>2 DEF McpSave, Threads
  <2> QED
    BY <1>1, <2>1, <2>2, McpToolActs
<1>7. ASSUME NEW u \in Threads, Step(u) PROVE G
  <2>1. CASE u # t
    <3>1. run'[t] = run[t]
      BY <1>1, <1>7, <2>1, StepsAreOwn
    <3> QED
      BY <1>1, <3>1
  <2>2. CASE u = t
    <3>1. ~Backup(t) /\ ~LoadSettings(t)
      BY <1>1, GotoRun DEF Backup, LoadSettings, Stages
    <3>2. ~LoadFile(t)
      <4>1. run[t] \in Places
        BY <1>1 DEF Shapes, Places
      <4> QED
        BY <1>1, <4>1 DEF LoadFile, Shapes, Places
    <3>3. \A pull \in Pulls : ~Pull(t, pull)
      BY <1>1, GotoRun DEF Pull, Stages
    <3> QED
      BY <1>7, <2>2, <3>1, <3>2, <3>3 DEF Step, Last
  <2> QED
    BY <2>1, <2>2
<1>8. ~Exhausted
  BY <1>3 DEF Exhausted, vars
<1> HIDE DEF G
<1>9. G
  <2>1. CASE \E p \in Procs, pull \in Pulls : Restart(p, pull)
    BY <2>1 DEF G
  <2> QED
    BY <1>4, <1>5, <1>6, <1>7, <1>8, <2>1 DEF Next
<1> QED
  BY <1>9 DEF G

\* A thread that has ended was at its last edit, or had none.
LEMMA LastEdit ==
    ASSUME Shapes, NEW t \in Threads, NEW h, Onward(t, h), Ending(t)
    PROVE  Len(run[t].edits) <= 1
<1>1. Len(run[t].edits) \in Nat
  BY DEF Shapes
<1>2. SUFFICES ASSUME Len(run[t].edits) > 1 PROVE FALSE
  BY <1>1
<1> DEFINE r == [at |-> "load", edits |-> Tail(run[t].edits), doc |-> NoDoc]
<1>3. run' = [run EXCEPT ![t] = r] /\ r.at = "load"
  BY <1>1, <1>2 DEF Onward
<1> HIDE DEF r
<1>4. run'[t].at = "load"
  BY <1>3 DEF Shapes
<1> QED
  BY <1>4 DEF Ending, Busy

\* What an operation that was alone leaves in the files, without a bucket.
Leaves(t) ==
    LET op == hist.op[t]
    IN  \E n \in 0..Len(op.edits) :
          /\ file' = AfterEdits(op.file, op.edits, op.memory)[n]
          /\ Succeeding(t) => n = Len(op.edits)

LEMMA SoloLeaves ==
    ASSUME IInv, [Next]_vars, NEW t \in Threads, Ending(t), hist.op[t].alone, ~env.s3
    PROVE  Leaves(t)
<1> DEFINE op == hist.op[t]
           N == Len(op.edits)
           left == Len(run[t].edits)
<1>1. /\ Shapes /\ StageFits(t) /\ Alone(t) /\ EditsMade(t)
  BY DEF IInv, StagesFit, SoloSteps
<1>2. Next
  <2>1. run' # run
    BY DEF Ending, Busy
  <2> QED
    BY <2>1 DEF vars
<1>3. /\ N \in Nat /\ left \in Nat /\ left <= N /\ Done(t) = N - left
      /\ (run[t].edits # << >> => left >= 1) /\ (run[t].edits = << >> => left = 0)
  <2>1. N \in Nat /\ run[t].edits \in Seq(Edit)
    BY <1>1 DEF Shapes, Hists, Solos
  <2>2. left <= N /\ Done(t) = N - left
    BY <1>1 DEF Alone, Done
  <2>3. left \in Nat /\ (run[t].edits # << >> => left >= 1) /\ (run[t].edits = << >> => left = 0)
    BY <2>1
  <2> QED
    BY <2>1, <2>2, <2>3
<1>4. run[t].at \notin {"sync", "pull", "push", "idle"} /\ run[t].at \in Stages
  BY <1>1 DEF StageFits, Ending, Busy, Shapes
<1> DEFINE Has(k) == file' = Made(t)[k]
<1>5. ASSUME NEW k \in 0..N, Has(k), Succeeding(t) => k = N
      PROVE  Leaves(t)
  BY <1>5 DEF Leaves, Made
<1> DEFINE n == IF run[t].edits = << >> THEN Done(t) ELSE Done(t) + 1
<1> HIDE DEF op, N, left, Files
<1>6. /\ Done(t) \in 0..N /\ n \in 0..N
      /\ left <= 1 => n = N
  <2>1. \A a, b \in Nat : b <= a =>
          /\ a - b \in 0..a /\ (b = 0 => a - b = a)
          /\ b >= 1 => (a - b) + 1 \in 0..a
          /\ b >= 1 /\ b <= 1 => (a - b) + 1 = a
    OBVIOUS
  <2> QED
    BY <1>3, <2>1
<1>7. ASSUME file' = file, ~Succeeding(t) PROVE Leaves(t)
  <2>1. CASE run[t].at \in {"load", "write", "replace"}
    <3>1. file = Made(t)[Done(t)]
      BY <1>1, <2>1 DEF EditsMade
    <3>2. Has(Done(t))
      BY <1>7, <3>1 DEF Has
    <3> QED
      BY <1>5, <1>6, <1>7, <3>2
  <2>2. CASE run[t].at \in {"settings", "users"}
    <3>1. file = Made(t)[n]
      BY <1>1, <2>2 DEF EditsMade
    <3>2. Has(n)
      BY <1>7, <3>1 DEF Has
    <3> HIDE DEF n
    <3> QED
      BY <1>5, <1>6, <1>7, <3>2
  <2> QED
    BY <1>4, <2>1, <2>2 DEF Stages
<1>8. CASE RefuseEdit(t) \/ FailBackup(t) \/ FailLoadSettings(t) \/ FailLoadUsers(t)
  <2>1. file' = file /\ ~Succeeding(t)
    BY <1>8 DEF RefuseEdit, FailBackup, FailLoadSettings, FailLoadUsers, Succeeding
  <2> QED
    BY <1>7, <2>1
<1>9. CASE FailReplace(t)
  <2> DEFINE f == Current(t).file
  <2>1. /\ run[t].at = "replace" /\ failures' = failures + 1
        /\ file' = [file EXCEPT ![f] = IF bak[f] = NoDoc THEN @ ELSE bak[f]]
    BY <1>9 DEF FailReplace, CountFailure
  <2>2. bak[f] = file[f]
    BY <1>1, <2>1 DEF EditsMade
  <2>3. file' = file
    BY <1>1, <2>1, <2>2 DEF Shapes
  <2>4. failures' # failures
    BY <1>1, <2>1 DEF Shapes
  <2>5. ~Succeeding(t)
    BY <2>1, <2>4 DEF Succeeding
  <2> QED
    BY <1>7, <2>3, <2>5
<1>10. CASE Replace(t)
  <2> DEFINE h == Behind(hist, Proc(t), [file EXCEPT ![Current(t).file] = run[t].doc])
  <2>1. /\ run[t].at = "replace"
        /\ file' = [file EXCEPT ![Current(t).file] = run[t].doc]
        /\ \/ Onward(t, h)
           \/ \E stage \in {"push", "pull", "settings"} : Goto(t, stage)
    BY <1>10 DEF Replace
  <2>2. h \in Hists
    BY <1>1, BehindHistory DEF Shapes
  <2>3. left <= 1
    <3>1. \A stage \in {"push", "pull", "settings"} : ~Goto(t, stage)
      BY <1>1, GotoRun DEF Stages, Ending, Busy
    <3> HIDE DEF h
    <3> QED
      BY <1>1, <2>1, <2>2, <3>1, LastEdit DEF left
  <2>4. run[t].edits # << >>
    BY <1>1, <2>1 DEF StageFits
  <2>5. Has(n)
    BY <1>1, <2>1, <2>4 DEF EditsMade, Has
  <2> HIDE DEF n, h
  <2> QED
    BY <1>5, <1>6, <2>3, <2>5
<1>11. CASE LoadUsers(t)
  <2>1. run[t].at = "users" /\ Onward(t, hist) /\ file' = file /\ hist \in Hists
    BY <1>1, <1>11 DEF LoadUsers, Shapes
  <2>2. left <= 1
    BY <1>1, <2>1, LastEdit DEF left
  <2>3. Has(n)
    BY <1>1, <2>1 DEF EditsMade, Has
  <2> HIDE DEF n
  <2> QED
    BY <1>5, <1>6, <2>1, <2>2, <2>3
<1>12. ASSUME NEW p \in Procs, NEW pull \in Pulls, Restart(p, pull) PROVE Leaves(t)
  <2>1. pull.n = 0 /\ file' = Pulled(pull.n).file /\ ops' = ops + 1
    BY <1>12 DEF Restart
  <2>2. file' = file
    BY <1>1, <2>1, PulledFiles
  <2>3. ops' # ops
    BY <1>1, <2>1, DeploymentsAssumption DEF Shapes
  <2>4. ~Succeeding(t)
    BY <2>3 DEF Succeeding, Crashing
  <2> QED
    BY <1>7, <2>2, <2>4
<1>13. \A ok \in BOOLEAN : ~Push(t, ok)
  BY <1>4 DEF Push
<1>14. \A pull \in Pulls : ~Sync(t, pull)
  BY <1>4 DEF Sync
<1>15. Last(t) \/ \E p \in Procs, pull \in Pulls : Restart(p, pull)
  BY <1>2, EndingSteps
<1> QED
  BY <1>8, <1>9, <1>10, <1>11, <1>12, <1>13, <1>14, <1>15 DEF Last

\* SoloOperationIsPrefix: what an operation leaves that had the files to itself is
\* its first so many edits, whichever write failed or process died, and all of them
\* when it answers that all went well (atomic_write_yaml, save_config).
THEOREM SoloIsPrefix == Spec => SoloOperationIsPrefix
<1> DEFINE A == \A t \in Threads :
                  Ending(t) /\ hist.op[t].alone /\ ~env.s3 => Leaves(t)
<1>1. IInv /\ [Next]_vars => [A]_vars
  BY SoloLeaves
<1> HIDE DEF A
<1>2. Spec => [][A]_vars
  BY <1>1, Invariance, PTL DEF Spec
<1> QED
  BY <1>2 DEF A, Leaves, SoloOperationIsPrefix

LEMMA SoloAgrees ==
    ASSUME IInv, [Next]_vars, NEW t \in Threads, Succeeding(t), hist.op[t].alone, env.s3,
           hist.op[t].s3ok, failures' = failures
    PROVE  file' = bucket'
<1>1. Shapes /\ StageFits(t) /\ BucketFollows(t)
  BY DEF IInv, StagesFit, SoloSteps
<1>2. Ending(t) /\ ops' = ops /\ run[t].at \in {"users", "push", "replace"}
  BY DEF Succeeding, Crashing
<1>3. Next
  <2>1. run' # run
    BY <1>2 DEF Ending, Busy
  <2> QED
    BY <2>1 DEF vars
<1>4. failures \in Nat /\ ops \in Nat
  BY <1>1, DeploymentsAssumption DEF Shapes
<1>5. ~CountFailure(TRUE)
  BY <1>4 DEF CountFailure
<1>6. CASE LoadUsers(t)
  <2>1. run[t].at = "users" /\ file' = file /\ bucket' = bucket
    BY <1>6 DEF LoadUsers
  <2> QED
    BY <1>1, <2>1 DEF BucketFollows
<1>7. ASSUME NEW ok \in BOOLEAN, Push(t, ok) PROVE file' = bucket'
  <2> DEFINE h == [hist EXCEPT !.op[t].s3ok = @ /\ ok]
  <2>1. /\ run[t].at = "push" /\ Onward(t, h) /\ CountFailure(~ok) /\ file' = file
        /\ bucket' = IF ok THEN [bucket EXCEPT ![Current(t).file] = file[Current(t).file]]
                     ELSE bucket
    BY <1>7 DEF Push
  <2>2. ok
    BY <1>5, <2>1
  <2> HIDE DEF h
  <2>3. Len(run[t].edits) <= 1
    BY <1>1, <1>2, <2>1, LastEdit
  <2>4. t = Mcp /\ run[t].edits = <<Save("settings")>>
    <3>1. t = Mcp /\ run[t].edits \in {SaveEdits, <<Save("settings")>>}
      BY <1>1, <2>1 DEF StageFits
    <3>2. Len(SaveEdits) = 2
      BY DEF SaveEdits
    <3>3. ASSUME run[t].edits = SaveEdits PROVE FALSE
      <4>1. Len(run[t].edits) = 2
        BY <3>2, <3>3
      <4> QED
        BY <2>3, <4>1
    <3> QED
      BY <3>1, <3>3
  <2>5. Current(t).file = "settings"
    BY <2>4 DEF Current, Save, EditOf
  <2>6. file["users"] = bucket["users"]
    BY <1>1, <2>4 DEF BucketFollows
  <2>7. bucket' = [bucket EXCEPT !["settings"] = file["settings"]]
    BY <2>1, <2>2, <2>5
  <2> QED
    BY <1>1, <2>1, <2>6, <2>7 DEF Shapes, Files
<1>8. /\ ~RefuseEdit(t) /\ ~FailBackup(t) /\ ~FailReplace(t)
      /\ ~FailLoadSettings(t) /\ ~FailLoadUsers(t)
  BY <1>2, <1>5 DEF RefuseEdit, FailBackup, FailReplace, FailLoadSettings, FailLoadUsers,
     Succeeding
<1>9. ~Replace(t)
  <2>1. \A stage \in {"push", "pull", "settings"} : ~Goto(t, stage)
    BY <1>1, <1>2, GotoRun DEF Stages, Ending, Busy
  <2> QED
    BY <2>1 DEF Replace
<1>10. \A pull \in Pulls : ~Sync(t, pull)
  BY <1>2 DEF Sync
<1>11. \A p \in Procs, pull \in Pulls : ~Restart(p, pull)
  BY <1>2, <1>4 DEF Restart
<1>12. Last(t)
  BY <1>2, <1>3, <1>11, EndingSteps
<1> QED
  BY <1>6, <1>7, <1>8, <1>9, <1>10, <1>12 DEF Last

\* SoloSuccessAgreesWithBucket: a success that S3 had no part in spoiling means that
\* files and bucket are the same (save_config, ConfigManager.reload, config_sync).
THEOREM SoloAgreesWithBucket == Spec => SoloSuccessAgreesWithBucket
<1> DEFINE A == \A t \in Threads :
                  Succeeding(t) /\ hist.op[t].alone /\ env.s3
                    /\ hist.op[t].s3ok /\ failures' = failures
                    => file' = bucket'
<1>1. IInv /\ [Next]_vars => [A]_vars
  BY SoloAgrees
<1> HIDE DEF A
<1>2. Spec => [][A]_vars
  BY <1>1, Invariance, PTL DEF Spec
<1> QED
  BY <1>2 DEF A, SoloSuccessAgreesWithBucket

LEMMA BlankKeeps ==
    ASSUME IInv, [Next]_vars, NEW t \in WebThreads, Succeeding(t), hist.op[t].alone,
           hist.op[t].fresh, ~env.s3, NEW i \in DOMAIN hist.op[t].edits,
           NEW e, e = hist.op[t].edits[i], e.keeps,
           hist.op[t].file[e.file] # NoDoc, e.key \in DOMAIN hist.op[t].file[e.file]
    PROVE  file'[e.file][e.key] = Expand(hist.op[t].file[e.file][e.key])
<1> DEFINE op == hist.op[t]
           A == AfterEdits(op.file, op.edits, op.memory)
           before == op.file[e.file]
<1>1. t \in Threads /\ Ending(t)
  BY DEF Threads, Succeeding
<1>2. Shapes /\ SecretsKept(t)
  BY <1>1 DEF IInv, SoloSteps
<1>3. /\ op.edits \in Seq(Edit) /\ op.file \in [Files -> AnyDoc]
  BY <1>1, <1>2 DEF Shapes, Hists, Solos
<1>4. i \in 1..Len(op.edits) /\ e \in Edit
  BY <1>3
<1>5. Len(op.edits) = 1 /\ e.kind = "put" /\ e.val = Expand(before[e.key])
  BY <1>2, <1>4 DEF SecretsKept, SecretKept
<1>6. e.file \in Files
  BY <1>4, EditShape DEF Edit
<1>7. file' = A[1]
  <2>1. PICK n \in 0..Len(op.edits) : file' = A[n] /\ n = Len(op.edits)
    BY <1>1, SoloLeaves DEF Leaves
  <2> QED
    BY <1>5, <2>1
<1>8. A[1] = Make(op.file, e, op.memory)
  <2>1. A[0 + 1] = Make(A[0], op.edits[0 + 1], op.memory) /\ A[0] = op.file
    BY <1>5, EditsUnfold
  <2>2. i = 1
    BY <1>4, <1>5
  <2> QED
    BY <2>1, <2>2
<1> HIDE DEF A
<1>9. file'[e.file] = With(Read(e.file, before), e.key, e.val)
  BY <1>3, <1>5, <1>6, <1>7, <1>8 DEF Make, Edited
<1>10. With(Read(e.file, before), e.key, e.val)[e.key] = e.val
  BY DEF With, Only, ++
<1> QED
  BY <1>5, <1>9, <1>10

\* BlankEditKeepsSecret: an edit page saved with its secret left blank keeps the
\* secret of the file, if the memory it took it from agreed with the file.
THEOREM BlankKeepsSecret == Spec => BlankEditKeepsSecret
<1> DEFINE A == \A t \in WebThreads :
                  Succeeding(t) /\ hist.op[t].alone /\ hist.op[t].fresh /\ ~env.s3 =>
                    \A i \in DOMAIN hist.op[t].edits :
                      LET e == hist.op[t].edits[i]
                          before == hist.op[t].file[e.file]
                      IN  e.keeps /\ before # NoDoc /\ e.key \in DOMAIN before
                            => file'[e.file][e.key] = Expand(before[e.key])
<1>1. IInv /\ [Next]_vars => [A]_vars
  <2> SUFFICES ASSUME IInv, [Next]_vars,
                      NEW t \in WebThreads, Succeeding(t), hist.op[t].alone,
                      hist.op[t].fresh, ~env.s3, NEW i \in DOMAIN hist.op[t].edits
               PROVE  LET e == hist.op[t].edits[i]
                          before == hist.op[t].file[e.file]
                      IN  e.keeps /\ before # NoDoc /\ e.key \in DOMAIN before
                            => file'[e.file][e.key] = Expand(before[e.key])
    OBVIOUS
  <2> DEFINE edit == hist.op[t].edits[i]
  <2>1. PICK e : e = edit
    OBVIOUS
  <2>2. e.keeps /\ hist.op[t].file[e.file] # NoDoc /\ e.key \in DOMAIN hist.op[t].file[e.file]
          => file'[e.file][e.key] = Expand(hist.op[t].file[e.file][e.key])
    BY <2>1, BlankKeeps
  <2> QED
    BY <2>1, <2>2
<1> HIDE DEF A
<1>2. Spec => [][A]_vars
  BY <1>1, Invariance, PTL DEF Spec
<1> QED
  BY <1>2 DEF A, BlankEditKeepsSecret

=============================================================================
