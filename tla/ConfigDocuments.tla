-------------------------- MODULE ConfigDocuments --------------------------
(***************************************************************************)
(* settings.yaml and users.yaml, and what the program makes of them: what  *)
(* is loaded into memory, what the two kinds of writers put back.          *)
(*                                                                         *)
(* A document is a function from the keys it holds to their values.  A     *)
(* user, a client and a section of the settings is one key; a value stands *)
(* for the whole entry.  In memory the same keys have the same values,     *)
(* except that a placeholder has been expanded.  A section that is absent  *)
(* and one that holds the defaults are not told apart.                     *)
(***************************************************************************)
EXTENDS Naturals, Functions, Sequences

CONSTANTS
    Users,        \* user names
    Admin,        \* the user name the code falls back to
    NoUser,       \* default_user when the last user is deleted
    Clients,      \* client ids
    DemoClient,   \* the client of the built-in settings
    NoDoc,        \* a file that does not exist
    Placeholder,  \* a value written as ${NAME} in the file
    FromEnv,      \* the value the environment gives to NAME
    Builtin,      \* the value of an entry that the code makes up
    Bad           \* a value that the models refuse to be built from: an issuer
                  \* that is no URL, an empty audience, an empty password

Files == {"users", "settings"}
Sections == {"oauth", "saml", "authority_prefixes", "allowed_identity_classes"}

ASSUME FallbackAssumption == Admin \in Users /\ DemoClient \in Clients
\* A key stands for the place of an entry in its file, so keys of different
\* kinds are different, whatever the entries are called.
ASSUME KindsAssumption ==
    /\ NoUser \notin Users
    /\ Users \cap {"default_user", "custom"} = {}
    /\ Clients \cap (Sections \cup {"default_user", "security_profile", "custom"}) = {}

\* The keys of each file that the program owns; "custom" stands for the others
\* (session, jwt, clerk, and what an operator adds).
Managed(f) == IF f = "users"
                THEN Users \cup {"default_user"}
                ELSE Clients \cup Sections \cup {"security_profile"}
Keys(f) == Managed(f) \cup {"custom"}

NoEntries == [k \in {} |-> Builtin]
Only(k, v) == [x \in {k} |-> v]
doc ++ under ==
    [k \in DOMAIN doc \cup DOMAIN under |->
        IF k \in DOMAIN doc THEN doc[k] ELSE under[k]]
With(doc, k, v) == Only(k, v) ++ doc
Without(doc, ks) == Restrict(doc, DOMAIN doc \ ks)

-----------------------------------------------------------------------------
(***************************************************************************)
(* Loading into memory.                                                    *)
(***************************************************************************)
Expand(v) == IF v = Placeholder THEN FromEnv ELSE v

\* Can the document be loaded?  One value that Settings or User refuses is enough
\* for it not to be; nothing is asked of default_user, and a missing file stands
\* for the built-in entries.
Loadable(doc) ==
    doc # NoDoc => \A k \in DOMAIN doc \ {"default_user"} : doc[k] # Bad

\* What the settings are without settings.yaml.
DefaultSettings ==
    [k \in {DemoClient, "authority_prefixes", "allowed_identity_classes"} |->
        Builtin]

\* Mutant: placeholders reach the memory.
SettingsAsWritten(doc) ==
    IF doc = NoDoc THEN DefaultSettings
    ELSE Restrict(doc, DOMAIN doc \cap Managed("settings"))

\* _load_settings: the settings object is replaced as a whole.
SettingsFrom(doc) ==
    IF doc = NoDoc THEN DefaultSettings
    ELSE [k \in DOMAIN doc \cap Managed("settings") |-> Expand(doc[k])]

\* _load_users: the users of the file are added to, or replace, those in memory;
\* without a file the users, but not default_user, become the built-in ones.
UsersFrom(doc, users) ==
    IF doc = NoDoc
      THEN Only(Admin, Builtin) ++ Only("default_user", users["default_user"])
      ELSE Restrict(doc, DOMAIN doc \cap Managed("users"))
             ++ (Only("default_user", Admin) ++ Without(users, {"default_user"}))

\* Where _load_users gets to in a file with a bad user: default_user is taken, and
\* the users above the bad one.  (The order is not modelled: any of the good ones.)
UsersAbove(doc, part, users) ==
    UsersFrom(Restrict(doc, DOMAIN doc \cap (part \cup {"default_user"})), users)
GoodUsers(doc) == {u \in DOMAIN doc \cap Users : doc[u] # Bad}

-----------------------------------------------------------------------------
(***************************************************************************)
(* What a writer puts in a file.  An edit is a record [file, kind, key,    *)
(* val, new, keeps]: "put" and "drop" are the YamlWriter's (new: the entry *)
(* must not exist; keeps: the form left its secret blank), "save" writes   *)
(* everything ConfigManager has in memory.                                 *)
(***************************************************************************)
\* _load_users_yaml, _load_settings_yaml
Read(f, doc) == IF doc # NoDoc THEN doc
                ELSE IF f = "users" THEN Only("default_user", Admin) ELSE NoEntries

\* The ValueErrors of save_user, delete_user, save_client and delete_client.
Refused(doc, e) ==
    LET there == e.key \in DOMAIN Read(e.file, doc)
    IN  \/ e.kind = "put" /\ e.new /\ there
        \/ e.kind = "drop" /\ ~there

\* The user that inherits default_user: the first one left in the file.  (The
\* order of a document is not modelled; any rule that picks one will do.)
Heir(doc) == LET left == DOMAIN doc \cap Users
             IN  IF left = {} THEN NoUser ELSE CHOOSE u \in left : TRUE

\* Mutant: deleting a user leaves default_user alone.
DropKeepsDefault(doc, k) == Without(doc, {k})

Drop(doc, k) ==
    LET left == Without(doc, {k})
    IN  IF k \in Users /\ "default_user" \in DOMAIN doc
          /\ doc["default_user"] = k
          THEN [left EXCEPT !["default_user"] = Heir(left)]
          ELSE left

\* Mutant: the file is rewritten from memory alone.
SaveOver(f, doc, memory) == memory

\* _save_users and _save_settings, with apply_users_document and
\* apply_settings_document: the managed keys become those of the memory.
SaveInto(f, doc, memory) ==
    memory ++ (IF doc = NoDoc THEN NoEntries ELSE Without(doc, Managed(f)))

\* The document an edit makes of doc, for a process with this memory.
Edited(doc, e, memory) ==
    CASE e.kind = "put"  -> With(Read(e.file, doc), e.key, e.val)
      [] e.kind = "drop" -> Drop(Read(e.file, doc), e.key)
      [] e.kind = "save" -> SaveInto(e.file, doc, memory)
=============================================================================
