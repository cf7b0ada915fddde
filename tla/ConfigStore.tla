---------------------------- MODULE ConfigStore ----------------------------
(***************************************************************************)
(* The configuration: two files, their backups and their copies in a       *)
(* bucket, and two processes that each hold them in memory.                *)
(*                                                                         *)
(* The request threads of the web process save single entries: a form      *)
(* becomes a list of edits; for each edit YamlWriter reads the file,       *)
(* writes it back and reloads the memory.  The MCP process edits its own   *)
(* memory and saves all of it.  No lock is taken by anybody, so everything *)
(* between two file accesses interleaves.  The bucket, when there is one,  *)
(* is read by every reload and written by the MCP process's save only.     *)
(*                                                                         *)
(* Neither the settings page nor the MCP tools check all they store, while *)
(* the loader checks everything: a reload may fail after the file has been *)
(* written, and a process may be unable to start.                          *)
(*                                                                         *)
(* Every operation stamps what it writes with its number (ops), so that    *)
(* no two of them write the same value.                                    *)
(***************************************************************************)
EXTENDS ConfigDocuments

CONSTANTS
    WebThreads,   \* request threads of the web process
    Mcp,          \* the MCP process's only thread
    Profile,      \* the value of --profile on the web process's command line
    Deployments,  \* the ways of deploying the system that are looked at
    MaxOps,       \* bound on operations begun, and on process starts; a
                  \* deployment may set a lower one
    MaxMcpOps,    \* bound on those of them that are the MCP process's
    MaxFailures   \* bound on failing writes and S3 calls

ASSUME ThreadsAssumption == Mcp \notin WebThreads
ASSUME BoundsAssumption ==
    MaxOps \in Nat /\ MaxMcpOps \in Nat /\ MaxFailures \in Nat
\* Is there a bucket, are there files, is --profile given, is the MCP server
\* started with --readonly?  How many operations are looked at, and may they
\* overlap?
ASSUME DeploymentsAssumption ==
    Deployments \subseteq [s3 : BOOLEAN, files : BOOLEAN, profile : BOOLEAN,
                           readonly : BOOLEAN, ops : 0..MaxOps, overlap : BOOLEAN]

Threads == WebThreads \cup {Mcp}
Procs == {"web", "mcp"}
Proc(t) == IF t = Mcp THEN "mcp" ELSE "web"

VARIABLES
    env,      \* how the system was deployed; never changes
    file,     \* file[f]: the document in config_dir, or NoDoc
    bak,      \* bak[f]: the document in its .yaml.bak, or NoDoc
    bucket,   \* bucket[f]: the object in S3, or NoDoc
    mem,      \* mem[p][f]: what process p holds of file f, nothing if the
              \* process is not running
    run,      \* run[t]: where thread t is in its operation
    ops,      \* operations begun so far
    mcpOps,   \* those of the MCP process
    failures, \* failing writes and S3 calls so far
    hist      \* history, see History below

vars == <<env, file, bak, bucket, mem, run, ops, mcpOps, failures, hist>>

Stages == {"idle", "sync", "load", "write", "replace", "push", "pull",
           "settings", "users"}
Loaded == (0..MaxOps) \cup Users \cup {NoUser, FromEnv, Builtin, Profile}
Held == Loaded \cup {Bad}
Value == Held \cup {Placeholder}

\* What loads is not bad, no value is a placeholder once it has been expanded, and
\* a file that does not exist is not one with any contents.
ASSUME ValuesAssumption ==
    /\ Bad \notin Loaded
    /\ Placeholder \notin Held
    /\ \A f \in Files : \A ks \in SUBSET Keys(f) : NoDoc \notin [ks -> Value]

\* The edits of the YamlWriter, and those of ConfigManager.save.
EditOf(f, kind, k, v, new, keeps) ==
    [file |-> f, kind |-> kind, key |-> k, val |-> v, new |-> new, keeps |-> keeps]
Save(f) == EditOf(f, "save", "custom", 0, FALSE, FALSE)
Entries(f) == IF f = "users" THEN Users ELSE Clients \cup Sections
WriterEdits(f) == [file : {f}, kind : {"put", "drop"}, key : Entries(f),
                   val : IF f = "users" THEN Loaded ELSE Held,
                   new : BOOLEAN, keeps : BOOLEAN]
EditsOf(t) == IF t = Mcp THEN {Save(f) : f \in Files}
              ELSE UNION {WriterEdits(f) : f \in Files}

\* What a file can say, and what a process can hold of it: a placeholder means
\* something in settings.yaml only, and is expanded when that is loaded.
Values(f) == IF f = "users" THEN Held ELSE Value
IsDocument(d, f) == DOMAIN d \subseteq Keys(f) /\ d \in [DOMAIN d -> Values(f)]
IsMemory(m, f) == DOMAIN m \subseteq Managed(f) /\ m \in [DOMAIN m -> Held]

\* A running process has a default user at least; one whose start has failed holds
\* nothing.
Nothing == [f \in Files |-> NoEntries]
Up(p) == "default_user" \in DOMAIN mem[p]["users"]

Idle == [at |-> "idle", edits |-> << >>, doc |-> NoDoc]
Busy(t) == run[t].at # "idle"

TypeOK ==
    /\ env \in Deployments
    /\ \A f \in Files :
         /\ \A d \in {file[f], bak[f], bucket[f]} \ {NoDoc} : IsDocument(d, f)
         /\ \A p \in Procs : IsMemory(mem[p][f], f) /\ (Up(p) \/ mem[p] = Nothing)
         /\ Loadable(mem["web"][f])
         /\ bucket[f] # NoDoc => env.s3
    /\ \A t \in Threads :
         /\ run[t].at \in Stages /\ (Busy(t) => Up(Proc(t)))
         /\ run[t].edits \in Seq(EditsOf(t))
         /\ run[t].at \in {"load", "write", "replace", "push"}
              => run[t].edits # << >>
         /\ run[t].at \in {"write", "replace"}
              => IsDocument(run[t].doc, Head(run[t].edits).file)
    /\ ops \in 0..env.ops /\ mcpOps \in 0..MaxMcpOps
    /\ failures \in 0..MaxFailures
    /\ hist.touched \subseteq UNION {Keys(f) : f \in Files}

CountFailure(failed) ==
    /\ failed => failures < MaxFailures
    /\ failures' = IF failed THEN failures + 1 ELSE failures

-----------------------------------------------------------------------------
(***************************************************************************)
(* History.  For each thread whose operation has had the files, the bucket *)
(* and its process to itself so far (alone): the files, the memory and the *)
(* edits it began with, whether web memory and files agreed then (fresh),  *)
(* and whether S3 has never failed it (s3ok).  For the system: the keys    *)
(* that operations have named or saved, whether the MCP process has        *)
(* deleted a user or given one a bad value (spoilt), and whether the files *)
(* have changed behind the web process's back since it last loaded them.   *)
(***************************************************************************)
NoOperation == [alone |-> FALSE, s3ok |-> FALSE, fresh |-> FALSE,
                edits |-> << >>, file |-> [f \in Files |-> NoDoc],
                memory |-> [f \in Files |-> NoEntries]]

\* The keys an edit is about.
Named(e) == CASE e.kind = "put" -> {e.key}
              [] e.kind = "drop" -> {e.key, "default_user"}
              [] e.kind = "save" -> Managed(e.file)

\* Nothing that is in the files is missing in the web process's memory.
Fresh == ~hist.behind /\ \A f \in Files : Loadable(file[f])

\* Thread t begins an operation with these edits.
Begun(t, edits) ==
    [hist EXCEPT
       !.op = [u \in Threads |->
                 IF u = t /\ \A w \in Threads : ~Busy(w)
                   THEN [alone |-> TRUE, s3ok |-> TRUE, fresh |-> Fresh,
                         edits |-> edits, file |-> file, memory |-> mem[Proc(t)]]
                   ELSE NoOperation],
       !.touched = @ \cup UNION {Named(e) : e \in Range(edits)}]

\* Thread t's operation is over.
Over(h, t) == [h EXCEPT !.op[t] = NoOperation]

\* Process p changed the files (other than by a web save, which reloads).
Behind(h, p, changed) ==
    [h EXCEPT !.behind = @ \/ (p = "mcp" /\ changed # file)]

-----------------------------------------------------------------------------
(***************************************************************************)
(* Starting and loading.                                                   *)
(***************************************************************************)
PullOrder == <<"settings", "users">>

\* Mutant: a file that is missing in the bucket is not uploaded.
PulledOnly(n) ==
    LET handled == {PullOrder[i] : i \in 1..n}
    IN  [file |-> [f \in Files |->
           IF f \in handled /\ bucket[f] # NoDoc THEN bucket[f] ELSE file[f]],
         bucket |-> bucket]

\* pull_all, when it handles the first n of the two files: one that is in the
\* bucket is downloaded, another that is here is uploaded.
Pulled(n) ==
    LET handled == {PullOrder[i] : i \in 1..n}
    IN  [file |-> [f \in Files |->
           IF f \in handled /\ bucket[f] # NoDoc THEN bucket[f] ELSE file[f]],
         bucket |-> [f \in Files |->
           IF f \in handled /\ bucket[f] = NoDoc THEN file[f] ELSE bucket[f]]]

\* A pull that succeeds has handled both files; an exception ends one before
\* that, and is swallowed.
Pulls == {[n |-> n, ok |-> n = 2] : n \in 0..2}

\* The memory of a process of kind p that starts on these files: create_app
\* puts --profile over the settings it has loaded.
Started(p, docs) ==
    LET settings == SettingsFrom(docs["settings"])
    IN  [f \in Files |->
           IF f = "users" THEN UsersFrom(docs[f], Only("default_user", Admin))
           ELSE IF p = "web" /\ env.profile
                  THEN With(settings, "security_profile", Profile)
                  ELSE settings]

FirstUsers == With([k \in Users \cup {"custom"} |-> 0], "default_user", Admin)
FirstSettings == With([k \in {"oauth", "custom"} |-> 0], DemoClient, Placeholder)
First(f) == IF f = "users" THEN FirstUsers ELSE FirstSettings

\* The two processes have just started; S3, if any, holds the same documents or
\* could not be reached.
Init ==
    /\ env \in Deployments
    /\ file = [f \in Files |-> IF env.files THEN First(f) ELSE NoDoc]
    /\ bak = [f \in Files |-> NoDoc]
    /\ bucket \in {file, [f \in Files |-> NoDoc]}
    /\ env.s3 \/ bucket = [f \in Files |-> NoDoc]
    /\ mem = [p \in Procs |-> Started(p, file)]
    /\ run = [t \in Threads |-> Idle]
    /\ ops = 0
    /\ mcpOps = 0
    /\ failures = 0
    /\ hist = [op |-> [t \in Threads |-> NoOperation], touched |-> {},
               spoilt |-> FALSE, behind |-> env.profile]

\* A process dies, whatever its threads are doing, and is started again; the
\* temporary file of a write in progress is left over and never read.  On files
\* that do not load create_app raises: the process is down until a later start.
Restart(p, pull) ==
    /\ ops < env.ops
    /\ p = "mcp" => mcpOps < MaxMcpOps
    /\ env.s3 \/ pull.n = 0
    /\ LET after == Pulled(pull.n)
       IN  /\ file' = after.file
           /\ bucket' = after.bucket
           /\ mem' = [mem EXCEPT ![p] =
                IF \A f \in Files : Loadable(after.file[f])
                  THEN Started(p, after.file) ELSE Nothing]
           /\ hist' = [Behind(hist, p, after.file) EXCEPT
                !.op = [t \in Threads |-> NoOperation],
                !.behind = IF p = "web" THEN env.profile ELSE @]
    /\ run' = [t \in Threads |->
                 IF Proc(t) = p /\ Busy(t) THEN Idle ELSE run[t]]
    /\ ops' = ops + 1
    /\ mcpOps' = IF p = "mcp" THEN mcpOps + 1 ELSE mcpOps
    /\ CountFailure(env.s3 /\ ~pull.ok)
    /\ UNCHANGED <<env, bak>>

-----------------------------------------------------------------------------
(***************************************************************************)
(* Beginning an operation.                                                 *)
(***************************************************************************)
Begin(t, stage, edits) ==
    /\ IF env.overlap THEN ~Busy(t) ELSE \A w \in Threads : ~Busy(w)
    /\ ops < env.ops
    /\ t = Mcp => mcpOps < MaxMcpOps
    /\ Up(Proc(t))
    /\ run' = [run EXCEPT ![t] = [at |-> stage, edits |-> edits, doc |-> NoDoc]]
    /\ hist' = Begun(t, edits)
    /\ ops' = ops + 1
    /\ mcpOps' = IF t = Mcp THEN mcpOps + 1 ELSE mcpOps
    /\ UNCHANGED <<env, file, bak, bucket, mem, failures>>

Stamp == ops + 1
Store(f, k, v) == EditOf(f, "put", k, v, FALSE, FALSE)
Put(f, k) == Store(f, k, Stamp)
PutNew(f, k) == EditOf(f, "put", k, Stamp, TRUE, FALSE)
DropEdit(f, k) == EditOf(f, "drop", k, 0, FALSE, FALSE)

\* Mutant: the blank field is stored.
StoreBlank(f, k) == EditOf(f, "put", k, Stamp, FALSE, TRUE)

\* The edit that a blank password or secret makes: the one in memory is kept.
Keep(f, k) == EditOf(f, "put", k, mem["web"][f][k], FALSE, TRUE)

UserCreate(t, u) == Begin(t, "load", <<PutNew("users", u)>>)

\* The edit page finds its user in memory, and a blank password field stands for
\* the password that is there.
UserEdit(t, u, blank) ==
    /\ u \in DOMAIN mem["web"]["users"]
    /\ Begin(t, "load", <<IF blank THEN Keep("users", u) ELSE Put("users", u)>>)

UserDelete(t, u) == Begin(t, "load", <<DropEdit("users", u)>>)

ClientCreate(t, c) == Begin(t, "load", <<PutNew("settings", c)>>)

\* client_edit, where a blank secret stands for the one in memory.
ClientEdit(t, c, blank) ==
    /\ c \in DOMAIN mem["web"]["settings"]
    /\ Begin(t, "load",
             <<IF blank THEN Keep("settings", c) ELSE Put("settings", c)>>)

\* client_regenerate_secret: everything but the secret comes from memory.
ClientRegenerateSecret(t, c) == ClientEdit(t, c, FALSE)

ClientDelete(t, c) == Begin(t, "load", <<DropEdit("settings", c)>>)

\* The settings page: two writes, and a third unless the list of identity
\* classes is blank.  Whether the OAuth values are any good is not looked at.
SettingsPage(t, oauth, classes) ==
    LET always == <<Store("settings", "oauth", oauth), Put("settings", "saml")>>
    IN  Begin(t, "load",
              IF classes
                THEN Append(always, Put("settings", "allowed_identity_classes"))
                ELSE always)

PrefixesPage(t) ==
    Begin(t, "load", <<Put("settings", "authority_prefixes")>>)

\* ConfigManager.reload, for POST /api/config/reload and the MCP tool.
Reload(t) == Begin(t, IF env.s3 THEN "pull" ELSE "settings", << >>)

\* POST /api/config/sync: a pull of its own, and a reload if that went well.
ConfigSync(t) == env.s3 /\ Begin(t, "sync", << >>)

\* A mutating tool of the MCP server runs unless the server is read-only.  (With
\* an admin secret it also runs for those only who present it; a call that is
\* turned down changes nothing here.)
MayMutate == ~env.readonly

\* save_config: users.yaml, then settings.yaml.
SaveEdits == <<Save("users"), Save("settings")>>
McpSave == MayMutate /\ Begin(Mcp, "load", SaveEdits)

\* The tools that edit the MCP process's memory run to their end: its event loop
\* has nothing else to run, and no other process sees that memory.
McpEdit(f, m, spoils) ==
    /\ MayMutate
    /\ Up("mcp")
    /\ ~Busy(Mcp)
    /\ ops < env.ops /\ mcpOps < MaxMcpOps
    /\ mem' = [mem EXCEPT !["mcp"][f] = m]
    /\ ops' = ops + 1
    /\ mcpOps' = mcpOps + 1
    /\ hist' = [hist EXCEPT !.spoilt = @ \/ spoils]
    /\ UNCHANGED <<env, file, bak, bucket, run, failures>>

McpAdd(f, k) == k \notin DOMAIN mem["mcp"][f]
                  /\ McpEdit(f, With(mem["mcp"][f], k, Stamp), FALSE)
McpChange(f, k, v) == k \in DOMAIN mem["mcp"][f]
                        /\ McpEdit(f, With(mem["mcp"][f], k, v), v = Bad)
McpRemove(f, k) == k \in DOMAIN mem["mcp"][f]
                     /\ McpEdit(f, Without(mem["mcp"][f], {k}), f = "users")

McpCreateUser(u) == McpAdd("users", u)

\* User, unlike OAuthClient, checks nothing that is assigned to its fields.
McpUpdateUser(u, v) == McpChange("users", u, v)

\* default_user may go on naming the user.
McpDeleteUser(u) == McpRemove("users", u)

McpCreateClient(c) == McpAdd("settings", c)

\* All arguments are checked before the first is assigned.
McpUpdateClient(c) == McpChange("settings", c, Stamp)
McpDeleteClient(c) == McpRemove("settings", c)

\* update_settings assigns the fields it is given one by one; a bad list or name
\* among them ends it, and leaves those before it assigned.  The issuer, the
\* audience and the lifetime are not checked.
McpUpdateSettings(ks, oauth) ==
    McpEdit("settings",
            Only("oauth", oauth) ++ ([k \in ks |-> Stamp] ++ mem["mcp"]["settings"]),
            FALSE)

-----------------------------------------------------------------------------
(***************************************************************************)
(* The steps of an operation.                                              *)
(***************************************************************************)
Goto(t, stage) == run' = [run EXCEPT ![t].at = stage]
End(t) == run' = [run EXCEPT ![t] = Idle]
Current(t) == Head(run[t].edits)

\* Edit done, with history h: on to the next one, or to the answer.
Onward(t, h) ==
    IF Len(run[t].edits) <= 1
      THEN End(t) /\ hist' = Over(h, t)
      ELSE /\ run' = [run EXCEPT ![t] =
                       [at |-> "load", edits |-> Tail(run[t].edits), doc |-> NoDoc]]
           /\ hist' = h

\* Reading the file, and applying the edit to what was read.
LoadFile(t) ==
    LET e == Current(t)
    IN  /\ run[t].at = "load"
        /\ ~Refused(file[e.file], e)
        /\ run' = [run EXCEPT
             ![t].at = "write",
             ![t].doc = Edited(file[e.file], e, mem[Proc(t)][e.file])]
        /\ UNCHANGED <<env, file, bak, bucket, mem, ops, mcpOps, failures, hist>>

RefuseEdit(t) ==
    /\ run[t].at = "load"
    /\ Refused(file[Current(t).file], Current(t))
    /\ End(t)
    /\ hist' = Over(hist, t)
    /\ UNCHANGED <<env, file, bak, bucket, mem, ops, mcpOps, failures>>

\* Mutant: a backup that is already there is kept.
FirstBackup(f) ==
    bak' = [bak EXCEPT ![f] = IF bak[f] = NoDoc THEN file[f] ELSE @]

\* The copy that atomic_write_yaml takes of the file, if there is one.
TakeBackup(f) ==
    bak' = [bak EXCEPT ![f] = IF file[f] = NoDoc THEN @ ELSE file[f]]

Backup(t) ==
    /\ run[t].at = "write"
    /\ TakeBackup(Current(t).file)
    /\ Goto(t, "replace")
    /\ UNCHANGED <<env, file, bucket, mem, ops, mcpOps, failures, hist>>

\* Making the backup fails, or, after it, making the temporary file: nothing is
\* restored.
FailBackup(t) ==
    /\ run[t].at = "write"
    /\ TakeBackup(Current(t).file) \/ UNCHANGED bak
    /\ End(t)
    /\ hist' = Over(hist, t)
    /\ CountFailure(TRUE)
    /\ UNCHANGED <<env, file, bucket, mem, ops, mcpOps>>

\* os.replace.  A YamlWriter then reloads; ConfigManager.save pushes.
Replace(t) ==
    LET f == Current(t).file
        after == [file EXCEPT ![f] = run[t].doc]
        h == Behind(hist, Proc(t), after)
        saving == Current(t).kind = "save"
    IN  /\ run[t].at = "replace"
        /\ file' = after
        /\ IF saving /\ ~env.s3
             THEN Onward(t, h)
             ELSE /\ Goto(t, IF saving THEN "push"
                             ELSE IF env.s3 THEN "pull" ELSE "settings")
                  /\ hist' = h
        /\ UNCHANGED <<env, bak, bucket, mem, ops, mcpOps, failures>>

\* Writing or renaming the temporary file fails: what is in the backup, whoever
\* took it, goes back into the file.
FailReplace(t) ==
    LET f == Current(t).file
        after == [file EXCEPT ![f] = IF bak[f] = NoDoc THEN @ ELSE bak[f]]
    IN  /\ run[t].at = "replace"
        /\ file' = after
        /\ End(t)
        /\ hist' = [Over(hist, t) EXCEPT !.behind = @ \/ after # file]
        /\ CountFailure(TRUE)
        /\ UNCHANGED <<env, bak, bucket, mem, ops, mcpOps>>

\* push_file uploads what the file holds by now, or fails and is ignored.
Push(t, ok) ==
    LET f == Current(t).file
    IN  /\ run[t].at = "push"
        /\ bucket' = IF ok THEN [bucket EXCEPT ![f] = file[f]] ELSE bucket
        /\ Onward(t, [hist EXCEPT !.op[t].s3ok = @ /\ ok])
        /\ CountFailure(~ok)
        /\ UNCHANGED <<env, file, bak, mem, ops, mcpOps>>

\* The pull in front of a reload; its failure is ignored.
Pull(t, pull) ==
    /\ run[t].at = "pull"
    /\ file' = Pulled(pull.n).file
    /\ bucket' = Pulled(pull.n).bucket
    /\ Goto(t, "settings")
    /\ hist' = [Behind(hist, Proc(t), file') EXCEPT !.op[t].s3ok = @ /\ pull.ok]
    /\ CountFailure(~pull.ok)
    /\ UNCHANGED <<env, bak, mem, ops, mcpOps>>

\* The pull of config_sync; its failure leaves the files as they are by now.
Sync(t, pull) ==
    LET h == Behind(hist, Proc(t), file')
    IN  /\ run[t].at = "sync"
        /\ file' = Pulled(pull.n).file
        /\ bucket' = Pulled(pull.n).bucket
        /\ IF pull.ok
             THEN Goto(t, "pull") /\ hist' = h
             ELSE /\ End(t)
                  /\ hist' = [Over(h, t) EXCEPT !.behind = @ \/ file' # file]
        /\ CountFailure(~pull.ok)
        /\ UNCHANGED <<env, bak, mem, ops, mcpOps>>

\* _load_config is _load_settings, then _load_users.
LoadSettings(t) ==
    /\ run[t].at = "settings"
    /\ Loadable(file["settings"])
    /\ mem' = [mem EXCEPT ![Proc(t)]["settings"] = SettingsFrom(file["settings"])]
    /\ Goto(t, "users")
    /\ hist' = [hist EXCEPT !.behind = @ /\ t = Mcp]
    /\ UNCHANGED <<env, file, bak, bucket, ops, mcpOps, failures>>

\* Settings raises: the operation ends, the file stays as it is and so does the
\* memory, users included.
FailLoadSettings(t) ==
    /\ run[t].at = "settings"
    /\ ~Loadable(file["settings"])
    /\ End(t)
    /\ hist' = Over(hist, t)
    /\ UNCHANGED <<env, file, bak, bucket, mem, ops, mcpOps, failures>>

\* Mutant: the reload after a save reads the settings only.
LoadNoUsers(t) ==
    /\ run[t].at = "users"
    /\ Loadable(file["users"])
    /\ Onward(t, hist)
    /\ UNCHANGED <<env, file, bak, bucket, mem, ops, mcpOps, failures>>

LoadUsers(t) ==
    /\ run[t].at = "users"
    /\ Loadable(file["users"])
    /\ mem' = [mem EXCEPT ![Proc(t)]["users"] = UsersFrom(file["users"], @)]
    /\ Onward(t, hist)
    /\ UNCHANGED <<env, file, bak, bucket, ops, mcpOps, failures>>

\* User raises: the settings and some of the users are new.
FailLoadUsers(t) ==
    /\ run[t].at = "users"
    /\ ~Loadable(file["users"])
    /\ \E part \in SUBSET GoodUsers(file["users"]) :
         mem' = [mem EXCEPT ![Proc(t)]["users"] = UsersAbove(file["users"], part, @)]
    /\ End(t)
    /\ hist' = Over(hist, t)
    /\ UNCHANGED <<env, file, bak, bucket, ops, mcpOps, failures>>

-----------------------------------------------------------------------------
\* What may be asked of the web process, and of the MCP process.
WebRequest(t) ==
    \/ \E u \in Users : \/ UserCreate(t, u)
                        \/ \E blank \in BOOLEAN : UserEdit(t, u, blank)
                        \/ UserDelete(t, u)
    \/ \E c \in Clients : \/ ClientCreate(t, c)
                          \/ \E blank \in BOOLEAN : ClientEdit(t, c, blank)
                          \/ ClientRegenerateSecret(t, c)
                          \/ ClientDelete(t, c)
    \/ \E oauth \in {Stamp, Bad}, classes \in BOOLEAN : SettingsPage(t, oauth, classes)
    \/ PrefixesPage(t)
    \/ ConfigSync(t)

McpTool ==
    \/ \E u \in Users :
         \/ McpCreateUser(u)
         \/ \E v \in {Stamp, Bad} : McpUpdateUser(u, v)
         \/ McpDeleteUser(u)
    \/ \E c \in Clients :
         McpCreateClient(c) \/ McpUpdateClient(c) \/ McpDeleteClient(c)
    \/ \E ks \in {{"oauth"}, {"oauth", "saml"}}, oauth \in {Stamp, Bad} :
         McpUpdateSettings(ks, oauth)
    \/ McpSave

Step(t) ==
    \/ LoadFile(t) \/ RefuseEdit(t) \/ Backup(t) \/ FailBackup(t)
    \/ Replace(t) \/ FailReplace(t)
    \/ \E ok \in BOOLEAN : Push(t, ok)
    \/ \E pull \in Pulls : Pull(t, pull) \/ Sync(t, pull)
    \/ LoadSettings(t) \/ FailLoadSettings(t)
    \/ LoadUsers(t) \/ FailLoadUsers(t)

\* The bound on operations is reached and all have ended.
Exhausted ==
    /\ ops = env.ops
    /\ \A t \in Threads : ~Busy(t)
    /\ UNCHANGED vars

Next ==
    \/ \E t \in WebThreads : WebRequest(t)
    \/ McpTool
    \/ \E t \in Threads : Reload(t) \/ Step(t)
    \/ \E p \in Procs, pull \in Pulls : Restart(p, pull)
    \/ Exhausted

Spec == Init /\ [][Next]_vars

-----------------------------------------------------------------------------
(***************************************************************************)
(* Properties.                                                             *)
(***************************************************************************)
\* AfterEdits(docs, edits, memory)[n]: the files once a process with this memory
\* has made the first n of these edits to them, one after the other.
Make(docs, e, memory) ==
    [docs EXCEPT ![e.file] = Edited(docs[e.file], e, memory[e.file])]
AfterEdits(docs, edits, memory) ==
    LET after[n \in 0..Len(edits)] ==
          IF n = 0 THEN docs ELSE Make(after[n - 1], edits[n], memory)
    IN  after

Ending(t) == Busy(t) /\ ~Busy(t)'
Crashing == ops' # ops

\* Thread t answers that all went well.
Succeeding(t) ==
    /\ Ending(t)
    /\ ~Crashing
    /\ \/ run[t].at = "users" /\ Loadable(file["users"])
       \/ run[t].at = "push"
       \/ run[t].at = "replace" /\ failures' = failures

\* An operation that had the files to itself (and no bucket) leaves them with the
\* first so many of its edits and nothing else, all of them if it succeeded,
\* whatever failed or crashed: atomic_write_yaml, RefuseEdit, the settings page
\* (routes/ui.py:658), save_config.
SoloOperationIsPrefix ==
    [][\A t \in Threads :
         Ending(t) /\ hist.op[t].alone /\ ~env.s3 =>
           LET op == hist.op[t]
           IN  \E n \in 0..Len(op.edits) :
                 /\ file' = AfterEdits(op.file, op.edits, op.memory)[n]
                 /\ Succeeding(t) => n = Len(op.edits)]_vars

\* Without a bucket, a key that no operation has named, and no save of the MCP
\* process has covered, keeps the value it was deployed with, its placeholder
\* included, however writers overlap, fail and crash (serialization.py:81, #87).
UntouchedKeysSurvive ==
    env.files /\ ~env.s3 =>
      \A f \in Files :
        /\ file[f] # NoDoc
        /\ \A k \in DOMAIN First(f) \ hist.touched :
             k \in DOMAIN file[f] /\ file[f][k] = First(f)[k]

\* default_user names a user of its document, or nobody, in the file, the backup
\* and the bucket, and the web process holds that user, unless users.yaml was
\* missing at first, delete_user of the MCP server was used, which leaves
\* default_user alone, or update_user stored a value that does not load, so that
\* a reload ends among the users (the client_credentials grant issues tokens for
\* default_user).
DefaultUserExists ==
    env.files /\ ~hist.spoilt =>
      /\ \A d \in {file["users"], bak["users"], bucket["users"]} \ {NoDoc} :
           d["default_user"] \in DOMAIN d \cup {NoUser}
      /\ Up("web") => mem["web"]["users"]["default_user"]
                          \in DOMAIN mem["web"]["users"] \cup {NoUser}

\* When no web request is in progress, the web process holds the settings in the
\* file if they load, and its users if both files load, unless somebody else
\* changed them since it began its last load; users that are no longer in the
\* file are the only thing a restart would change.  A value that does not load
\* (config.py:138, after yaml_writer.py:156-198 wrote it) is in the file only, and
\* the next save of a good one brings file and memory together again.
WebMemoryFollowsItsSaves ==
    Up("web") /\ ~hist.behind /\ (\A t \in WebThreads : ~Busy(t))
      /\ Loadable(file["settings"]) =>
      /\ mem["web"]["settings"] = SettingsFrom(file["settings"])
      /\ Loadable(file["users"]) =>
           LET fresh == UsersFrom(file["users"], Only("default_user", Admin))
           IN  /\ DOMAIN fresh \subseteq DOMAIN mem["web"]["users"]
               /\ \A k \in DOMAIN fresh : mem["web"]["users"][k] = fresh[k]

\* When an operation that had the files and the bucket to itself succeeds, and no
\* call to S3 failed, files and bucket hold the same: what save_config saved, or,
\* after a reload, what the bucket says, even where that undoes the web save the
\* reload belongs to.
SoloSuccessAgreesWithBucket ==
    [][\A t \in Threads :
         Succeeding(t) /\ hist.op[t].alone /\ env.s3
           /\ hist.op[t].s3ok /\ failures' = failures
           => file' = bucket']_vars

\* Saving the edit page of an existing user or client with a blank password or
\* secret does not change the one in the file, except that a placeholder is
\* replaced by its value, if the memory agreed with the files (routes/ui.py:358).
BlankEditKeepsSecret ==
    [][\A t \in WebThreads :
         Succeeding(t) /\ hist.op[t].alone /\ hist.op[t].fresh /\ ~env.s3 =>
           \A i \in DOMAIN hist.op[t].edits :
             LET e == hist.op[t].edits[i]
                 before == hist.op[t].file[e.file]
             IN  e.keeps /\ before # NoDoc /\ e.key \in DOMAIN before
                   => file'[e.file][e.key] = Expand(before[e.key])]_vars
=============================================================================
