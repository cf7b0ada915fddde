# A TLA+ model of NanoIDP

NanoIDP is a small identity provider for development: an OAuth 2 / OpenID
Connect server, a SAML IdP, an administration UI and an MCP server, in one
Python process behind Flask.  Every store it keeps (authorization codes, device
codes, revocations, keys in use) is a Python object shared by the request
threads, some of them under a lock; what survives a restart is a directory of
YAML files and a directory of keys, optionally mirrored to S3.  The models here
cover the parts where the order of steps decides whether the protocol is right.

Paths below are relative to `src/src/nanoidp/` unless they say otherwise.

## 1. Inventory

| Component | State | Operations | Hard behaviour | Correct when |
|---|---|---|---|---|
| Refresh tokens, `services/revocation.py`, `routes/oauth.py` (`_grant_refresh_token`, `revoke`, `introspect`), `services/token.py` | revoked jtis and revoked families, in memory; signed tokens, at the clients | refresh, `/revoke`, `/introspect` | check-and-claim under a lock between unlocked validation and unlocked minting; rotation toggled at run time; minting can fail over a caller's `extra`; restart forgets revocations | a token is spent once and answered, a family has one live end, only reuse kills a family, scopes only shrink |
| Authorization codes, `services/auth_code.py` | `_codes`, in memory | create (with sweep), consume | two redemptions racing; replay; the user deleted between consumption and answer; expiry boundary | pays out once, to its own party; nobody else can use it up |
| Device codes, `services/device_code.py` | `_codes` and `_by_user_code`, in memory | create (with prune), poll, verify | device and user race; user codes may collide; lost answers; expiry | pays out once and after approval only; the two mappings agree; decisions are final; polling ends |
| Signing keys, `services/crypto.py` | key, public key, kid, certificate and previous keys in memory; the same in the files of `keys_dir` | start, `rotate_keys`, `create_jwt`, `verify_jwt`, `get_jwks` | fourteen unlocked steps, crashes and exceptions between any two, threads signing and other rotations meanwhile | restart restores what was there; published keys cover the recent tokens; a completed rotation repairs a torn one |
| Configuration, `config.py`, `services/yaml_writer.py`, `serialization.py` | settings, users and clients in the memory of each process; `settings.yaml`, `users.yaml` and their `.bak` | load, reload, save, the YamlWriter operations | unlocked read-modify-write by threads of two processes; reload merges users instead of replacing them; restore after a failed write; values written that do not load | only keys somebody named change; an operation that is alone leaves a prefix of its edits; memory follows the files |
| S3 sync, `services/s3_sync.py` | the bucket | pull, push | reload pulls before it reads; partial pulls; calls that fail and are ignored | files and bucket agree after an operation that is alone |
| Authorize endpoint, `routes/oauth.py` | `oauth_*` values in the browser session | GET and POST `/authorize` | several tabs over one cookie; parameters stored before they are validated | a code carries the parameters of the page the user saw |
| SAML, `routes/saml.py`, `services/saml_verification.py` | `saml_verified_redirect` in the session | SSO legs, attribute query | several tabs; the signature of a query does not survive the login form; what is verified is read apart from what is used | what is answered entered signed, and is answered as it was asked |
| Logins and logout, `routes/ui.py`, `routes/oauth.py` (`end_session`), `services/clerk.py` | `user` in the session | login, Clerk login, logout | responses that arrive after a logout restore the cookie | a logout holds |
| Token claims, `services/token.py`, `/userinfo`, `/introspect`, the grants without a store | none; the context of a grant travels in its refresh token | create, refresh, present | reserved names, extra claims, narrowing, audiences changed while tokens are out | no caller-supplied claim widens what a token says or opens |
| MCP server, `mcp_server.py` | its own `ConfigManager` in its own process | some thirty tools | edits in memory against the other process's files | guards hold for every mutating tool; its save loses nothing it does not own |
| Audit log, `services/audit.py` | bounded deque and counters | log, read, clear | deque at its limit while counters go on | counters agree with what was logged |
| Other pages of the UI and the API, start-up, wizard, discovery, models | none of their own | forms and reads over the components above | settings page with several writes | see the component they call |

How they interact: `/token` (`routes/oauth.py`) picks a grant; the
authorization-code and device grants empty their stores and then sign; the
refresh grant asks the `RevocationStore`; all of them sign with `CryptoService`
and read users and settings from `ConfigManager`, which the UI, the API, the MCP
server and S3 change under them.  There are no messages between components, only
calls from concurrent request threads on shared objects.  PROJECT.json lists
every component with its status and every hazard at its line.

## 2. Modules

| Module | Models | Checked by |
|---|---|---|
| `RefreshRotation` | the refresh grant and the `RevocationStore` | `MCRefreshRotation` |
| `RefreshRotationProofs` | theorems about it, for all constants; every `...Proofs` below likewise | TLAPS |
| `OneTimeGrant` | abstract: what a store of one-time codes promises | as `PaysOutOnce` below; `OneTimeGrantProofs` |
| `AuthorizationCodes` | `AuthCodeStore` and the code grant; implements `OneTimeGrant` | `MCAuthorizationCodes`; `AuthorizationCodesProofs` |
| `DeviceCodes` | `DeviceCodeStore` and the polling device; implements `OneTimeGrant` | `MCDeviceCodes`; `DeviceCodesProofs` |
| `KeyRotation` | `CryptoService` and `rotate_keys` | `MCKeyRotation`; `KeyRotationProofs` |
| `ConfigDocuments` | what the two YAML files say, how they load, what each writer makes of them | in `ConfigStore` |
| `ConfigStore` | files, backups, bucket, the web process and the MCP process | `MCConfigStore`; `ConfigStoreProofs` |
| `BrowserSession` | the tabs of a browser at `/authorize`, `/saml/sso`, `/login` and `/logout` | `MCBrowserSession`; `BrowserSessionProofs` |
| `TokenClaims` | what tokens say, what a refresh recovers, what `/userinfo` and `/introspect` read | `MCTokenClaims`; `TokenClaimsProofs` |

What a lock makes indivisible is one action; what happens outside a lock is an
action for each access to shared state.  A uuid4 or `token_urlsafe` value is an
unused model value.  In every module an operator whose comment starts with
"Mutant" is no part of the model: it is the form a likely bug would give to the
definition after it, and shows that the named property notices.

### RefreshRotation

`request[t]` is what thread `t` has on its stack.  `Validate` is
`_grant_refresh_token` up to the arguments of `check_and_claim_refresh`
(signature, expiry, client binding, user, scope), where `rotation_enabled` is
read, before the lock.  `ClaimAccepted` and `ClaimRefused` are the two outcomes of
the critical section, `Mint` the signing in `token()` afterwards.  `MintFails` is a
signing that raises: the access token takes the members of the request's `extra`
unchecked, and `jwt.encode` refuses an `iss` that is not a string
(`services/crypto.py:327`), when the token has already been consumed.  `Issue` stands
for everything else that makes refresh tokens: the other grants, the user-token
API and the MCP tool (the last two bind no client).  `Revoke` takes no lock and
asks for no client, as in the code.  `Restart` empties both sets while the tokens
stay with their holders.  `Init` may hold a token from before `client_id` and
`rt_family` existed, since the code has branches for their absence.

History variables and fields: `parent`, `rotated` and `boot` of a token,
`withdrawn` (revoked by `/revoke` before anything else spent them) and `lost`
(consumed by a request whose signing failed).

### AuthorizationCodes

`CreateCode` sweeps and inserts.  `consume_code` is split along its outcomes:
expired (dropped), used (dropped), mismatch (left alone), consumed (marked).
`Answer` is the rest of the grant: look the user up, sign; either may fail, and the
code is spent all the same.  A challenge is named by the verifier that opens it, so
`plain` and `S256` are one injective function; that S256 has no collisions is assumed.  `paid` and `binding` are history.

### DeviceCodes

Both mappings are kept, because nothing in the code stops two live grants from
drawing the same user code.  Each branch of `poll` and `verify` is an action.
`PollAuthorized` may deliver its answer or lose it: the grant is deleted either
way, before the tokens are made, so a signing that fails is a lost answer too.
`device[d]` is the device's own knowledge; it polls until it hears something other than "pending" or the 500 of a missing user.
A poll that arrives before `interval` has passed is answered like any other,
since the code keeps no poll times.

### KeyRotation

Memory, disk, and for every rotating thread its place in `rotate_keys` and its
local variables; no thread takes a lock, so their steps interleave freely.  Keys are numbered in the
order of their generation; private key, public key, kid and certificate with the
same number belong together.  Writing one file is one step: it happens, or `Fail`
aborts the rotation with an exception, or `Crash` stops the process.  The test of
the pruning loop, the pop and the unlink are three steps.
`StartFresh(n)` is a first start that dies after `n` of its files.  `SignHeader`
and `Sign` are the two reads of `create_jwt`.  `LoadedPrevious`, which goes through
`keys.json`, is a recursive function of the position, so that it can be reasoned
about.

### ConfigDocuments and ConfigStore

A document is a function from the keys the program owns (users, `default_user`,
clients, sections, `security_profile`) and one foreign key (`custom`) to values.  A
value stands for a whole entry; a placeholder `${NAME}` is a value that loading
expands, and `++` overlays one function on another.  `Bad` stands for every value
that the Pydantic models refuse: an issuer that is no URL, an empty audience, a
lifetime out of range, an empty password.  The settings page and the MCP server's
`update_settings` and `update_user` store such values unchecked
(`services/yaml_writer.py:156`, `mcp_server.py:926`); the other forms and tools build
or assign a validated model first, and what they reject changes nothing.

Writers come in two kinds: the `YamlWriter` puts or drops one entry in the document
it has read, `ConfigManager.save` replaces every owned key by what its process has
in memory.

`run[t]` is where thread `t` is: reading (`LoadFile`), taking the backup
(`Backup`), replacing the file (`Replace`, or `FailReplace`, which restores
whatever the backup holds by now), pushing, pulling, and the two halves of a load
(`LoadSettings`, `LoadUsers`).  On a document with a bad value these raise instead
(`FailLoadSettings`, `FailLoadUsers`): the file stays as written, the settings in
memory stay as they were, of the users some are new; and a process that is started
on such files is down, with nothing in memory, until a later start.  All of it interleaves, since no lock is taken.  A
form is a list of edits, so the settings page is two or three of these sequences
in a row.  The tools of the MCP server that change its memory are one step each:
its event loop has nothing to run in between.  `Restart` kills a process wherever
its threads are.

One step each, although the code takes several: a pull (which may end after any
of its files), the copy of the backup, and start-up.  `set_default_user` and
`push_all` have no callers and are left out.

The history variable `hist` records, for an operation that has had the files to
itself so far, what it began with: the files, its edits and its process's memory.
`hist.spoilt` records that the MCP server has deleted a user, or given one a value
that does not load.  `AfterEdits` says what the files hold after each of the edits.  The properties about single operations are
stated for those, because with two writers the code promises nothing: the second
of two overlapping saves drops the first one's entry, and a failing one restores a
backup that may be the other's.  `UntouchedKeysSurvive` and `DefaultUserExists` are
what remains true of every interleaving.

### BrowserSession

Flask's session is a cookie.  A handler works on the copy its request brought
(`Open`) and what it changed reaches the browser with the response (`Receive`); so
the last response to arrive decides.  The handler runs at `Open`, because it reads
and writes no session but its own copy.  A tab waits for its response before it
sends the next request; several browsers share nothing, so one is enough.

`AuthorizeGet` stores the nine parameters before it validates them, as
`authorize` does; `AuthorizeLogin` validates what the session holds by then.
`AuthorizeForm` is a client that POSTs its parameters, which stores nothing.
`Sso` is the whole of `/saml/sso`; `Admits` is the signature rule for each leg,
`ParsedFor` the verb that strict binding checks.  `/logout` is `end_session`,
because its blueprint is registered first (`app.py:112`); `logout` of
`routes/ui.py` is never reached, and `/logout/clerk` does the same to the session.
Credentials are the user they authenticate, or `None`.

The signature check of a GET reads the raw text of the query, under the literal
names of its parameters (`saml_verification.py:57`), while the handler works with
the form, else with the decoded query (`saml.py:382`), and nothing compares the
two.  So a GET has a `query`, which is what `QuerySigned` looks at, beside `request`
and `relay`, which are used.  In a deployment with `plain` they are the same; the run
has one without.  A signature inside a document covers some element of it, and
the root is what is parsed: `xmlSigned` says that the check passes and no more.
`Voucher` records which verified query an answer goes back to.

### TokenClaims

`CreateToken` is `create_token`: three payloads from a grant, a user, a client and
the caller's `extra`, which in the access token may replace any claim, the `jti`
included.  A claim is a set of values.  `RefreshGrant` rebuilds the
grant from the claims of the token it is shown, as the code does; which refresh
tokens are still good is the subject of `RefreshRotation`.  Fields `grant`,
`origin` and `resource` of a token are history.  Administrators change users,
additional audiences, the resource audience and the profile between any two
requests.

## 3. Runs

Passing:

| Run | Shows | Bounds |
|---|---|---|
| `refresh_rotation` | `OneHeadPerFamily`, `SingleSuccessor`, `ConsumedIsAnswered`, `FamilyDiesOfReuse` with two threads refreshing one family while rotation is toggled, tokens are revoked, the user is deleted, signing fails and the process restarts | 3 tokens, 2 threads, 2 starts: root, successor and a rival; both threads hold the same token; every property mentions at most two tokens and their parents |
| `refresh_chain` | `Attenuation` over chains by two clients, from bound, unbound and legacy tokens | 3 tokens (a chain of two refreshes), 2 clients, 2 scopes, one thread since no interleaving matters here |
| `auth_codes` | the store implements `OneTimeGrant` (`PaysOutOnce`), `OneTokenPerCode`, `OthersCannotSpoil` | 2 codes, 2 of every member of a party, 2 threads, lifetime 1 of 3 ticks: codes expire, are swept by a later one, and are live on both sides of a tick |
| `device_codes` | `PaysOutOnce`, `IndexNeverDangles`, `OnlyCollisionOrphans`, `DecisionIsFinal`, and the liveness property `PollingEnds` | 2 devices and 2 user codes (with and without collision), 2 clients, 2 users, lifetime 1 of 4 ticks |
| `key_rotation` | `RestartIsInvisible`, `RecentTokensVerify`, `RotationRepairs`, the last also after rotations that overlapped | 2 rotating threads, 2 previous keys and 5 keys, so that the pruning drops a key twice; one rotation begun during another, anywhere among the four; one aborted rotation; any number of crashes; one signing thread, since signers share nothing but what they read |
| `config_store` | `UntouchedKeysSurvive`, `DefaultUserExists`, `WebMemoryFollowsItsSaves`, `SoloOperationIsPrefix`, `SoloSuccessAgreesWithBucket`, `BlankEditKeepsSecret` | 2 web threads and the MCP process, 2 users, 1 client, 1 failure, in six deployments: with and without files, bucket, `--profile`, `--readonly`; values that do not load, stored by the settings page and the MCP server; 2 operations that may overlap, or 3 one after the other.  An overlap takes two writers and the effect of one on the next takes a third step |
| `browser_session` | `RefusedNeverGranted`, `ShownIsGranted`, `LeftoversNeverGranted`, `LoggedOutStaysOut`, `OnlySignedIsAnswered`, `AnsweredAsAsked` | 2 tabs, one user and one Clerk name, 4 authorization requests (one refused, one with nothing optional), 2 AuthnRequests (signed in the query, signed in the XML), eleven installations, one of them with queries that spell something else than what is used, with 3 to 5 requests each: a page, an interfering request and a login are three |
| `token_claims` | `ReleasedWasGranted`, `IdTokenSpeaksForTheGrant`, `RefreshKeepsContext`, `OnlyAccessTokensOpen` | one user with and without an attribute named `aud`, one client, two audiences, several kinds of `extra`, one of which replaces the `jti`, or none; one first grant, chains of up to two refreshes, up to two administrative changes.  The properties speak of one token and the authorization it descends from |

Violated, each a sentence of the documentation or a comment that the code does
not keep:

| Run | Statement | What the code does |
|---|---|---|
| `refresh_visible` | `book/src/guides/token-requests.md:43`: reuse revokes the whole family | introspection looks at the jti only and calls the family's live token active |
| `auth_code_replay` | `services/auth_code.py:155`: "Revoke all tokens issued with this code" | the code entry is deleted, nothing is revoked |
| `previous_keys` | `docs/SECURITY.md:106`: tokens signed with previous keys remain valid | `verify_jwt` knows the current key only; userinfo, introspection and refresh refuse them |
| `seamless_rotation` | `docs/SECURITY.md:89`: validation is seamless during rotation | a token signed while the fields are exchanged has the kid of one key and the signature of another |

Bounds by name: `MaxBoots` (process starts), `MaxTime` and `Lifetime` (clock),
`MaxKeys` (keys generated), `MaxOverlaps` (rotations
begun during another), `MaxFailures` (aborted rotations; in `ConfigStore`
failing writes and S3 calls), `MaxOps` and `MaxMcpOps` (operations begun and
processes restarted), `maxExchanges` (requests of the browser), `MaxGrants`,
`MaxIssues` and `MaxEdits` (first grants, calls of `create_token`, administrative
changes).  `Create` and
`CreateCode` are guarded so that a code's expiry lies within the clock: otherwise
the end of the clock would hide it.  Symmetry is used where no liveness property
is checked and no constant is named in the configuration.

Deadlock is checked in every run but two: some action is always possible, since a
user can be deleted and created again, or the process can crash and start.
`ConfigStore` may stop only when its bound on operations is reached and every
thread is idle (`Exhausted`), so that an operation that hangs would be found.
`browser_session` and `token_claims` turn the check off: their requests are
bounded, and nothing happens after the last one.

### Fairness

`DeviceCodes!LiveSpec` assumes that the clock runs and that a device which is
still waiting polls again (weak fairness of `Tick` and of each `Poll(d)`).  The
device is an RFC 8628 client, whose loop does that; the server has no scheduler
of its own.  Nothing makes the user come to `/device`, nothing makes answers
arrive, and restarts may go on for ever: `PollingEnds` holds because a grant
expires or is gone.

## 4. Proofs

Each run shows its properties on a small instance; the theorems below state the
same properties for every value of the constants.  Each proof has the same shape:
an inductive invariant `IInv`, a lemma for every action or for every part of
`IInv`, and one temporal step.  Action properties follow from `IInv` and the action
that could break them.

| Module | Theorems |
|---|---|
| `RefreshRotationProofs` | `TypeCorrect`: `TypeOK`; `RefreshSpendsOnce`: `SingleSuccessor`; `RotationKeepsOneHead`: `OneHeadPerFamily`; `ConsumptionIsAnswered`: `ConsumedIsAnswered`; `RevocationNeedsReuse`: `FamilyDiesOfReuse`; `RefreshAttenuates`: `Attenuation` |
| `OneTimeGrantProofs` | `PaysOneParty`, `LapsedForGood`: the promise itself |
| `AuthorizationCodesProofs` | `TypeCorrect`: `TypeOK`; `OneCodeOneToken`: `OneTokenPerCode`; `NobodySpoils`: `OthersCannotSpoil`; `StoreKeepsThePromise`: `PaysOutOnce` |
| `DeviceCodesProofs` | `TypeCorrect`: `TypeOK`; `IndexLeadsToGrants`: `IndexNeverDangles`; `PendingGrantsReachable`: `OnlyCollisionOrphans`; `DecisionsStand`: `DecisionIsFinal`; `StoreKeepsThePromise`: `PaysOutOnce` |
| `KeyRotationProofs` | `TypeCorrect`: `TypeOK`; `RotationsRepair`: `RotationRepairs`; `RestartChangesNothing`: `RestartIsInvisible`; `RecentTokensAlwaysVerify`: `RecentTokensVerify` |
| `BrowserSessionProofs` | `TypeCorrect`: `TypeOK`; `NoRefusedRequestIsGranted`: `RefusedNeverGranted`; `WhatIsShownIsGranted`: `ShownIsGranted`; `NoLeftoverIsGranted`: `LeftoversNeverGranted`; `LogoutLasts`: `LoggedOutStaysOut`; `AnsweredWasSigned`: `OnlySignedIsAnswered`; `RequestsAreAnsweredAsAsked`: `AnsweredAsAsked` |
| `TokenClaimsProofs` | `TypeCorrect`: `TypeOK`; `OnlyTheGrantedIsReleased`: `ReleasedWasGranted`; `IdTokensSpeakForTheGrant`: `IdTokenSpeaksForTheGrant`; `ContextIsKept`: `RefreshKeepsContext`; `OnlyAccessTokensAreAdmitted`: `OnlyAccessTokensOpen` |
| `ConfigStoreProofs` | `TypeCorrect`: `TypeOK`; `UntouchedKeysAreSafe`: `UntouchedKeysSurvive`; `DefaultUserIsKnown`: `DefaultUserExists`; `WebMemoryFollows`: `WebMemoryFollowsItsSaves`; `SoloIsPrefix`: `SoloOperationIsPrefix`; `SoloAgreesWithBucket`: `SoloSuccessAgreesWithBucket`; `BlankKeepsSecret`: `BlankEditKeepsSecret` |

The only assumptions are the named ones in the modules.  They say that bounds are
natural numbers, that the markers for "nothing" (`None`, `NoUser`, `NoDoc`, `Gone`)
are none of the values they stand beside, that a record's fields are what their
names say, and what is listed here.  `KeyRotation` has finitely many rotating
threads (`RotatorsAssumption`), because `overlaps` counts them.  In
`ConfigDocuments` the built-in user and client are among the users and clients
(`FallbackAssumption`), and entries of different kinds have different keys
(`KindsAssumption`), since a key stands for a place in the file and not for a name; in
`ConfigStore` what loads is neither bad nor a placeholder (`ValuesAssumption`).
None bounds a set of codes, clients, users, tabs, requests or threads, and the
bounds on time, operations and failures are arbitrary numbers.

### RefreshRotation

The properties are not inductive, because they speak of tokens while the damage
is prepared by requests in flight.  `IInv` adds what ties the two together:

- `UniqueJti`: a jti names one token (the freshness of uuid4 carried through);
- `Lineage`: families and parents are tokens that exist, so a fresh jti is
  nobody's family and nobody's parent;
- `InFlight`: a thread carries a token that exists and has passed the checks;
- `Spent`: a rotating claim has its token in the revoked set, before and after
  the minting, which is the step from "the lock was taken" to "the second
  claimant is refused";
- `SoleClaim`: two rotating claims on one token never coexist, with each other or
  with a rotated successor.

`OneHeadPerFamily` needs its hypothesis `PureRotation`: a refresh with rotation off
leaves its token live, and a restart forgets which were spent.
`ConsumedIsAnswered` exempts the tokens in `lost` and no others: what has been spent
was withdrawn, or its refresh was answered, is about to be, or could not sign its
own `extra`.  `FamilyDiesOfReuse` is a property of the step that revokes a family, and
follows from it: the token refused there is in the revoked set, and history
accounts for whatever is.  So a token presented for the first time kills nothing,
whatever the other requests do.

### OneTimeGrant and the stores that implement it

`OneTimeGrant` promises that a code pays one party at most, the one it was issued
to, and that what has lapsed or paid does not come back; `OneTimeGrantProofs` shows
that its steps keep that promise.  Each store then implements it for every code:
the initial state maps to its initial state, and each action of the store maps to
one of its actions or to a stutter.  Under the refinement mapping (`GrantStatus`) a
code without a party is unused, one that was paid is redeemed, one that can still be
paid is offered or approved, and any other is void.

In `AuthorizationCodes` the mapping needs that an entry still names the party in
`binding` (`EntriesKeepTheirParty`): otherwise `consume_code` would compare a request
with somebody else's party.  `OneTokenPerCode` needs that whatever is being answered
has been marked used (`OnlyUsedCodesPay`): the answer is given after the lock, so a
thread on its way must already exclude the next one.

In `DeviceCodes` the mapping needs that what is in the store was issued and has not
paid (`GrantsWereIssued`), and that a code nobody issued has no history
(`UnissuedIsBlank`).  The two invariants about the mappings, `IndexNeverDangles` and
`OnlyCollisionOrphans`, are inductive together: an index entry is removed only
with its grant, or overwritten by a grant with the same user code.

### KeyRotation

`IInv` has two layers.  The first holds in every history: `Shape`, what each step of
`rotate_keys` has in its local variables; `WriteOrder`, the order in which files
come to exist; and `LoneRotations`, that what a rotation running alone has replaced
so far carries its new key.  `RotationRepairs` follows from it, after any crash,
failure or overlap.

The second holds as long as nothing has failed or overlapped (`Clean`), and follows
a rotation step by step:

- `Orderly`: memory and files agree but for what the rotation has replaced, and the
  kid is never ahead of its private key;
- `PreviousFit`, `MetaFit`: the i-th previous key is at least i rotations old,
  younger than those after it, and has its file.  That is why the pruning loop
  unlinks a file nobody needs any more;
- `Reloads`: as long as the files cover it, the list in memory is the one a start
  would load, with the retired key in front while it has not reached `keys.json`;
- `TokensKept`: the key of each token is in the list, or replaced too often, with
  the token that is being signed and the process that is down included.

What a start loads is a recursive function of `keys.json`.  The facts about it are
proved by induction on the position, carried out on sets of numbers closed under
successor (`NumbersByInduction`, from the least element of what is left out).

### BrowserSession

A page says what it was rendered with, and the cookie decides what its login is
granted.  The properties hold because of what is on its way: a response carries
the session its handler worked on, and that session replaces the cookie.  So `IInv`
speaks of responses as much as of the cookie:

- `PagesSound`: what is true of a page by itself, displayed or on its way;
- `SessionsSigned`: no session remembers a SAML request but one that came by a GET
  whose query was signed, and, with plain queries, the one that query spells
  (`Vouched`);
- `LogoutsStick`: after a logout no session on its way, but a login's, has a user;
- `AloneIsAlone`: an exchange marked as alone is the only one under way;
- `PagesRemembered`: every session the browser has, or may soon have, matches the
  login page at rest that no other authorization request has disturbed, or has
  forgotten its parameters;
- `FlowsForgotten`: between two flows no session remembers a parameter.

### TokenClaims

`TokensFaithful` says of every token what its payload states: the subject, scope and
requested claims of its grant (`StatesGrant`), the time and the requests of the
authorization it descends from (`KeepsOrigin`), and its client (`NamesClient`).  It is
inductive because a refresh reads nothing else.  The lemmas under it compute what
each of the three payloads says of each claim, and hold for any `extra` and any
attribute names; this is where dropping `Authoritative` and `Reserved` names is
needed.  `JtisDistinct` carries the freshness of the jtis, for the tokens whose `extra`
leaves them theirs (`OwnJti`).

### ConfigStore

- `Running`: only a process that is running has anything in memory, or anybody at
  work (it stands beside `IInv`, and the two are inductive together);
- `Documents`: every document, in a file, a backup, the bucket or a memory, is good:
  without a bucket it keeps the keys nobody named, and until `hist.spoilt` its
  `default_user` is one of its users, and the users load.  What the web process
  holds always loads.  That a backup exists only
  beside its file, and is as good, is what makes a restore harmless;
- `StagesFit`: so is the document in the hands of a thread, and the keys of its
  edits count as named.  Without it a file could be replaced by anything;
- `MemoryFollows`: the web process holds what the files say, or some thread of it
  is about to load them, as far as they load.  A replaced file always has a thread
  that will try;
- `SoloSteps`: of an operation that has had the system to itself, that the files
  hold the edits it has made so far (`EditsMade`), that files and bucket agree once
  pulled or pushed (`BucketFollows`), and that a blank secret was filled in from the
  file it began with (`SecretsKept`).

The lemmas about `ConfigDocuments` come first: each writer makes a good document of
a good one.  `AfterEdits` is a recursive function, unfolded by the same kind of
induction as in `KeyRotationProofs`.

### Only model-checked

`PollingEnds`, because fairness and `ENABLED` are out of the prover's reach.  The four
statements of section 3 that the code does not keep are refuted by TLC's
counterexamples.  The models themselves, and their correspondence to the code, are
of course not proved.

## 5. What is left out

- Cryptography, token expiry and parsing: a request whose token does not verify
  changes nothing, and is a stutter of these models.
- Bodies of the answers, audit entries, logging.
- A file torn by a crash in the middle of its write, or read by one rotation while
  another is writing it.
- External keys: `docs/SECURITY.md:76` and `book/src/reference/configuration.md:144`
  describe `jwt.external_keys`, but `config.py` never reads it (nor
  `max_previous_keys`), so no running process has them and `MaxPrevious` is 2.
- The MCP server's own `CryptoService` on the same `keys_dir`: `KeyRotation` has one
  process.
- `RecentTokensVerify` and `RestartIsInvisible` promise what the code can keep,
  and no more.  A crash between the pruning of a rotation and its last file loses
  published keys, because `keys.json` is written last: the tokens signed before
  such a crash leave the history variable `tokens`.  A rotation that failed and
  is retried lists the old key twice, and pruning one entry unlinks the file of
  the other: both properties hold until the first failed rotation (`Settled`), and
  for one rotation at a time.  `RotationRepairs` is stated for every rotation that
  runs alone, after any crash, failure or overlap.
- `OnlyCollisionOrphans` is as strong as the code allows: two grants with one
  user code orphan each other's index entry.
- The lock-free `revoke()` relies on `set.add` being atomic under the GIL; it is
  one step here.
- Of the configuration: the fields inside an entry (what the loader would refuse is
  one value, `Bad`), the certificate and key files that S3 carries as well, and a
  torn YAML file: neither a crash in the middle of the copy that restores a backup
  (`serialization.py:184`) nor a read during it.
- Of the browser: expiry of the session, several browsers (they share nothing
  that these handlers write), the content and signature of a SAML response, and
  attribute queries, which keep no state.
- Of the claims: expiry, nonce, `build_authorities` and the resolution of the issuer.
  `OnlyAccessTokensOpen` is about `/userinfo` and `/introspect`: an ID token that
  carries a requested user attribute called `token_type`, with the value `refresh`,
  would be taken for a refresh token by the refresh grant, and is outside it.
- `set_default_user`, `push_all` and `routes/ui.py`'s `logout`: nothing calls them.
- Components marked `not_modelled` in PROJECT.json: the audit log, whose every
  operation holds its one lock and which nothing else reads, and deployment files
  and tests.

What the properties do not catch.  Some describe what the code keeps by excluding
the histories in which it does not:

- `OneTokenPerCode` bounds the answers to a code.  A code may be spent with nothing
  issued: the user was deleted meanwhile, or signing failed (`routes/oauth.py:685`).
- `ConsumedIsAnswered` exempts a request whose own `extra` cannot be signed.
- `SoloOperationIsPrefix`, `SoloSuccessAgreesWithBucket` and `BlankEditKeepsSecret` are
  about operations that had the system to themselves; the last also about a memory
  that agreed with the files.  With a lagging memory a blank field writes the older
  secret back.  What overlap may destroy is bounded by `UntouchedKeysSurvive` alone.
- `WebMemoryFollowsItsSaves` lets the memory hold users that the file has lost, and
  says nothing while `behind`, which includes a `--profile` until the first reload.
- `ShownIsGranted` and `LeftoversNeverGranted` exclude the histories in which another
  tab has a request pending; there only `RefusedNeverGranted` is left.
- `LoggedOutStaysOut` excludes an exchange that overlaps the logout, whose response
  restores the session when it arrives last.
- `OnlySignedIsAnswered` and `AnsweredAsAsked` are about answers: that a second SSO
  request makes the login of the first tab fail is not stated.  And where queries
  need not be plain, the former says that the request entered by a GET with a
  verified query, not that this query spelled it.
- `RotationRepairs` is about the current key; the list of previous keys may stay mixed
  after rotations that overlapped, or doubled after one that was cut short.

Behaviour met while modelling that no run states, because the properties describe
what the code keeps:

- `routes/oauth.py:541` says that a rejected request never consumes the refresh token,
  and that from the claim on "issuance is local signing and cannot fail".  It can: an
  `extra` with an `iss` that is not a string passes every check before the claim, and
  `jwt.encode` raises after it.  The answer is a 500, the token is spent and has no
  successor.  `MintFails` models it; the code grants end in the same way.
- The settings page stores what it is given and lets the reload find out
  (`services/yaml_writer.py:197`): a value that `Settings` refuses stays in the file
  under a failure message, every reload fails until a good one is saved over it, and a
  process cannot start.
- The verified query of an AuthnRequest and the request that is used are not compared
  (`services/saml_verification.py:57`, `routes/saml.py:382`), nor is the element that an
  XML signature covers and the root that is parsed (`services/saml_verification.py:147`).

- Two rotations at once read the same `old_kid` (`services/crypto.py:370`): the later
  one replaces the key of the earlier one without listing it, so tokens signed with
  that key in between lose their JWKS entry, although `docs/SECURITY.md:103` says
  that a rotation moves the old key to the "previous" list.  The variable `overlaps`
  marks these histories.
- With a bucket, a save from the web UI is undone by the reload that follows it:
  `YamlWriter` does not push, and `reload` pulls first
  (`services/yaml_writer.py:67`, `config.py:318`).  The repository's `README.md:14`
  says that saves are uploaded.  `SoloSuccessAgreesWithBucket` therefore says that
  files and bucket agree, not that they hold the edit.
- A user deleted from the file stays in the memory of the process that reloads
  (`config.py:221`), and the MCP server's next save writes it back.
- A `--profile` override is lost with the first reload (`app.py:37`); the
  `behind` flag of `ConfigStore` starts `TRUE` for such a deployment.
- The MCP server's `delete_user` can leave `default_user` naming nobody.  The
  client_credentials grant then builds a user with an empty password, which the
  model rejects (`routes/oauth.py:719`).
- Saving an entry through memory replaces its placeholder by the value.
- A parameter a client leaves out of `/authorize` is taken from an earlier,
  abandoned or refused, request in the same browser rather than from its
  documented default (`routes/oauth.py:122`); `LeftoversNeverGranted` is stated for
  requests made with none pending.  Parameters that were POSTed are not stored, so
  the login after such a page uses what an earlier GET left: the properties about
  pages are stated for GET.
- A failed login at `/saml/sso` renders the form again with the verb of that very
  POST (`routes/saml.py:483`).  Under strict binding a deflated request is then
  not parsed, and with required signatures it is refused: `AnsweredAsAsked` is
  stated for the first attempt there.
- The refresh grant recognises its tokens by `token_type`, which a caller's
  `extra` may set on an access token; `TokenClaims` gives such a token a lineage of
  its own.

## 6. Plan

Done, in this order: `RefreshRotation` with its proofs (the richest protocol and
the one with real interleavings), `OneTimeGrant`, `AuthorizationCodes`,
`DeviceCodes`, `KeyRotation`; then `ConfigDocuments` and `ConfigStore`,
`BrowserSession` (the authorize endpoint and SAML SSO share one cookie, so they
became one module) and `TokenClaims`.  All the runs planned exist; what is left of
the system to model is listed in section 5.

The proofs followed in the order of the modules.  Every property of a passing run
is now a theorem, but for `PollingEnds`.

Next:

1. `KeyRotation` with the MCP server as a second process on the same files
   (`mcp_server.py:162`): its `CryptoService` loads once, and either process may
   replace what the other has in memory.
2. SAML responses as readers of key and certificate (`routes/saml.py:286`), beside
   the threads that sign tokens in `KeyRotation`.
