# TLA+ models of the ezpds personal data server

ezpds is a personal data server (PDS) for the AT protocol, written in Rust, with
the wallet that holds its users' identities. The server keeps accounts, their
signed repositories and blobs in one SQLite database, and publishes every change
on an ordered event stream, the *firehose*. This directory holds models of the
parts in which several activities share state, the TLC configurations that check
them, and the proofs. Paths below are relative to `src/crates/`.

## 1. Inventory

One process serves all requests. Handlers are tokio tasks: a handler may be
suspended at every `.await`, and it is *dropped* there when its client
disconnects. The database pool has a single connection (`custos-db/src/lib.rs`,
`open_pool`), so statements are serialised and an open transaction excludes
every other statement, but a handler that issues several statements without a
transaction interleaves with the others between them. In the wallet the commands
of the user interface overlap in the same way: state is read under a lock, the
network is used with the lock released, and state is written under it again.

| component | state | operations | what is hard |
|---|---|---|---|
| firehose (`custos-core/src/firehose`, `custos-firehose`, `custos-db/src/firehose_seq.rs`) | `repo_seq` rows, `last_seq`, `prune_floor`, broadcast ring, one reader per connection | bare and staged emission, subscribe, page, recv, retention sweep, boot | replay/live hand-over, dropped handlers, sweeps beside readers, ring overflow |
| repository writes and account status (`pds/src/record_write.rs`, `pds/src/routes/{delete_record,apply_writes,import_repo,activate_account,deactivate_account,update_subject_status}.rs`, `custos-db/src/{accounts,blocks}.rs`) | repo root, status, record count, block store, per-DID write lock | create/put/delete/applyWrites, importRepo, activate, deactivate, take down, block collection | collection beside other paths, compare-and-swap on the root, silent loss of records in the tree |
| legacy sessions (`pds/src/routes/{create,refresh,delete}_session.rs`, `pds/src/routes/{create,revoke}_app_password.rs`, `pds/src/session_issuer.rs`, `custos-db/src/{sessions,refresh_tokens}.rs`) | sessions, refresh tokens, app passwords | login, rotation, replay detection, logout, app passwords, sweeps | concurrent rotation of one token, lost answers, revocation beside use |
| OAuth tokens (`custos-oauth/src/routes/oauth_token`, `custos-db/src/oauth.rs`) | codes, refresh tokens, session families | exchange, refresh, revoke, sweep | a refresh beside another refresh or a revocation |
| OAuth consent (`custos-oauth/src/routes/{oauth_authorize,oauth_consent}.rs`) | pushed requests, pending authorizations, audit log | push, page, announce, decide, complete | two deciders, two browsers, expiry under a decision |
| device transfer (`pds/src/transfer.rs`, `custos-db/src/transfers.rs`) | transfer rows, device credentials | initiate, accept, complete, cancel, expire | races of the two devices and the expiry |
| repo key rotation (`pds/src/routes/repo_key_rotation.rs`) | active and staged signing key, the DID document's key | begin, complete, retry | a crash between the directory write and the promotion |
| account migration (`obsign-core/src/{migration_orchestrator,migrate}.rs`) | the slot with its phase, the identity leg, accounts on two hosts, the directory | prepare, authenticate, create, transfer, verify, arm, build, submit, finalize | steps that cannot be undone, overlapping commands, lost answers, a killed app |
| blobs (`custos-blobs`, `custos-db/src/blobs.rs`) | blob rows, owners, files | upload, reference, reconcile, sweep, scrub | file and row cannot be changed atomically; references move while they are being read |
| account creation, deletion, reaping (`pds/src/account_*.rs`) | account rows, DID | create, delete, reap | failure between several steps |
| claim, recovery, resumption (`obsign-core`, `ceremony-journal`) | journalled phase | step, resume, abort | a crash between steps |
| agents (`custos-agents`), spaces (`custos-spaces`) | grants, members, a second write path | claim, grant, revoke, write, fan-out | revocation beside use |
| notification relay, crawler notifier | registrations, last-notified times | register, push, notify | rate limits and retries |
| background sweeps (`custos-core/src/sweep.rs`) | timers, last outcome | tick | a sweep beside every handler |
| rate limits, read-after-write, proxying, admin, metrics | counters, caches | | |
| cryptography and repository engine (`crypto`, `repo-engine`) | none | pure functions over bytes | data, not interleaving |
| apps, sites, tools | UI state | | |

How they interact: a record write takes the DID's repo write lock, then the
firehose's `emit_lock`, then the only database connection, moves the root by
compare-and-swap, inserts its event in the same transaction, and broadcasts
after the commit. Status handlers take only `emit_lock` and the connection.
importRepo takes only the connection. A key rotation holds the write lock from
its directory write to the promotion of the key, so that no commit falls between
them. Sweeps and replay readers take the connection statement by statement. The
credential components touch each other in whole-account sweeps only: a completed
transfer and an operator's revocation delete rows of several of them in one
transaction, and each model has that transaction as an action.

What makes them correct:

* the firehose: sequence numbers are never reissued, every consumer sees an
  ordered stream without duplicates or gaps, may always resume, and is either
  caught up or told that it was too slow;
* the write path: the persisted root is always readable, no update is lost, no
  record disappears that nobody deleted, and the stream describes the account's
  head and status;
* credentials: what was revoked or rotated stays so, one token yields one chain,
  nothing is more privileged than what it came from, one consent gives one code,
  and a device swap leaves one device;
* identity ceremonies: the key of the document is held, commits verify under it,
  some host serves the account throughout, and the cutover comes after a verified
  import;
* blobs: what records use is kept, what nothing uses goes, and a row has its file.

## 2. Modules

| module | contents |
|---|---|
| `Firehose` | sequencer, replay, connections, retention sweep, restart |
| `EventFeed` | what the firehose promises: an append-only numbered log, deliveries that move forward |
| `RepoWrite` | one account's root, blocks, count, status, lock |
| `Sessions` | password sessions and app passwords of one account |
| `OAuthTokens` | the token endpoint for one account and client |
| `OAuthConsent` | wallet-confirmed consent, from the pushed request to the code |
| `Transfer` | the planned device swap of one account |
| `KeyRotation` | signing key rows, the directory's log, completions, commits |
| `Migration` | the wallet's slot and identity leg, the hosts, the directory |
| `BlobGc` | one blob, its file and its owners, the collector, deletion, the scrub |
| `FirehoseProofs`, `FirehoseReplayProofs`, `RepoWriteProofs`, `CredentialProofs` (sessions, transfer and the instance of all credentials), `OAuthProofs` (tokens and consent), `KeyRotationProofs` (rotation, and the instance with the migration), `MigrationProofs`, `BlobGcProofs` | theorems (section 5) |
| `MCFirehose`, `MCRepoWrite`, `MCBlobGc` | instances of one module each |
| `MCCredentials` | `Sessions`, `OAuthTokens`, `OAuthConsent` and `Transfer` |
| `MCIdentity` | `KeyRotation` and `Migration` |

The modules of `MCCredentials`, and those of `MCIdentity`, share no variable, so
a product of them would only multiply their states. The MC module has a variable
`part` that each initial state sets and no step changes: a behaviour runs one
component, and the others stay in their initial states, in which their
invariants hold too.

Definitions whose comment begins with *Fault* are not part of the
specification: each is the definition that follows it with a plausible
mistake, and shows that some property notices it.

### Firehose and EventFeed

An event is its sequence number. `log` is the set of committed rows of
`repo_seq`, `lastSeq` and `pruneFloor` are the two atomics, `sent` is what this
process broadcast. `emit_lock` is held from before the insert until after the
broadcast, so one record of "the emission that holds the lock" stands for any
number of handlers. Steps of an emission are separated where the code awaits:

| action | code |
|---|---|
| `LockEmit` | `lock_emit`, or the lock taken inside `emit_*` |
| `InsertBare` | `emit_commit`, `emit_account`, `emit_identity`, `emit_sync`: a row that is durable at once |
| `Stage`, `CommitTx` | `stage_commit`/`stage_account`, optionally `stage_sync`, and the caller's `tx.commit` |
| `AbortEmit` | a failure or drop before anything is durable |
| `CancelEmit` | the handler dropped between `tx.commit` and `finish` |
| `AdvanceCounter`, `Broadcast` | `finish` |
| `Subscribe` | `subscribe_from` |
| `ReadPage`, `TakePage`, `FailClosed` | `ReplayReader::next_batch`: the query; the classification of its rows |
| `SendReplayed`, `GoLive`, `RecvLive`, `Lagged`, `Disconnect` | `handle_socket` |
| `GcReadMax`, `GcPublish`, `GcDelete`, `GcFail` | the statements of `firehose_gc::sweep` |
| `Restart` | process death and `Firehose::with_capacity` |

The broadcast ring is tokio's; it is modelled by what `handle_socket` can see of
it: a receiver more than `Capacity` behind gets `Lagged`. Which rows are old
enough to prune is the clock's choice. Frames and their encoding are left out.

`EventFeed` is the abstract specification: a log, the highest number announced,
and for each consumer whether it is connected and the last number it was sent.
`Feed` in `Firehose` instantiates it; `ImplementsFeed == Feed!Spec` is checked
and proved. It says that numbers above the announced ones are the only new ones,
that what was announced stays covered by the log across sweeps and restarts, that
retention only takes the oldest, and that a connected consumer only moves
forward and never beyond what was announced.

### RepoWrite

A commit is a number and `tree[c]` the record keys it holds. Its blocks are the
number, for the commit and tree nodes, and one block per key. `blocks` is the
account's `block_owners` rows. Of the stream only the last asserted head (`told`)
and status (`announced`) are kept; their order is the business of `Firehose`.

| action | code |
|---|---|
| `Request`, `Lock` | `RepoWriteLocks::lock` |
| `Open` | `get_repo_write_state`, `Repository::open` |
| `Put` | `put_record_json`, `delete_record`, `apply_writes`: blocks durable one by one, commit signed |
| `Check` | `commit_repo_write` up to its transaction: count, integrity check, diff, CAR |
| `Commit` | the transaction: `advance_repo_root_if_active`, `stage_commit`, `tx.commit` |
| `PutFails` | the same calls failing or dropped with only some records stored |
| `GcCheck`, `GcSelect`, `GcDelete`, `GcDone` | `gc_repo_blocks`, `delete_unreachable_blocks` |
| `Abandon` | every early return, failure or drop, at any await |
| `ImportRead`, `ImportSwap`, `ImportAbandon` | `import_repo_inner` before, in and instead of its transaction |
| `ActivateRead`, `ActivateTx`, `ActivateAbandon` | `build_activation_sync`; the handler's transaction |
| `Deactivate`, `SetTakedown` | one transaction each |

`Put` may also lose keys (`MaxLosses` times): the integrity check exists because
the tree library once did that. A count may be unknown, the head walk may fail,
the diff or CAR may fail: all are choices in `Check`. The code deletes in chunks
of 500; `GcDelete` takes any chunk, and a collection may stop between
two of them. Suspension is read by the code and set by no
handler, so `takenDown` stands for both. Revision tags, rate-limit points and
agent audit rows are data that no modelled decision reads.

### Sessions

`tokens` are the rows of `refresh_tokens`, with `next` (next_jti), `session` and
`name` (the app password, or `Main`); a session is named by its first token.
`scope` remembers whether the access token minted with each was privileged.

| action | code |
|---|---|
| `CreateAppPassword`, `RevokeAppPassword` | the two handlers, the second with the sessions it ends |
| `Verify`, `IssueSession` | createSession: the password check; the transaction that checks the app password again and inserts |
| `Present`, `ReadGrants`, `Rotate` | refreshSession: lookup, grants, the transaction with the guarded UPDATE and the foreign key |
| `FindSession`, `RevokeSession` | deleteSession, and what follows a replayed token |
| `TransferSweep`, `RevokeCredentials` | the sweeps of a completed transfer and of an operator |
| `Abandon` | any refusal, failure or drop |

A client may present any token it was ever given, which stands for lost answers
and repeated requests.

### OAuthTokens and OAuthConsent

`OAuthTokens` gives every statement of the token endpoint a step. `age` is
`superseded_at` against the grace window: `current`, `grace` or `late`.

| action | code |
|---|---|
| `StoreAuthorizationCode`, `ExpireCode` | consent given, with the key the code is bound to; the code's expiry |
| `ReadCode`, `ConsumeCode`, `StoreInitial` | the exchange: read with its checks, DELETE, INSERT |
| `ReadGrant`, `Supersede`, `StoreRotated` | refresh: read, supersede, insert |
| `ReadForRevoke`, `DeleteFamily` | `post_revoke`, and what follows reuse |
| `LapseGrace`, `ExpireFamily`, `SweepGrants`, `Drop` | clock, operator, failure or drop |

`OAuthConsent` follows a request from `oauth_par_requests` to
`pending_oauth_authorizations`: `PushRequest`, `OpenPage` (consume),
`CreatePending` (which also reclaims old rows), `SendPush` and `LatchNumber` (two
steps: the number is bound after the push left), `ReadPending` and `Decide` (the
wallet's decision around its network lookups), `Complete`, `Tick`.

### Transfer

One action per transaction of `transfers.rs`. `lapsed` is the clock: which rows
are past `expires_at`. The code writes expiry down only when something touches
the row (`Expire`, and inside `Initiate`), and a completion does not look at it.

### KeyRotation

Keys and directory operations are numbered; `opKey` and `opPrev` are what an
operation installs and onto what it chains, `head` is the directory's. `Begin`
stages a key, `SignOp` is the wallet's operation, `UpdateIdentity` any other one.
A completion goes `FetchHead`, `ReadStaged`, `TakeLock`, `Submit` (its answer
may be lost), `Promote`, and may `Leave` anywhere. `Commit` is a repository write
that reads the active key under the same lock. `interrupted`, `restaged` and
`strays` are history.

### Migration

The slot (`phase`, `source`, `dest`, the two clients, the accepted loss) and the
identity leg live in memory; `account`, `repoAt`, `blobAt`, `log` and `record` are
what hosts, directory and key store keep when `Kill` ends the app. Every command
is a gate (`ensure_phase_did`, cloning its clients), its network step and
`Journal`, which *sets* the phase. `Fail` at any point is an error, or an answer
lost after its effect.

`late` marks commands that were on the network when `Prepare` replaced the slot.
`crossed` is history: a command used the slot or the leg of a migration that is
not its own. Four steps can do so, because none of them compares more than the
DID: a late command recording its phase (`Journal`), a late `Arm` parking its
destination, a late `CheckSubmitted` reading the leg, and `ParkOp` storing an
operation that was built for a leg replaced since.

One pair of looks at the slot is merged: `finalize_migration_impl` reads the
destination once before it probes its capabilities (`migration_orchestrator.rs:1778`)
and its core reads the slot again at the gate. The first look decides only whose
session the bearer branch stores; a slot that is replaced and armed again during the
probe is left out, and only `record` would tell the difference.

### BlobGc

One blob and the accounts that hold the same bytes. `own` is `blob_owners`
with its grace clock. `StoreFile`, `InsertBlob` are an upload; `PutRecord` refers
to any CID. A pass is `BeginPass`, for each account `Walk`, `ReadPage` and `Apply`
(or `WalkFails`, also halfway), `ListExpired`, for each owner `DeleteExpiredOwner`,
`DeleteRow`, `Unlink` (or `SweepFails`), `EndPass`. `DeleteAccount` and
`UnlinkPurged` are an account's deletion; `ListRows`, `CheckRow`, `RecheckRow` and
`Heal` are the scrub, whose list of rows may be stale when it checks a file.

An account has records in `Places`: 0 is its public repository, which `Walk` reads
as of one root (the blocks under a root do not change, and a walk that misses one
fails); 1 to `Pages` are its space records in the order of their keys, cut where the
collector's queries cut them. `ReadPage` reads one page as it is then, so records can
be written, deleted and moved from place to place between any two reads. `PutRecord`
and `DeleteRecord` stand for the write paths of both.

`pinned` and `leaked` are history: where each account uses the blob that it owned
and used when the pass began, for as long as it does, and a sweep that a fault
interrupted. A use that appears `Behind` the walk, at a place it has passed without
having found one, is not added to `pinned`: section 4.

## 3. Runs

| run | result | what it shows |
|---|---|---|
| `firehose_exact` | holds | no handler dropped between commit and finish, one restart: the log is dense, replay beside a sweep never fails closed, no gap, no reuse; an event broadcast to a connection reaches it, or the connection ends |
| `firehose_cancel` | holds | two dropped handlers, a restart: durable frontier, accepted resumption, strict delivery, nothing broadcast is skipped, and the sequencer implements `EventFeed` |
| `repo_writes` | holds | two writers, activation, takedowns: readable head, exact collection, lost keys caught, no commit on an account announced inactive |
| `repo_import` | holds | an import beside a writer: no lost update, the count is that of the head |
| `repo_live` | holds | whoever waits for the write lock gets it |
| `repo_head` | violated | an import between a collection's head check and its DELETE loses its blocks |
| `credentials` | holds | sessions: one live chain, nothing outlives its session or password, no escalation; OAuth: the family keeps its key, an unused token stays current, only a request in flight can bring a family back; consent: one decision, one code; transfer: one device left |
| `oauth_revoked` | violated | a refresh that read its token before the revocation stores its successor after it |
| `identity` | holds | rotation: the document's key is held, commits verify; migration: some host serves, the cutover comes after the move and the verified import |
| `migration_credential` | violated | the source is deactivated while the stored record is the source's |
| `blob_gc` | holds | what records use survives a pass, unless the use moves behind the walk; an upload has its grace period, what nothing uses is collected |
| `blob_file` | violated | an upload between DELETE and unlink ends with a row and no file |

**Bounds.** Firehose: one subscriber suffices, because connections share
only the log and the ring and never write them; four numbers leave room for a
dropped pair, a healed insert and a pruned prefix; ring and page of two
make overflow, full and short pages happen. RepoWrite: three commits (genesis,
one abandoned or superseded, one current) and two keys tell a lost key from a
deleted one (the import run keeps one key: it asks about commits, not about
keys); two writers contend for the lock; the violation run needs one more commit.
Credentials: two requests are what one statement of one can meet of another;
four tokens hold two sessions that both rotate, or a chain of three and a new
login; one app password name is enough for its revocation and re-creation under
the same name with other grants; three OAuth tokens hold a family with two
successors of one token (the case of the grace window) and two DPoP keys a
foreign one; four transfers hold one that lapsed accepted, one cancelled and two
completed. Identity: two keys and three operations hold a rotation, its repeat and
an unrelated operation or a second rotation; three hosts, one move beyond the
account's own entry in the log, and two overlapping commands hold a migration that
is prepared again, killed, submitted twice, or followed by one to another host.
Two hosts were not enough: with a third, an operation for the destination of one
migration can meet the leg of the next, which is how `crossed` got its present
meaning. The constraint `Followed` cuts that search in two places. States with
`crossed` are not followed, because the two properties exempt them and all states
after them; and a stored record is followed through the cutover only, because
nothing but `Persist` and `DropRecord` reads it. `migration_credential`, which is
about the record, has no constraint. Blobs: two accounts are one whose
ownership must not depend on what happens to the other, the public repository and
one page of space records are enough for a use to move ahead of the walk or behind
it, in both directions, and one fault is a failed
walk, a failed sweep or a restart at any place. The bounds cut counters and never
stop a request, which may always be abandoned. Where every counter is used up a
component of `credentials` or `identity` may really have nothing left to do, so
those runs do not look for deadlock; the others do, except `blob_file`.

**Fairness.** A connection's task is driven by the runtime and each send has a
timeout (weak fairness of `Serve`). Its page query waits for the single
connection, which the pool hands out first come first served: strong fairness
of `ReadPage`, as a query that finds the connection free again and again is
served. A handler that holds `emit_lock` or the write lock is polled to its end,
by success or by failure (weak fairness of the whole step, the code promises no
success). The write lock is a tokio mutex, which queues its waiters: strong
fairness of `Lock`. The blob collector runs on a timer and its task is driven to
the end of each pass (weak fairness of `GcNext`, which leaves failures out: there
are at most `MaxFaults` of them), and a grace period ends (weak fairness of
`Lapse`). Retention sweeps, clients, wallets and restarts have no fairness.

## 4. Findings

Each of these is a violated run; the trace is short enough to read.

* `HeadReadable` (`repo_head`): importRepo does not take the write lock, so the
  collection of an earlier write may run across it and delete its blocks.
* `RevokedStaysRevoked` (`oauth_revoked`): the rotated token is inserted in a
  statement of its own, under the family read earlier
  (`custos-oauth/src/routes/oauth_token/refresh.rs:176`), while
  `custos-db/src/oauth.rs:464` says that revoking one token ends its session.
  `ForgottenForGood` is what does hold: no other way back.
* `CredentialBeforeCutover` (`migration_credential`): any stored record whose
  refresh token has not expired passes for the destination's
  (`obsign-core/src/migration_orchestrator.rs:1586`).
* `RowHasFile` (`blob_file`): row first, file second keeps a *crash* from leaving
  a row without bytes, as `custos-blobs/src/blob_gc.rs:402` says, and does not keep
  a concurrent upload from it.

Met while modelling, and not kept as runs; the properties above are stated so
that they hold beside them:

* a handler dropped between its commit and `finish`: the next emission heals past
  the orphaned row and broadcasts only itself, so a connected subscriber jumps
  over the row (`custos-core/src/firehose/mod.rs:238`); the sweep's clamp is the
  durable `MAX(seq)`, above `last_seq` then, and may prune the number the next
  emission takes (`custos-firehose/src/firehose_gc.rs:280`). Hence
  `MaxCancels = 0` in `firehose_exact`;
* activateAccount reads the head of its `#sync` before its transaction
  (`pds/src/routes/activate_account.rs:53`), and announces `active: true` for an
  account that is also taken down (`activate_account.rs:90`, against
  `update_subject_status.rs:89`);
* two exchanges that read one authorization code before either deletes it both
  open a session (`custos-db/src/oauth.rs:232`, `:280`): the deletion does not say
  whether it was first;
* a wallet that decides between the push and the latching of its number is not
  asked for the number (`custos-oauth/src/routes/oauth_authorize.rs:681`);
* a login under an app password that is revoked and made again under the same
  name and with the same grants, between the check and the insert, opens a
  session of the new password (`pds/src/session_issuer.rs:7`);
* a device whose transfer was accepted and then lapsed keeps its credential until
  the next completed swap or sweep (`custos-db/src/transfers.rs:183`);
* a rotation interrupted between submission and promotion leaves commits signed by
  the old key until a retry (`pds/src/routes/repo_key_rotation.rs:28`); beginning
  another rotation meanwhile deletes the key the document names. `interrupted` and
  `restaged` are these cases;
* a migration step that is on the network while the same identity is prepared
  again is recorded in the new migration
  (`obsign-core/src/migration_orchestrator.rs:361`), and the identity leg of the
  old migration outlives `prepare_migration`, so that an operation naming the old
  destination can be parked in the leg of the new one
  (`obsign-core/src/migrate.rs:1184`): `crossed`. After such a step an account may
  be activated on a host whose import was not verified;
* the blob collector reads the public repository of an account and then its space
  records page by page (`custos-blobs/src/blob_gc.rs:298`, `:342`). A use of the blob
  that moves meanwhile to a place already read (a space record is written again as a
  public one and deleted before its page is read) is in none of the reads, although
  the account uses the blob throughout. If its ownership had lapsed before the pass,
  because it was uploaded and only later referred to, the same pass deletes the
  owner, the row and the file; `blob_gc.rs:287` has a blob referenced from either
  surface equally pinned. `Behind` is this case. An owner that is permanent only
  starts its grace period, and a pass that comes within it pins it again;
* a blob row whose sweep stopped between the last owner and the row is listed by
  no later pass (`custos-blobs/src/blob_gc.rs:415`): `leaked`.

## 5. Proofs

Every safety invariant and every action property the passing runs check is proved,
for every value of the constants.

Constants are arbitrary apart from a named assumption: bounds are naturals,
ring capacity and page are positive, the null values are none of the values.
`FirehoseAssumption` and `RepoWriteAssumption` are assumptions of their modules;
`SessionsAssumption`, `TransferAssumption`, `OAuthAssumption`,
`ConsentAssumption`, `RotationAssumption`, `MigrationAssumption` and
`BlobAssumption` are hypotheses of the theorems, and the MC modules evaluate them
on their instances. So the results hold for any number of subscribers, writers,
requests, tokens, wallets, transfers, keys, completions, hosts, commands and
accounts. The counters' bounds are arbitrary too, and no argument uses that they
are reached.

Some results are false as they stand, by a counterexample that section 4
describes. They are proved under a temporal hypothesis that names the one step, or
the one overlap, that the counterexample needs; everything else, crashes, faults,
dropped requests and the same actors at other times, stays allowed:

| Hypothesis | What it excludes | Results |
|---|---|---|
| `NoDrop` | a handler dropped between its commit and `finish` | `NothingSkipped`, `ClampSuffices` |
| `OrphansUnpruned` | the pruning of a row that a dropped handler left above the counter | `LogStaysDense`, `SweepNeverFailsReplay`, `PrunedNeverReused` |
| `ImportsOutsideCollections` | an import that swaps the root between a collection's look at the head and its last DELETE | `HeadStaysReadable`, `CollectionIsExact` |
| `NoRefreshMeetsRevocation` | a refresh of a session between its read and its insert at the time the session is revoked | `RevokedSessionsEnd` |
| `NoUploadMeetsUnlink` | an upload of the same bytes between the deletion of a row and the unlinking of its file | `RowsKeepTheirFiles` |

`ClampSuffices` shows the first to be a case of the second. `CredentialBeforeCutover`
has no such counterpart: any sign-in shares the stored record, so a hypothesis that
kept them out would say what the property says.

`FirehoseProofs`: `TypeOK`, `DurableFrontier`, `ResumeAccepted`, `NoDuplicate`,
`SentInOrder` and `ImplementsFeed`. None is inductive alone. `IInv` adds: the
rows of the emission in flight lie above everything broadcast, delivered or
promised to a replay (`EmitInv`); some retained row reaches the counter and
survives the sweep in progress (`LogInv`); the broadcast is ordered and at or
below the counter (`SentInv`); a reader's position, page, queue, bound and
receiver are ordered (`SubInv`). The clamp of the watermark is what `LogInv`
needs, the lock around `subscribe_from` what `SubInv` needs. The refinement
`SequencerImplementsFeed` uses `IInv` before and after each step: committing and
sweeping are steps of the abstract log, advancing the counter announces, sending
to a consumer delivers, and everything else is invisible (`InvisibleStep`).

`FirehoseReplayProofs` is about what a subscriber misses. What it says of replay
rests on `PageFacts`: a page is the oldest rows of its range, and all of them when
it is short.

* `NothingBroadcastSkipped`, with dropped handlers: during replay every retained row
  up to the reader's position was sent or is queued, and the receiver starts at or
  below the replay bound; once live, what the receiver passed was sent
  (`FollowInv`).
* `LogStaysDense`, `PrunedNeverReused`, with dropped handlers whose rows are not
  pruned: `OrphanInv` says that the log is an interval that the next emission
  continues, that it reaches past the counter (`Explained`), and that the floor
  stays below what the counter reaches or is about to reach (`Top`). Every insert
  then continues the log above the floor, also past the rows of a dropped handler.
* `SweepNeverFailsReplay`, under the same hypothesis: what is missing of a page's
  range is at or below the published floor at the time the page is classified
  (`ReaderInv`), because the floor is published before the DELETE
  (`FloorLeads`) and read after the page.
* `ClampSuffices`: the watermark's clamp on the durable `MAX(seq)` keeps
  `OrphansUnpruned` when no handler is dropped, since the highest row is then the
  counter, or the last row of the emission in flight (`SettledInv`).
* `NothingSkipped`, when no handler is dropped: a retained row beyond the replay
  bound, or beyond a live connection's position, is still to come, in the ring or
  in the emission about to be broadcast (`RingInv`, `Pending`). With dropped
  handlers `NothingBroadcastSkipped` is what holds.

`RepoWriteProofs`:

* `RepoTypeCorrect`: types and mutual exclusion, directly inductive;
* `ActiveAnnounced`, from it `CommitsAnnounced`: the guard in the swap's WHERE
  clause reads the status in the transaction that commits;
* `NoUpdateLost`: only `Commit` and `ImportSwap` move the root (`RootMoves`), and
  both compare it;
* `CountIsWitness`, by `CountInv`: a writer's count is that of its own commit, and
  the keys of a commit that exists never change (`TreeStable`);
* `LossIsNoticed`, by `EditInv`: while a writer holds the lock only an import moves
  the root, and it forgets the count, so a known count is still that of the
  writer's base; an edit loses keys and adds none, and a subset with as many
  members is the whole (`SameCount`);
* `HeadStaysReadable` and `CollectionIsExact`, by `HeadInv`, with imports that swap
  the root outside collections: only the lock's holder deletes blocks, so its base
  and its new blocks stay stored until it commits, and from its look at the head on
  the keep-set is that of the head (`WriterInv`). An import may swap the root under
  a write that has not committed; the hypothesis is needed for the rest, `repo_head`
  is its counterexample.

`CredentialProofs`, sessions: `OneLiveChain`, `NoTokenOutlives`, `ScopeFollowsGrants`. A
refresh acts on what it read several statements before, so `IInv` says what such
a reading is still worth: rows are never rewritten, except for a `next_jti` that
is set once, so the token's session and password are as read (`SessionRowsInv`,
`RefreshInv`); the grants are as read for as long as the token's row is there,
because revoking the password removes the row in the same transaction
(`GrantsInv`). The guarded UPDATE then makes the chain unique, the foreign key ends
what an ended session left, and the second look at the app password in
`issue_session` does the same for logins.

`CredentialProofs`, transfer: `TransferTypeOK`, which includes that at most one
transfer is active, and `LastDeviceHoldsAccount`. `InOrder` is the strengthening: no row comes after an
active one, so the transfer being completed is the last, and what a completion
deletes is everything earlier. The expiry of a row never enters the argument, which
is why `complete_transfer` can do without looking at it.

`KeyRotationProofs`: `DocumentKeyHeld`, `CommitsVerify`. The argument is about the
directory's log: an operation that still chains onto the head was built for
the document as it is, and the wallet never signs the key the document already
names (`OpsInv`), so such an operation cannot install a key that was promoted
meanwhile. Hence a completion that passed the check for the staged key and can
still submit installs the key that is staged now (`StagedInv`), after
the submission the staged key is the document's until it is promoted
(`AcceptedInv`), and a repeated completion that finds its operation landed
promotes only that key (`LandedInv`). `ActiveKeyInv` and the lock (`LockInv`) give
that commits verify.

`OAuthProofs`, tokens: `FamilyKeepsKey` and `UnusedStaysCurrent` are inductive with
two more facts: the rows name families and codes that exist (`RowsInv`), and a call
under way still holds a code or token of its own key, which for a refresh has been
shown before (`CallsInv`). The second is what a handler may rely on several
statements after its read. `RevocationFinal` (`ForgottenForGood`) goes step by step:
a family that has no row and no refresh under way is never inserted under again.
`RevokedSessionsEnd` draws from it what `RevokedStaysRevoked` is worth: a revoked
family is forgotten at once (`RevokedInv`), if no refresh of it is under way then.

`OAuthProofs`, consent: `OneCodePerConsent` and `LateDecisionLoses`. An undecided
request has no decision on record and no code, and an approved one has exactly
its approval (`RecordInv`), so that each guarded UPDATE, of the second decider or
of the second browser, finds the row already moved.

`MigrationProofs`: `SomeHostServes` and `CutoverInOrder`, with the exemption
`crossed` of their statements. A command acts on clients it cloned when it
started, and the phase it passed may have been set back since, so the invariant
speaks of commands and not of phases:

* what a command found out stays true whatever becomes of the slot (`Found`):
  its destination has an account, its import is verified, the directory named it.
  This holds because the log and what hosts hold only grow (`Grow`);
* a command that is not `late` works for the slot's destination (`Own`), and the leg
  is armed for that host or its operation has landed (`ArmedFor`, `ArmedStays`);
* every migration goes to a host that the directory named later than the source
  (`precedes`, `Ordered`): an account is created only where there is none, and the
  directory names only hosts with an account (`LegInv`).

`CutoverIsInOrder` follows from the first two. For `SomeHostAlwaysServes` it must
be excluded that one command deactivates the host another has just activated. The
strengthening `Serves` is that some active host comes no earlier in the order than
the destination of any command that is past its activation: a deactivation hits a
host before its own destination, so never that one, and an activation either keeps
it or takes its place.

The proof of `CutoverInOrder` needs that `crossed` covers the identity leg as well
as the slot: were it only the late record of a phase, the property would be false,
by the left-over leg of section 4 and three hosts.

`BlobGcProofs`: `ReferencedSurvives` and `GraceKept`, for any number of accounts and
pages. `PassInv` says for each stage of a pass where the accounts are that used the
blob from its beginning: not walked yet, excluded because their walk failed, or
permanent owners. Of the account that is being walked it says that the walk has found
a use or has all of its uses ahead (`place` is at most each place of `pinned`), which
every write keeps except one `Behind` the walk.
`RowsKeepTheirFiles` is what the order of row and file is worth: a row, and an
upload about to insert one, have the file, and while a file is to be unlinked there
is no row (`FileInv`). It needs `NoUploadMeetsUnlink`, whose counterexample is
`blob_file`, and no hypothesis about failed steps and restarts.

The instances that TLC runs for several components: `CredentialsRunEach` and
`IdentityRunsBoth` show that a behaviour of `MCCredentials` or `MCIdentity` is one
of each of its components, so what a run finds the component can do, and every
theorem about a component holds in the composition.
`CredentialTypesCorrect` and `IdentityTypesCorrect` draw the types from that.

Only model-checked is liveness (`EventuallyDelivered`, `WriteServed`,
`Collected`), which is beyond this prover.

## 6. Not modelled, and the plan

Parts with state of their own that a later model could take:

* the other wallet ceremonies, claim, recovery and resumption: the same shape as
  `Migration` (a journalled phase, commands that overlap, a directory);
* account creation, deletion and reaping beyond what `BlobGc` has of it: sequences
  of statements with compensation on failure;
* agents and spaces (`BlobGc` has the blob references of space records): grants
  beside their use; the second write path itself is one
  transaction with a compare-and-swap (`custos-spaces/src/space_record_write.rs`);
* the notification relay and the crawler notifier: retries of calls whose only
  state is a time of last success;
* of `RepoWrite`, the rate-limit ledger and the agents' audit; of `OAuthConsent`,
  the password form, of which `OAuthTokens` has the code it mints; of `Migration`,
  the copying of single blobs and the recovery of an identity from a backup.

Left out for good: frame, CAR and DAG-CBOR encoding, cryptography, the tree
algorithm, DID resolution, configuration, rate limiting by wall clock, proxying,
read-after-write (a view computed per request), metrics, the administration and
wallet user interfaces and their clients, sites and tools. They are data
transformation, input validation, network I/O or presentation: most of the
repository's lines, and none of the interleavings the models are about.

The plan from here:

1. `RepoWrite` composed with `KeyRotation` over the lock they share, and with
   `EventFeed` in place of `told` and `announced`;
2. the claim ceremony over `Migration`'s directory;
3. agents' grants beside the write path.
