# radrootsd: specifications and proofs

TLA+ modules that model the daemon in `src/`, TLC configurations that check
them on small instances, and TLAPS proofs of the properties that matter most.
Definitions carry the names of the source where TLA+ allows it;
`PROJECT.json` ("map") gives the source lines behind each of them. File names
below are relative to `src/src/`; `transport_publish.rs` is
`core/transport_publish.rs`.

## 1. The system

radrootsd is a daemon with a JSON-RPC interface. It accepts signed Nostr
events from authenticated principals and publishes them to relays
(*transport publish*), and it acts as a NIP-46 remote signer, both for clients
that reach it over relays and, as a client, towards other remote signers.

| Part | State | Operations | Modelled in |
|---|---|---|---|
| Delivery policy (`transport_publish.rs`) | none | status of a job from its outcomes, snapshots, receipts | `DeliveryPolicy` |
| Publish jobs (`transport_publish.rs`) | SQLite rows of jobs, snapshots, outcomes; a semaphore; the future of each call | `publish_event`, `record_publish_job`, `complete_publish_job`, recovery on open | `PublishJobs`, `JobLedger` |
| Target resolution (`transport_publish.rs`) | the cache of author relays; the passes of each call | `resolve_targets_for_request`, DNS check, discovery, cache | `TargetResolution` |
| Store schema (`transport_publish.rs`) | the tables and `user_version` of the database file | `TransportPublishStore::open`: detect, create, validate | `StoreSchema` |
| NIP-46 signer (`core/nip46/session.rs`, `transport/nostr/listener.rs`, `transport/jsonrpc/methods/nip46/session_*.rs`) | sessions, used secrets, pending requests, all in memory | connect, requests, challenge and replay, `require_auth`, `authorize`, `close`, `status`, `list` | `Nip46Signer` |
| NIP-46 client (`transport/jsonrpc/nip46/client.rs`, `methods/nip46/`) | sessions with remote signers, a Nostr client, subscriptions and receivers per session | `nip46.connect` with both kinds of URL, `get_public_key`, `sign_event`, `ping`, nip04, nip44, with a 10 s timeout | `Nip46Client` |
| Job queries (`transport_publish.rs`, `transport/jsonrpc/methods/transport_publish.rs`) | none of their own | `transport.publish.job.get`, `transport.publish.job.list` | `JobQueries` |
| Principals (`transport/jsonrpc/auth.rs`, `app/runtime.rs`) | rows of principals, token files, the principal of each connection | `principal init`, look-up by token hash, scope of an event | `Principals` |
| Identity storage (`app/identity_storage.rs`) | envelope and wrapping-key files | load, create, migrate | `IdentityStorage` |
| Daemon start, presence, shutdown (`app/runtime.rs`) | the bound address, two background tasks | `run`, `bootstrap_presence` | `DaemonStart` |
| RPC server and registry | the middleware's result per connection | notifications refused, authentication, registration | partly (`Principals`, `DaemonStart`) |
| Configuration, CLI | configuration values | validation; parsing | partly (`DaemonStart`: `Settings::validate`, `Principals`: arguments of `init`) |
| Paths, host adapter, xtask | none | path rules, wiring, release tooling | not modelled |

How they interact. An RPC call is one tokio task. `publish_event` takes a
permit of the semaphore, resolves its targets (DNS, the cache, discovery on
relays), records the job in the store, contacts the relays under a timeout and
completes the job. The store is one SQLite connection behind a Mutex that is
released between store methods; some methods take it twice. A second process,
`radrootsd transport-publish principal init`, may open the same database file
while the daemon runs, and every open recovers the jobs it finds in
`Publishing`. The NIP-46 listener is one task that handles one request after
the other; it shares the session store with the RPC methods of the operator,
which replay requests in tasks of their own, and with the calls to remote
signers, all of which, on one session, read one Nostr client. A daemon loads its
identity from two files, opens the store, announces itself on relays and starts
the listener before it binds its address: until then nothing keeps a second
daemon, or a second identity, out.

### What is hard here

* **Interleavings.** Look-up and insert of an idempotency key are two critical
  sections; a job row and its outcome rows are read in two; two processes
  write one database, and recovery does not check that the job it updates is
  still interrupted; two calls overwrite one cache entry; `authorize` replays a
  request in another task than the one that parked it.
* **Several processes.** Two daemons that start at once share the identity
  files until one fails to bind; two `principal init` may name one token file.
* **Atomicity.** `complete_publish_job` and recovery run an UPDATE, a DELETE
  and one INSERT per outcome, each committed on its own. So are the CREATE
  statements and the PRAGMA of the schema. A principal is committed before its
  token is in a file; a wrapping key is created, written and synced in three
  steps, an envelope renamed and its directory synced in two.
* **Failure.** The process is killed, a statement fails, the HTTP connection
  closes and the future of the call is dropped at an await, a relay never
  answers or answers after the timeout. A COMMIT that fails leaves its
  transaction open on the connection. A power cut undoes what was not synced. A
  look at a file that fails is taken for a file that is missing.
* **Stale state.** Cached author relays whose names now resolve elsewhere;
  a session copied before an await; a client's request arriving twice; a
  principal that is looked up once per connection; the answer to a request of
  another call on the same session.
* **Edges.** No targets, a quorum larger than the number of targets, required
  targets that were not resolved, several targets on one relay, two outcomes
  for one target.

`PROJECT.json` ("hazards") lists each at its line, with the properties that
cover it.

## 2. Modules

### DeliveryPolicy

Pure operators: `required_target_count`, `delivery_status`,
`target_snapshots_from_resolution`, `outcomes_from_receipts`,
`last_error_for_status`. A target stands for (transport kind, endpoint,
scope), the key of an outcome row; `RelayOf` gives its relay, which several
targets may share. The seventeen outcome kinds are told apart only by the
predicates the code asks of them, so there are five kinds, one of which
(`Unclassified`) satisfies no predicate. `required_target_count` is external:
it belongs to the protocol crate and is modelled from its use.

### PublishJobs

| Variable | In the code |
|---|---|
| `jobs`, `snapshots`, `results` | tables `transport_publish_jobs`, `.._target_snapshots`, `.._target_results` |
| `pc`, `req`, `res`, `seen` | the future of each `publish_event` call: where it is, its request, its resolution, the row it has read |
| `replies` | what the relays a call contacted have answered |
| `permits` | the `publish_jobs` semaphore |
| `write` | the statements of a status change still to come, per writer |
| `store` | per process, whether the store is open and which jobs it still has to recover |
| `epoch`, `born`, `faults`, `cliRuns` | history and bounds |

A step is a database statement or the code between two awaits.

* The call: `Admit`/`Refuse`, `Resolve`, `LookupKey`, `LookupReadOutcomes`,
  `InsertJob` (the transaction of `record_publish_job`), `ReadRow`,
  `RecordReadOutcomes` (with `Execute`: completes jobs that contact no relay),
  `RelayReplies`, `PublishDone`, `PublishAborted` (timeout or adapter error),
  `UpdateJob`, `DeleteResults`, `InsertResult` (`complete_publish_job`),
  `FinalReadOutcomes`.
* An opening process: `OpenStore`, `SelectInterrupted`, `RecoverJob`, the same
  three write statements, `FinishOpen`.
* Faults: `CrashDaemon`, `CrashCli`, `Disconnect` (dropped at an await),
  `StatementFails` (the early return of `?`).

`Locked` is the Mutex held across the statements of `complete_publish_job`; it
does not hold back the other process. A call records at most one job, so calls
name jobs. `validate` stands for `Job::validate` of the protocol crate: what
this code and its tests determine is fixed, anything else may go either way.
Relays answer in any order; the code attempts them in URL order.

### JobLedger

What the store promises: an entry is recorded at most once per key, relays are
contacted only for an entry that is recorded and unsettled, and an entry is
settled once. `PublishJobs!Ledger` is the refinement mapping. The promise holds
for one process; with `principal init` on the same file a settled job can be
settled again (`MaxCliRuns = 0` in the run that checks it).

### TargetResolution

`stage` is the pass a call is in (`request`, `cached`, `discovery`,
`discovered`, `default`) or the await between two; `todo` the entries left in
it, `found` its targets and outcomes, `kept` the outcomes of earlier passes,
`cache` the author's row of `transport_publish_nostr_author_cache`, `passed`
(history) what DNS found public. `CheckNext` is one turn of the loops;
`CachedDone`, `DiscoveryDone`, `DiscoveredDone`, `LastPassDone` decide what
follows a pass, in the order in which the code concatenates outcomes; `Fetch`
and `StoreCache` are discovery and the upsert. `Parse` and `Trim` are the URL
parser and `str::trim`, so that one relay can be spelled in several ways. DNS
may answer differently every time. `GiveUp` is a failing statement or a
dropped call.

### StoreSchema

`db` is the file (traits of each table, `user_version`), `origin` what it held
at first. `ReadTables` and `ReadVersion` are `transport_publish_schema_state`,
`Create` one statement of the schema, `SetVersion` the PRAGMA, `CheckVersion`
and `ValidateTable` the checks. Each may be interrupted by `Crash`, and any
number of processes interleave. A column list, a key, a foreign key or an
index is one trait that is right or not. `others` stands for tables
whose names begin like those of the schema and that are none of them: such a
database counts as old, and one without any table but with a version is refused.

### Nip46Signer

`sessions` and `used` are the two maps of `Nip46SessionStore`; `task` says what
the listener and each multi-await RPC call are doing; `delivered`, `served`,
`admitted` are history. `Receive` takes up a request, `ClaimSecret` and
`InsertSession` are a connect, `ReadSession` is the session look-up, the
permission check and, with no await in between, the use of the keys,
`ParkRequest` is `set_pending_request` after the challenge was decided on an
earlier copy. `RequireAuth`, `Authorize`, `CloseSession`, `SessionStatus` and
`ListSessions` are the operator's calls. Sessions expire, RPC calls are
dropped, the daemon restarts and forgets everything. Signing, nip04 and nip44
are one "use"; which of a client's requests are permitted is a constant.

### JobQueries

Extends `PublishJobs`. `query` is the state of each `job.get` or `job.list`
call: the rows it has read in one critical section (`GetRow`, `ListRows`), the
jobs whose outcomes it has read in others since (`ReadOutcomes`, which is
`finalize_job_row_for_egress` with its validation), and `Answer`. `ListNone` is
the limit of zero that is refused, `Limit` the clamping. `torn` (history) says
that a row had changed by the time its outcomes were read.

`CommitFails` is the one return of `record_publish_job` without a ROLLBACK.
`broken` says that the transaction is still open, `committed` what the database
had when it began: from then on every BEGIN fails (`BeginFails`), reads and
single statements see and write the open transaction, and the end of the process
rolls it all back (`Crash`). `Durable` is what other processes see and what
survives.

### Nip46Client

A call is in `join` (connecting and subscribing), `transmit`, `sending` (the
relays' OK is awaited), `wait`, `claim`, `insert`, `update`, or has ended.
`Deliver` is a relay handing an event to the Nostr client of a session, which
broadcasts it to all receivers of that client; `Take` is one turn of
`wait_for_response`, `wait_for_connect_response` or
`wait_for_nostrconnect_response`; `Timeout` the 10 s; `Lag` a broadcast receiver
that lost events; `Drop` a cancelled call, whose subscription nobody closes.
`InsertSession` and `UpdateUser` (`set_user_pubkey`) write the session store, on
the session as it is by then, `RequireAuth`, `Authorize`, `CloseSession` and
`Expire` change it in between. `filter_perms`, `sign_event_allowed` and
`require_permission` keep their names. Relays and signers may send anything;
what is assumed of cryptography stands at the head of the module.

### Principals

`table` has the rows of `transport_publish_principals`, `init` the runs of
`principal init` (`OpenAndParse`, `CreatePrincipal`, `PrincipalById`,
`CreateTokenFile`, `WriteToken`, `Report`: the order of `handle_command`),
`file` the token files, `conn` the connections to the RPC server with the
principal found when they were accepted. A call passes the middleware, the registry,
`require_publish_principal` and, to publish, `allows_event`. Expiry and
revocation are columns that every look-up honours and no code sets: the
operator's actions are external. That the middleware runs once for a WebSocket,
and that the calls of a batch share one request, is jsonrpsee's doing and taken
from how the server is built on it.

### IdentityStorage and DaemonStart

`IdentityStorage` has one action per file operation: `Check`, `Read`, `Open`,
`WrapWithKey`/`WrapWithoutKey`, `CreateKey`, `WriteKey`, `SyncKey`, `Verify`
(migration only), `Persist`, `SyncParent`. `key` and `envelope` are the files,
`durable` the envelope a power cut may bring back. Assumed of the file system:
a synced file survives with its name, written bytes that are not synced may be
lost, a rename may be undone until its directory is synced. Random values are
named by the start that generates them.

`DaemonStart` extends it with `run()`: `StartDaemon` (`Settings::validate` with
the strict profile), `New`, `Relays` (spawning both tasks), `Bind`, the three
steps of `bootstrap_presence`, `Shutdown`, and what ends with a process (`Gone`).
`announced` (history) are the identities published by a process whose identity
is on disk for good.

An identity can be lost in two ways, both through a start that may generate one
(`Generate`). Two first starts both find none, and the rename of the later one
wins. Or the look at the file fails: `path.exists()` is false on any error of
`stat`, so a start takes a stored identity for missing (`CheckFails`) and
replaces it. `doubled` (history) says that one of the two has happened, exactly
when a start goes on to generate although an identity is in the file or another
start is generating one. `IdentityIsKept`, `AnnouncedIdentityIsKept` and
`CleanStartsSucceed` say what holds until then, and
`IdentityKeptWithoutPermission` is proved of every daemon that is not started
with the flag, without exception. Every other file operation may fail as well
(`OperationFails`).

## 3. Model checking

`MC<Module>.tla` gives the constants their values, one `.cfg` per run.

| Run | Property | Shows |
|---|---|---|
| `daemon` | `PermitsAddUp` | however a call ends, no permit is lost or invented |
| | `SettledJobsAreWhole` | without lost statements a settled job has the rows it counts and the status they justify |
| | `NoJobLeftBehind` | an open store has no `Publishing` job of an earlier run, also after a recovery that was itself killed |
| | `ImplementsLedger` | refinement of `JobLedger`, with crashes, disconnects and failing statements |
| `cli` | `AtMostOnePublisherPerKey` | relays hear from one of the calls with a key, a second process writing, across a crash |
| | `SnapshotBeforeContact` | a contacted relay is in the snapshot of a recorded job |
| | `SatisfiedIsDelivered` | no false success, also after a rewrite by recovery |
| `query` | `QueriesFailOnlyWhenTorn` | a query fails only because a call completed between its two reads |
| | `AnswersTellTheTruth` | no false success in an answer, torn or not |
| | `ContactedIsCommitted` | no relay hears of a job that a rollback could undo, also after a failed COMMIT |
| | `EveryRequestEnds`, `EveryJobSettles` | queries and calls end and jobs settle although relays may never answer |
| `targets` | `TargetsCheckedByThisCall` | cached relays are looked up again by the call that uses them |
| | `DefaultsAreTheFallback` | defaults only without a usable author relay, discovery relays never |
| | `TargetsAreDistinct`, `RequestIsAnswered` | one contact per relay and scope; no entry of a request vanishes |
| | `EveryResolutionEnds` | no cycle between cache, discovery and defaults |
| `open` | `OpenMeansWhole`, `OldDatabaseUntouched` | nobody works on an incomplete database, no old one is altered |
| | `NewDatabaseOpens` | initialising together does not lock everyone out |
| `gate` | `ServedOncePerDelivery` | parking and replaying move a request and never copy it |
| | `ServedThroughTheGate` | keys are used only for a live, authorized session at that moment |
| | `SecretAdmitsOne` | one session per secret between restarts |
| | `EveryRequestAnswered` | the listener is never stuck in a request |
| `client` | `AnswersAreGenuine` | a result is the signer's answer to this very request |
| | `SessionsAreProven` | a session is with the signer of the URL or a holder of its secret; one session per secret, however it is spelled |
| | `AnswerIsHeard` | a waiting call keeps its subscription, and an answer that overtakes the relays' OK is not lost |
| | `AskedWithinConfiguration` | signers are asked only for what the configuration permits |
| | `ClosedStaysClosed` | a late answer does not revive a closed or expired session |
| | `EveryCallEnds` | calls end whether or not anyone answers |
| `start` | `StoredIdentityOpens` | the key an envelope needs is on disk, through kills, failures and power cuts |
| | `IdentityIsKept` | neither migration nor a failing start changes the stored identity, until a start generates one beside it |
| | `AnnouncedIdentityIsKept` | the identity the service announced is the one it keeps, with the same reservation |
| | `CleanStartsSucceed` | a start fails only for a reason outside it |
| | `EveryStartEnds` | the daemon comes up or the process ends |
| `access` | `TokenFilesWork` | a token in a file belongs to a stored principal |
| | `ReportedMeansDelivered` | a reported token stays in its file |
| | `FilesAreKept` | no file is written over |
| | `AdmittedWithAuthority` | what is admitted is within the scope of a principal in force when the connection was accepted |
| `reopen`, `race`, `twice` | | expected violations, section 6 |

`start` also checks its `TypeOK`. The type invariants of `PublishJobs`,
`StoreSchema`, `Nip46Signer`, `Nip46Client` and `Principals`, and `OneJobPerKey`
and `VersionVouches`, are proved (section 4) and not part of a run; that of
`TargetResolution` states the domains of its variables. TLC also finds the
inductive invariants of section 4 to hold on these instances, except for the
types in that of `Nip46Client`, whose sets mix what TLC cannot compare.

### Bounds, and why they are enough

* **PublishJobs.** Two calls are what every race here needs (a look-up of one
  between look-up and insert of the other; a call after a crash that meets the
  job of one before it); for more calls idempotency is proved. One key, as calls
  with different keys meet only in the semaphore and the Mutex, and requests
  without key are included. Two intents distinguish repetition from conflict,
  and give two delivery policies per run; the runs together use all four.
  Three targets on two relays give targets that share a relay; the resolutions
  include an empty one, only failures, a mixture and a repeated failure.
  `MaxFaults` is two in `daemon`, so that recovery itself is interrupted. Each
  run enables the kinds of fault its question is about; all three occur.
* **JobQueries.** Two calls and one query, of the owner or an administrator: a
  query meets a job that completes under it and one that another call left
  invalid. Queries do not write, so a second one would meet nothing new. Two
  faults: a COMMIT fails, then the daemon crashes.
* **TargetResolution.** Two calls share the cache of one author. Two relays,
  one spelled in two ways, one string that is no URL, two relay lists with read
  and write markers, foreign tags and empty ones. Any answer of DNS per look-up.
  Requests of every policy; one default relay and discovery relays, one of them
  malformed.
* **StoreSchema.** Two processes, three opens and two crashes: an initialisation
  is interrupted, repeated and interrupted again beside another process. Eight
  old databases: those of the store's tests, one with a version and no table, and
  one with tables of other names.
* **Nip46Signer.** Two clients presenting one secret, two RPC calls next to the
  listener, each request delivered twice, three calls of the operator
  (require, authorize and one more), one restart.
* **Nip46Client.** Three calls: a connect and two uses of its session, or two
  connects with one secret spelled in two ways and a use. Two events and one
  incident: a late or foreign answer and then the right one, with an expiry, a
  lag, a cancelled call or an operator's call in between.
* **DaemonStart.** Two processes, three starts, one incident: two starts
  overlap, one is killed or the power fails, and a third meets what they left.
  One incident is also a failing look at a stored identity.
* **Principals.** Two inits that may name one file, one connection, two seconds
  and one incident: connections do not meet, and a principal expires or is
  revoked before, during and after one.

Symmetry is used over calls (`daemon`, `cli`) and over inits and files
(`access`), in runs without liveness, and where the elements appear in no other
constant; `ImplementsLedger` is a safety property whose mapping treats all calls
alike.

`CHECK_DEADLOCK FALSE` everywhere: calls, opens, deliveries and faults are
finite in number, and when they are used up the system rests, as the daemon
does when nobody calls it. That nobody waits for ever is what the liveness
properties say instead.

### Fairness

`FairSpec` assumes weak fairness of the steps the daemon takes on its own
account: the runtime polls a task that can go on, and DNS look-ups, discovery
and the publish attempt end (the last two have timeouts in the code, as have
waiting for a remote signer and the announcement of the service). An opening
process runs its statements, a starting one its file operations. A Mutex is always released, because its
holder is one of these tasks; no fairness of the lock itself is assumed.
Nothing is assumed of relays, clients, the operator, the clock or faults.
`EveryJobSettles` therefore excepts a daemon that stays down and a call that was
dropped or failed in the present run: its job stays `Publishing` until the
next open.

## 4. Proofs

TLAPS proves the following for every value of the constants: any number of
calls, keys, relays, targets and permits, any sequence of crashes and of runs
of the second process, any old database, any clients, signers, secrets,
principals, token files and relay lists, whatever is sent.

**PublishJobsProofs**, from `TargetAssumption` and `PublishAssumption` (typing
of the constants; targets are finite, the set of calls need not be):

| Theorem | Property |
|---|---|
| `TypeCorrect` | `TypeOK`, which includes `permits \in 0..MaxConcurrent` |
| `PermitsBalance` | `PermitsAddUp` |
| `KeyUnique` | `OneJobPerKey` |
| `WriteAhead` | `SnapshotBeforeContact` |
| `PublisherUnique` | `AtMostOnePublisherPerKey` |

The inductive invariant is

    IInv == TypeOK /\ PermitInv /\ WriteInv /\ TodoInv /\ PhaseInv
              /\ OneJobPerKey /\ SnapshotBeforeContact

`TypeOK` alone is not inductive: `permits + 1` stays in range only because the
call that ends was counted (`PermitInv`, which also says that only finitely
many calls are active), and a status written by `UpdateJob`
is a final one only because the pending write holds one (`WriteInv`). Recovery
writes only to recorded jobs (`TodoInv`, `WriteInv`), without which a write
could bring a job into being and break `OneJobPerKey`. `PhaseInv` ties the
place of a call to the database: a call that is `publishing` has a recorded job
whose snapshots are those of the resolution it works with, which is what makes
`SnapshotBeforeContact` survive `RelayReplies`. `PublisherUnique` follows from
the two last conjuncts: contacted calls are recorded, and recorded calls with
one key are one.

The second part of **PublishJobsProofs** adds `ResolutionAssumption` (target
resolution itself decides failures and deferrals, never an acceptance: the
outcomes of `TargetResolution`):

| Theorem | Property |
|---|---|
| `NothingLeftBehind` | `NoJobLeftBehind` |
| `LedgerImplemented` | `ImplementsLedger`, if `MaxCliRuns = 0` |
| `NoFalseSuccess` | `SatisfiedIsDelivered` |
| `WholeJobs` | `SettledJobsAreWhole` |

*Recovery.* `RunInv`: calls run only while the daemon has its store open, and
are of this run. `RecoveryInv`: while it recovers, what is `Publishing` is on
its list or is the job it is about to update. Together they say that a
`Publishing` job of an earlier run is never missed, also when the recovery is
itself killed.

*The ledger.* `complete_publish_job` and recovery set a status whatever the row
holds, so settling once needs that no two writers have one job in hand
(`SoleInv`) and that a writer about to update finds the job `Publishing`
(`OpenInv`). With a second process on the file neither holds, nor does the
refinement; hence the hypothesis `MaxCliRuns = 0`, which is the daemon without
`principal init` at the same time. Each action is mapped to `Record`,
`Contact`, `Settle` or a stutter. The other theorems have no such hypothesis.

*No false success.* `RefusalInv`: neither resolutions nor snapshots contain an
acceptance. A lemma on `delivery_status` says that it is satisfied only if the
accepted outcomes fulfil the policy (for quorums, by counting distinct accepted
places); `EarnedInv` carries that from the answers of the relays to the row,
through the statements of the write; `RequestInv` says that a recorded job has
a request with a policy.

*Whole jobs.* `PlanInv`: whoever is about to settle a job has outcomes in hand
that justify the status it will write: for distinct targets, for all targets of
the snapshot unless the job is rejected, acceptances only where a relay has
accepted. `RowsInv`: for each settled job there are such outcomes, of which the
first *k* are in the table and the others in the hands of the one writer
(`OneWriter`) that is at work on the job; if nobody is, and the call has neither
failed nor died, *k* is all of them. Each statement moves *k* by one; a failing
statement or a kill ends the call, which is then no longer sound, and a job of
an earlier run never is (`BornInv`). Both are conditional on the daemon being
alone on the file so far (`AloneInv`), as the property is. `SameStatus` says
that `delivery_status` does not depend on the order of the rows, so the order in
which SQLite returns them does not matter.

**JobQueriesProofs**, from the same assumptions: the steps of `PublishJobs` are
steps of `JobQueries`, so the lemmas on them are used again.

| Theorem | Property |
|---|---|
| `CommittedBeforeContact` | `ContactedIsCommitted` |
| `TruthfulAnswers` | `AnswersTellTheTruth` |
| `TornOrBlamed` | `QueriesFailOnlyWhenTorn` |

    QInv == IInv /\ CliInv /\ CommitInv

`CommitInv` is about the tables that would be left after a rollback: their jobs
are recorded with the snapshots they have now, and a call whose job is not among
them is not past its INSERT and has contacted nobody. It is kept because a
connection with an open transaction begins no other (`BrokenFrame`); and it is
what makes `IInv` survive the rollback.

    AnswerInv == QInv /\ DaemonInv /\ RollbackInv /\ QueryType /\ ViewInv

*Answers.* `DaemonInv` collects what the proof of `WholeJobs` says of settled
jobs; a daemon that loses its process or its transaction keeps it too.
`RollbackInv` is why: while a transaction is left open nobody writes a job that
was settled before it, so a rollback takes jobs back to `Publishing`, never from
one settlement to another. `ViewInv`: a settled row a query has read is still the
row of its job when its outcomes are read, under whatever lock, and what is
ready to be returned is true. The step from rows to truth is `ValidIsTrue`: as
many distinct rows as the job counts, taken from the outcomes that justify its
status (`RowsInv`), are all of them (`RowsFillList`), so a validation that
compares the counts accepts no half-written completion.

    FailInv == AnswerInv /\ UndoneInv /\ AgeInv /\ ReadInv

*Failing queries.* The heart is `RestingIsValid`: with the Mutex free nobody is
at work on a settled job (`NobodyAtWork`), so its rows are whole
(`WholeWhenQuiet`), and a rejected job has no rows unless its quorum is out of
reach. `AgeInv` says that in the first run, while the store is open, every
recorded job is of this run and no call has died. Since the property is about
states long after the query failed, `ReadInv` carries who was to blame through
calls, rollbacks and the end of the daemon: a job a query has touched is
committed, or its call has failed (`UndoneInv`).

**StoreSchemaProofs**, from `SchemaAssumption`:

| Theorem | Property |
|---|---|
| `TypeCorrect` | `TypeOK` |
| `OpenIsWhole` | `OpenMeansWhole` |
| `OldIsUntouched` | `OldDatabaseUntouched` |
| `VersionIsLast` | `VersionVouches` |

    IInv == TypeOK /\ OldInv /\ NewInv /\ CreateInv /\ ValidInv

`OldInv`: on an old database no process is in a place from which it writes.
`NewInv`: in a new one the version is 0 or the current one, and the current one
only with the whole schema. `CreateInv`: a process at statement *n* finds what
the statements before *n* create, whoever created it; this is what lets
`SetVersion` keep `NewInv` although another process executed some of the
statements. `ValidInv`: what a validating process has checked stays true,
because tables only grow.

**Nip46SignerProofs**, from `SignerAssumption` (typing of the constants, and
finitely many RPC calls at a time, so that they can be counted):

| Theorem | Property |
|---|---|
| `TypeCorrect` | `TypeOK` |
| `SecretOnce` | `SecretAdmitsOne` |
| `DeliveryOnce` | `ServedOncePerDelivery` |
| `GateKept` | `ServedThroughTheGate` |

    IInv == TypeOK /\ TaskInv /\ SecretInv /\ PendingInv /\ ServedOncePerDelivery

`SecretInv`: a secret on its way to `insert` is used, has admitted nobody yet,
and has one handler; this is what the count `admitted[s] <= 1` needs at
`InsertSession`. `PendingInv`: a session parks requests of its own client, so
that the request `authorize` takes out of a session is the one `Parked` counts
there. `ServedOncePerDelivery` is a sum over handlers, sessions and the past;
every step moves one unit of it (lemmas `CountFewer`, `CountOneMore`,
`CountOneFewer`) or none (`NothingCopied`).

**PrincipalsProofs**, from `PrincipalsAssumption` (arguments are whatever can be
typed, tokens are told apart from the marks of empty and foreign files):

| Theorem | Property |
|---|---|
| `TypeCorrect` | `TypeOK`: what `create_principal` stores is a scope of known names |
| `TokensWork` | `TokenFilesWork` |
| `ReportsAreTrue` | `ReportedMeansDelivered` |
| `Authority` | `AdmittedWithAuthority` |
| `FilesKept` | `FilesAreKept` |

    IInv == TypeOK /\ RowInv /\ FileInv /\ TokenFilesWork
              /\ DeliveredInv /\ AuthInv /\ CallInv

`RowInv`: an init past `CreatePrincipal` has its row, and one that has been
validated has arguments that parse. `FileInv`: the file an init is about to
write is the one it created, still empty, and no other init writes to it; from
this `WriteToken` establishes `DeliveredInv` (from the write on, hence at the
report, the file has the token of its init) and keeps `FilesAreKept`. `AuthInv`:
the principal of a connection is stored, with the scope the connection has, and
was in force when it was accepted. `CallInv`: an admitted call was a call, on
such a connection, within that scope.

**DaemonStartProofs**, on `IdentityStorage` and `DaemonStart`, from
`StorageAssumption` (two bounds are numbers), `StartAssumption` and
`SettingsAssumption` (the flag that allows generating is a Boolean):

| Theorem | Property |
|---|---|
| `TypeCorrect` | `TypeOK` |
| `IdentityOpens` | `StoredIdentityOpens` |
| `IdentityKept` | `IdentityIsKept` |
| `AnnouncedKept` | `AnnouncedIdentityIsKept` |
| `CleanStarts` | `CleanStartsSucceed` |
| `IdentityKeptWithoutPermission` | `PresentIdentityIsKept`, if no start may generate an identity |

    IInv == TypeOK /\ DaemonInv /\ KeyInv /\ StoredIdentityOpens /\ PlaceInv
              /\ DurableInv /\ KeepInv /\ AnnouncedIdentityIsKept
              /\ CleanInv /\ CleanStartsSucceed

`KeyInv`: one process at a time writes the key file, nobody does once it is
whole, and an envelope about to be stored is wrapped with that key, synced
unless another process has yet to do so; so `Persist` keeps
`StoredIdentityOpens`. `PlaceInv`: a start that found an identity still finds
one. `DurableInv`: what a power cut may take back was generated, never an
identity that was there. `KeepInv`: until `doubled` at most one start generates,
into an empty place, and all others work on the identity in the file; so neither
`Persist` nor a power cut changes it. `IdentityKeptWithoutPermission` adds
`Forbidden`: where nobody may generate nobody does, `doubled` stays false, and
the failing look ends the start. `CleanInv`: without an incident an unfinished
key file is being written, and what is to be opened can be opened. `DaemonInv` ties the tasks of a
process to its loaded identity.

**Nip46ClientProofs**, from `ClientAssumption` (typing; a secret is told apart
from a blank one):

| Theorem | Property |
|---|---|
| `TypeCorrect` | `TypeOK` |
| `GenuineAnswers` | `AnswersAreGenuine` |
| `ProvenSessions` | `SessionsAreProven` |
| `HeardAnswers` | `AnswerIsHeard` |
| `WithinConfiguration` | `AskedWithinConfiguration` |
| `ClosedForGood` | `ClosedStaysClosed` |

    IInv == Types /\ CallInv /\ SessionInv /\ MailInv /\ HeardInv /\ SecretInv

`MailInv`: what is assumed of cryptography (nobody sends a secret but its
holders, nor the id of a request but the signer that was asked) holds of all
that lies in a receiver, however long ago it was delivered. `CallInv`: what a
call knows of its signer and session by the place it is in. `SessionInv`: a
session is the work of a connect that has succeeded, with its signer and with
permissions the configuration gives. `HeardInv`: only a request that was sent is
answered, without which an answer could be counted before the receiver exists.
`SecretInv`: a claimed secret is used, and claimed by one call.

**TargetResolutionProofs**, from `ResolutionAssumption` (typing; trimming twice
is trimming once):

| Theorem | Property |
|---|---|
| `TargetsDistinct` | `TargetsAreDistinct` |
| `CheckedTargets` | `TargetsCheckedByThisCall` |
| `DefaultsFallBack` | `DefaultsAreTheFallback` |
| `RequestAnswered` | `RequestIsAnswered` |

    IInv == Shape /\ \A c \in Calls : TargetInv(c) /\ AuthorInv(c)
                                        /\ RequestInv(c)

`TargetInv`: at any time the targets of a pass are distinct, checked by this
call, and of the source of the pass; in the pass over the defaults all that is
to be checked is a default. `AuthorInv`: a relay of the author that passed the
check makes the targets non-empty, which is what ends the search, so that no
later pass begins (`BeginStep`). `RequestInv`: each entry of the request is
still to be checked or is answered. The provers know nothing of `SelectSeq`, so
`Shape` has no types for what comes out of relay lists, and the lists of targets
and outcomes are only sequences of something (`IsSequence`); none of the four
theorems needs more.

### Only model-checked

* Liveness (`EveryRequestEnds`, `EveryCallEnds`, `EveryJobSettles`,
  `EveryResolutionEnds`, `NewDatabaseOpens`, `EveryRequestAnswered`,
  `EveryStartEnds`): temporal reasoning with fairness is beyond the prover
  version used.
* `TypeOK` of `TargetResolution`: that filtering a sequence keeps its type needs
  induction over sequences.

## 5. Not modelled, and why

* **Paths, host adapter, xtask, contracts.** Path rules, wiring and release
  tooling without state of their own.
* **The rest of server, configuration and CLI**: limits of sizes and connections
  (enforced by jsonrpsee and hyper), TOML and argument parsing, defaults.
  Configured values are constants; a closed connection is `Disconnect`,
  `DropRpc` or `Drop`.
* **Wording and layout**: messages, JSON, timestamps, the classification of
  relay messages into outcome kinds.
* **External code**: URL syntax, public address ranges, `Job::validate`,
  signing and encryption, nostr-sdk, SQLite. They are constants or
  nondeterministic results.
* **Reordering by the file system** beyond what section 2 assumes of it.

## 6. Findings

1. **An interrupted completion is never repaired** (run `reopen`,
   `transport_publish.rs:1399`). The UPDATE of the job row and its outcome rows
   are committed separately. After a crash in between the job is finished but
   has fewer outcome rows than it counts; recovery looks only at `Publishing`
   jobs, so every later read of it is refused.
2. **A concurrent duplicate is answered with a conflict** (run `race`,
   `transport_publish.rs:1232`). Two requests with one key and one intent that
   overlap both pass the look-up; the slower one meets the unique index and gets
   `IdempotencyConflict`, where the tests of the store expect a deduplicated
   answer.
3. **A target reported twice** (run `twice`, `transport_publish.rs:391`). A
   relay configured for discovery and as a default that cannot be looked up
   yields two outcomes with one key; one row is stored, two are counted, and the
   job is invalid on every read.

A limit of the code that is no run of its own: with `--allow-generate-identity`
a stored identity can be replaced (`identity_storage.rs:316`), by a start whose
look at the file fails or by the second of two first starts, although the help
of the flag speaks of a path that is missing (`app/cli.rs:24`).
`PresentIdentityIsKept` fails for both reasons where the flag is allowed, and
section 4 proves it where it is not.

## 7. Plan

Every component with state of its own has a module. The order was:
`DeliveryPolicy`, `PublishJobs` and `JobLedger`, `Nip46Signer`,
`TargetResolution`, `StoreSchema`, `JobQueries`, `Nip46Client`, `Principals`,
`IdentityStorage`, `DaemonStart`; proofs of `PublishJobs`, `StoreSchema`,
`Principals` and `Nip46Signer`, then of the ledger and recovery, `DaemonStart`,
`Nip46Client` and `TargetResolution`, of whole jobs, and of write-ahead and
answers in `JobQueries`.

Every safety property the passing runs check is proved, except `TypeOK` of
`TargetResolution`; what is left to TLC is named in section 4. The
proofs showed one property to depend on its instance: `QueriesFailOnlyWhenTorn`
did not except jobs rejected because their quorum is out of reach, of which
`Job::validate`, as far as this repository tells, may refuse the outcomes; it
does now (`QuorumFits`).
