# A TLA+ specification of sekai-client

sekai-client observes the game API of several regions.  It publishes master
data and translations to two Git repositories, tracks event rankings, and
serves a logged-in game client to other programs over RPC.  Its
interesting part is not the data it moves but what it does when something
stops half-way: a process dies between two file moves, an answer of a remote
service is lost, a caller gives up while its job still runs.

This directory holds TLA+ modules of those parts, the configurations TLC checks
them with, and theorems proved with TLAPS.  Line numbers refer to the
repository root; `PROJECT.json` maps every definition to its lines.

## 1. The parts of the system

| Part | Code | State | Operations |
|---|---|---|---|
| Update transaction | `check_update.py`, `utils/update_transaction.py`, `utils/git.py`, `utils/git_publish.py` | journal and staging on disk, two working trees, indexes and branches, two remotes, the published version in memory | gate, prepare, generate, publish, commit, push, clean up; recovery of each |
| Repository locks, supervisor | `utils/git_lock.py`, `utils/update_supervisor.py` | lock files, owner metadata | acquire several locks, record and clear an owner |
| User information updater | `update_user_information.py`, `utils/user_information.py` | the same master repository | collect, commit, push |
| Event ranking outbox | `utils/event_outbox.py`, `event_tracker.py` | one SQLite table | enqueue, claim, ack, reject, prune |
| Account lease | `shared_client.py`, `accounts/lease_journal.py`, `accounts/remote.py`, `accounts/provider.py` | a journal on disk, the active lease in memory, leases at the account service | acquire, renew, report, release, shutdown |
| Job queue | `utils/task_queue.py`, `utils/deadline.py`, `shared_client.py` | a queue of one job, one worker, a deadline per call | enqueue, reject, give up, run |
| Lifecycle | `shared_client.py`, `api_client.py` | readiness, authentication, back-off, the client's session | initialize, log in, hidden authentication, roll back |
| Game API client | `api_client.py`, `utils/request_execution.py`, `game_*.py`, `utils/crypto.py` | headers, token, version information | one request with its retries |
| Internal RPC | `utils/jsonrpc_client.py`, `utils/rpc_recovery.py`, `utils/ujsonrpcapi.py` | none | call, one retry after a recovery |
| Public API server | `api_public_server.py`, `gunicorn_conf.py` | none | readiness, then the call |
| Local accounts | `accounts/local.py`, `accounts/registration.py`, `accounts/models.py` | one file per region | read, write |
| Data conversion | `utils/array_to_dict*.py`, `nuverse_positional_*`, `scripts/`, `response_models.py` | none | pure functions and tables |
| GitHub App credentials | `utils/github_app_credentials.py`, `deployment/github-app/install.py` | a token file | refresh |
| Operations | `service_dashboard.py`, `deployment/phase5_acceptance.py`, `config.py`, logging, redaction | none shared | observe, configure |

### How they interact

- The updater reads the game through the shared client (RPC) and writes two Git
  repositories.  The user information updater writes the master repository too;
  the repository locks keep the two apart.
- The version a cycle publishes comes from several sources that move on their
  own: a public feed, `/system`, the answer of the last authentication, and the
  game servers that answer each request.  Between the calls of one cycle
  the tracker, the public server and the daily login use the same client.
- The event tracker reads rankings through the shared client and writes them to
  its outbox; each cycle drains the outbox to a receiving API.  A restarted
  deployment may overlap the old one on the same SQLite file.
- RPC callers, HTTP requests and schedulers all enqueue jobs for the one worker
  of the shared client.  A job calls the game API client, which may log in by
  itself in the middle of a request ("hidden authentication") and reports that
  to the lifecycle by a callback.  A login asks the lease part for an account.
- The account service is another process over HTTP; the lease journal is
  what a restart knows of it.

### What is hard, and what makes each part correct

- **Update transaction.** A crash or a failure may fall between any two of some
  twenty durable effects, recovery may itself be interrupted, and pushes may
  be lost or raced.  Correct means: whatever is pushed is exactly what was
  generated; translations show before master data; a new transaction never
  overtakes an unfinished one; nothing of somebody else is overwritten; an
  interrupted transaction is completed in the end.
- **Two updaters, one repository.** The user information updater ignores the
  journal.  Correct means: neither publishes what the other has half done, an
  unpushed commit of the second one is pushed in the end, a date is marked
  only when its refresh is published.
- **Versions.** Correct means: the files published with `versions.json`
  are of the version it names, no cycle goes back to an earlier version, and the
  newest one is published in the end.
- **Outbox.** Two trackers may hold the same row, and an answer may come after
  the claim has lapsed.  Correct means: sent implies received, nothing is lost
  to retention or crashes, a settled row stays settled, and all rows settle.
- **Account lease.** Every remote call may take effect with its answer lost, and
  the thread that ends the process releases beside a worker that still logs in.
  Correct means: the journal does not forget a live lease, a release that is owed
  does not block the next acquire for ever, and the worker holds the lease it
  works with.
- **Shared client.** Roll-backs of several layers (session transaction, login,
  job) overlap with a callback that commits.  Correct means: readiness is
  never claimed without a session, an abandoned job leaves no effect, a failed
  login is on record.

The full list of hazards, each at its line with the properties that cover it,
is in `PROJECT.json`.

## 2. Modules

| Module | What it is |
|---|---|
| `DualPublish` | abstract specification: what readers of the two remotes may see of an update |
| `UpdateTransaction` | the update cycle with journal, recovery, faults |
| `RepoSharing`, `MCRepoSharing`, `MCSharing_*.cfg` | `UpdateTransaction` composed with the user information updater, the locks and the daily run |
| `RepoSharingProofs` | its inductive invariant and the theorems; that it too implements `DualPublish` |
| `VersionSnapshot`, `MCVersionSnapshot`, `MCSnapshot_safety.cfg` | where the version and the data of a cycle come from |
| `VersionSnapshotProofs` | its inductive invariant and the theorems |
| `UpdateTransactionProofs` | the inductive invariant of its control (types, journal, steps) and the theorems |
| `UpdateTransactionSafety` | the inductive invariant of its data (plan, trees, histories) and the theorems; that it implements `DualPublish` |
| `MCUpdateTransaction`, `MCUpdate_*.cfg` | instances for TLC |
| `EventOutbox`, `MCEventOutbox`, `MCOutbox.cfg` | outbox and tracking cycle |
| `OutboxPromise` | abstract specification: the fate of a ranking that is handed to the outbox |
| `EventOutboxProofs`, `EventOutboxRefinement` | its inductive invariant and the theorems; that it implements `OutboxPromise` |
| `AccountLease`, `MCAccountLease`, `MCLease_*.cfg` | account lease and its journal |
| `AccountLeaseProofs` | its inductive invariant and the theorems |
| `SharedClient`, `MCSharedClient`, `MCClient_*.cfg` | queue, worker, lifecycle, one request |
| `SharedClientProofs` | its inductive invariant and the theorems |

Some definitions are marked "Mutant" in their comments: each is what a
plausible bug would make of the definition that follows it, and each property
is known to fail when the mutant replaces the definition.  They play no part in
the specifications.

### UpdateTransaction

One updater process, any subset of the two repositories enabled (`Enabled`).
The constants `Files` and `Tracked` are the paths a repository may hold and
those already in its first commit; `versions.json` is always among the files,
and `Others` are files of the master repository that no cycle generates.

State: `journal` is `transaction.json` (phase "absent" stands for no file);
`staged`, `work`, `index`, `head` are the staging directories, working trees,
indexes and branches; `remote` the branches of the origins.  `pc` and the
variables after it are the running cycle; a `Crash` resets exactly these, and
keeps what is on disk.

The content of a file is the number of the transaction that last changed it.  A
SHA is the sequence of commits that leads to the commit, so equal SHAs mean
equal histories and "ancestor" is "prefix".

Each durable effect is an action: `WritePublishingJournal`, `PublishFile`
(`os.replace` of a staged file), `Checkpoint` (its destination in the journal),
`EnterCommitting`, `PrepareTarget` (commit object and PREPARED checkpoint),
`UpdateBranch` (compare-and-swap of main), `InstallIndex`, `MarkCommitted`,
`EnterPushing`, `PushHead`, `MarkPushed`, `PushDone`, `ClearStaging`,
`DeleteJournal`.  Recovery uses the same steps where the code does and has its own
where it checks first (`RecoverPublishFile`, `RecoverCommitRepo`,
`RecoverCompleted`).  The faults are `Crash`, `StepFails`, `CommitFails`,
`PushLost` and `ForeignPush`.

Locks are those of one process: a cycle that finds them taken is skipped
and has no step.  A daily cycle differs by ignoring the deadline and by
regenerating a version that is published already; its date is in
`RepoSharing`.  Journal writes are atomic (`os.replace` after `fsync`).

Two guards of the recovery model defects of the code.  `FirstPathMangled`
(finding `update_tracked` below): `_git_command` strips its output, and the first
path that `git status` reports may lose its first character.  `UntrackedTarget`
(section 4 too): `TargetWorktree` is the check `git diff --quiet <target>`,
which sees only the paths of the index and takes a new file of the target for
deleted.  Together they refuse a transaction that stops between the record of a
target and the compare-and-swap of its branch, be its files new or tracked; with
new files also from there to the installation of the index.

### RepoSharing

Extends `UpdateTransaction` with a second process on its master repository and
with the daily run.  `ustep` is where `run_once` of the user information updater
is: `UserBegin` (the lock, tried and not waited for), `UserFastForward`,
`UserAhead`, `UserBlocked` (the preparation, which never pushes by itself),
`UserPushRetained`, `UserWrite` (one page, written in place), `UserStage`,
`UserCommit`, `UserPush`; `UserStops` is a failure or a death anywhere.  A
cycle holds the lock from `SharedBegin` to its end, so the two only meet through
what they leave on the disk: that is the question of the module.

`today`, `marker` and `due` are the calendar date, the durable marker and the
date a daily cycle captured; `due_of[n]` is the date in the journal of
transaction `n`.  The actions of `UpdateTransaction` are taken over
conjoined with `CycleDate`, which says what happens to the date.  The bootstrap
cycle is daily at any hour.

Two reductions: somebody else pushes to the master remote only just before a
step that reads it, and the date changes only where the cycle reads it: just before
it begins (`SharedBegin`), and there once more between the two clock reads, the one
that makes the cycle daily and the one for its date.

### VersionSnapshot

A version is a number; `Builds[n]` is its app and asset version, `n` its data
version.  `game`, `system`, `feed` are what the servers run and what the two
announcements say; `/system` may be one version before or behind, may
leave out the data version (`Announced`), and may speak of a maintenance
(`Outage`), in which an entry is a fallback and never new.  The `client` is its headers, its version document and the identity
of its split paths.  The worker runs one `job` at a time as a sequence of
requests, and each action is one request with what the client does with the
answer.  `Refused` is a 426 and the step into its recovery (`Recheck`, `Login`,
`Suite`, `Home`, then back), `SessionRefused` a rejected session.  `restore` and
`saved` are where a failed and an abandoned job leave the client.  The cycle is
`CallSnapshot`, then one `CallSplit` per split, with the one retry of
`request_with_recovery` (`call`).  `region` is chosen once: in cn, tw and kr the
candidate is the version document and the files come from a CDN.

Assumed of the game: it refuses stale headers on every request
except `/system` (may pass), and looks at the app version alone on an
authentication.  A feed that cannot be reached at all is not modelled (a
feed that lags behind is).

### DualPublish

Updates are numbered; an update changes a set of repositories; each of these
shows it once, i18n before master; the next update begins only when all do.
`UpdateTransaction` implements it under the mapping `DP`: the journal's
existence is `open`, the commits in the remotes are `shown`.  Crashes,
recovery, and journal do not show.

### EventOutbox

A row is named by its collection time and data type.  The deadlines of a row
are flags (`due`, `lapsed`) and the retention window is the set `old`, so time
is the actions `BackoffOver`, `ClaimLapses`, `SlowDelivery`, `GrowsOld`.  Each
immediate SQLite transaction is one action, and so is the POST (`Deliver`),
which may store the ranking and still end in an error.  The cycle is drain,
collect (retried once under the same time), drain.

`OutboxPromise` says what this amounts to for one ranking: accepted once, sent
only after it arrived, settled for good, and never back once retention has taken
it.  Under the mapping `Promise` a row that is absent is "unknown" before its
insertion and "forgotten" after it; claims, attempts and trackers do not show.
What could break it is the retried collection: it inserts under keys that
another tracker may have sent meanwhile.

### AccountLease

Time is ticks left of each lease, aged together by `Tick`.  `service` is the
remote account service, external, modelled from the contract in
`accounts/provider.py:31-71`: an acquire under the key of a live lease returns
that lease, a release is idempotent or answers 404 for a lease that is over.
The steps between two remote calls or journal writes are single actions, so a
`Crash`, a lost answer (`InfoFails` and its relatives) or a step of the other
thread can fall between any two.

There are two threads: the worker, whose place is `pc`, and the one that ends the
process; `release[t]` is where `_release_account_lease` is in thread `t`
(`ReleaseLoad`, `ReleaseMark`, `ReleaseDelete`, `ReleaseClear`).  `Shutdown` is a
call of `release_active_account_lease`, of which there are up to `ExitCalls` (the
`worker_exit` hook and `atexit`).  It waits for `_account_lease_lock` (`LockHeld`) to
take the lease out of memory, and then releases without it, while the worker, a
daemon thread, goes on with its login; `Exit` is the end of both.
`LoadOrCreateAgain` is the second `load_or_create` after an owed release was
flushed; the code acquires for what that returns without another look at
`release_pending`, and so does the model.

Two histories: `known[l]` is what is left until the last expiry recorded for lease
`l`, and `contested` are the keys under which a lease was given although the
operation was not on disk any more as the login had loaded it, the shutdown was about
to write it, or an ended lease of the same key was still in use (`Contested`).  One
abstraction: the active lease and its operation, two globals set one after the
other, are read and set as one.

### SharedClient

Callers (`Ask`, `Enqueue`, `Reject`, `Expire`, `GiveUp`), the worker, and the
six kinds of jobs: initialization, login, relogin, `ensure_ready`,
`update_snapshot` and a plain call.  A session token is the number of the login
or rotation that brought it.  The steps inside one authentication are one
action, for the worker is single and nobody else reads the session; the
deadline may pass while it is under way.  The request is a loop of `Send`,
`Answer`, `Transient`, `BeginHidden`, `HiddenLogin`; `Heard` is what the
lifecycle callback is told of a recovery nested in an authentication that
fails: the game may answer 426 to an authentication too, the recovery of that
refreshes only the version, and the callback hears of a success (`rejected` notes
it).  The last section is `guarded` of `_client_job`: a job is accepted,
abandoned, rolled back or kept.

## 3. Runs

| Run | Question | Bounds | Result |
|---|---|---|---|
| `update_safety` | journal, repositories, remotes consistent; refines `DualPublish` | both repositories, 2 files, 2 transactions, 3 faults, 1 foreign push | holds, 417 169 states |
| `update_tracked` | interrupted transactions complete, tracked files | 1 transaction, 3 faults | **violated** |
| `sharing_safety` | the cycle, the user information updater and the date | 1 transaction, 2 faults, 1 foreign push, 1 edited page, 2 dates | holds, 242 280 states |
| `sharing_recovery` | interrupted transactions complete, the cycles of `CutShort` aside, whatever the other updater does | 1 transaction, 1 fault, 1 edited page | **violated** |
| `snapshot_safety` | published together, never backwards, published in the end | 3 versions (a data update, then an app update announced without data version), 2 splits, 2 faults, both kinds of regions | holds, 557 882 states |
| `outbox` | nothing lost, sent means received, settled stays settled, every row settles; refines `OutboxPromise` | 2 trackers, ranking and one chapter, 2 attempts, 1 fault, 1 slow delivery | holds, 333 900 states |
| `lease_safety` | no lease forgotten, an owed release is settled or replaced | TTL 2, 2 keys, 2 faults, 1 call at the end of the process, releases may be refused for good | holds, 535 419 states |
| `lease_shutdown` | a new process knows every lease of the last one | 3 keys, no faults, 2 calls at the end of the process | **violated** |
| `lease_renewal` | the active lease is held | no faults | **violated** |
| `client_safety` | readiness, roll-back, failed logins | 2 callers, 1 retry, 3 tokens, 1 interrupt | holds, 3 980 788 states |
| `client_late` | nothing is committed after the deadline | 1 caller | **violated** |
| `client_reject` | a failed login is on record if the game answers 426 to it | 1 caller, 2 tokens | **violated** |

### Why the bounds are enough to be interesting

- *update*: `versions.json` and one more file in each of two repositories give
  partial publication within a repository, across the two, and
  `versions.json` last.  In `update_safety` the files are new in the first
  transaction and tracked in the second.  Three faults allow a crash, a failed
  recovery and a second crash in the recovery after it.  `RecoverCompleted`
  needs a crash in the cleanup, within reach.
- *sharing*: one transaction and one edited page are enough for every meeting of
  the two programs; two faults are a crash of the one and a failure of the
  other; two dates are an interrupted daily run and its recovery on the next day.
  The foreign push gives each of them a remote that has moved.
- *snapshot*: one update of the data alone and one of the app are the two ways
  headers go stale; the game can move once before and once between two splits.
  Two faults are a failed call and the failure of its retry.
- *outbox*: two trackers and two rows are what a claim that is taken over needs;
  two attempts reach both verdicts.  Rows are ordered only against each other.  A
  delivery that fails, or whose answer is lost, is no fault and may happen each
  time; the fault is a crash or a failed transaction or collection.
- *lease*: two keys are the operation that may be forgotten and the one that takes
  its place (a third adds nothing to `NoOrphanLease`, which is proved for any
  number); a TTL of 2 with a look-ahead of 1 separates "renewal is due" from "has run
  out".  One call at the end of the process already runs beside every step of a login.
  A service that refuses a release, once or always, is no fault.
- *client*: two callers are the running job and the queued one; a third could
  only be rejected.  With one retry a job has two requests and up to
  two hidden logins, the least that sets an accepted authentication beside a
  later one.

### Scope of some properties

- `NoOrphanLease` speaks of a lease until the last expiry recorded for it passes
  (`known`): a renewal whose answer was lost is covered as long as the old record
  lasts.  A release that is recorded under an earlier expiry takes that for its
  record, as it does after the defect of `lease_renewal`.  It does not speak of
  leases given under a contested key.  Two situations make a key contested, both
  defects: a login acquires beside the shutdown (`lease_shutdown`), and the service
  gives a second lease for a key while the login still has the ended one of the
  same key to release, after `lease_renewal` among others.  `LeaseOnRecord` has no
  such exemption and is violated.
- `OwedReleaseSettled` does not say that the service confirms the release: if it
  refuses for good, the operation is replaced once its lease has run out.  It speaks of
  a process that is left running, and the bound on keys and leases ends a behaviour
  early.
- `LateRestores` exempts a job whose callback accepted an authentication before
  the deadline: that one is meant to stay.
- `SettledAfterJob` and `FailedLoginDegrades` speak of jobs that begin without a
  pending hidden failure.  A hidden success followed by a hidden failure in one
  job leaves `hidden_auth_failure_pending` set, and the next failed login
  takes itself for recorded.
- `RefusedNotReady` and `FailedLoginDegrades` exempt the jobs in which an
  authentication was answered 426 and the callback was told of a success
  (`rejected`), and no other: authentications answered 426 are part of every run.
  `EveryFailedLoginDegrades` has no such exemption and is violated in
  `client_reject`.  `RefusedNotReady` without it fails for the same reason: a
  426 nested in a hidden authentication leaves READY on the token the game has
  refused.
- `CompletesUnlessMoved` is checked with files no commit tracks, before the defect of
  `update_tracked` can bite.  It gives up when a repository or a remote was
  moved away from the journal (`Moved`), for then recovery refuses by design or by the
  defect `sharing_recovery` shows, and when a cycle ended just where
  `UntrackedTarget` makes every recovery refuse (`CutShort`, see section 4).
- `RetainedPushed` ends its promise when the master repository is dirty or has
  diverged: then both updaters stop until somebody repairs it.
- `NewVersionPublished` needs the daily login (see Fairness).
- The chapters of one collection are inserted one by one and a crash between
  them loses the rest; `NothingLost` speaks of inserted rows.

### Fairness

- `UpdateTransaction!FairSpec`: `WF(Cycle)`.  The scheduler fires every half
  hour with `max_instances=1` and coalescing (`check_update.py:477-512`), and a
  running cycle goes on.  No fairness of faults or of other pushers; faults are
  bounded, so in the end a cycle runs undisturbed.
- `RepoSharing!FairSharing`: weak fairness of what has begun; strong fairness of
  both programs' beginning.  Both start every half hour and try the lock without
  waiting; that neither finds it taken for ever is an assumption about
  their schedules, for cycles are far shorter than half an hour.
- `VersionSnapshot!FairSpec`: weak fairness of the worker and of the game's
  announcements, which come to rest; strong fairness of the cycle's calls
  and of the daily login (`day_change_func`).  Without the daily login the
  property fails, see section 4.
- `EventOutbox!FairSpec`: weak fairness of the cycle of each tracker (every
  three minutes) and of time; strong fairness of `Claim`, for a drain may
  stop before it claims, but its limit of 20 rows and its budget of 30 seconds
  (15 for one delivery) let every drain start with a claim.
- `AccountLease!FairSpec`: weak fairness of the worker's own steps and its releases,
  of the next login (callers keep asking, and the daily login comes) and of time.
  The service owes nothing: with `ReleasesRefused` it may refuse each release.

## 4. Findings

Each is a run that TLC must find violated; the texts with their quotes are
in `PROJECT.json`.

1. `update_tracked` (code): `check_update.py:2353` strips the output of
   `git status --porcelain`; a first line `" M path"` loses its leading blank,
   the path read from it its first character, and recovery rejects the journal
   as dirty outside of the manifest, in every later cycle.
2. `sharing_recovery` (code): the user information updater takes the lock while a
   journal is pending and the repository is clean, commits and pushes; no later
   recovery accepts the head it finds.
3. `lease_renewal` (code): a renewal makes a new lease object; `login_account`
   takes it for a replacement, and releases the lease it goes on using.
4. `lease_shutdown` (code): the shutdown releases the lease of an operation and
   clears its record while a login acquires under the same key; the new lease is live,
   and the next process does not know of it.
5. `client_late` (code): after one hidden login in time and one after
   the deadline, a job that ends with exhausted retries keeps the late session.
6. `client_reject` (code): a 426 to the authentication request itself is
   recovered by a refresh of the version, reported as a successful
   authentication, and the login that then fails leaves READY with no failure.

Observed while modelling, without a run of their own:

- `_validate_target_worktree` (`check_update.py:2302-2308`) compares the target with
  the paths the index knows.  A transaction that adds a file and stops between its
  PREPARED checkpoint and the new index is refused in every later cycle
  (`UntrackedTarget`).  `MCUpdate_tracked.cfg` with `Tracked = {}` shows it with one
  fault, and so does `CompletesUnlessMoved` without `CutShort`.
- A failed publication keeps the journal for recovery; the docstring at
  `check_update.py:1561-1563` says it is dropped.
- A lapsed claim of the outbox is reclaimed without a look at `max_attempts`
  (`utils/event_outbox.py:212`), so a tracker that dies in each delivery repeats
  it; `AttemptsAccounted` says what is counted.
- `check_versions` writes the version document from an entry of `/system` that
  no authentication has confirmed.  When a later entry has no data version,
  the candidate is completed from that document (`api_client.py:602-618`),
  matches no split context, its refresh is rolled back, and every cycle fails
  until the next login, although the headers are right.  Without
  fairness of `DailyLogin`, TLC shows this as a violation of
  `NewVersionPublished`.
- A crash of the user information updater after it has written a page leaves the
  master repository dirty, and both updaters stop until somebody cleans it.

## 5. Proofs

`UpdateTransactionProofs` proves, for any `Enabled`, `Files`, `Tracked` and any
bounds:

- `TypeCorrect`: `Spec => []TypeOK`.
- `JournalsWellFormed`: `Spec => []JournalWellFormed`.  No step, in no order of
  crashes and recoveries, writes a journal the schema of
  `TransactionJournal.write` would refuse.
- `PushesOnlyCommitted`: `Spec => PushOnlyCommitted`.  The process changes a
  remote only when every enabled repository is committed at its target.
- `Invariance`: `Spec => []IInv`, on which the others rest.

Assumptions: `OptionsAssumption`, `FilesAssumption`, `BoundsAssumption`, which
TLC evaluates in every run of the module.

*The argument.*  `JournalWellFormed` is not inductive: it does not know that a
cycle at step "mark" has a target, or that one at "probe" has committed
everything.  `IInv` adds what the step of the cycle says about the journal.
`PhaseOfStep` gives the phases possible at each step, `TodoOfStep` the
repositories that are still to be done, `TargetOfStep` the commit state of the
repository under work, `AllCommitted` that every enabled repository is
committed with its head at its target from "pushing" on, and `PushedPrefix`
that the pushes recorded so far are those no longer in `todo`.  `NoEmptyBranch`
says that no branch and no journal base is an empty history; typing needs it,
for `TreeOf` takes the last commit.  The step theorem has one case per action,
and each case one step per conjunct the action can disturb.  `PushesOnlyCommitted`
follows because only `PushHead` changes a remote, at step "push", where
`AllCommitted` holds.

`UpdateTransactionSafety` builds on it and proves, under the same assumptions:

- `CommitsNotTorn`: `Spec => []NoTornCommit`.
- `TranslationsFirst`: `Spec => []I18nBeforeMaster`.
- `TransactionsSettle`: `Spec => []NothingAbandoned`.
- `QuietIsReady`: `Spec => []QuietMeansReady`.
- `VersionsMoveLast`: `Spec => []VersionsLast`.
- `VersionInLockStep`: `Spec => []VersionInfoLockStep`.
- `RemotesOnlyGrow`: `Spec => RemoteOnlyGrows`.
- `UpdaterImplementsDualPublish`: `Spec => ImplementsDualPublish`.
- `TxnInvariance`: `Spec => []TxnInv`, on which the others rest.

*The argument.*  `IInv` knows which step goes with which phase, and nothing of
contents.  `TxnInv` adds what the pending transaction has done so far, as the plan,
the journal, the working trees, the branches and the remotes tell it, in two halves:
`CycleInv`, what a cycle needs of the repositories and keeps, whoever else uses them
between two cycles, and `Data`, what holds when nobody else does.

`CycleInv` is `IInv` with these conjuncts.  `HistoriesSound` is the goal
`NoTornCommit` made inductive: no commit is of a later transaction than the last
one, and each holds the planned tree.  `JournalOfPlan` says that the journal is the
record of the last transaction and that a recorded target is the one that is due
(`TargetOf`), whether the fresh cycle or a recovery recorded it.  `PublishProgress`:
what is off the list of files is placed, what is on it waits in staging.
`Prepared` and `CommitPlace` say what a cycle has found or made of a repository at
the step where it works on it; `PushSeen` that a push is recorded once the remote
shows the target.  `LastInOrder` is `I18nBeforeMaster` for the pending
transaction, where the order of the pushes decides; for the earlier ones it follows
from `NothingAbandoned`.

`Data` follows the files over the whole transaction.  A commit is made from the
working tree, so `WorkOfJournal` (outside the manifest it is the base) and
`PublishProgress` must give the planned tree; `VersionsLast` is one more invariant of
this list.  `CommitProgress` follows the branch and the index from the base to the
target.  `PushProgress` says why a confirmed push needs no second look: the remote
continues the target with commits that leave its tree alone, and remotes only grow.
`Quiet` is what the end of a transaction hands to the next, and `VersionProgress`
follows the version in memory.

Sequences enter by a few lemmas only (`AncestorPoints` and its relatives: a history
is an ancestor when it has the same commits in the same places), and `Writers` says
which step writes which variable, so that each conjunct has a lemma of its own with
the few steps that touch it.

For the refinement, `WritePublishingJournal` is the promise's begin and the removal
of the journal its end (`NothingAbandoned` gives the guard); `PushHead` shows the
last transaction (`JournalOfPlan`, `TargetFacts`) in an order `LastInOrder`
justifies; every other step, and the foreign pushes, do not show.

`RepoSharingProofs` proves of both programs together, for any pages besides, any
number of edits and of dates:

- `SharingTypeCorrect`: `SharedSpec => []SharingTypeOK`.
- `OnlyPagesLeft`: `SharedSpec => []OnlyPagesInTheWay`.
- `MarkedDatesShown`: `SharedSpec => []MarkedDateShown`.
- `SharedCommitsNotTorn`: `SharedSpec => []NoTornCommit`.
- `SharedRemotesGrow`: `SharedSpec => RemoteOnlyGrows`.
- `SharingImplementsDualPublish`: `SharedSpec => ImplementsDualPublish`.
- `SharingInvariance`: `SharedSpec => []SharedInv`, on which the others rest.

Assumptions: those of `UpdateTransaction` and `SharingBounds`, which TLC evaluates in
every run of the module.

*The argument.*  The lock keeps the two programs apart in time only: a journal may
be pending while the user information updater writes, commits and pushes.  So `Data`
is false here (the working tree has other pages, the branch other commits, the
remote a successor of the base), and the question is which part of it a recovery
really needs.  That part is `CycleInv`: each of its conjuncts speaks of a step the
cycle is at, of what it has placed, or of what commits hold, and none of that
changes under the other program.  `SharedSteps` sorts the steps into those of
`UpdateTransaction`, whose lemmas then apply as they are, those of the other program,
and those that leave the repositories alone; `UserEffects` reduces the second kind to
five effects on the master repository.

`SharedInv` adds `Sharing`, what the repositories look like between two cycles.
`Locked` is the lock.  `PagesApart`: no transaction has a page among its files.
`WorkOffPages` and `CommittedKept` are `WorkOfJournal` and the end of
`CommitProgress` for all files but the pages, and `Branches` what is left of
`PushProgress`: a branch continues the base or the target with commits that change
only pages.  So the head a recovery accepts leads where the journal says, and a
fast-forward by the other program keeps the files the transaction has placed.
`AtTargets` and `Resting` lead to `OnlyPagesInTheWay`: when a journal is deleted
the branch is at a target its remote shows (`ClosedFacts`), and from then on only
commits of the other program come on top (`OnTopFacts`).  `UserPlace` is the same at
the other program's own steps, where a journal may be pending, and `EditsCounted`
tells its commits from those of the foreign pushers.  `Dates` follows the date from
the beginning of a cycle to its mark: the date of a fresh cycle is that of the last
transaction, and a cycle that ends well leaves this transaction in every remote
(`DateDoneShown`).  Remotes go on showing it, for neither program takes a commit from
them (`DateKept`).

`EventOutboxProofs` proves, for any number of trackers, any chapters, any limit
of attempts and any bounds:

- `OutboxTypeCorrect`: `Spec => []OutboxTypeOK`.
- `SentReceived`: `Spec => []SentMeansReceived`.
- `NothingEverLost`: `Spec => []NothingLost`.
- `AttemptsCounted`: `Spec => []AttemptsAccounted`.
- `SettledStays`: `Spec => SettledStaysSettled`.  The answer of a tracker whose
  claim was taken over never changes the outcome of the row.
- `SendersPerClaim`: `Spec => []OneSenderPerClaim`.
- `OutboxInvariance`: `Spec => []OutboxInv`, on which the others rest.

Assumptions: `ChaptersAssumption`, `AttemptsAssumption` and
`OutboxBoundsAssumption`, which TLC evaluates in every run of the module.

*The argument.*  `NothingLost` alone is not inductive: whether `_reject` may give
a row up depends on the attempts the tracker counts, not on those in the row.
`OutboxInv` ties the two.  `ClaimInRow`: a row has a claim exactly while it is
being sent, and neither its claim nor its attempts exceed the claims made for
it.  `HoldOfStep`: a tracker holds a claim exactly while it delivers and
settles, and as long as the row has the same claim it counts the same attempts.
Claim numbers only grow, so a new claim equals none that is still held
(`ClaimKeeps`), and an answer finds its claim in the row only while nobody has
taken it over (`SettleKeeps`).  `AttemptsLeft` is the strict bound for rows that
may be claimed, which a lapsed claim widens by one; `Outcome` is the goal, row by
row; `TimeOfStep` says that a cycle that collects has a collection time, which
typing needs.

`OneSenderPerClaim` compares the number of trackers at work on a row with its
claims that ran out.  `ClaimsDistinct` says that two trackers never hold the same
claim of a row, so at most one of them holds the claim that is in the row and has
not run out.  `StaleCounted` is the inductive bound: the others, whose claim was
replaced or whose time is over, are finitely many and at most `lapses`.  A claim
becomes one of them when its time runs out, which `lapses` counts; a row is claimed
again only when nobody holds a claim of it that still runs, so the new claim makes
no other stale.  `Trackers` may be infinite.

`EventOutboxRefinement` proves `OutboxImplementsPromise`: `Spec =>
ImplementsPromise`.  It needs three facts more (`Retention`): a row that was
enqueued and is gone is past the retention window, the time of a cycle that may
still enqueue is not, and only what was enqueued is claimed.  Each action then
maps to one action of the promise or to a stutter.

`AccountLeaseProofs` proves, for any lifetime of a lease, any margin of renewal,
both kinds of region, any number of calls at the end of the process and any bounds:

- `LeaseTypeCorrect`: `Spec => []LeaseTypeOK`.
- `NoLeaseOrphaned`: `Spec => []NoOrphanLease`, which exempts contested keys; see
  "Scope of some properties".
- `LeaseInvariance`: `Spec => []LeaseInv`, on which the others rest.

Assumptions: `LeaseTimesAssumption`, `LeaseBoundsAssumption`, which TLC evaluates
in every run of the module.

*The argument.*  `NoOrphanLease` says what the journal covers, and not why it may
forget: because the lease was ended, because its record ran out, or because nothing
it writes over has a lease.  Both threads write the journal, and neither
holds a lock while it releases, so the invariant has to say why each write and each
clear is harmless wherever the other thread is.  `Kept` are the leases that must not
be forgotten, and a key is `Void` when it has none or is contested.  `Given`: a key
has at most one live lease.  `Memory`: what either thread has in memory names the
only lease that may be live under its key (`Known`, `Held`), unless that key is
contested.  `Recorded` is the goal made inductive: the journal has the operation of
every kept lease, and for as long as the record is to last.  `ReleaseOfStep`: a release
that is about to write finds every kept lease under its own key, and one that is about
to clear has a lease that is over.  `WorkOfStep` says the same of the acquire
path, `ExitOfStep` of the steps of the two threads against each other, and `LoginOfStep`
that a login has the operation it began with until it has another.  `NoOrphanLease`
then follows from `Recorded` alone.

`SharedClientProofs` proves, for any callers, retries, sessions and interrupts:

- `ClientTypeCorrect`: `Spec => []SharedTypeOK`.
- `ReadinessBacked`: `Spec => []ReadyHasSession`.
- `LateJobsRestore`: `Spec => LateRestores`.
- `JobsSettle`: `Spec => SettledAfterJob`.
- `RefusedTokensDropped`: `Spec => RefusedNotReady`.
- `FailedLoginsRecorded`: `Spec => FailedLoginDegrades`.
- `ClientInvariance`: `Spec => []ClientInv`, on which the others rest.

Assumptions: `CallersAssumption`, `ClientBoundsAssumption`, which TLC evaluates in
every run of the module.

*The argument.*  A job may roll back three times, each to a state of its own: the
recovery of a 426 to the token it found, the login to the session it found, the
job to the session and the lifecycle it found.  Whatever it goes back to must
itself be a state with a session behind its readiness.  `Sessions` says so of the
client, of what the job goes back to and of what the login goes back to.  `Worker`
and `KindOfStep` say which kinds of jobs and of attempts may be at a step,
`BeforeOfStep` and `LoginOfStep` where something to go back to exists, `Unborn`
what is known before the first session, `Attempts` that the state of an attempt
belongs to a running job.  `OnRecord` and `Refusals` follow the failed login and
the refused token from the answer of the game to the end of the job, or to the false
success (`rejected`) that excuses it.

`VersionSnapshotProofs` proves, for any number of versions and splits, both kinds
of regions and any bounds:

- `SnapshotTypeCorrect`: `Spec => []SnapshotTypeOK`.
- `PublishedAsNamed`: `Spec => []PublishedTogether`.
- `NeverGoesBack`: `Spec => NeverBackwards`.
- `SnapshotInvariance`: `Spec => []SnapshotInv`, on which the others rest.

Assumption: `SnapshotAssumption`, which TLC evaluates in every run of the module.

*The argument.*  Master files and splits are read in separate jobs, and the
session may change in between, forwards by a login or backwards by a deadline.
What keeps them together is that a split is answered only when the headers of the
client fit the game.  `Clients` says of the client, and of each session a job may
go back to, that its split context is of a version the game has run and no earlier
than the snapshot's (`ContextKnown`), and that its headers are those of its
context or were announced by `/system` and stand in the version document
(`HeadersKnown`), except between two requests of one step (`OnTheWay`).
`SnapshotKnown` says that the candidate is the context of the digest, and that the
headers of the digest are not ahead of it; `MatchesFacts` gives the reason, the
comparison of the candidate with the context.  `PartsOfSnapshot`, the strengthened
goal, then holds by squeezing: a split that passes the digest was answered under
headers equal to the game's and to the digest's, the digest's are at most the
candidate's, and the candidate's at most the game's (`FreshFacts`).
`NeverBackwards` follows for the same reason: the candidate is no earlier than
what is published (`SnapshotKnown`).

Each conjunct of the invariants was checked by TLC before it was proved.

*Only model-checked.*  Every invariant and every action property of the passing runs
is proved.  With TLC stay the liveness properties, `CompletesUnlessMoved`,
`RetainedPushed`, `NewVersionPublished`, `Settles` and `OwedReleaseSettled`: they
rest on fairness, hence on ENABLED, which the provers at hand do not treat.  What the
six findings refute is refuted by TLC alone.  No theorem needed induction over data.

## 6. Not modelled, and the plan

The order of the modules was: the update transaction (most state, most faults),
the outbox, the lease, the shared client, then the two updaters on one repository
and the sources of a version.  What comes next:

1. A restart with other options (`check_update.py:2975`): the enabled
   repositories are a constant, so a journal of a repository that is no longer
   enabled is not met.
2. `ApiRequest`: the retry table of `execute_request` and
   `_handle_http_error_retry` in detail (budgets, idempotent methods, 429 and
   `Retry-After`).
3. The lease under the deadlines of the shared client: a composition of
   `AccountLease` and `SharedClient`, for a login that succeeds after its
   deadline (`shared_client.py:476`).
4. An abstract specification of the shared client, refined by its module.

The supervisor (`utils/update_supervisor.py`) is not modelled: no program of the
repository starts it.  The public server and the RPC client appear only as
callers: they keep no state, and how an error becomes an HTTP status is
formatting.

Left out for good: encryption and the wire protocol, data conversion, the
credentials helper, the dashboard and other observers.  They keep no state
another part depends on, and unit tests reach their behaviour.  The local
account provider reads and writes one file in one process.
