# IntentSmith: a verification development

IntentSmith is a local-first AI workbench: a Node.js server with an SQLite
database, a chat that plans and executes tools, a studio that changes files of
registered projects, skills, agents, model evaluation and a remote API.  What
makes it trustworthy is a small part of its 3 355 files: the *authorities*,
append-only ledgers in SQLite with a runtime around each, which decide who may
do something that cannot be undone and what the system says about it
afterwards.  This directory models them in TLA+, checks the models with TLC on
small instances and proves the most important properties with TLAPS for every
value of the constants.

Paths below are relative to the repository; `effects/x.js` stands for
`src/effects/x.js`.

## 1. Inventory

### Modelled

| component | state it keeps | operations | what is hard |
|---|---|---|---|
| effect broker, `effects/effect-broker.js` | none of its own | prepare a request from the observed workspace, execute a granted one | the observation and the provider race a timer and the caller's cancellation; a late answer must not be lost |
| effect authority repository, `effects/effect-authority-repository.js`, `effects/approval-grant-issuer.js`, migrations 072, 073, 077, 092, 094, 095 | requests, grants, claims, pre-execution terminals, invalidations, results, rollback receipts | register, issue, consume, revoke, terminalize, invalidate, record result and receipt | several processes share the database; clocks are read before transactions; every row is written once |
| effect file runtime, `effects/effect-file-runtime.js` | pending payloads, `activeEffects` of the process | request, approve, cancel, four recovery phases at start | crashes between any two statements, recovery next to a live owner |
| filesystem effect provider, `effects/filesystem-effect-provider.js` | the project's files | read, write, create | foreign edits, failures after the rename |
| settlement and ownership, `effects/effect-rollback-settlement.js`, `effects/execution-owner.js` | none | classify what a restart finds; prove an owner's death | a null digest has two meanings |
| database restore lock and leases, `core/database-restore-lock.js` | a lock file with the identity of its owner, `flock` leases on the database's directory | take a lease, create, judge, quarantine and release the lock file | two protocols (lease and lock file) at once, lock files of dead owners, a lock file replaced between judgement and removal |
| offline restore and opener, `core/db-backup.js`, `db/database.js` | the database's main file and write-ahead log, safety snapshots | open, commit, close, restore, roll a restore back | the file set is replaced by several renames, each of which may be the last |
| tool circuit breaker, `executor/circuit-breaker.js`, its use in `executor/tool-executor.js` | state, failure times, successes per tool and session | look, record a success or a failure | concurrent calls between the look and the record; who advances the state |
| GPU evaluation lock, `upgrade/gpu-evaluation-lock.js` | a directory with `owner.json` | acquire, judge a holder, clear, release | every step is a separate call on the file system |
| project change execution, `execution/project-change-runtime.js`, `execution/execution-authority-repository.js`, `execution/exact-git-provider.js`, migrations 078, 079, 122 | claims with generations and leases, the approval set, process records, effect results, one parent result; the user's files, HEAD and index | claim, consume all grants at once, write the files, run the focused test, commit, roll back, recover | a lease that ends while its owner works, a test that outlives its server, a partly applied change, a commit whose proof fails |
| lifecycle authority, `lifecycle/m2-lifecycle-application-service.js` and its repository | approval, grant set, cancel intent, receipt and terminal of a plan | approve, cancel, startup census, finalize | a census that meets any state a crash can leave; a cancellation beside a running execution |
| remote operation journal, `remote/m7-operation-journal.js`, `remote/m7-operation-control-adapters.js` | intent and outcome events, abandonment receipts | claim, replay, record an outcome, abandon, show, list by page | retries through other sessions and after crashes, outcomes that nobody knows, listings while outcomes arrive |
| remote sessions and pipeline, `remote/m7-session-authority.js`, `remote/m7-disconnected-request-pipeline.js` | pairing, session generations with counters, challenges; the busy sessions in memory | challenge, open, refresh, revoke, admit a request | repeated and reordered requests, one slot per session revision |

The components interact through the shared SQLite file and the project's files
only; within a process, through calls.  The broker never touches the ledger but
through the repository, and the provider never touches it at all.  The tool
authority calls the effect runtime and invalidates requests that nobody
approved (the action `InvalidateEffect`).  A project change is a client of the
same grants, consumed in one transaction for all its effects; the lifecycle
authority starts it, may cancel it while it runs, and closes the plan from its
result.  A remote request passes the session authority, then the journal's
intent, then its handler, then the journal's outcome.  Every process that opens the database
takes the opener's lease, so that the restore lock is the one protocol under all
authorities.

For each modelled component the properties that make it correct are named in
section 4, and what a unit test would hardly reach is listed under `hazards` in
`PROJECT.json`, each entry at its line of code.

### Not modelled yet, in the order of the plan

| component | state | operations | hard behaviour |
|---|---|---|---|
| tool authority (`src/tools/m2-tool-*`) | tool requests, claims, results, effect invalidations | execute, link a tool to an effect, settle | a tool result that waits for an effect's approval |
| model failover and binding application (`src/upgrade`) | bindings, incidents, decisions | detect, decide, apply, verify, roll back | hysteresis, stale observations |
| agent scheduler, autonomy, notifications (`src/agents`, `src/autonomy`, `src/notifications`) | schedules, runs, queues | run due agents, back off | overlapping runs |
| history drain (`src/core/history-drain.js`) | messages in the database and in JSONL files | append, delete, repair, prune | a torn line, a crash between the append and the delete |
| pairing claims and rate limiter (`src/remote`) | pairing codes, rate windows | claim a code, count requests | windows that roll over between two requests |
| session adapter and WebSocket server (`src/ws-bridge`) | sessions, outstanding turns | ingest, cancel, resume | reconnection while a turn runs |

### Left out

Chat, planner, LLM gateway, memory, code intelligence, specialists, evaluation
suites, marketplace, UI, IDE extensions and the mobile client compute, format
or render; their state is either derived or belongs to one of the authorities
above.  Vendored code, evidence archives (`docs/review`, `materials`) and tests
are not modelled, but the tests are used as documentation of what the code is
meant to do.

## 2. Plan

Order: what cannot be undone first.

1. **Effect authority** (`EffectAuthority`, `EffectLedger`): done, with type
   correctness, exclusiveness, append-only ledger, ownership, the truth of its
   results and receipts and the implementation of the ledger proved.
2. **Database restore** (`DatabaseRestore`): done, its safety proved.
3. **Tool circuit breaker and GPU lock** (`ToolCircuit`, `GpuEvaluationLock`):
   done; both show a disagreement between the code and its documentation, whose
   reach or cause is proved.
4. **Project change and lifecycle** (`ProjectChange`, `ChangeContract`): done;
   types, the single driver, the fencing of the test, the safety of foreign
   content, the truth of the result and of the terminal, and the implementation
   of the contract proved.  The renewal of a claim has no caller and is left out.
5. **Remote operations** (`RemoteOperations`, `RemoteContract`): done, and every
   property of its run proved, the refinement included.
6. **Tool authority** (`ToolAuthority`): request, claim, result, a result that
   waits for an effect's approval, invalidation; the executor's shared project
   sandbox.  It would compose with `EffectAuthority` through
   `InvalidateEffect`.
7. **Pairing claims and rate windows**, as a module that `RemoteOperations`
   starts from (its `pairing` is `PAIRED` from the beginning).
8. **Model failover** and **history drain**, then the effect broker's provider
   race at the level of single promises.

Every safety property and refinement of the four larger modules is proved; what
a new module adds comes with proofs of its own.

## 3. Modules

| module | models | lines of code it stands for |
|---|---|---|
| `EffectAuthority` | the ledger, the runtime, the broker and the provider, as run by several processes | `effects/*.js`, the triggers of the migrations |
| `EffectLedger` | nothing of its own: what the authority promises about one effect | |
| `MCEffectAuthority` | instances for TLC | |
| `EffectSafetyProofs`, `EffectTruthProofs` | theorems about `EffectAuthority` | |
| `DatabaseRestore` | leases, lock file, opener, restore | `core/database-restore-lock.js`, `core/db-backup.js`, `db/database.js` |
| `MCDatabaseRestore` | instances for TLC | |
| `DatabaseRestoreProofs` | theorems about `DatabaseRestore` | |
| `ProjectChange` | approval, execution, recovery, cancellation and closing of one change | `execution/*.js`, `lifecycle/m2-lifecycle-application-service.js`, the triggers of migrations 078, 079 and 122 |
| `ChangeContract` | nothing of its own: what an execution promises | |
| `MCProjectChange` | instances for TLC | |
| `ProjectChangeProofs`, `ProjectContractProofs` | theorems about `ProjectChange` | |
| `RemoteOperations` | sessions, admission, journal and listings of one device | `remote/m7-session-authority.js`, `remote/m7-disconnected-request-pipeline.js`, `remote/m7-operation-*.js` |
| `RemoteContract` | nothing of its own: what the journal promises about an operation | |
| `MCRemoteOperations` | instances for TLC | |
| `RemoteOperationsProofs` | theorems about `RemoteOperations` | |
| `ToolCircuit` | the breaker and the executor's loop around it | `executor/circuit-breaker.js`, `executor/tool-executor.js` |
| `ToolCircuitProofs` | what finding 3 means for every value of the constants | |
| `GpuEvaluationLock` | the lock directory | `upgrade/gpu-evaluation-lock.js` |
| `GpuEvaluationLockProofs` | that finding 4 has one cause | |

`PROJECT.json` maps every definition to its lines.

### EffectAuthority

The ledger's tables are the variables `requested`, `pending`, `grant`, `issued`,
`claim`, `preterm`, `invalid`, `result` and `receipt`, functions of the effect
or sets of effects, because each table has at most one row per effect.  `file` is the
project, `revision[e]` the workspace revision that `e` was prepared for, here
simply the files.

A member of `Procs` is an *incarnation*: it boots once, and a restart after a
crash is the boot of another.  That is what pid and start ticks identify
(`execution-owner.js`).  `Opaque` holds those whose death cannot be proved,
because their identity is `unknown:` or `/proc` does not answer.

JavaScript runs a turn to completion, so a process has one `turn`: the handler
(`op`), the statement it is about to run (`at`), and its locals.  One statement
that reads or writes the database, the files or the clock is one step, since
another process may come between two of them; a read and the pure computation
that follows are one step.  Where the broker awaits the observation of the
workspace, the turn ends and `exec[p][e]` (`activeEffects`) says where the
execution is; other handlers of the process may then run.

* `Boot`, `BootNextPhase`, `BootExpireGrant`, `BootCleanPending`,
  `BootRecoverClaim`, `BootObserveRollback`: the start of
  `createEffectFileRuntime` in its four phases (`expireGrants`, `cleanPending`,
  `recoverClaims`, `receipts`).  Each phase selects its rows once and then takes
  them one at a time, so a row may be stale when its turn comes.
* `RegisterEffectRequest`, `RequestTerminal`, `StorePending`:
  `requestFilesystemEffect`.
* `ApproveFilesystemEffect`, `Recover...`, `ApproveExpire`,
  `IssueApprovalGrant`, `EnterExecute`, `ConsumeApprovalGrant`: an approval up
  to the consumed grant.
* `Observe`, `ObserveAbort`, `WorkspaceStale`, `StartProvider`, `ReadBefore`,
  `WriteFile`, `VerifyWrite`, `ReadFile`, `PreEffectFailure`, `CommitResult`,
  `ResultUncommitted`, `Cleanup`: the execution.  `Outcomes` is the race of the
  provider's answer with the cancellation and the timer.
* `CancelFilesystemWrite`, `CancelRevoke`; `InvalidateEffect`, `Crash`, `Tick`,
  `ForeignEdit`.

What is abstracted:

* SQLite transactions are atomic steps.  The clock read before
  `BEGIN IMMEDIATE` is a step of its own (`EnterExecute` stores it in `clk`).
* The wall clock is monotone.  A clock that is set back can make a result
  invalid for its grant; the model has that outcome (`ResultUncommitted`) but not
  its cause.
* A process has one effect runtime, the one that
  `effects/effect-file-runtime.js` exports.
* From the start of the provider to the result it awaits only settled
  promises, because its file operations are synchronous; so other handlers of
  the process cannot come between, while other processes and foreign edits can.
* Permission and identity checks, digests, paths and evidence texts are left
  out: the effect and its bytes are fixed by the constants, and what a result
  says about them is its status, its debt, two contents and whether an evidence
  reference proves that the target was missing.
* Not modelled: the listing effect, the tool broker's links (only its
  invalidation), the quarantine of legacy claims.  The consumption of several
  grants in one transaction and `revokeRunGrants` belong to project changes and
  are modelled there.

### EffectLedger

One effect is `open`, `claimed` or `closed`; its provider starts at most once
and under the claim; the project changes at most once, and only between; the
verdict that closes it is truthful.  `ImplementsLedger` maps `phase` to claim
and result, `starts` and `changed` to the history variables `runs` and `wrote`,
and `verdict` to what a reader computes from result and receipt
(`buildEffectSettlement`).  A crash, a boot, a conflict and every lost race
have to be stuttering steps of it.

### DatabaseRestore

`main` and `wal` are sets of transactions (the backup is a token of its own), so
that SQLite's replay is a union.  `committed` and `expected` are history:
everything ever committed, and what commits and restores promise a reader.  An
opener takes a shared lease, clears a stale lock, opens, commits, closes; the
last connection folds the log into the main file.  A restore takes the
exclusive lease, creates (`CreateLock`) and fills (`FillLock`) the lock file,
looks for open files (`Census`), stages the backup, copies main file and log
into a safety snapshot, moves the log aside, renames the backup into place and
releases.  Opener, restore and release share the quarantine (`Clear`, `Rename`,
`Compare`), where `then` says to whom it returns.  A lock file is the token of
the run that wrote it, which is its random token and its owner's pid and start
ticks; `torn` lock files were created and not written, and nobody may clear
them.  `Fail` is an error of any call on the file system, with the error path
of that statement; `Crash` frees the lease, as the kernel does, and leaves the
files.

Abstracted: the `-shm` file (it holds no data); automatic checkpoints (they move
content from `wal` to `main`, whose union the properties read); the integrity
check of the staged backup, which is a failure of `StageBackup`.

### ToolCircuit

One breaker, and the calls of its session as a set.  Failure times are a bag of
clock values, capped at the threshold.  `BeginCall` is the executor's loop up to
the await of the tool, `EndCall` what it records afterwards.

### GpuEvaluationLock

Every file system call is a step: `mkdir`, the reading of `owner.json` with the
probe of the pid, the removal, the writing of `owner.json`, the comparison of
the token, the final removal.

### ProjectChange

One plan.  `lc` holds the rows of the lifecycle repository, `ex` those of the
execution repository (latest claim, approval set, process record, result),
`grants` the state that the plan's grants share, because they are issued, consumed
and revoked together, `fx` the effect results.  `ws` is the workspace: the
image each file holds (`before`, `after` or `foreign`), HEAD, the index entries
of the plan's files, and whether something else is dirty or another branch is
checked out.  `child` is the process group of the test.  `srv[p]` is a server
process, `run[p]` the execution it drives with its local variables; `pc` names
the statement of `executeProjectChange`, `finishStopped`, `recoverOnly` or
`finalizeResult` that comes next.  `env` is history.

* `Approve`, `IssueGrants`, `RecordGrantSet`; `Cancel`, `RevokeRunGrants`,
  `CloseCancelled`; `Census`: the application service.  A cancellation runs in
  the same thread as the execution, so it may begin only where that awaits
  (`AwaitPoint`), and the execution waits while it runs.
* `AcquireClaim`, `Authorize`, `RecordApprovalSet`, `Preflight`: the claim, for
  which an expired lease is not enough, and the one-time authority.
* `WriteFile`, `RecordWrite`, `LaunchSupervisor` to `RecordTest`, `GitCheck`,
  `UpdateRef` to `RecordGit`, `ObserveAfter`, `Complete`: the forward effects.
* `FinishStopped`, `UndoFile`, `RecordUndo`, `RecordStopped`: the rollback.
* `Reap`, `Classify`, `RecordRecoveredGit`, `CompleteRecovered`: recovery, which
  performs no forward effect.
* `FinalObserve`, `Settle`, `RecordSuccess`: the lifecycle terminal.
* `Crash`, `Start`, `LeaseExpires`, `Expire`, `ChildExits`, `ForeignEdit`,
  `ForeignGit`: the surroundings.

Abstracted: a process is started once, and a restart is the start of another,
as for the effect authority; `MaxUp` bounds those that are up at once.  The
workspace revision is a digest over the files the policy covers (`Covered`),
so an edit of another file goes unseen by it.  The sandbox and its limits are what
`TestEnds` allows, git's plumbing what its three calls can leave behind;
git calls are synchronous in the code, and therefore no await points.  Any
observation of the workspace may fail, except the last one of `finalizeResult`,
which throws and is retried.  A journal event and the effect result beside it
are one step, since recovery looks at the result only.  Not modelled:
`renewClaim` (without caller), the private HTTP profile, drafting and
governance of plans.

### ChangeContract

A change is closed, goes forward, perhaps backward, and is settled once; each
effect runs at most once and in order; the verdict is `done`, `undone` or
`doubt`, and the first two are true but for foreign edits.  `Stage` reads it
from the claim, the grants and the position of the driver, so that a crash
followed by a recovery is `TurnBack`.

### RemoteOperations

One device and one server process.  `pairing`, `session` (the latest generation
of each), `challenge`, `journal` (intent and outcome event of each operation),
`abandonment` and `last` (the sequences of both tables) are in SQLite; `active`
and `call` are the pipeline's memory; `listing` is the cursor the device holds.
`effects`, `spent` and `answers` are history.

* `RequestOpenChallenge`, `RequestRefreshChallenge`, `OpenSession`,
  `RefreshSession`, `RevokeSession`, `RevokePairing`: sessions.
* `Dispatch`, `TurnAway`: admission, where the counter is consumed before a busy
  session is noticed.
* `Claim`, `Replay`, `ClaimFails`; `Perform`, `Return`; `Abandon`,
  `AbandonRejected`; `Settle`, `SettleFails`: the journal around the handlers,
  one immediate transaction each.
* `ListFirst`, `ListNext`: pages of a listing.
* `Crash`: the memory is lost; the server is up again at once.

Abstracted: requests arrive with any counter, generation, content and, for an
abandonment, any record the target has or had, which over-approximates a
network that loses, delays, repeats and reorders; signatures decide who the
device is and are not modelled.  An expired session or challenge is one that no
request names any more, because the update that would mark it is rolled back
with the refusal.  A handler is what the mediator lets it be: it performs its
change at most once, confirms only what it performed, and may throw.  Reads are
admitted like mutations, which is not repeated for listings.  Not modelled:
pairing claims, the rate limiter, the listener, the audit trail.

### RemoteContract

An operation's record: none, unknown, then settled truthfully or abandoned; its
effect at most once, and only after it is on record.  The effect of an
abandonment is the change of another operation's record.

## 4. What the runs check

Deadlock checking is off where the system may stop: in the effect and project
runs every incarnation may be dead or done, in the GPU lock every process may be
dead, and remote requests end when counters, generations and challenges are used
up.  The other runs check it.

| run | instance | distinct states | shows |
|---|---|---|---|
| `effect_write` | three incarnations that may all crash, one write of one file, foreign edits to `old` | 220 000 | the safety of one effect |
| `effect_pair` | two incarnations that may both crash, a read and a create of the same file | 393 000 | effects of one target; reads carry no debt |
| `effect_live` | one crashing incarnation and a stable one whose death cannot be proved, one write, foreign edits, one tick, fairness | 94 000 | executions end, orphans are recovered, a claim in doubt stays open, grants expire |
| `effect_retry` | a write | violated | finding 1 |
| `restore` | three processes, two transactions, two restore runs | 101 000 | all safety of the restore |
| `restore_crash` | two processes, one transaction, one restore run | violated | finding 2 |
| `tool_circuit` | two calls, four ticks | violated | finding 3 |
| `gpu_lock` | three processes | violated | finding 4 |
| `project_change` | two servers, both up at once or one after the other, two files of which one is covered by the revision, a test, with and without a commit, one foreign edit | 714 000 | all safety of one change |
| `project_cancel` | two servers, one after the other, one file, no foreign edit | violated | finding 5 |
| `project_census` | the same with one foreign edit, under fairness | violated | finding 6 |
| `remote_operations` | two sessions, two challenges, two operations, two calls, pages of one record under one filter, counters and generations up to 2 | 290 000 | all safety of one device's operations |

The properties:

* `AuthorityExclusive`: approval, cancellation, expiry and invalidation exclude
  one another, whichever process commits first.
* `LiveOwnerKeepsAuthority`, `ClosedByOwnerOrHeir`: a live execution owns its
  claim; nobody else closes the effect but recovery after a *proven* death.
* `NoSilentEffect`, `SuccessIsReal`: a changed project is never reported
  unchanged, and success never without a change.
* `PendingRecoverable`: an open claim can be found.
* `DischargeNeedsEvidence`: a debt is not discharged by taking an unobserved
  before image for a missing file.
* `LedgerAppendOnly`, `ImplementsLedger`: rows are written once, and together
  they tell the abstract story.
* `ExecutionEnds`, `OrphanRecovered`: liveness.
* `RestoreExclusive`, `LiveLockKept`, `NoStaleReplay`, `NothingLost`: a restore
  works alone, its lock is never cleared under it, the old log is not replayed
  into the new database, and committed transactions stay in the database or in
  a complete snapshot.
* `SingleDriver`, `TestFenced`: one process drives a change, and nobody restores
  files or records a result while the test may still write.
* `FailureRestores`, `SuccessIsReal` (of `ProjectChange`), `ForeignKept`: a
  clean failure leaves nothing of the change, success is the whole change, and
  content of other programs is never overwritten.
* `TerminalIsTrue`: what the user is shown at the end is true, whichever server
  wrote it.
* `AtMostOnce`, `AnswersAgree`: a remote operation has its effect at most once,
  and all answers to one request agree with the journal.
* `AbandonInformed`, `PagesAreSnapshot`: an abandonment covers no outcome that its
  author has not seen; the pages of a listing show one snapshot, without gap or
  repetition.
* `OneInFlight`, `ChallengeOnce`, `RevokedIsOver`, `SessionForward`: slots,
  challenges, revocation and counters.
* `ImplementsContract` (of both): the detailed model implements the contract.

Why the bounds are enough. An effect has at most one grant, claim and result,
and a second effect meets the first only in the files, so one effect shows the
races of processes and two effects of one target the races of effects. Three
incarnations are a dead owner, a recovering process and a competitor, and any of
them may die. The clock matters to the expiry of grants alone, so the tick is in
`effect_live`, where `TTL = 1` lets a grant expire at every point between its
issue and its consumption; time stands still in the other two. `Edits` is one
foreign content; in `effect_pair` the two effects are each other's foreign edit.
A missing file is an initial state, and where a foreign edit may bring `old` a
file that already holds it another, so that both meanings of a null digest
occur. In the restore run three processes are a restore, a crashed restore's
successor and an opener; two restore runs are needed for a stale lock beside a
live one, and two transactions for one that is checkpointed and one that is not.
In `project_change` two servers are one that crashes or is overtaken, and one
that recovers, cancels or runs beside it; a third one that recovers from a crash
in the recovery is left to the proofs, which hold for any number; two files are
the least with a partly applied and a partly restored change, one of them
outside the revision, so that its edits go unseen; one foreign edit meets every
step, and two at different steps add nothing, as what was touched is excused for
ever. In `remote_operations` two operations are one and its abandonment, or two
that fill two pages; an identity that comes back for another request does so as
an abandonment or for another operation, and other contents are left to the
proofs; two calls through two sessions, or two generations of one, are a retry
beside its original; counters and generations up to 2 let each session accept,
refresh and accept again. For all other values of the constants see section 5.

Each property of a passing run has a mutant in `PROJECT.json`: a variant
definition, kept next to the one it stands for and marked as such, under which
the property fails.

### Fairness

* `WF(Step(p))`: a turn of JavaScript runs to its end.
* `WF(Boot(s))` for a stable incarnation: somebody starts the program again.
* `SF(Continue(p, e))`: between two calls the event loop serves settled
  promises, and the broker's 120 s timer settles each race.  Weak fairness
  would not do: another handler's turn disables the continuation again and
  again.

Nothing is assumed of users, of the clock, of foreign edits or of crashing
incarnations.

`project_census` assumes `FairSpec` of `ProjectChange`, which gives the code more
than it needs, so that the violation cannot be blamed on a step that is never
taken: the execution's steps, the service's handlers, the end of a lease and of a test
that lost its supervisor are weakly fair, a census that is retried each second
and a successful reaping strongly fair.  Starts, crashes, approvals and foreign
edits are not assumed.

### Findings

1. *Exact retry* (`effect_retry`).  `effect-broker.js:305` says that an
   idempotent retry reproduces the registered bytes.  The request contains the
   workspace revision, which the effect's own write has changed; the retry is a
   conflict.
2. *Crash in the exchange* (`restore_crash`).  `docs/STORAGE-ARCHITECTURE.md:47`
   calls the exchange of the database atomic.  A crash after the log was moved
   aside and before the new main file is in place leaves the old main file
   without its log, and the next start opens it.  `NothingLost` still holds, and
   **ExchangeIsAtomicUnlessTorn** says that there is no other cause.
3. *Breaker that stays open* (`tool_circuit`).  The executor tests the state and
   never calls `canProceed`, the only way out of `OPEN`;
   `docs/OPERABILITY.md:271` promises `HALF_OPEN` after 30 s.  **RefusedForEver**
   proves it of every threshold and every time.
4. *Two GPU holders* (`gpu_lock`).  Clearing the directory of a dead holder by its
   path removes the lock that a faster contender has just taken.  By
   **OneHolderUnlessCleared** nothing else makes two holders.
5. *Cancelled, but applied* (`project_cancel`).  When a server dies after a
   cancellation was recorded and before the running execution returned, the next
   census finds the cancel intent and no result, and closes the plan as
   `CANCELLED` without recovering the execution
   (`m2-lifecycle-application-service.js:1323`).  The new content stays in the files;
   `docs/wp/WP-M2-LIFECYCLE-V1.md:71` says that Cancel waits for the true terminal
   of the execution.  **CancelledIsCleanUnlessConsumed**: only a closing after the
   grants were consumed can do this.
6. *Census without end* (`project_census`).  The terminal of a failed result bears
   the revision that is observed when it is written, and SQL accepts only that of
   the plan.  After a foreign edit the startup census fails for ever, and with it
   every approval of every plan; `docs/wp/WP-M2-LIFECYCLE-V1.md:88` promises a
   truthful result after a restart at this place.  Without the foreign edit the property
   holds.

Two disagreements met while modelling the remote pipeline have no run, because
they are statements about one line each.  The limit of one request at work is kept per
session *revision*, so that a session that was refreshed may have a second one
beside it, while `docs/mobile/contracts/remote-session-contract-v1.js` states
`inFlightPerSessionMaximum: 1` and `tests/m7-disconnected-request-pipeline.test.js:618`
that one session cannot run two provider handlers at once; `OneInFlight` states
what the code does.  And `m7-disconnected-request-pipeline.js:153` maps only the
journal's protocol errors, so that an unknown outcome is reported to the device
as a failure; the model does not tell error codes apart.

## 5. What is proved

With TLAPS, for every value of the constants that satisfies the named
assumptions: `SetsAssumption` (the null values are no members of their sets,
`Stable`, `Opaque`, `Edits` are subsets), `EffectAssumption` (the types of
`Kind`, `Target`, `Payload`), `TimeAssumption` (`TTL` positive),
`RestoreAssumption` (a backup is not a transaction), and, for both later
models, their `ConstantsAssumption`: a change has files, the revision covers some of
them, bounds are numbers and `NoProc` is no process; the device's operations are
finitely many and a page has a positive size.  `NoneAssumption` says that `None`
is no request.

* `EffectSafetyProofs`: **TypeCorrect**, **ProcessCorrect**. `TypeOK` is not
  inductive: that `turn[p].e` is an effect follows from the statement the
  handler is at. `ProcessInv` says which statements a dead, booting or running
  process may be at, and `TypeOK /\ ProcessInv` is inductive. The lemma
  `LedgerStep` reduces the forty actions to seven kinds of ledger step
  (terminalize, revoke, issue, consume, record, invalidate, nothing). From it
  **AuthorityIsExclusive** and **LedgerIsAppendOnly**. **LiveOwnerKeeps** needs
  `HeirInv` (a handler about to record a recovery has seen the owner dead, and
  death is for ever) and the classification of moves of a process by the lemmas
  `Moved...`; **ClosedByOwner** follows from both.
* `EffectTruthProofs`: what the ledger says of the project is what was done to
  it. A result is decided some statements before it is recorded, and a payload
  released some statements after it was seen closed, so that none of the four
  remaining invariants is inductive. `StageInv` says what each statement of a
  handler may rely on (an execution that waits has done nothing; before the
  write the provider has started once and changed nothing, after it the file is
  changed; what is to be committed is `Honest`; a payload is deleted of a closed
  effect only), and `RowInv` what each row of the ledger may say. Their
  induction uses `TruthStep` (every step is one of six that say or do something
  about one effect) and `LiveOwnerKeepsAuthority`: nobody else's provider is
  about an effect that a process executes. They give **ChangeIsNeverSilent**,
  **SuccessIsMade**, **ClaimsAreRecoverable** and **DischargeHasEvidence**, and
  the same six steps are the steps of `EffectLedger`, which is
  **AuthorityImplementsLedger**. From the refinement, and not from the forty
  actions, follow **ProviderStartsOnce** and **ClosedIsOver**: both are shown of
  the ledger's few steps (`LedgerAllows`) and read back through the mapping.
* `DatabaseRestoreProofs`: `LeaseInv` (a lease is held exactly while a process
  works, of the kind its place asks for, and an exclusive one is the only one)
  gives **RestoreTypeCorrect** and **RestoreWorksAlone**. Because a restore is
  alone, nobody touches its lock file (`LockInv`, **LockIsKept**), nor the files
  between its copies and its renames (`DataInv`, **DataIsSecured**), which gives
  **CommitsSurvive** and **RestoreIsNotUndone**. `ExchangeInv` (outside the two
  renames the files show what they should, inside them the restore holds the
  rest) is inductive but for the steps called `Torn`, and gives
  **ExchangeIsAtomicUnlessTorn**.
* `ProjectChangeProofs`: types (**ProjectTypeCorrect**); `DriverInv`, that
  whoever drives holds the latest claim, whose owner is not dead while it
  drives, gives **OneDriver**. Then nobody but the driver changes what it knows
  of the test, and `ChildInv` (which states of the process group and of its
  record each place of the driver admits, and what holds if there is no driver)
  gives **TestIsFenced**. **ForeignIsKept** follows from the guards of the two
  steps that write files, for every process. What a result says is true: only
  the driver touches the project (`StepKinds`), and its place tells what it has
  done: `PlaceEffects` and `EffectRows` for the test and the commit,
  `PlaceFiles` and `FileRows` for the files. These make the result true where it
  is recorded; afterwards only foreign programs change anything, which is
  excused. This gives **FailureIsUndone** and **SuccessIsWhole**.
* `ProjectContractProofs`: **ChangeImplementsContract**. `WorkPlace` says which
  files each place of the driver has written, which makes its steps the
  contract's `WriteFile`, `RunTest`, `CommitGit`, `Undo` and `Settle` or none
  (`DriverImplements`); the death of a driver on its way forward is `TurnBack`,
  foreign edits are `Meddle`, and every other step is invisible
  (`ContractStep`). From the contract follows **EffectsInOrder**, and from the
  invariants under it **AuthorityComesFirst** and **ResultIsLast**.
  **TerminalTells** needs `TerminalInv`, because a terminal is written some
  statements after its cause was read, perhaps by another server: `PlaceCause`
  says what each place of a closing process knows of the result, the
  cancellation and the effects, and `TerminalRows` what a written terminal
  means. `CloseInv` gives **CancelledIsCleanUnlessConsumed**.
* `RemoteOperationsProofs`: all ten properties of the run. Types, with `AtWork`
  (a call at work has a request), give **RemoteTypeCorrect**; `Fresh` (a
  challenge that nobody accepted is not consumed) gives
  **ChallengesAreSpentOnce** and **RevocationIsFinal**, and
  **SessionsGoForward** is a step property; **SlotsAreExact** is inductive with
  the types. `WorkInv` ties journal, receipts, calls at work and effects
  together (`Entries`, `Receipts`, `Intents`, `Deeds`): an intent without an
  outcome belongs to one call at most, and an effect to an intent. It gives
  **EffectAtMostOnce**, with the lemma `TableStep` (what a step can do to the
  two tables) **AnswersStayTrue** and **AbandonmentIsInformed**, with `PageInv`
  **ListingIsSnapshot**, whose core is that a later event cannot change what an
  earlier snapshot selects, and with a step simulation
  **JournalImplementsContract**.
* `ToolCircuitProofs`: **RefusedForEver**, from the invariant that `HALF_OPEN`
  is never reached and the step property that nothing leaves `OPEN`.
* `GpuEvaluationLockProofs`: **OneHolderUnlessCleared**; `LockInv` says that a
  holder's directory is in place and its own.

Three theorems delimit a finding.  They do not assume that the code is different:
they are about the behaviours `Init /\ [][Next /\ ~Bad]_vars`, in which one named
kind of step does not occur, and say that the promise of the documentation
holds there.  The finding's run is a behaviour with that step, so together
they say exactly where the promise fails.

Only model-checked: the liveness properties, because fairness and `ENABLED` are
out of the prover's reach.

## 6. Checking

`tlc -config Restore.cfg MCDatabaseRestore` runs one model (`PROJECT.json` names
module and configuration of each run); `tlapm DatabaseRestoreProofs.tla` checks
a module of proofs.  With two workers each run ends within a minute or two; the largest proof
modules, `EffectSafetyProofs` and `RemoteOperationsProofs`, take about two
minutes each.
