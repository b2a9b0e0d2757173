# TLA+ models of DBGuard: assessment, rehearsal, approvals and the way to the target

DBGuard assesses a PostgreSQL server against CIS controls, rehearses a fix for a failing
control in a disposable server, rolls it back there, and hands a DBA a bundle that applies
the same fix to the real target. These modules model that chain: how evidence becomes a
verdict, which fix is offered, the rehearsal loops, the API around them, the combined test of
a batch, the human approvals everything rests on, and the runner a DBA starts against the
target. TLC checks small instances; TLAPS proves safety properties for every value of the
constants.

Paths below are relative to `src/`; `sandbox_poc/` is `services/sandbox_poc/`, `engine/` is
`backend/app/services/spec_engine/`.

## 1. Inventory

| Component | State it keeps | Operations | Talks to | Hard behaviour |
|---|---|---|---|---|
| Setting rehearsal loop (`sandbox_poc/workflow.py` `RemediationLoop`, `runtime.py`, `provenance.py`, `adaptive.py`, `backend/app/services/fix_unit_render.py`) | attempts, current template and fix unit, tried SQL, the disposable container | create, reproduce, apply, activate, reassess, rollback, verify, remove, revise | Docker, PostgreSQL in the container, assessor, template registry, LLM reviewer | any step may raise, in any state of the server; nested `try/finally`; retries |
| Object and catalog rehearsal loops (`workflow.py` `ObjectRemediationLoop`, `object_fixes.py`, `catalog_skeleton.py`; `catalog_fixes.py` `CatalogFixLoop`) | the same | the same, in one transaction or with several settings per activation | the same | evidence that hides what the fix depends on; restarts that cannot come back |
| Combined test (`sandbox_poc/batch.py`, `planning.py` `recommend_order`) | results so far, order, `applied`, `pending`, `steps`, `rollback`, the container | individual runs, order, apply each, roll back in reverse, export | the loops, the history | partial failure with several fixes in place; chained settings |
| Sandbox API (`sandbox_poc/router.py`, `upstream.py`, `history.py`, `review_bundle.py` `BundleStore`) | bounded stores of handles and bundles in memory, sqlite history | prepare, run by handle, run directly, batch, download, reassess; benchmark import and approval; status, events | loops, stores | concurrent requests, eviction, process restart |
| Target runner (`sandbox_poc/bundle_assets/runner.py`, written by `batch.py` and `review_bundle.py`) | none of its own: the target's files, running values, advisory lock | apply, rollback, verify, verify-rollback, status | the real PostgreSQL | two terminals, lost connections between autocommitted statements, reloads, restarts, drift |
| SpecEngine (`engine/`, `sandbox_poc/shared.py`, `assessment_service.py`) | none | evaluate a snapshot, catalog checks, review lists, gaps, regressions, target reassessment | specs, profiles | evidence that is missing, stale, redacted, hidden or a session's own |
| Fix planning and risk review (`sandbox_poc/planning.py`, `setting_values.py`) | none | scope, value rules, risk floor, LLM advice, order | profiles, LLM | values that pass one rule and not another |
| Handoff preparation and readiness (`handoff.py`, `readiness.py`, `service.py`, `templates.py`) | none | validation chains, pinning and resolving of registry content | registry, assessor | content that changes between preparation and run |
| Policy profile store (`backend/app/services/policy_profile_store.py`) | content-addressed files, append-only approval log | draft, approve, get, list | file system | crash between log and file, draft read outside the lock |
| Snapshot store (`snapshot_service.py`) | content-addressed files | put, get | file system | atomic replace |
| Template registry, knowledge lifecycle (`template_service.py`, `vector_service.py`, `services/rag`) | rows in PostgreSQL | draft, approve, retire, supersede, expire | database | concurrent ingestion and review |
| Legacy twin path (`sandbox_service.py`, `services/twin_runner`) | twin containers | create, verify, run, destroy, expire | Docker | ids, expiry, cleanup |
| Collector, evidence capture, fix-unit validation, reporting, LLM gateway, MCP tools, frontend, benchmark catalogue | I/O, formatting, views | — | — | client's stale answers |

How they interact: the collector's snapshot is assessed under a policy profile; the UI (or HERMES
through MCP) prepares a *handoff*, which pins snapshot, specs, policy, template and evidence; the API hands it
to a loop; the loop's result and bundle go to the history; a batch calls the loops one by
one and then tests all fixes together; its bundles reach the target only through a DBA
who runs the runner; fresh evidence of the target then confirms the recorded run or does not.
Nothing but the runner ever changes the target.

What makes each component correct:

* the engine: a verdict is true of the server, whatever the evidence lacks; a review list names
  everyone its evaluator answers for; a confirmed target is fixed and has lost nothing;
* planning: the fix that is offered makes the control pass on that very server and keeps it reachable;
* a loop: VERIFIED means *one* server was reproduced, fixed, accepted, exactly undone and
  removed; a rollback is exact from every state a failure leaves; no container outlives
  its test silently; only retryable failures are retried; the run ends; what nothing disturbs verifies;
* a batch: the same for all fixes together, in an order that respects prerequisites, with
  each rollback going back to the state *before that fix*, not to the source;
* the API: a handle is tested once, running items are not evicted, what was announced
  stays retrievable across eviction and restart, slots come free;
* the runner: one writer at a time, "verified" stays true, the target stays on the path
  that was tested, the lock is not held for ever, nobody is locked out of the target;
* the stores of approvals: only what its named person decided on is in force, and it survives the death of the process.

## 2. Modules and the code they stand for

`PROJECT.json` maps every definition to its lines; this is the overview.

| Module | Models | Extends / instantiates |
|---|---|---|
| `ServerSetting` | one PostgreSQL setting: two lines of `postgresql.conf`, one of `postgresql.auto.conf`, running value and its origin; reload, restart, ALTER SYSTEM, `derive_rollback`, `reconstruct` | — |
| `Rehearsal` | the abstract promise of a rehearsal: stages of one server, and a final verdict | — |
| `RemediationLoop` | `RemediationLoop.run` | `ServerSetting`, instance of `Rehearsal` |
| `BatchRun` | `run_batch`, `recommend_order`, the batch route | instance of `Rehearsal` |
| `HandoffService` | `HandoffStore`, `BundleStore`, history, the prepare/run/download routes | — |
| `TargetRunner` | `runner.py` on one target, with the bundles of one batch | — |
| `SettingChecks` | operators, decision order and override rule of a setting check; acceptance, gaps and regressions of `shared.py` | — |
| `CatalogChecks` | the evaluators and review lists of `catalog_checks.py` | — |
| `PolicyValues` | reading a profile, the value rules, `fix_scope` | `SettingChecks` |
| `Assessment` | collection, assessment, the recorded run and `history.compare` | `CatalogChecks`, `PolicyValues` |
| `ObjectFixes` | `object_fixes.py`, `catalog_skeleton.py`, and what ALTER ROLE, GRANT, REVOKE and ALTER FUNCTION do | — |
| `CatalogFixes` | `catalog_fixes.py`: the fixes of 3.2, 5.6 and 6.10 on three settings | `CatalogChecks`, three instances of `ServerSetting` |
| `FixLoops` | `ObjectRemediationLoop`, `CatalogFixLoop`, `review_bundle.py`'s proofs, and the runner on a target that may have drifted | `ObjectFixes`, `CatalogFixes`, instance of `Rehearsal` |
| `ApprovalLedger` | the abstract promise about approvals: decided, in force, relied on | — |
| `Approvals` | profile store, benchmark approval, template and document lifecycle, pins of a handoff | instance of `ApprovalLedger` |
| `FixRulesProofs` | lemmas about the rules of `ObjectFixes` and `CatalogFixes`, on any server | both, TLAPS |
| other `*Proofs` | theorems about the module of that name | that module, TLAPS |
| `MC*` | constants of the TLC instances | that module |

**RemediationLoop.** `pc` is the phase of `attempt()`; `exn` is the exception in flight.
An exception of the apply phase goes to `rollback` (the `finally` block) unless PostgreSQL
failed to start; one raised inside the rollback *replaces* it, as in Python. An interrupt is an exception too; the cleanup and a revision may be
interrupted themselves. `server` is
the setting in the container, so a failing script leaves it after any of its statements.
`rec` is the record of the test in progress, `attempts` what later steps read of the tests
before it. `Reassess` and `VerifyRollback` may also fail for reasons outside the setting
(`Gate`, `sound`): regressions, gaps, health.

**BatchRun.** The value of a setting or object attribute is the set of fixes that are in
it; `{}` is the snapshot's value. A setting or object fix writes `{f}`, a catalog fix adds
itself to what it finds (the preload list). `box` has the files and the running values.
`applied`, `pending`, `steps`, `rolled` and `status` are the variables of the same names in
`run_batch`; `undo` is the position of the rollback loop. An individual run is one step,
its outcome; `RemediationLoop` says what that outcome rests on. `Mark` is separate
from `Sql`, because a catalog fix is derived again between the two and may fail there,
marked as applied and with no rollback.

**HandoffService.** One action per locked section of a store, because requests interleave
between them and not inside them. `Restart` loses both stores and every request.
An item's history is its `status` over time; `UNISSUED` and `EXPIRED` are ids that are not
in the store yet, or no longer.

**TargetRunner.** Cells and values as in `BatchRun`; `{0}` is a value that no fix put
there. Each terminal runs one command after another: lock, read the fingerprint, then
statement by statement (autocommit), then poll; object fixes run in one transaction.
`Break` is every refusal, error, lost connection and kill: it ends the process and frees
the lock. `Restart` ends every connection and frees the lock; a reload is only *signalled* by the statement
and may take effect later. A command that had come to its poll reconnects after a restart and goes on, without
the lock it held.

**Assessment.** `truth` is a server, `snaps` what the collector brought back of it: at most one thing
is wrong with the setting part of a snapshot (an entry missing, stale, redacted, malformed; a value the
session set), at most two sections of the catalog part are missing, unreadable or hide other sessions,
lists may lack a role, and provenance, gap records and cluster identity may be wrong. The `topic` says
which facts of the server vary: settings, or those of one catalog check. `RecordRun` stands for a
rehearsal that was prepared from a snapshot (`validate_handoff`) and recorded with its policy; then anybody
changes the server, fresh evidence is uploaded, and `Reassess` answers as `history.compare` does.
What is *true* (`Good`, `Wrong`, `Meets`, `Logs`, `Reaches`) is defined on the server itself, without the
code's way of computing it, and the properties compare the two.

**ObjectFixes, CatalogFixes, FixLoops.** `Proposals` and `OffersFix` are what the evidence offers;
`StandIn` and `StandInServer` the reproduction in the disposable server; `Applied`, `Undone`,
`AppliedUpTo`, `RolledBack` and `Activate` what PostgreSQL makes of the statements, with the text of the list
settings kept apart from its items. One state machine serves both loops, because both `attempt()`
bodies have the same steps and `finally` blocks; where they differ (`SandboxStartError`, one transaction)
the action says so. Every Docker or psql call may fail with its effect done, half done or not done; `Kill`
is the end of the process, which runs no `finally`. `Reproducible` holds what ends a rehearsal without any
fault: a setting of the spec set that does not come back (`others_in_force`, since the plan holds them all, not
only those of the fix), a refusal of the switch to TLS (`TLSRefused`: a line for `ssl` is reconstructed, or the
source allows TLS 1.3 only) and a stand-in without a TLS 1.2 handshake (`NoHandshake`). A verified fix is exported as `review_bundle.py`
would (`ProofsHold`), and the runner applies and undoes it on a target in which one other thing may have
changed since the snapshot, under an account of the DBA's choice.

**Approvals.** A request handler is a thread, cut exactly where another thread or a crash can come
between: reading the draft, the log entry, the profile's file, the answer; the files of an import; check
and write of a benchmark approval; reading the latest template version and inserting the next. A
database transaction is one step. `decided` is the set of decisions people asked for, `answered` what was confirmed to
them, `used` what a run relied on; no action reads them. `Crash` is the death of the process: every thread ends, and a log line, receipt or
approval that was being written may be cut off. `HostCrash` is the death of the host, at any time: it may also
forget objects of the profile store and the whole log, because both are flushed and their directory is not, and any
file of a release, which is not flushed at all; `lost` keeps what it took from the profile store. `DropFile` and `EditRelease` are people who put or edit files
in the stores' directories, which the code guards against by its log and hashes. `KeepsLedger`
refines the four stores together to `ApprovalLedger`, with `InForce` (what every reader would take for
approved) as the refinement mapping.

`Rehearsal` is the abstract specification of a rehearsal: `RemediationLoop`, `FixLoops` and `BatchRun` implement
it (`KeepsPromise`). In `BatchRun` the batch is one fix for `Rehearsal`'s purpose; a batch
that ends before its combined test never gets a verdict. `BatchRun!ExportIsTested` states
what `TargetRunner` assumes of its bundles (`Tested`, `Matches`): the states before and
after each fix in the tested order.

## 3. Runs

| Run | Instance | What it shows |
|---|---|---|
| `setting_rehearsal` | 3 values, 4 templates (one differs in white space, one sets another value, one is outside the accepted shape), 2 alternatives, 3 tests; every reproducible source; reload and restart setting | type invariant; `VerifiedIsProven`, `RollbackIsExact`, `NoLeftovers`, `NoSqlRepeated`, `OnlyRetryableRetried`, `Answers`, `KeepsPromise` |
| `batch_run` | batches of 2 or 3 of 7 fixes: restart setting, reload setting with a prerequisite, two chained catalog fixes, object fix, and two fixes that conflict; every request order and every allowed test order | `VerifiedIsProven`, `RollbackIsExact`, `ExportIsTested`, `NoLeftovers`, `Answers`, `KeepsPromise` |
| `handoff_service` | 2 requests, 3 handles, 2 slots, 1 bundle in memory | `RunsOnce`, `RunningStays`, `ReadyIsDownloadable`, `AnsweredIsRecorded`, `SlotsComeFree` |
| `target_chain` | 2 terminals, 2 catalog fixes of one chained restart setting, the second with a setting more | `PrecedingInEffect`, `VerifiedStaysTrue`, `LockComesFree` |
| `target_mixed` | 2 terminals, a setting, a restart setting and an object fix with the scopes the export gives | `VerifiedStaysTrue`, `OneWriter` |
| `assessment` | per topic (20 of them) every server of a small set, every snapshot of it, every profile document that differs from a good one in one field; two snapshots on the topics with a recorded run | `SettingVerdictsTrue`, `CatalogVerdictsTrue`, `ReviewListComplete`, `ConfirmedMeansFixed` |
| `fix_loops` | some 600 servers (accounts, grants passed on, function rights; library lists, audit classes, ciphers, sessions; files edited and not read; sources with TLS 1.3 only), 5 environments, 2 attempts, a fault at every call | `OfferedFixVerifies`, `TargetStaysUsable`, `ContainersAccountedFor`, `KeepsPromise` |
| `approvals` | 2 threads, 2 reviewers, 2 texts, 3 requests, 1 death of the process or the host; a fresh installation, or one with approved registry content | `ConfirmedProfileStays`, `KeepsLedger` |
| `contract_error_masked` | violation | a contract error of the apply phase is replaced by the rollback's exception and the run goes on |
| `result_names_untested_template` | violation | a revision that fails half way leaves a result naming a template no test ran |
| `object_guard_blind` | violation | an object fix (or a setting fix after a catalog fix) is applied although the fixes before it are not |
| `refusal_after_eviction` | violation | "running or was rejected" is said of a finished, evicted handle |

**Bounds.** Three tests is the code's own limit (`workflow.py` 103: 1, 2 or 3). Three values are the
fewest in which the default, the wanted value and another one differ; four templates give
every kind of candidate (same SQL, other SQL, refused). A store of two slots is full with one running and one
finished item, and three handles make an eviction; the interesting races need two requests
for one handle, and the proofs cover every number. A batch of three has a fix before and one
after the failing one; the code allows six (`MaxBatch`). Two terminals are enough for every
pairwise race on the lock. `assessment` and
`fix_loops` enumerate inputs rather than interleavings: each set has every value the code
distinguishes, and combinations where two of them meet in one function. Two attempts show a retry and the end of
the retries; the code allows three, and every safety property of `FixLoops` is proved for any number.
Three requests are one draft, its approval and a rival to it, or two
ingestions and an approval; the proofs cover every number. No run uses a state constraint; every bound is a constant.

**Fairness.** `RemediationLoop` and `BatchRun`: weak fairness of progress, because every Docker and
psql call, the readiness wait, the restart, the poll and the reviewer's HTTP call has a
timeout, so a step ends, with or without an exception. `HandoffService`: weak
fairness of each request's thread; `service.run` ends because the loop's `Answers` holds.
Nothing is assumed of clients: no fairness on preparing or requesting. `TargetRunner`: weak fairness
of "the command goes on *or breaks off*": connection, statement and poll have timeouts;
that it succeeds is not assumed, nor that a DBA ever starts another command, nor that
anyone restarts PostgreSQL. No strong fairness anywhere.

`CHECK_DEADLOCK` is on in every run of `RemediationLoop`, `BatchRun`, `HandoffService` and `TargetRunner`;
loop and batch stutter explicitly once they have answered. It is off in `assessment`, `fix_loops` and
`approvals`: there a run really ends, with the answer to the last question, the last use of the bundle, or the last
of the bounded requests.

## 4. What is proved

All theorems are for every value of the constants that satisfies the named assumptions
(`LoopAssumption`, `BoundsAssumption`, `DirectAssumption`, `AnswerAssumption`, `BatchAssumption`, `PeopleAssumption`,
`CatalogAssumption`, `AssessmentAssumption`, `AttemptsAssumption`, `SourcesAssumption`, `EnvsAssumption`), and TLC evaluates those in
the passing runs. `SourcesAssumption` says what PostgreSQL itself guarantees of a catalog and of its settings: the form of the rows, one
ACL entry per grantee, grantor and privilege, EXECUTE as the only privilege on a function, no grant option for PUBLIC.
`EnvsAssumption` gives the profile's connection limit and audit classes their types. Each proof has the same argument: an inductive invariant `IInv`, one lemma
or step per action, and the property as a consequence.

**RemediationLoopProofs.** `TypeCorrect`, `VerifiedRestsOnProof`, `DerivedRollbackRestores`,
`SandboxesAreRemoved`, `SqlIsTestedOnce`, `RetriesAreRetryable`, `LoopKeepsPromise` (the loop
implements `Rehearsal`). `VerifiedIsProven` only speaks of the end of the run, so it is not
inductive: `RecordIsTrue` says at each phase what the record has to mean, `ResultIsFinal` that a
verdict ends the run, `UsedIsTried` and `EarlierRetryable` what the finished attempts say.
`RollbackIsExact` needs `NearSource`: whatever was applied, the lines of `postgresql.conf`
are untouched and a restart-only setting that still runs the source's value runs it from the
source's file. Only then does restoring `auto.conf` bring everything else back.

`RollbackIsExact` has the premise `RunsOnItsFiles`. A source on which someone ran
`ALTER SYSTEM SET` of a restart-only setting to the value already running has a line that
PostgreSQL has not attributed yet: it can be reproduced, but its rollback is derived as RESET,
which drops that line. The gate then reports "Exact rollback verification failed", and the fix
is never VERIFIED; nothing wrong is certified, but such a fix cannot be rehearsed.

**HandoffServiceProofs.** `TypeCorrect`, `HandlesRunOnce`, `RunningItemsStay`,
`ResultsAreDurable` (both `ReadyIsDownloadable` and `AnsweredIsRecorded`), `AnsweredResultsRecorded`. `RunsOnce` compares requests,
which needs: a request that was let through claimed its handle for good (`Claimed`: a claimed
handle never becomes PREPARED again, also after a restart), and a saved or answered run is over, in
the history, and of the same handle (`SavedIsSettled`, `AnsweredIsSettled`).

**TargetRunnerProofs.** `TypeCorrect`, `VerifiedStays`, `OneWriterAtATime`,
`TestedOrderKept`. The invariant says that an open connection past the guard holds the lock
(`LockHeld`), and, in the middle of a command, which of the statements are in the
files (`InRun`): the past ones new, the rest as the guard found them. Then a verified fix cannot lose a
cell to another fix's statements. `TestedOrderKept` (`PrecedingInEffect`) assumes `Linked`:
every guard sees the cells of the earlier fixes and the first cell of the later ones. Its
invariant adds that the first change of a fix is the first to come and the last to go
(`FirstIn`), and that while SQL of fix q runs exactly the fixes before it are in effect (`Around`).

`Linked` batches are those whose fingerprints cover each other: setting-only
batches (every bundle fingerprints all setting specs), and the chained catalog pair in the order
in which the second fix's own settings come after the shared list. Not linked: batches with object fixes (an object
bundle fingerprints its own object), setting fixes beside catalog-only settings, and the chained pair
in the other order, where the first fix's `pgaudit.log` is outside the second's names.
`object_guard_blind` shows what then happens.

**BatchRunProofs.** `TypeCorrect`, `VerifiedProven`, `RollbackExact`, `ExportTested`, `NothingLeft`,
`PromiseKept` (a batch implements `Rehearsal`), for any fixes, prerequisites, risks and
shared cells. The heart of the invariant is `BoxIsNear`: outside the cells of the fix that is being
applied or undone, the server holds exactly the fixes before it, whatever a script or an activation
left. Scripts are proved once (`AfterRun`, `AfterBreak`, `AfterCommit`): a script over the cells of a
fix, whose values are those of a state, brings that state about from anywhere near it. That the
values are the right ones is `NewValue` and `RestoredValue`: fixes share a cell only where each
appends (`OrderIsSound`, from `recommend_order`'s conflict check), and a kept rollback was derived from
the state before its own fix (`PendingIsTested`). `FailedForAReason` is for the refinement
only. That an order of distinct selected fixes as long as the request has all of them is the
pigeonhole principle (`WholeOrder`).

**ApprovalsProofs.** `TypeCorrect`, `ConfirmedProfilesStay`, `LedgerKept` (the stores implement
`ApprovalLedger`), for any number of threads, reviewers, texts, requests and crashes. `ConfirmedProfilesStay`
excepts what the code does not secure: a line cut off from the log (`torn`), after which `get` refuses every
approved profile, and the objects or log a dying host forgot (`lost`); its invariant is `ConfirmedRecorded`, a
confirmed approval is in the log and the store or was lost. What a store holds is
not enough: between its steps a handler carries the decision, so `HandlerOk` says at each step what the handler
has in hand: somebody decided on it, from the log entry on it is in the log, before the answer it is in the
store. Handlers of other threads keep that because no step but a crash, which ends them all, shrinks what it speaks of (`Grows`: decisions, log,
objects, the text of a template version). `HandlerMoves` and `HandlersStay` carry this once for all actions. For the ledger,
`LogDecided` covers a file that somebody drops into the store *before* or *after* its entry was
logged, `ReleaseDecided` every edit of the release's specs, `OneActive` and `ApprovedRows` that approving one version
archives the other. The proof of the refinement is by store: `InForce` is the union of three parts, each step
touches one, and `PublishProfile`, `PublishInstead` and `WithdrawSome` name what the ledger makes of it.

**AssessmentProofs.** `TypeCorrect`, `SettingVerdicts`, `CatalogVerdicts`, `ReviewComplete`, `ConfirmedFixed`, for
every set of profile documents and topics and any number of snapshots. The proof
goes from the server to the verdict: `TakenSnapshot` says that what a snapshot shows is a view of the server it was taken of,
one lemma per check that what the evaluator concludes from such a view is true of that server
(`SettingVerdict`, `CatalogVerdict`, `ReviewList`, `WritersListed`), with the lemmas below where the truth is about reachability or
the last word. Confirmation needs more than the verdicts: the invariant keeps that a recorded run names a snapshot on which the control
fails and no setting is unknown (`RunOk`), and that a verdict is about a recorded run (`VerdictOk`). Then
`FixedJudged` and `MetIsKept` show that a control that passed stays a judged one, so a
regression cannot hide behind missing evidence.

The module begins with what the two loops of the engine compute, for every input.
`MembersAreClosed` and `MembersAreNecessary`: the breadth-first search over memberships finds everybody who is a
member through any chain, cycles included, and nobody else. The code stops when a layer adds nothing; the model stops after as many layers
as there are memberships, and `LastLayerIsClosed` shows by counting that nothing can be added then. `LastWordDecides`: of the words of
`pgaudit.log` the last one about a class decides whether it is logged. Both rest on `Recursion`, which gives
a recursive function its defining equation.

`ReviewComplete` compares the list of 4.6 with `Writers`, everyone who can write the table by the memberships of
the server. The code looks for the members of grantees and of `pg_write_all_data` and for superusers; it does not
look for the members of the table's owner or of a superuser. `Unpromised` names exactly those and the owner, and the theorem says
that they are the only writers a list may lack. `ReachedByOne` (what a set of roles reaches, one of them reaches)
takes a writer back to the entitlement that makes it one.

**FixLoopsProofs.** `TypeCorrect`, `OfferedFixesVerify`, `TargetKeepsUsable`, `ContainersAccounted` and
`LoopsKeepPromise` (both loops implement `Rehearsal`), for every source, environment, offered fix and number
of attempts. Two inductive invariants:

* `IInv` carries containers and the refinement. `OneContainer` says that a test begins with no container:
  without it the cleanup of one attempt would say nothing about the others. `CleanMeansAccepted` is the point
  of the refinement: a rollback without an exception in flight follows only an accepted fix, so "no exception
  at the end" may be read as VERIFIED. It uses nothing of what the fixes do, so it holds for any object or
  catalog fix written for these loops.
* `FInv` says what the servers are. `RunTyped` and `Counted` are the run and its books; `BoxFollows` says
  which server stands in the container at each step (the reproduced one, the rehearsed one, or only a
  well-formed one after a fault) and that whatever came as far as `apply` was reproduced; `Unexcused` that
  without a fault and an excuse no exception is ever in flight; `TargetFollows` what the target is in terms of
  what the DBA found. Neither property is inductive: `OfferedFixVerifies` speaks of the end of a run, and
  `TargetStaysUsable` compares the target with a rehearsal that is long over, whose success must be
  remembered. `FInv` was model-checked on parts of the instance of `fix_loops` before it was proved.

`FixRulesProofs` has what these proofs need of the fixes, without the loop. An object fix *works* (`Works`:
PostgreSQL takes the statement, the check then passes, the object is another one, and the rollback gives back
the *whole* catalog) on any catalog whose object is the collected one, not just on the stand-in: `FixWorks`,
from one lemma per fix. The grants are the hard case: `TableWorks` rests on `Rehearsable`, which refuses a
table on which anyone but the owner granted something, and on there being one entry per grantee, grantor and
privilege. A catalog fix has one of four shapes (`ChangesShape`), its statements write exactly the lines of
its values (`LinesWritten`), and a restart or reload makes `Fixed` of a server that shows the collected
settings and, after the rollback, the server with its files read (`FixAndBack`). `StandInServerLike` shows
that the stand-in is such a server whenever the files of the source say what it runs (`InForce`), and then the
three evaluators agree (`ListVerdict`, `AuditVerdict`, `CipherVerdict`). So the rehearsal and the target use
the same lemma: what is tested on the stand-in carries over because both are servers with the collected
settings, whatever else they hold. This is also where drift on the target is answered: it either changes what
the runner compares, and is refused, or it leaves the premise of the lemma alone.

The proofs changed the model where it was too kind: sources now include files that were edited and not read,
and lists set with ALTER SYSTEM to what already runs. On such a source `activate()` polls for a value that
never comes (`ValuesReached`) and no fix is verified, which `OfferedFixVerifies` now says, together with the other things that stop a rehearsal without a fault (a
library the image lacks, another edited setting of the spec set, no TLS 1.2 handshake for 6.10); and a rollback on a
target with such a file gives back what was found *with its files read*.

**Only model-checked.** Liveness (`Answers`, `SlotsComeFree`, `LockComesFree`), which the prover does not do.

## 5. Findings

1. `contract_error_masked` — `workflow.py` 244-264 against HERMES_INTEGRATION.md 33 and
   README.md 108 of `sandbox_poc`: contract errors do not always end the run.
2. `result_names_untested_template` — `workflow.py` 174-177 and 292-300 against README.md 119.
3. `object_guard_blind` — `batch.py` 467 and 512 promise that each guard expects the preceding fixes; 468-469
   and 491-495 export fingerprints that do not see them.
4. `refusal_after_eviction` — `router.py` 139-146: `begin()` and `get()` are two locked sections.

Seen while modelling, without a run: INTEGRATION.md 96-97 says that server restarts expire
download links, while the history keeps every bundle, so links survive. `batch.py` 229: if the export
of an individually VERIFIED fix is refused, the exception leaves `run_batch` before the test is recorded;
the single-run route keeps such a result (`router.py` 59-61).

`rag_service.py` 757 approves a knowledge document by its id: a draft that is ingested again
between review and approval is approved with its new text. docs/IMPROVEMENTS.md 9 speaks of
"deliberate approval of the selected stored version"; an id does not say which text that was. A run still pins
the text it was prepared with (`Approvals!Resolves`). `router.py` 357: two reviewers of one imported release may both be told APPROVED; the
last record stays.

A dying host may forget a confirmed approval: `policy_profile_store.py` 182-187 flushes the file and then renames
it, without flushing the directory, and nothing flushes it later (`Approvals!HostCrash`). The list of 4.6 leaves out
members of the table's owner and members of superusers (`catalog_checks.py` 346-369). On a source with
`ssl_min_protocol_version = TLSv1.3` the fix of 6.10 is offered, and its rehearsal is always refused
(`catalog_fixes.py` 549-551).

The legacy twin path cannot work with a real Docker: `create_twin` returns the id Docker
prints, later calls address `dbguard-twin-<that id>`, and `verify_twin`, `replay_snapshot` and
`cleanup_expired_twins` have no caller.

## 6. Abstractions

* A setting's value is a model value; units, quoting and SQL text are abstracted to "the value the
  SQL sets" and "SQL without comments and white space", which is all the loop compares.
* Snapshots, findings and gates that do not depend on the fixed setting are nondeterministic outcomes.
* Timeouts are not clocks: a call with a timeout may fail at any time.
* TargetRunner: nobody but the runner changes the cells of the batch itself; others
  may change every other cell, reload and restart. One lock domain: the advisory
  lock is per database, while ALTER SYSTEM is for the cluster, so bundles applied through two databases
  of one cluster are outside the model. The order in which SQL and Python sort names
  (`runner.py` 34) does not appear. The refusals of the preload guard, the statement check and the role check are
  `Break` here and rules of their own in FixLoops. Evidence files and the functional queries that run after the
  lock is released are left out; the identity check is `Break`.
* A process killed in the middle of a rehearsal leaves its container; the code leaves removal to
  the operator (by label), and the loops' models end with the process.
* Assessment: a SHOW value is the set of its items; spelling, units and quoting are not modelled, except as
  the item that no parser reads (`?`), the numeric form only the operating system reads (`0x0`) and the
  forbidden fragment (`';--`). The operators `not_in`, which no spec uses, and `contains_escapes`, which one does, are
  not modelled. A snapshot always has a settings section with a row and a source per setting, as the collector writes it. Hours of the archive check are small integers. Specs are two representative
  sets, one per setting topic. The confirmation of a per-object fix (`_object_checks`) is not modelled, and a
  site value for a setting that has a reviewed literal is validated but never used, as in the code.
* CatalogChecks covers every registered check (6.11 always asks a person); of 4.4 and 4.10 the evidence lists are those of the review text.
  Exclusions of extension-owned objects and system schemas are facts of the evidence, not computed.
* ObjectFixes and CatalogFixes leave out: memberships, schemas, passwords and row security of stand-ins, column
  privileges, what the switch of the stand-in to TLS writes, and the TLS probes after the fix (`tls_fixed`), which may
  only fail as any call may. A library is named with or without a directory that matters; the forms
  `pgaudit.so` and `$libdir/pgaudit.so` are not told apart from those. That all scoped findings are the
  source's again (`catalog_fixes.py` 653) follows from the settings they read: those of the fix are compared, the
  others are `others_in_force`. `TargetStaysUsable` does not compare connection limits: one set on a collecting account
  is only noted (`object_fixes.py` 425-428).
  An interrupt is an exception in flight, raised by a call. On the target, drift happens once, between snapshot and
  apply; drift between apply and rollback is `TargetRunner`'s.
* Approvals: chunks and embeddings are abstracted (an ingestion commits even when every embedding failed).
  `supersede_document` has no API route and is a step of its own. A template's first version may be given a number by its author;
  here it is 1. A torn line may be the last one or one that later lines follow; either way the log is unreadable as a whole.

## 7. Plan

Done, in this order: `ServerSetting`, `Rehearsal`, `RemediationLoop` and proofs; `HandoffService` and
proofs; `TargetRunner` and proofs; `BatchRun` and proofs; `SettingChecks`, `CatalogChecks`, `PolicyValues` and
`Assessment` and proofs; `ObjectFixes`, `CatalogFixes`, `FixLoops` and proofs (of the rules in `FixRulesProofs`); `ApprovalLedger`, `Approvals` and proofs.

Left, in this order:

1. A mapping of `BatchRun`'s outcomes of one fix to `RemediationLoop` and `FixLoops`, and of `TargetRunner`'s bundles to `BatchRun!ExportIsTested`, as theorems.
2. `TargetRunner` with two lock domains, once a document says what two databases of one cluster may expect.
3. The confirmation of per-object fixes in `Assessment`.
4. Operator events and the read-only routes of the API.

**Not modelled.** Pure I/O and formatting (collector, evidence capture, reporting, HTTP wrappers, LLM gateway, MCP
tools), the contents of specs and catalogues, which are data, and the frontend, whose every decision the server makes again.
The legacy twin path, for the reason given in section 5: a model of its verification would show states
the program cannot be in. Risk texts and LLM advice change no state and gate nothing.
