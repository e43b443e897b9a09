# Verification of verk

verk runs coding tickets through external agents. A *run* owns tickets; each
ticket goes through implement, verify, review, repair and closeout, in one
process or, for an epic, in waves of tickets that run concurrently, each in its
own git worktree. Everything a run knows is in files under `.verk/`, and any
process may be killed between two writes. This directory holds TLA+ models of
that engine, TLC configurations that check them and TLAPS proofs about them.
All paths below are under `src/`.

## The system

| Part | State | Operations | What is hard |
| --- | --- | --- | --- |
| Claims (`internal/adapters/ticketstore/epos/claims.go`, renewal in `internal/engine/ticket_run.go`) | a live claim per ticket, a durable copy per run and ticket, the lease in memory | acquire, reclaim expired, renew (a goroutine), release, reconcile on resume | two files written one after the other, two runs, a goroutine that outlives a panic, expiry |
| Ticket run (`internal/engine/ticket_run.go`, `internal/state/transitions.go`) | phase, outcome, attempts, repair cycles, verification, review, closeout | one step per phase; retries; budgets; error returns | budgets across restarts, stale artifacts, termination |
| Persistence (`internal/engine/ops_support.go`, `internal/state/store.go`) | `ticket-run.json` and sidecar files | persist, load, complete a snapshot from sidecars | crash between writes |
| Reopen, resume (`internal/engine/reopen.go`, `resume.go`) | edits the above from another or a later process | reopen, resume a ticket or an epic | no lock on reopen; artifacts of a previous life |
| Checks of a ticket (`ticket_validation.go`, `derived_checks.go`, `closeout.go`, `review_delta.go`, `constraints/`) | validation coverage, review, closeout artifact, review baseline | derive checks, execute, judge, repair, review, build closeout | several verdicts over one record, by different rules; waivers that lapse |
| Epic run (`internal/engine/epic_run.go`, commands in `internal/cli/run.go`, `run_blocked.go`) | `run.json`, wave artifacts, resume cursor, `.verk/current` | quality gate, plan review, wave loop, retry of panicking children, completion; run, retry, auto-resume | concurrent goroutines, partial failure of a wave, several ways to completion |
| Wave scheduler (`wave_scheduler.go`) | none | build a wave, accept a wave | overlap of scopes, limits, empty scopes |
| Worktrees and integration (`worktree.go`, `wave_verify.go`) | worktrees in a cache all runs share, the integration base ref, a pending transaction in the cursor | prepare, remove, reconcile; freeze, apply, commit, copy to the main tree, roll back, replay | crash between ref, tree and `run.json`; removal of what another process uses |
| Wave verification (`wave_verify.go`) | the wave's validation coverage | quality commands, derived checks, repair cycles | what is run again after a repair, what is recorded of it |
| Epic gate (`epic_gate.go`, `epic_review.go`) | gate artifact, pending marker | review, repair, decide | bounded cycles, resume |
| Run lock (`runlock*.go`) | an flock | acquire, release | one process per run |
| Ticket store (`epos/store.go`, `convert.go`) | status in `.tickets/*.md` | ready children, set status | written after the snapshot, failure only logged |
| Gates, coverage, constraints, adapters, git, command runner, policy, status, UI, bench, memory | | | outside the models, see below |

The run lock keeps one process per run; different runs share the live claims and
the ticket store. A ticket run calls agents and verification commands and waits;
the renewal goroutine keeps its claim meanwhile. The epic run starts ticket runs as
goroutines, judges the wave when all have ended, integrates the closed ones, and
goes on from the new base. Resume rebuilds all of this from the files.

What makes each part correct:

- claims: whoever works on a ticket under a claim in force owns it in the store;
  unexpired claims are not taken; a released claim stays released; a lost lease
  stops the agent;
- ticket run: a closed ticket's artifacts are about the work as it is; budgets
  hold over restarts; what is returned is on disk; it ends;
- persistence and resume: a restart forgets no budget, invents no progress, and
  as long as its epic is run further the store learns of a closed ticket;
- waves and integration: the closed tickets of a wave reach main together and once,
  verified as integrated; between waves the base ref and main are the same tree; a
  crash at any write leaves an announcement from which it is replayed;
- checks: what is recorded of a check is what it last did in the tree as it is; a
  verdict follows from the record; a worker is told what failed;
- epic: `run epic` reports success only of a tree that the closure checks and the
  reviewer saw as it is; findings are not lost; every command ends,
  but for tickets that err in it again and again;
- scheduler, lock and worktrees: tickets that may touch the same files do not run
  together; one process per run; no worktree is removed while it is used.

## Modules

| Module | Models | Proofs |
| --- | --- | --- |
| `Claims` | the claim protocol | `ClaimsProofs` |
| `TicketRun` | one ticket: state machine, persistence, restart, reopen | `TicketRunProofs` |
| `WaveIntegration` | an epic's waves: loop, verification and repair, integration transaction, resume | `WaveIntegrationProofs`, `WaveAtomicityProofs` |
| `AtomicWaves` | what it promises: a wave is integrated whole, once, one at a time | |
| `EpicRun` | an epic's commands: gates, waves, closure gate, retry, resume, reopen | `EpicRunProofs` |
| `DerivedChecks`, `ValidationCoverage` | operators: which checks changed files ask for; the record of what was run | |
| `WaveChecks` | verification of a wave check by check | `WaveChecksProofs` |
| `TicketChecks` | verification, review and closeout of a ticket check by check | `TicketChecksProofs` |
| `WaveScheduler` | operators: building a wave, scopes, acceptance, conflicts | `WorktreesProofs` |
| `Worktrees` | the processes of several runs: locks, waves, worktrees, reconciliation, reopen | `WorktreesProofs` |
| `MC*` | instances for TLC | |

The modules are views of one system at different heights, each with the others'
parts as single steps:

- `Claims` and `TicketRun` are one run of a ticket, from outside and from inside;
- `TicketChecks` is what happens inside `TicketRun`'s steps verify, review and
  closeout: there each is one verdict, here it is made from checks;
- in `WaveIntegration` a ticket of a wave ends closed, blocked or with an error in
  one step, of which `TicketRun` is the inside, and a wave's verification gives one
  verdict, of which `WaveChecks` is the inside;
- in `EpicRun` a wave settles some children in one step, of which `WaveIntegration`
  is the inside;
- `Worktrees` puts several processes next to each other, where `WaveIntegration` and
  `EpicRun` have one after the other; there a wave's integration is one step.

`DerivedChecks` and `ValidationCoverage` are extended by both modules of checks,
`WaveScheduler` by `Worktrees`.

### Claims

`live` is the store's claim, `durable[r]` the copy of run `r`, `held[r]` the number
of the lease it acquired last. Functions of `claims.go` that write twice are two or
three actions: `AcquireLive`, `AcquireReadBack`, `AcquireSave`; `RenewCheck`,
`RenewLive`, `RenewReadBack`, `RenewSave`; `ReleaseCheck`, `ReleaseLive`,
`ReleaseSave`, so that other runs, the clock and a crash come in between. `pc[r]` is
the place of the engine, `ren[r][i]` that of a renewal goroutine: two slots, because
after a panic the goroutine of the abandoned call is still there next to that of
the retry. `Resume` is `reconcileTicketClaimForResume` and what follows it.
The library that keeps the live claims (`eposruntime`) is not in the repository;
`ClaimRefused` and `OwnedBy` are what `claims.go` relies on.

### TicketRun

`st` is `ticketRunState`, `snap` is `ticket-run.json`, `side` the sidecar files,
`store` the status in the ticket store. The worktree is a number, `tree`: each
worker call makes a new version, and verification, review and closeout carry the
version they judged. That is what lets "closed means verified" be stated: the
artifacts of a closed ticket vouch for the version that is there.

`persist` is a subroutine: the actions set `st`, then `SaveSidecar` writes the five
kinds of sidecar one by one and `SaveSnapshot` the snapshot; `then` is where the
engine goes on. `Start` is RunTicket up to its gates, called by a first run, by
resume or by a wave; `Restored` is the merge of plan and snapshot. `Fails` is every
`return err`, `UpdateStatus` the deferred store update, `Crash` a kill at any
place. `ReopenRead` and `ReopenCommit` are one `verk reopen`, which may interleave
with the run.

Two identical persists in a row are one. The scope check of `executeVerification`
is left out because only tests switch it on; so are the attempt numbers of
verification and review, which nothing decides on. At closeout the review gate can
only fail by a waiver that lapses between two looks at it; the other gates are
constant over a run of closeout or are errors. `CloseTicket` never finds a missing
closeout, since the phase is entered with one. `Epic` tells the two callers apart:
an epic's ticket gets a fresh worktree in every process, asks for intake, and is
scheduled by its store status, if it is closed only as long as the epic is run further:
`goesOn` says that its process has not ended, another ticket's snapshot is not closed or
a wave is pending (`updateRunStatusFromTickets`, `resumeExecutionAllowed`), and
`EpicChanges` lets that come and go between two runs of the ticket.

### WaveIntegration

A tree is a set of changes: `<<t, k>>` is the k-th commit made in ticket t's worktree
and `<<t, 0>>` what a repair of a wave with t changed. `base` is the run's hidden ref,
`main` the main tree (`edited`: changes of somebody else in it), `wt` the integration
worktree with its head and its files, `run` is `run.json` (status, announced
transaction, `last_wave_base_commit`, whether a wave was scheduled), `flag` the
verdict kept in the wave's artifact. `verified` is history: the trees that passed.

RunEpic's loop and resumeEpicMode's are one set of actions with `resumed` where they
differ: how an unaccepted wave ends, whether a failed wave ends the process, the
closure gate, and what is recorded as base when no wave was integrated (`SettleWave`).
A wave is `StartWave`, its tickets' ends in any order, then `Integrate` (freeze, new
integration worktree, cherry-pick, announcement), `NotIntegrated` (nothing closed, or
two tickets touched the same files) or `OutOfScope`. `ChecksPass` to `ClearPending` are
`runWaveVerificationLoop` and its callers' error path; `CommitWave`, `AdvanceBase`,
`ApplyToMain`, `Finish`, `ApplyFails` and `RollbackFails` are
`completePendingWaveIntegrationTransaction` write by write, and `TakeUp` is
`resumePendingWaveVerification`, which any process does first. `TicketErrs`
leaves its ticket open, to be scheduled again without bound. `Fails` is an
error return at any place, with what the caller then saves (`Rescued`).

Merged: freezing and announcing (a crash before the announcement shows the same
files, ticket refs apart, which nobody reads without one); clearing the announcement
and marking the run blocked; saving the wave artifact, except its verdict, with the
step after it. A wave without checks has no verdict. Left out: sub-epics, wave
numbers, artifacts in the main tree that the engine owns (they are filtered
everywhere), merge conflicts inside git other than `NotIntegrated`.

### EpicRun

`run` is `run.json` (status and `pending_epic_gate`), `closure` is
`epic-closure.json` with its findings by ID, cycles and verdict, `plan` the plan
review's artifact, `child` each ticket as snapshot and store have it, `current` what
`.verk/current` names. A main tree is told apart only by `checked` and `reviewed`:
whether the gate's checks and its reviewer have seen it as it is; waves and repair
workers reset both. `RunEpic` is the command, `QualityGate` to `PlanBlocks` the gates
before the waves, `StartWave`, `Wave` and `NoneReady` the loop (a child may end a wave in
an error, as open as it was), `MarkGate` the completion that is
saved before the gate, `GateInit` to `Rereview` the gate (`runEpicClosureGate`) in the
order it checks, reviews, sends out workers and saves, `GateErrs` its error returns.
`Retry` is `doRetryBlockedTickets`, `AutoResume` a `verk run` without arguments
with `ResumeRun`, which has the wave loop (`resuming`) but no gate; `Rescan` and
`Rederive` are its derivation of the status from the tickets. A second epic
under the same `.verk` is only its effect on `current`.

### WaveChecks, TicketChecks

Both hold a tree as the set of checks that would fail in it, so that a repair worker
is any change of that set, and both derive checks from the files changed
(`DeriveChecks`, whose command and files are the check's identity). The repository's
files are one of each language that a rule is about.

In `WaveChecks`, `FirstPass` runs quality commands and derived checks
(`ExecuteWaveChecks`), `Decide` is the branch on the results, `Dispatch` to
`WorkerFails` the repair worker,
`RunAgain` the pass after it (all quality commands, of the derived checks those that
failed), `SettleCycle` what the cycle's references say. `coverage` is in memory,
`saved` in the wave's artifact. A second verification of the same wave is a resume's.

In `TicketChecks`, `plan` is what the ticket asks for (quality, validation and
declared commands; whether it is about documents), `content` and `defects` the
worktree, `baseline` what a review's diff is taken against. `Worker` is a worker's
call. `Verify` to `Constraints` are `executeVerification`: it runs the checks and
records them, `CheckFails` is a failing declared check (`HandleFailure`),
`AdvisoryFails` the best-effort repair of advisory ones, `Constraints` what is looked
at when these are settled. `ReviewBlocks` and `ReviewPasses` are the review with
waivers, the latter with the gates of `BuildCloseoutArtifact`, some of which are
errors. Persistence and retries are
`TicketRun`'s.

### WaveScheduler, Worktrees

`BuildWave`, `PathsOverlap` and `Conflicts` are the functions of those names, paths
being sequences of segments (the constant `Segment`: names of files and directories).
`BuildWave` goes through all children in the store's order and selects among those that
are ready, as a recursive function, which can be proved about; `AcceptWave` is reduced to the scope check, the only
input of it the engine does not pass as passed.

In `Worktrees`, `lock` is the flock of each run, `json` its `run.json`, `snap` and
`store` each ticket, `claimed` the durable claims in force, `dirs`, `trees` and `joint`
the worktree cache: directories of runs, worktrees of tickets, integration worktrees.
`proc[p]` is a process: where it stands, which run, its copy of `run.json` (`mem`),
its wave, which of it still runs, what each changed, and the directory it is about
to remove. `Look` and `RemoveStale` are `ReconcileWorktrees`, one directory at a
time with the decision before the removal; `Schedule`, `Prepare`, `TicketEnds` and
`TicketErrs` the wave; `NotAccepted`, `Announce`, `Integrate` and `IntegrationFails` its end; `Settle`
is `run.json` after it and `Derive` the status when nothing is ready. A conflict is
found by `NotAccepted`. `Reopen` and `ReopenWrites` are the two halves of a reopening,
which takes no lock and writes the `run.json` it read.

## What the runs check

Passing runs:

| Run | Properties | Shows |
| --- | --- | --- |
| `MCClaims` | `HolderOwnsLive`, `ExclusiveWork`, `TombstoneFinal`, `UnexpiredClaimUntouched`, `LostLeaseStopsAgent` | two runs, expiry, one failed write, crashes, resume; a lost lease ends the agent call (without panics: a goroutine left over by one may bring the lease back) |
| `MCClaimsRetry` | `TypeOK` | a panicking child leaves its goroutine behind and is retried a bounded number of times |
| `MCTicketRun` | `TypeOK`, `ClosedIsVerified`, `BudgetKept` | two processes, failed saves, a concurrent reopening, a lapsed waiver |
| `MCTicketRunEpic` | `ReturnedIsRecorded`, `ClosedReachesStore`, `BudgetNotForgotten`, `Terminates` | three processes of an epic, each may die at any write; while the epic is run further the scheduler repairs a missed status update; the phase loop ends |
| `MCWaveIntegration` | `TypeOK`, `DifferenceIsPending`, `OnlyClosedWork`, `MainIsVerified`, `CursorIsBase`, `AllOrNothing`, `ImplementsAtomicWaves`, `Terminates` | an epic and two resumes, a crash at any step, two mishaps; refines `AtomicWaves`; a process ends unless tickets err for ever |
| `MCEpicRun` | `TypeOK`, `ClosesVerifiedTree`, `RepairsAnnounced`, `FindingsSettle`, `CommandEnds` | three commands, two repair cycles, two crashes, failing steps or reopenings: what success of `run epic` means, what the artifact tells of repairs and findings, and that commands end unless children err for ever |
| `MCWaveChecks` | `TypeOK`, `GatePassed`, `RefsTellTheTruth`, `FailureHasCause`, `HistoryKept` | two quality commands and checks of three languages, two cycles, verified twice: verdicts and records agree with the tree |
| `MCTicketChecks` | `TypeOK`, `ClosedIsChecked`, `CloseoutBuilds`, `AdvisoryOnlyAdvises`, `RetryNamesFailures` | four kinds of plan, both kinds of cycle, a constraint, a lapsed waiver: closed means its declared checks passed as it is |
| `MCWorktrees` | `TypeOK`, `WorktreeKept`, `ScopesKeepApart`, `ProcessEnds` | two processes, two runs, a dependency, an expiring claim, a crash, a reopening: locks, reconciliation and scheduling; processes end unless tickets err for ever |

Runs that show where a comment or a document and the code differ, each a property
that says what it says and that TLC refutes; the lines quoted are in `PROJECT.json`:

| Run | Property | Shows |
| --- | --- | --- |
| `MCEpicRunUngated` | `CompletedIsGated` | an epic is saved as completed before its closure gate; a crash in the gate, or any resume, leaves it so |
| `MCWaveChecksDerived` | `FailureHasCause` | without quality commands a wave whose derived checks pass never passes, and names no failed check |
| `MCWorktreesConflict` | `ConflictBlocks` | tickets of a failed wave that changed the same file stay closed and are integrated nowhere; the next resume completes the run |

### Differences without a run of their own

Some are in the models and show when a constant of a passing run, or its property,
is changed:

| Change | Refuted | Shows |
| --- | --- | --- |
| `MCClaims`, one run, `MaxLease = 3` | `UnexpiredClaimIsResumed` | a run that is resumed and dies again cannot be resumed though its claim is in force: the implementation artifact names the lease before (`resume.go:905`; `docs/plans/done/initial_v1.md:319`) |
| `MCClaimsRetry` | `ReleasedClaimIsFree` | a goroutine left over by a panic renews a claim that was released (`ticket_run.go:1497`; `initial_v1.md:929`) |
| `MCTicketRun`, `Epic = TRUE` | `ClosedIsVerified` | a resumed epic's ticket is closed with the artifacts of a worktree that was removed (`worktree.go:140`) |
| `MCTicketRunEpic`, `Epic = FALSE` | `ClosedReachesStore` | a single ticket closed before a crash is skipped by resume and stays open in the store (`resume.go:216`) |
| `MCTicketRunEpic` | `ClosedIsInStore` | an epic's last ticket, closed in its snapshot when the process dies before the deferred update or that fails, stays open or ready in the store: the next derivation says completed and nobody runs it again (`ops_support.go:454`, `ticket_run.go:252`; `initial_v1.md:254`) |
| `MCWaveIntegration`, `MaxCommits = 2` | `AllOrNothing` | of two commits a worker made only the last is integrated (`worktree.go:526`; `prompt.go:34` allows several) |
| `MCWaveIntegration`, `MCEpicRun`, `MCWorktrees` | `Terminates`, `CommandEnds`, `ProcessEnds` without the first disjunct | a resume goes on after a wave that failed and schedules a ticket that errs for ever (`resume.go:660`, :813) |
| `MCWaveIntegration` | `MainPassedChecks` | a resume integrates a repaired wave without its repair, which lived only in the removed worktree (`wave_verify.go:1076`) |
| `MCTicketChecks`, `Plan <- PlainPlan` | `ClosedIsReviewed` | the baseline is captured anew before each worker call (`ticket_run.go:375`), so after a retry the reviewer sees the last attempt's change only |

Others come from reading the code.

Claims and ticket runs: `ReleaseClaim` removes the
live claim before it marks the durable one (`claims.go:229`; the v1 plan asks for the
opposite order); results are compared with the lease in memory and not with the live
claim (`ticket_run.go:652`); `ReopenTicket` takes no run lock and keeps the ticket's
old outcome (`reopen.go:44`); cycles made for failing checks count against
`max_repair_cycles` (`ticket_run.go:1171`); a snapshot without repair cycles is given
those of sidecars (`ops_support.go:280`).

Checks of a ticket: a failing constraint of kind command never blocks, and grep
constraints look at the repository's diff and not at the worktree's
(`constraints/execute.go`); a finding a reviewer calls resolved passes review and is
an error in closeout (`closeout.go:719`), as is a verification in which nothing was
executed, each time the ticket is run; `declared_checks` are never executed, but
suppress the equal derived check; the sweep for stale wording of a ticket is
inverted (`derived_checks.go:616`: it fails when nothing is found); cycles for checks
stay `repair_pending` except the last (the comment at `ticket_run.go:1077` says
otherwise); advisory failures use up attempts.

Of waves: the work of a closed ticket never reaches main, and nothing says so, when
the process dies between the ticket's end and the announcement (`epic_run.go:875`),
when the wave conflicts or is out of scope, or when its verification failed; the
tickets stay closed, no wave takes them up again and a resume completes the run
(`ops_support.go:423`; the command line resumes no completed run). A check
that could not be run, or an interrupt, counts as such a failure
(`wave_verify.go:67`). After a repair only the derived checks that failed are run
again (`wave_verify.go:150`): `GatePassed` therefore speaks of a derived check that
passed as of the pass in which it ran. A quality command's path is not part of
its check's identity; a derived check on a deleted file cannot pass; Go files outside
the usual directories are not tested when another is inside; a re-verification
replaces the coverage of the first. A replay of a wave that is in
main while main was edited fails in every resume (`wave_verify.go:1178`). A base ref
lost between the change of main and `run.json` comes back behind main (`LoseRef`
excludes that moment: two mishaps, and then `DifferenceIsPending` fails).

Of epics: resume passes by the ticket quality gate and an enforced plan review;
`RequiresOperator` findings are repaired all the same (`types.go:410`); a cycle is
`completed` after any re-run, also one that fails (`types.go:428`); findings of an
earlier gate are not resolved by a first review, so that with no repair cycles left
they block every later gate; `run epic` returns success after a retry that ends
blocked again (`run.go:404`).

Of worktrees: scopes are checked against their union and not at all when one ticket
of the wave declares none (`initial_v1.md:698`, :711); a changed file above an owned
path counts as in scope; a run that was completed when another process looked, and
was reopened and resumed since, may lose its worktrees (`worktree.go:849`, hence the
exception in `WorktreeKept`); `verk status` takes the run lock for a moment
(`runlock_unix.go:58`), which refuses a start at that moment; a reopening writes
the `run.json` it read over that of a process. `MergeToMain` and `ApplyToMain` are
called by tests only.

### Bounds

Claims: two runs, the least that compete; a TTL of 1 or 2 and a clock to 3, so that a
claim can be fresh, about to expire and expired while another holds it; up to three
leases per run (a first, a resume, a second resume); `MaxRetries` is
`maxCrashRetries`; panics and write failures at most one or two. The processes of
one run are sequential (run lock). Deadlock is not checked: a run whose leases and
restarts are used up stops.

TicketRun: two implementation attempts, one repair cycle and one retry are the least
budgets that can be used, exhausted and exceeded; two or three processes; one
reopening; one lapsed waiver; `MaxTree` (12, or 8 for `MCTicketRunEpic`) never binds in the passing
runs (the budgets end them first; in `MCTicketRunEpic` a ticket that it stopped
would violate `Terminates`). The system stops when its starts are
used up, so deadlock is not checked.

WaveIntegration: two tickets give waves of one and of two and siblings that end
differently; one is covered by a check, the other is not; one commit each (with
two `AllOrNothing` fails, see above); one repair cycle, so that the last one is reached; three
processes, a run, its resume and the resume of that; two mishaps (failing
operations, edits of main, lost refs) next to any number of crashes and of errors that
leave a ticket open. All safety properties were also checked with six processes,
five mishaps and two repair cycles (0.8 million states). A run may end, so deadlock
is not checked.

EpicRun: two children, so that one may close while another blocks; one check and
one finding, which are open, resolved and found again independently; two repair
cycles, the least at which a cycle follows one that was not the last; three commands,
a run, its retry or resume and one more; two mishaps, so that a crash follows a
failing step or a reopening follows a crash; any number of children's errors. Plan review is enforced, which has the
behaviours of the other modes.

WaveChecks: one file of each kind of derivation (a package, a Python test, a
script), two changed at once; one quality command that is also derived and one that is
not; two cycles; a second verification; one mishap (a command that times out or cannot
be run, a crash). TicketChecks: a Go file and a document, two contents of each,
plans that have each list of commands empty and not; two attempts and one cycle;
one error and one mishap.

Worktrees: two processes are the least that interfere, with three starts, so that one
restarts while the other works; a run with a wave of two, one ticket that overlaps
another, one that waits for a dependency; a run without tickets, whose process only
reconciles. One crash or failing operation, one reopening and any number of errors of tickets. `MCWorktreesConflict`
needs one process.

### Fairness

`Claims.FairSpec`: the renewal goroutines are scheduled, their steps being local or
file operations, and an agent ends when its context, which the adapters pass on, is
cancelled. Nothing is required of runs, of the clock, of crashes, panics and failures.
`TicketRun.FairSpec`: weak fairness of the process's own steps together. Start,
failure, crash and reopening may never happen. Agents and verification commands
have timeouts in the policy. `WaveIntegration.FairSpec`: the same, for the process
that runs the epic; that its tickets come to an end is what `TicketRun` shows.
`EpicRun.Spec`: weak fairness of the engine's steps; commands, crashes and
reopenings may never come. `Worktrees.FairSpec`: weak fairness of each
process's steps, separately, since they are processes of the operating system. Fairness
says that a ticket comes to an end, not that it ever ends without an error: the three
properties that processes and commands end except behaviours in which tickets err
infinitely often (`[]<><<TicketErrs>>_vars`), as those are the code's. `WaveChecks` and
`TicketChecks` state safety only.

## What is proved

For all values of the constants, with TLAPS:

- `ClaimsProofs`: `Spec => []TypeOK`, `Spec => []HolderOwnsLive`,
  `Spec => []ExclusiveWork`. `HolderOwnsLive` is not inductive: a renewal in flight
  holds a copy of a claim that it will save later. `IInv` adds that every copy a run
  has, saved or about to be saved, is covered by the store's claim as long as the
  copy is in force (`Cover`), that no copy outlasts a TTL from now (`Horizon`), that
  the store's claim has its owner's last lease (`LiveLease`), that a run never
  started owns nothing (`Unstarted`), that no goroutine runs while resume releases
  (`Quiet`), and the retry count (`Retried`). From `IInv` follows
  `Spec => UnexpiredClaimUntouched`: who writes to a claim holds its ticket or may take
  it over. For `MaxPanics = 0` also `Spec => []TombstoneFinal`: no renewal goroutine
  outlives its ticket (`Silent`), leases only grow (`Leases`), and a run that recorded a
  release has no copy of that lease left that it could write (`Tombs`). The assumptions
  on constants are `ClaimsAssumption`.
- `TicketRunProofs`: `Spec => []TypeOK`, and for a ticket that is not an epic's
  `Spec => []ClosedIsVerified`. The second is not inductive either: that a closed
  snapshot's artifacts are current depends on what a ticket in review or closeout
  already promised (`Fits`, of memory and of snapshot), on the place of the engine
  (`Places`: a verification about to be acted on is of this tree), on a reopening
  writing only tickets to be worked on again (`EditFits`), and, the heart of it, on
  the snapshot not vouching for the worktree when a worker is let loose on it
  (`WorkIsRecorded`), which holds because the move to implement or repair is
  persisted before the worker starts. For an epic's ticket the same invariant holds
  without the tree; why no more can be shown is in the table of differences.
- `TicketRunProofs`, of budgets and returns: `Spec => []BudgetKept`; for
  `MaxReopens = 0` `Spec => []ReturnedIsRecorded` and `Spec => BudgetNotForgotten`; for an
  epic's ticket `Spec => []ClosedReachesStore`.
  The budget is inductive only if a ticket on which a worker is going to be let loose is
  charged for it beforehand (`Owed`): a lapsed waiver or a blocking review pays at once,
  a failed verification is let go on only below the policy's limit. A restart reads the
  files, so they are within the budget too: the snapshot, a reopening about to be
  committed, and the sidecars as long as a snapshot without attempts may be completed
  from them (`FromSidecars`, `SidecarBudget`), which a persist writes one by one
  (`SidecarsWritten`: the cycles before the attempts) and a stale reopening may bring
  back into use (`OneBehind`). `ReturnedIsRecorded` fails, as the model has it, when a
  reopening commits between the last save and the return. `BudgetNotForgotten` is an
  action property: its invariant `NotBehind` says that the counters in memory are never
  behind those of the snapshot, so that no save, however late, takes any back. A
  reopening writes the snapshot it read before, with its counters, over one that was
  saved since: hence the condition. `StoreFollows` says where an
  epic's ticket store stands: never `in_progress`, and not `blocked` under a closed
  snapshot; so, while the epic is run further, it is `closed` or what the scheduler looks
  for. For a ticket of its own the store may stay `in_progress` after a crash.
- `WaveIntegrationProofs`: `Spec => []TypeOK` and `Spec => []OnlyClosedWork`. What is
  in the main tree came through the base ref and the integration worktree, and after
  a lost ref through run.json, so the invariant is about all of these (`ClosedTrees`),
  about the announced wave, whose worktree may have to be made again (`ClosedRefs`),
  and about the tickets still being run, since a closed ticket that was run again
  could be opened (`GoingIsOpen`). Each step then only moves changes between trees
  that hold closed work. The assumptions on constants are
  `WaveIntegrationAssumption`: the markers are no trees or records, bounds are
  naturals.
- `WaveAtomicityProofs`: `Spec => []DifferenceIsPending`, `[]CursorIsBase`,
  `[]MainIsVerified`, and that `WaveIntegration` implements `AtomicWaves`. `Between` waves
  the base ref, the main tree and the cursor agree. `During` one, every tree lies
  between the tree the wave started from and all it may make (`InRoom`); before its
  checks have passed main and base are where they were (`NotBefore`); and a main tree that
  has changed is exactly what the process would make if it did it again
  (`Repeatable`): the worktree as it is left, or made afresh if a repair could not have
  been in it (`NoRepairs`). That is why a replay after a crash finds either nothing
  or all of the wave. `Stages` says what the process has come to know where it stands.
  `LoseRef` does not strike while main is ahead of `run.json` (see above). For the
  step simulation it is added that nothing of a running ticket is in main (`Fresh`).
  `Settling` follows the end of a transaction: checks being run have not passed, what
  is finished has the commit of every ref, and what it started from had nothing of its
  tickets. From it and `Repeatable` follows, for workers that commit as often as they
  like, that an announcement goes only with the last commit of every ref in main or,
  unless the checks passed, with nothing of the wave there (`LastCommitsOrNothing`). For `MaxCommits = 1`
  that commit is all a ticket changed, and this is `AllOrNothing`; with more it is false
  (see above).
- `EpicRunProofs`: `Spec => []TypeOK`, `[]ClosesVerifiedTree`, `[]RepairsAnnounced`
  and `Spec => FindingsSettle`, for all children, findings, cycles and commands. The gate works
  on an artifact in memory and the properties are about what is on disk: `OnDisk`
  says at which places the two agree. `Repairing` follows the last cycle from its
  announcement to the re-review, `Places` says what of the tree has been seen by the
  checks and by the reviewer at each place, `Announced` counts the workers sent out
  against the cycles saved. `NoneIsNoClosure`: the marker is no artifact.
- `TicketChecksProofs`: `Spec => []TypeOK`, `[]ClosedIsChecked`, `[]CloseoutBuilds`,
  `[]AdvisoryOnlyAdvises` and `[]RetryNamesFailures`, for all files, plans, linters and
  constraints. From a
  verification until the next worker the record is about the worktree as it is and
  the verdict follows from it (`Judged`); what came to review passed, with its advisory
  checks settled or its attempts used up (`Reviewed`); only a blocked ticket's record
  says that a limit was reached (`Recorded`). `TicketChecksAssumption` adds that no
  ticket asks for the engine's own sweep, whose verdict is inverted. The bounds of
  `TypeOK` and what a worker is told rest on the cycles, which are of two kinds with a
  limit each: `Rounds` counts them apart, each kind against what starts it, with the
  attempt a worker that is about to be called will be (`Owed`).
- `WaveChecksProofs`: `Spec => []TypeOK`, `[]GatePassed` and `Spec => HistoryKept`, and
  under `OneTree` (there are gate commands, run where derived checks are)
  `[]FailureHasCause` and `[]RefsTellTheTruth`. Without `OneTree` the last two are false:
  a gate without commands fails with nothing failing (`MCWaveChecksDerived`), and of
  two commands that differ in their directory one hides the other's failure. The lemmas
  `LatestAfter` and `FailingAfter` say what appending a pass does to a history;
  `Round` says that between passes the failing checks are those of the record, that
  pending references are this cycle's and that there is one execution per cycle, `Told`
  is what a settled reference points at. `WaveChecksAssumption` adds that the gate is a
  sequence.

- `WorktreesProofs`: `Spec => []TypeOK`, `[]WorktreeKept` and `[]ScopesKeepApart`, for any
  number of processes, runs and tickets. A process that removes the worktrees of a run
  has no lock of it and decides by what it read some steps ago, so `WorktreeKept` needs
  that a run which is `Over` (completed, with no wave pending) stays so: whoever resumes it finds
  all tickets closed (`Steady`), has in memory what `run.json` says (`Knows`), and comes to
  no wave. What a process is about to remove is therefore over (`Caches`) and none that
  is at work is. A reopening, which takes no lock, ends all this for its run, whence the
  exception in the property. `Frame` says what a step of a process leaves alone, so that
  each action is looked at for its own process only (`StepKeeps`).
  Of the scheduler: what `BuildWave` selects is ready, within the limit and pairwise
  apart, and no ready ticket is left out that still fits (`Selection`); with a limit above
  zero and a ready ticket it selects one (`SomethingFits`), which is why its two errors
  never occur. That `BuildWave` is a recursive function of the children's number is used
  by a least counterexample (`Least`, `OneByOne`): the set of numbers for which the claim fails
  would have a least element. `ScopesKeepApart` follows since of two directories
  above the same file one is above the other (`PrefixesOverlap`). The assumptions are
  `WorktreesAssumption`: every ticket is one of exactly one run, paths are sequences of
  segments, the limit is not zero.

The invariants were checked with TLC on the bounds of the passing runs before they were
proved. Every safety property a run checks, invariant or action property, is so stated by
a theorem for all values of the constants or under the condition on them named in the
bullets above: `ClosedIsVerified` (not for an epic's ticket) and `AllOrNothing`
(`MaxCommits = 1`) under conditions that the table of differences shows to be needed. Only
model-checked: `LostLeaseStopsAgent`, a leads-to, and the other liveness properties
(`Terminates`, `CommandEnds`, `ProcessEnds`), which with ENABLED are out of the prover's
reach; the theorem that `WaveIntegration` implements `AtomicWaves` is about safety, as
`AtomicWaves` is.

## Not modelled

- Agents and their adapters, git, the start and end of commands: external processes,
  whose results the actions choose from.
- Parsing of tickets and policy, the heuristics that score a ticket or judge an epic's
  plan, prompts, evidence texts: text; their verdicts are in the models.
- Status, doctor, the terminal UI, benchmarks, memory: reports and notes that
  no step of the engine depends on. The store of constraint candidates, which
  no run of a ticket writes.
- Sub-epics: `runSubEpic` refuses wherever there is a worktree root
  (`epic_run.go:1226`), and `RunEpic` sets one in every real run, so a child with
  children is blocked (a blocked child of `EpicRun`); the nested loop runs in tests only.
- `MergeToMain` with its file operations, called by tests only.
- The repair of a closed snapshot without closeout at resume; momentary locks of
  `verk status`.

Writes through a temporary file and a rename are atomic. `failed_retryable` is in the
documents but no code assigns it.

## Plan

Done: the claim protocol, the ticket's run, the waves and their integration, the epic's
commands, the checks of tickets and waves, the scheduler, locks and worktrees, each
with proofs of its safety properties.

Next, in this order:

1. `TicketChecks` shown to refine the verdicts of `TicketRun`, and `WaveChecks` that
   of `WaveIntegration`, by refinement mappings;
2. an abstract lease of which `Claims` is an implementation, which says when a ticket
   changes hands;
3. the supervision of an agent's call (timeout, cancellation, retry) as a module of
   its own, if the adapters' state comes to matter to the engine.
