------------------------------ MODULE WaveChecks ------------------------------
(***************************************************************************)
(* The verification of one wave's merged tree, check by check               *)
(* (internal/engine/wave_verify.go, internal/adapters/verify/command):      *)
(* gate commands and derived checks are run, failures go to a repair worker *)
(* and are run again, and the wave's coverage record says what was found.   *)
(* Module WaveIntegration has this loop as one verdict.                     *)
(*                                                                         *)
(* A tree is the set of jobs that would fail in it: a job is a command in a *)
(* directory, and its check is known by the command alone.                  *)
(***************************************************************************)
EXTENDS DerivedChecks, ValidationCoverage, SequencesExt

CONSTANTS
    Gate,                 \* quality_commands and wave_commands: jobs in order
    MaxWaveRepairCycles,
    None,                 \* no coverage was saved
    MaxChanged,           \* bound: files a wave changes
    MaxStarts, MaxMishaps \* bounds: verifications; failures, time outs, crashes

Job(command, path) == [command |-> command, path |-> path]
ID(job) == job.command

ASSUME WaveChecksAssumption ==
    /\ Gate \in Seq(ToSet(Gate))
    /\ \A i \in DOMAIN Gate : Gate[i] = Job(Gate[i].command, Gate[i].path)
    /\ MaxWaveRepairCycles \in Nat /\ MaxChanged \in Nat
    /\ MaxStarts \in Nat /\ MaxMishaps \in Nat

VARIABLES
    changed, tools,  \* what the wave changed; the linters that are installed
    derived,         \* the checks derived from that, as jobs
    merged,          \* the jobs that fail in the tree as merged
    tree,            \* the jobs that fail in the integration worktree
    coverage,        \* the validation coverage in memory
    saved,           \* the wave artifact's
    failing,         \* the checks the next repair is for
    cycle, pc,
    outcome,         \* what the loop has returned
    workers,         \* history: repair workers sent out
    starts, mishaps

wave == << changed, tools, derived, merged >>
memory == << coverage, failing, cycle >>
bounds == << starts, mishaps >>
vars == << wave, tree, memory, saved, pc, outcome, workers, bounds >>

\* Derived checks gate a wave, though they only advise a ticket; work on
\* markdown files is work on documents.
DerivedJobs(files, linters) ==
    {Job(c, ".") : c \in DeriveChecks(files, linters, TRUE, FALSE, {}, TRUE)}

Jobs == ToSet(Gate) \cup derived

NewCoverage ==
    [executed |-> << >>, refs |-> {}, blockers |-> {}, reason |-> {},
     skipped |-> Skipped(changed, tools, TRUE, FALSE),
     limit |-> FALSE, closable |-> FALSE]

Init ==
    /\ changed \in {files \in SUBSET File : Cardinality(files) \in 1..MaxChanged}
    /\ tools \in SUBSET {l \in Linter : \E f \in changed : Lints(l, f)}
    /\ derived = DerivedJobs(changed, tools)
    /\ merged \in SUBSET (ToSet(Gate) \cup derived) /\ tree = merged
    /\ coverage = None /\ saved = None
    /\ failing = {} /\ cycle = 0
    /\ pc = "idle" /\ outcome = "none" /\ workers = 0
    /\ starts = 0 /\ mishaps = 0

-----------------------------------------------------------------------------
\* Running commands.

\* All are run, the failing ones too; a command that runs out of time is
\* killed with its group and counts as failed.
Fails(job, slow) == job \in tree \cup slow

\* The derived checks a pass runs: all at first, then those that failed.
Chosen == {j \in derived : cycle = 0 \/ ID(j) \in failing}

\* The execution that stands for a check: the last of those with its ID.
RunAs(id) ==
    IF id \in {ID(j) : j \in Chosen} THEN Job(id, ".")
    ELSE Gate[Max({i \in DOMAIN Gate : ID(Gate[i]) = id})]

ExecuteWaveChecks(slow) ==
    [id \in {ID(j) : j \in ToSet(Gate) \cup Chosen} |-> ResultOf(Fails(RunAs(id), slow))]

\* Mutant of AllPassed: after a repair only what had failed is looked at.
AllPassedOfFailing(slow) ==
    Gate # << >> /\ \A j \in ToSet(Gate) \cup Chosen :
        (cycle = 0 \/ ID(j) \in failing) => ~Fails(j, slow)

\* The gate's part fails when it is empty.
AllPassed(slow) ==
    Gate # << >> /\ \A j \in ToSet(Gate) \cup Chosen : ~Fails(j, slow)

Record(cov, slow) == [cov EXCEPT !.executed = Append(@, ExecuteWaveChecks(slow))]

-----------------------------------------------------------------------------
\* The coverage record.

\* A repair without a failing check is recorded too, as one of no check.
AppendRepairCycle(cov, ids, n) ==
    [cov EXCEPT !.refs = @ \cup
        {RepairRef(id, n, "pending") : id \in IF ids = {} THEN {None} ELSE ids}]

\* Mutant of SettleCycle: a repair that was tried counts as one that worked.
SettleCycleHopeful(cov, n, still) ==
    [cov EXCEPT !.refs =
        {IF r.cycle = n /\ r.result = "pending" THEN RepairRef(r.check, n, "repaired")
         ELSE r : r \in @}]

\* Mutant of SettleCycle: the references of earlier cycles are settled anew.
SettleCycleAnew(cov, n, still) ==
    [cov EXCEPT !.refs =
        {RepairRef(r.check, r.cycle, IF r.check \in still THEN "failed" ELSE "repaired")
         : r \in @}]

\* The pending references of a cycle, by whether their check still fails.
SettleCycle(cov, n, still) ==
    [cov EXCEPT !.refs =
        {IF r.cycle = n /\ r.result = "pending"
         THEN RepairRef(r.check, n, IF r.check \in still THEN "failed" ELSE "repaired")
         ELSE r : r \in @}]

\* What was repaired gets an execution that says so, after those it had.
MarkRepaired(cov, ids) ==
    [cov EXCEPT !.executed = Append(@, [id \in ids |-> "repaired"])]

MarkPassed(cov) == [cov EXCEPT !.closable = TRUE]

\* The reason, which names checks, is the first that was given.
MarkFailed(cov, ids) ==
    [cov EXCEPT !.closable = FALSE, !.reason = IF @ = {} THEN ids ELSE @]
\* Mutant of Unrepaired: what is left when the repairs end is listed, not named
\* as the reason.
UnrepairedUnnamed(cov, ids) ==
    MarkFailed([cov EXCEPT !.blockers = @ \cup ids, !.limit = TRUE], {})

Unrepaired(cov, ids) ==
    MarkFailed([cov EXCEPT !.blockers = @ \cup ids, !.limit = TRUE], ids)

-----------------------------------------------------------------------------
\* The loop.

\* It is entered again only after a crash: the marker of a wave that failed
\* is withdrawn, and a recorded success is believed.  The worktree is kept, or
\* made again from the tickets' work without the repairs.
Start ==
    /\ pc = "idle" /\ outcome = "none" /\ starts < MaxStarts
    /\ saved # None => ~saved.closable
    /\ starts' = starts + 1
    /\ tree' \in {tree, merged}
    /\ cycle' = 0 /\ failing' = {}
    /\ IF Jobs = {} THEN pc' = "over" /\ outcome' = "passed" /\ coverage' = None
                    ELSE pc' = "first" /\ coverage' = NewCoverage /\ UNCHANGED outcome
    /\ UNCHANGED << wave, saved, workers, mishaps >>

\* The verdict of a pass, with what it recorded, is saved and returned.
Conclude(cov, verdict) ==
    /\ coverage' = cov /\ pc' = "saving" /\ outcome' = verdict

\* At most one command is slow in a pass.
Slow(slow) ==
    /\ slow # {} => mishaps < MaxMishaps
    /\ mishaps' = IF slow = {} THEN mishaps ELSE mishaps + 1

\* Mutant of Decide: one repair cycle too many.
DecideOneMore(slow, ifPassed, ifFailed) ==
    IF AllPassed(slow) THEN Conclude(MarkPassed(ifPassed), "passed")
    ELSE IF cycle <= MaxWaveRepairCycles
         THEN coverage' = ifFailed /\ pc' = "repair" /\ UNCHANGED outcome
         ELSE Conclude(Unrepaired(ifFailed, FailingIDs(ifFailed.executed)), "failed")

\* After a pass the wave has passed, is repaired, or has failed for good.
Decide(slow, ifPassed, ifFailed) ==
    IF AllPassed(slow) THEN Conclude(MarkPassed(ifPassed), "passed")
    ELSE IF cycle < MaxWaveRepairCycles
         THEN coverage' = ifFailed /\ pc' = "repair" /\ UNCHANGED outcome
         ELSE Conclude(Unrepaired(ifFailed, FailingIDs(ifFailed.executed)), "failed")

FirstPass ==
    /\ pc = "first"
    /\ \E slow \in {{}} \cup {{j} : j \in Jobs} :
         /\ Slow(slow)
         /\ \E cov \in {Record(coverage, slow)} :
              /\ failing' = FailingIDs(cov.executed)
              /\ Decide(slow, cov, cov)
    /\ UNCHANGED << wave, tree, saved, cycle, workers, starts >>

\* A repair cycle is recorded and its worker sent out.
Dispatch ==
    /\ pc = "repair"
    /\ cycle' = cycle + 1
    /\ coverage' = AppendRepairCycle(coverage, failing, cycle + 1)
    /\ workers' = workers + 1
    /\ pc' = "worker"
    /\ UNCHANGED << wave, tree, saved, failing, outcome, bounds >>

\* The worker changes the tree, for better or worse.
WorkerDone ==
    /\ pc = "worker"
    /\ tree' \in SUBSET Jobs
    /\ pc' = "again"
    /\ UNCHANGED << wave, saved, memory, outcome, workers, bounds >>

WorkerFails ==
    /\ pc = "worker" /\ mishaps < MaxMishaps
    /\ mishaps' = mishaps + 1
    /\ tree' \in SUBSET Jobs
    /\ Conclude(MarkFailed(coverage, failing), "failed")
    /\ UNCHANGED << wave, saved, failing, cycle, workers, starts >>

\* The gate is run again, and of the derived checks those that had failed.
RunAgain ==
    /\ pc = "again"
    /\ \E slow \in {{}} \cup {{j} : j \in Jobs} :
         /\ Slow(slow)
         /\ \E cov \in {Record(coverage, slow)} : \E ids \in {FailingIDs(cov.executed)} :
              /\ failing' = ids
              /\ Decide(slow, MarkRepaired(SettleCycle(cov, cycle, {}), failing),
                        SettleCycle(cov, cycle, ids))
    /\ UNCHANGED << wave, tree, saved, cycle, workers, starts >>

\* A command cannot be run at all: nothing of the pass is recorded or saved.
CannotRun ==
    /\ pc \in {"first", "again"} /\ mishaps < MaxMishaps
    /\ mishaps' = mishaps + 1
    /\ pc' = "over" /\ outcome' = "error"
    /\ UNCHANGED << wave, tree, saved, memory, workers, starts >>

\* The wave artifact is saved, whatever the verdict.
Save ==
    /\ pc = "saving"
    /\ saved' = coverage /\ pc' = "over"
    /\ UNCHANGED << wave, tree, memory, outcome, workers, bounds >>

\* The process is gone, with what it had in memory.
Gone ==
    /\ pc' = "idle" /\ outcome' = "none"
    /\ coverage' = None /\ failing' = {} /\ cycle' = 0

\* A failure to save a success is the loop's error; the wave stays pending
\* and is verified once more.
SaveFails ==
    /\ pc = "saving" /\ mishaps < MaxMishaps
    /\ mishaps' = mishaps + 1
    /\ IF outcome = "passed" THEN Gone ELSE pc' = "over" /\ UNCHANGED << memory, outcome >>
    /\ UNCHANGED << wave, tree, saved, workers, starts >>

\* The process dies; a verdict that was not yet acted on is forgotten.
Crash ==
    /\ pc # "idle" /\ mishaps < MaxMishaps /\ starts < MaxStarts
    /\ mishaps' = mishaps + 1
    /\ Gone
    /\ UNCHANGED << wave, tree, saved, workers, starts >>

Next ==
    \/ Start \/ FirstPass \/ Dispatch \/ WorkerDone \/ WorkerFails \/ RunAgain
    \/ CannotRun \/ Save \/ SaveFails \/ Crash

Spec == Init /\ [][Next]_vars

-----------------------------------------------------------------------------
PC == {"idle", "first", "repair", "worker", "again", "saving", "over"}

\* Types, and the budget: no more repair workers than cycles for each start.
TypeOK ==
    /\ changed \subseteq File /\ tools \in ToolSignals
    /\ merged \subseteq Jobs /\ tree \subseteq Jobs
    /\ saved = None \/ saved.closable \in BOOLEAN
    /\ pc \in PC /\ outcome \in {"none", "passed", "failed", "error"}
    /\ cycle \in 0..MaxWaveRepairCycles
    /\ workers <= MaxWaveRepairCycles * starts
    /\ starts \in 0..MaxStarts /\ mishaps \in 0..MaxMishaps

\* A wave passes on a tree in which every gate command succeeds as it is, and
\* of which every derived check succeeded the last time it was run.  A repair is
\* not followed by a run of the derived checks that had passed, so of those
\* nothing more can be said (runWaveVerificationLoop, derivedChecksByIDs).
GatePassed ==
    pc \in {"saving", "over"} /\ outcome = "passed" =>
        /\ tree \cap ToSet(Gate) = {}
        /\ Jobs # {} =>
             /\ {ID(j) : j \in Jobs} \subseteq Executed(coverage.executed)
             /\ FailingIDs(coverage.executed) = {}
             /\ \A r \in coverage.refs : r.result # "pending"

\* A repair reference says `repaired` in a cycle only when the check passed in
\* that cycle, and `failed` only when it failed in it
\* (markCycleCompleted, markCycleStillFailing).
RefsTellTheTruth ==
    coverage # None =>
        \A r \in coverage.refs : r.result # "pending" =>
            /\ r.check \in DOMAIN coverage.executed[r.cycle + 1]
            /\ coverage.executed[r.cycle + 1][r.check]
                 = IF r.result = "repaired" THEN "passed" ELSE "failed"

\* A repair worker is sent out, and a wave reported as failed, because of checks
\* that failed, and these are named (failingExecutionIDs, appendWaveRepairCycle,
\* markWaveCoverageFailed).
FailureHasCause ==
    /\ pc = "worker" => failing # {}
    /\ pc \in {"saving", "over"} /\ outcome = "failed" =>
         /\ coverage.reason # {}
         /\ FailingIDs(coverage.executed) \subseteq coverage.reason

\* What a verification has recorded it does not rewrite: neither executions nor
\* the outcome of an earlier repair (ValidationCoverageArtifact, "append-only").
HistoryKept ==
    [][coverage # None /\ coverage' # None =>
        /\ IsPrefix(coverage.executed, coverage'.executed)
        /\ \A r \in coverage.refs : r.result # "pending" => r \in coverage'.refs]_vars
=============================================================================
