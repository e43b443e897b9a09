------------------------------ MODULE EpicRun ------------------------------
(***************************************************************************)
(* The life of an epic's run as the commands see it: `verk run epic` with   *)
(* its ticket quality gate, plan review, waves and closure gate, `verk run` *)
(* resuming what .verk/current names, and the retry of blocked tickets      *)
(* (internal/engine/epic_run.go, epic_gate.go, epic_review.go, resume.go,   *)
(* internal/cli/run.go, run_blocked.go).                                    *)
(*                                                                         *)
(* What the waves do to tickets and trees is module WaveIntegration: here   *)
(* a wave settles some open children and changes the main tree.  A main     *)
(* tree is told apart only by whether the closure gate's checks and its     *)
(* reviewer have seen it as it is.                                          *)
(***************************************************************************)
EXTENDS Naturals, Sequences, SequencesExt

CONSTANTS
    Child,            \* the epic's tickets
    Check,            \* closure commands and the stale-wording check
    Finding,          \* what the epic reviewer may find, by stable ID
    MaxRepairCycles,  \* policy.max_epic_repair_cycles
    PlanMode,         \* epic_review.plan_mode
    None,             \* no artifact
    MaxStarts,        \* bound: commands
    MaxMishaps        \* bound: crashes, failing steps, reopenings

ASSUME EpicRunAssumption ==
    /\ MaxRepairCycles \in Nat /\ MaxStarts \in Nat /\ MaxMishaps \in Nat
    /\ PlanMode \in {"disabled", "shadow", "enforce"}
    /\ Check \cap Finding = {}

Item == Check \cup Finding
Blocked == {"retryable", "decision", "blocked"}  \* phase blocked, by outcome
ChildState == {"open", "closed"} \cup Blocked
Cycle == {"repair_pending", "repair_failed", "review_failed", "completed"}

\* epic-closure.json: a finding is kept by its ID and never forgotten.
Closure == [findings : [Item -> {"none", "open", "resolved"}],
            cycles : Seq(Cycle),
            closable : BOOLEAN,
            limit : BOOLEAN]     \* repair_limit: the cycles are used up

ASSUME NoneIsNoClosure == None \notin Closure

\* run.json
Run == [status : {"none", "running", "blocked", "waiting_on_leases", "completed"},
        pending : BOOLEAN]       \* pending_epic_gate

VARIABLES
    run, closure,     \* the files run.json and epic-closure.json
    plan,             \* epic-review-plan.json: absent, passed or with gaps
    child,            \* each child, in its snapshot and in the ticket store
    current,          \* what .verk/current names: nothing, an older run, this one
    checked,          \* history: the last closure checks ran on this main tree
    reviewed,         \* history: so did the last epic review
    dispatched,       \* history: repair workers the gate has sent out
    pc, resuming,     \* where the process stands; it is ResumeRun
    wave,             \* children of the wave in progress
    art,              \* the gate's closure artifact in memory
    failed,           \* closure checks that did not pass
    cycle,            \* the gate's repair cycle
    exit,             \* what the last command returned
    starts, mishaps

files == << run, closure, plan, child, current >>
history == << checked, reviewed, dispatched >>
gate == << art, failed, cycle >>
process == << pc, resuming, wave, gate, exit >>
bounds == << starts, mishaps >>
vars == << files, history, process, bounds >>

InGate == {"gate_init", "gate_checks", "gate_review", "gate_cycle",
           "gate_worker", "gate_rechecks", "gate_rereview"}
PC == InGate \cup
      {"idle", "quality", "plan", "plan_gap", "loop", "wave", "completed",
       "gate_failed", "gate_passed", "returned", "rescan", "rederive"}

NewClosure == [findings |-> [i \in Item |-> "none"], cycles |-> << >>,
               closable |-> FALSE, limit |-> FALSE]

Init ==
    /\ run = [status |-> "none", pending |-> FALSE]
    /\ closure = None /\ plan = "none" /\ current \in {"none", "older"}
    /\ child = [c \in Child |-> "open"]
    /\ checked = FALSE /\ reviewed = FALSE /\ dispatched = 0
    /\ pc = "idle" /\ resuming = FALSE /\ wave = {}
    /\ art = NewClosure /\ failed = {} /\ cycle = 0
    /\ exit = "none"
    /\ starts = 0 /\ mishaps = 0

-----------------------------------------------------------------------------
\* Steps of the commands.

GoTo(where) == pc' = where /\ UNCHANGED << resuming, wave, gate, exit >>

\* The process is done, with what it tells its caller.
Return(what) ==
    /\ pc' = IF what = "blocked" /\ ~resuming THEN "returned" ELSE "idle"
    /\ exit' = what
    /\ UNCHANGED << resuming, wave, gate >>

\* epicCompletionStatus over the store's statuses.
CompletionStatus ==
    CASE \E c \in Child : child[c] \in Blocked -> "blocked"
      [] \E c \in Child : child[c] = "open" -> "waiting_on_leases"
      [] OTHER -> "completed"

\* updateRunStatusFromTickets over the snapshots; one that is missing counts
\* as a ticket at work.
StatusFromTickets ==
    CASE \E c \in Child : child[c] \in Blocked -> "blocked"
      [] \E c \in Child : child[c] = "open" -> "running"
      [] OTHER -> "completed"

\* `verk run epic`; an engine caller may use the run's ID again.
RunEpic ==
    /\ pc = "idle" /\ starts < MaxStarts
    /\ starts' = starts + 1
    /\ run' = [status |-> "running", pending |-> FALSE]
    /\ pc' = "quality" /\ resuming' = FALSE /\ exit' = "none"
    /\ UNCHANGED << closure, plan, child, current, history, wave, gate, mishaps >>

QualityGate ==
    /\ pc = "quality"
    /\ \/ GoTo("plan") /\ UNCHANGED run
       \/ run' = [run EXCEPT !.status = "blocked"] /\ Return("blocked")
    /\ UNCHANGED << closure, plan, child, current, history, bounds >>

\* The review is skipped when it is disabled or its artifact exists; an adapter
\* that cannot be resolved only logs.
PlanReviewSkipped ==
    /\ pc = "plan"
    /\ GoTo("loop")
    /\ UNCHANGED << files, history, bounds >>

\* Findings, or a reviewer that fails; the latter leaves a passed artifact.
PlanReviewed ==
    /\ pc = "plan" /\ PlanMode # "disabled" /\ plan = "none"
    /\ \E verdict \in {"passed", "gap", "reviewer_error"} :
        /\ plan' = IF verdict = "gap" THEN "gap" ELSE "passed"
        /\ GoTo(IF PlanMode = "enforce" /\ verdict # "passed"
                THEN "plan_gap" ELSE "loop")
    /\ UNCHANGED << run, closure, child, current, history, bounds >>

PlanBlocks ==
    /\ pc = "plan_gap"
    /\ run' = [run EXCEPT !.status = "blocked"]
    /\ Return("blocked")
    /\ UNCHANGED << closure, plan, child, current, history, bounds >>

\* What blocked before is made ready again with each wave.
SettledAnew(batch, outcome) ==
    [c \in Child |-> IF c \in batch THEN outcome[c]
                     ELSE IF child[c] \in Blocked THEN "open" ELSE child[c]]

\* A wave's tickets end with their outcome; the others stay as they are.
Settled(batch, outcome) ==
    [c \in Child |-> IF c \in batch THEN outcome[c] ELSE child[c]]

\* BuildWave: dependencies, claims, scopes and the concurrency limit leave some of
\* the open children.
StartWave ==
    /\ pc = "loop"
    /\ wave' \in SUBSET {c \in Child : child[c] = "open"} \ {{}}
    /\ pc' = "wave"
    /\ UNCHANGED << files, history, resuming, gate, exit, bounds >>

\* The wave ends: its children are settled, or open still (or set back to it) where
\* they ended in an error; closed ones reach the main tree.  A wave with a child that
\* is not closed, or that does not pass, makes RunEpic return blocked; resume goes on.
Wave ==
    /\ pc = "wave"
    /\ \E settled \in [wave -> ChildState] :
          /\ child' = Settled(wave, settled)
          /\ \E t \in BOOLEAN :
              /\ t => \E c \in wave : settled[c] = "closed"
              /\ checked' = (checked /\ ~t) /\ reviewed' = (reviewed /\ ~t)
          /\ \E blocks \in BOOLEAN :
              /\ blocks \/ \A c \in wave : settled[c] = "closed"
              /\ IF blocks THEN run' = [run EXCEPT !.status = "blocked"]
                 ELSE UNCHANGED run
              /\ IF blocks /\ ~resuming THEN pc' = "returned" /\ exit' = "blocked"
                 ELSE pc' = "loop" /\ UNCHANGED exit
    /\ wave' = {}
    /\ UNCHANGED << closure, plan, current, dispatched, resuming, gate, bounds >>

\* No child is ready: all are settled, or the others wait for leases or
\* dependencies.  run.json says so before any closure gate.
NoneReady ==
    /\ pc = "loop"
    /\ run' = [run EXCEPT !.status = CompletionStatus]
    /\ CASE resuming -> GoTo("rederive")
         [] ~resuming /\ CompletionStatus = "completed" -> GoTo("completed")
         [] OTHER -> Return("blocked")
    /\ UNCHANGED << closure, plan, child, current, history, bounds >>

MarkGate ==
    /\ pc = "completed"
    /\ run' = [run EXCEPT !.pending = TRUE]
    /\ GoTo("gate_init")
    /\ UNCHANGED << closure, plan, child, current, history, bounds >>

GateBlocksRun ==
    /\ pc = "gate_failed"
    /\ run' = [run EXCEPT !.status = "blocked"]
    /\ Return("blocked")
    /\ UNCHANGED << closure, plan, child, current, history, bounds >>

GateClosesRun ==
    /\ pc = "gate_passed"
    /\ run' = [status |-> "completed", pending |-> FALSE]
    /\ current' = "this"
    /\ Return("success")
    /\ UNCHANGED << closure, plan, child, history, bounds >>

-----------------------------------------------------------------------------
\* runEpicClosureGate

\* What checks and review report in one round, blocking findings only.
Reported(found, err) == failed \cup (IF err THEN {} ELSE found)

\* mergeEpicFindings: upsert by ID, what is reported again is open again.
Merged(findings, fresh) ==
    [i \in Item |-> IF i \in fresh THEN "open" ELSE findings[i]]

\* resolveRepairedFindings: what the source no longer reports.
Resolved(findings, source, fresh) ==
    [i \in Item |-> IF i \in source \ fresh /\ findings[i] = "open"
                    THEN "resolved" ELSE findings[i]]

HasUnresolved(findings) == \E i \in Item : findings[i] = "open"

Close(a) == [a EXCEPT !.closable = TRUE, !.limit = FALSE]
Block(a, limit) == [a EXCEPT !.closable = FALSE, !.limit = limit]

SetLast(a, status) == [a EXCEPT !.cycles[Len(a.cycles)] = status]

\* The gate starts an artifact afresh and forgets what was found before.
LoadOrInitAfresh == NewClosure

\* The artifact of an earlier gate keeps its findings and cycles, not its verdict.
LoadOrInit == IF closure = None THEN NewClosure ELSE Block(closure, FALSE)

GateInit ==
    /\ pc = "gate_init"
    /\ art' = LoadOrInit /\ closure' = LoadOrInit
    /\ failed' = {} /\ cycle' = 0
    /\ pc' = "gate_checks"
    /\ UNCHANGED << run, plan, child, current, history, resuming, wave, exit, bounds >>

\* Without checks none can fail.
RunChecks(next) ==
    /\ \E f \in SUBSET Check : failed' = f
    /\ checked' = TRUE
    /\ pc' = next
    /\ UNCHANGED << files, reviewed, dispatched, resuming, wave, art, cycle, exit, bounds >>

GateChecks == pc = "gate_checks" /\ RunChecks("gate_review")
\* Only checks that failed before the repair are run again.
RechecksOnlyFailed ==
    /\ pc = "gate_rechecks"
    /\ \E f \in SUBSET failed : failed' = f
    /\ checked' = (checked \/ failed = Check)
    /\ pc' = "gate_rereview"
    /\ UNCHANGED << files, reviewed, dispatched, resuming, wave, art, cycle, exit, bounds >>

Rechecks == pc = "gate_rechecks" /\ RunChecks("gate_rereview")

\* The last cycle is followed by another.
JudgeOneMore(a) ==
    \/ /\ failed = {} /\ ~HasUnresolved(a.findings)
       /\ art' = Close(a) /\ pc' = "gate_passed"
    \/ /\ failed # {} \/ HasUnresolved(a.findings)
       /\ IF cycle <= MaxRepairCycles
          THEN art' = a /\ pc' = "gate_cycle"
          ELSE art' = Block(a, MaxRepairCycles > 0) /\ pc' = "gate_failed"

\* What the gate says of findings `found` in the artifact `a` it is left with.
Judge(a) ==
    \/ /\ failed = {} /\ ~HasUnresolved(a.findings)
       /\ art' = Close(a) /\ pc' = "gate_passed"
    \/ /\ failed # {} \/ HasUnresolved(a.findings)
       /\ IF cycle < MaxRepairCycles
          THEN art' = a /\ pc' = "gate_cycle"
          ELSE art' = Block(a, MaxRepairCycles > 0) /\ pc' = "gate_failed"

\* The first review: nothing an earlier gate left open is resolved by it.
GateReview ==
    /\ pc = "gate_review"
    /\ reviewed' = TRUE
    /\ \E found \in SUBSET Finding :
         \E err \in BOOLEAN :
           LET a == [art EXCEPT !.findings = Merged(@, Reported(found, err))] IN
           IF err
           THEN /\ art' = Block(a, FALSE) /\ pc' = "gate_failed"
                /\ closure' = art'
           ELSE /\ Judge(a)
                /\ IF pc' = "gate_cycle" THEN UNCHANGED closure ELSE closure' = art'
    /\ UNCHANGED << run, plan, child, current, checked, dispatched, resuming, wave,
                    failed, cycle, exit, bounds >>

\* The cycle is saved with its result only.
StartCycleUnsaved ==
    /\ pc = "gate_cycle"
    /\ cycle' = cycle + 1
    /\ art' = [art EXCEPT !.cycles = Append(@, "repair_pending")]
    /\ pc' = "gate_worker"
    /\ UNCHANGED << files, history, resuming, wave, failed, exit, bounds >>

\* The cycle is on disk before its worker is sent out.
StartCycle ==
    /\ pc = "gate_cycle"
    /\ cycle' = cycle + 1
    /\ art' = [art EXCEPT !.cycles = Append(@, "repair_pending")]
    /\ closure' = art'
    /\ pc' = "gate_worker"
    /\ UNCHANGED << run, plan, child, current, history, resuming, wave, failed, exit, bounds >>

\* The worker edits the main tree, whether it then succeeds or not.
RepairWorker ==
    /\ pc = "gate_worker"
    /\ dispatched' = dispatched + 1
    /\ \/ pc' = "gate_rechecks" /\ UNCHANGED << art, closure >>
       \/ /\ pc' = "gate_failed"
          /\ art' = Block(SetLast(art, "repair_failed"), FALSE)
          /\ closure' = art'
    /\ checked' = FALSE /\ reviewed' = FALSE
    /\ UNCHANGED << run, plan, child, current, resuming, wave, failed, cycle, exit, bounds >>

\* The review after a repair: what is not reported again is resolved, the
\* checks' findings also when the reviewer failed.
Rereview ==
    /\ pc = "gate_rereview"
    /\ reviewed' = TRUE
    /\ \E found \in SUBSET Finding :
         \E err \in BOOLEAN :
           LET heard == IF err THEN art.findings
                        ELSE Merged(Resolved(art.findings, Finding, found), found)
               all == Merged(Resolved(heard, Check, failed), failed)
               a == [art EXCEPT !.findings = all] IN
           IF err
           THEN /\ art' = Block(SetLast(a, "review_failed"), FALSE)
                /\ pc' = "gate_failed"
           ELSE Judge(SetLast(a, "completed"))
    /\ closure' = art'
    /\ UNCHANGED << run, plan, child, current, checked, dispatched, resuming, wave,
                    failed, cycle, exit, bounds >>

\* A file cannot be read or written, a check cannot be run, no adapter: the
\* artifact stays as it was saved last.
GateErrs ==
    /\ pc \in InGate /\ mishaps < MaxMishaps
    /\ mishaps' = mishaps + 1
    /\ GoTo("gate_failed")
    /\ UNCHANGED << files, history, starts >>

-----------------------------------------------------------------------------
\* The commands around it.

\* doRunEpic publishes the run, and offers a blocked one's retryable tickets
\* to an operator at a terminal.
Published ==
    /\ pc = "returned"
    /\ current' = "this"
    /\ pc' = "idle"
    /\ UNCHANGED << run, closure, plan, child, history, resuming, wave, gate, exit, bounds >>

Selectable == {c \in Child : child[c] = "retryable"}

\* One key or line per ticket; a cancelled prompt retries nothing.
Selections == SUBSET Selectable

Retry ==
    /\ pc = "returned" /\ starts < MaxStarts
    /\ starts' = starts + 1
    /\ \E chosen \in Selections \ {{}} :
        /\ child' = [c \in Child |-> IF c \in chosen THEN "open" ELSE child[c]]
    /\ current' = "this"
    /\ run' = [run EXCEPT !.status = StatusFromTickets']
    /\ pc' = "rescan" /\ resuming' = TRUE /\ exit' = "none"
    /\ UNCHANGED << closure, plan, history, wave, gate, mishaps >>

\* `verk run`: a completed run is left alone.  Without .verk/current the newest
\* run directory is taken.
AutoResume ==
    /\ pc = "idle" /\ starts < MaxStarts
    /\ run.status \notin {"none", "completed"} /\ current # "older"
    /\ starts' = starts + 1
    /\ pc' = "rescan" /\ resuming' = TRUE /\ exit' = "none"
    /\ UNCHANGED << files, history, wave, gate, mishaps >>

\* ResumeRun derives the status anew, and runs what is not completed, every
\* ticket that is not closed made ready again.
Rescan ==
    /\ pc = "rescan"
    /\ run' = [run EXCEPT !.status = StatusFromTickets]
    /\ IF StatusFromTickets \in {"running", "blocked"}
       THEN /\ child' = [c \in Child |-> IF child[c] = "closed" THEN "closed" ELSE "open"]
            /\ GoTo("loop")
       ELSE Return("success") /\ UNCHANGED child
    /\ UNCHANGED << closure, plan, current, history, bounds >>

Rederive ==
    /\ pc = "rederive"
    /\ run' = [run EXCEPT !.status = StatusFromTickets]
    /\ Return("success")
    /\ UNCHANGED << closure, plan, child, current, history, bounds >>

\* `verk reopen`, which takes no lock; here between two commands.
Reopen ==
    /\ pc = "idle" /\ run.status # "none" /\ mishaps < MaxMishaps
    /\ mishaps' = mishaps + 1
    /\ \E c \in Child :
        /\ child[c] \in {"closed"} \cup Blocked
        /\ child' = [child EXCEPT ![c] = "open"]
    /\ run' = [run EXCEPT !.status = StatusFromTickets']
    /\ UNCHANGED << closure, plan, current, history, process, starts >>

\* The process is killed, or a write fails outside the gate and it gives up.
Crash ==
    /\ pc # "idle" /\ mishaps < MaxMishaps
    /\ mishaps' = mishaps + 1
    /\ pc' = "idle" /\ exit' = "error" /\ wave' = {}
    /\ UNCHANGED << files, history, resuming, gate, starts >>

EngineStep ==
    \/ QualityGate \/ PlanReviewSkipped \/ PlanReviewed \/ PlanBlocks
    \/ StartWave \/ Wave \/ NoneReady \/ MarkGate \/ GateBlocksRun \/ GateClosesRun
    \/ GateInit \/ GateChecks \/ GateReview \/ StartCycle \/ RepairWorker
    \/ Rechecks \/ Rereview
    \/ Published \/ Rescan \/ Rederive

Next == RunEpic \/ EngineStep \/ GateErrs \/ Retry \/ AutoResume \/ Reopen \/ Crash

Spec == Init /\ [][Next]_vars /\ WF_vars(EngineStep)
-----------------------------------------------------------------------------
TypeOK ==
    /\ run \in Run
    /\ closure # None =>
        /\ DOMAIN closure = DOMAIN NewClosure
        /\ closure.findings \in [Item -> {"none", "open", "resolved"}]
        /\ \A n \in DOMAIN closure.cycles : closure.cycles[n] \in Cycle
    /\ plan \in {"none", "passed", "gap"}
    /\ child \in [Child -> ChildState]
    /\ current \in {"none", "older", "this"}
    /\ pc \in PC /\ wave \subseteq Child /\ failed \subseteq Check
    /\ cycle \in 0 .. MaxRepairCycles
    /\ exit \in {"none", "success", "blocked", "error"}
    /\ starts \in 0 .. MaxStarts /\ mishaps \in 0 .. MaxMishaps

\* An epic is reported closed by `verk run epic` only with a closable artifact
\* on disk, and when the closure checks and the reviewer had nothing left to say
\* of the main tree as it is, whatever was repaired in between
\* (epic_gate.go:58, the loop over repair cycles).
ClosesVerifiedTree ==
    ~resuming /\ exit = "success" =>
        /\ closure # None /\ closure.closable
        /\ ~HasUnresolved(closure.findings) /\ failed = {}
        /\ checked /\ reviewed

\* The artifact tells of every repair worker that was ever sent into the main
\* tree, so that a crash during a repair can be seen (epic_gate.go:204).
RepairsAnnounced == dispatched <= (IF closure = None THEN 0 ELSE Len(closure.cycles))

\* A finding on disk is never lost, in a retried gate either, and it is resolved
\* only when a repair was made and both the checks and the reviewer have seen
\* the repaired tree (epic_gate.go:1050, 1079).
FindingsSettle ==
    [][closure # None =>
        /\ closure' # None
        /\ \A i \in Item :
            /\ closure.findings[i] # "none" => closure'.findings[i] # "none"
            /\ closure.findings[i] = "open" /\ closure'.findings[i] = "resolved" =>
                /\ closure.cycles # << >> /\ Last(closure.cycles) = "repair_pending"
                /\ checked' /\ reviewed']_vars

\* A child that ends in an error is as open as before its wave.
ChildErrs == Wave /\ \E c \in wave : child'[c] = "open"

\* A command comes to an end, unless children err in it again and again: each wave
\* leaves fewer of them open, and the gate runs out of repair cycles (epic_gate.go:199).
\* (A resume goes on after a wave that failed, resume.go:813, and runs an erring child
\* again each time: without the first disjunct this is false.)
CommandEnds == []<><<ChildErrs>>_vars \/ (pc # "idle" ~> pc = "idle")

\* The closure gate is not bypassed: a run that is completed once its command
\* has ended passed the gate.  epic_run.go:417 says of a crash during the gate
\* that "the next run will find all children closed and re-enter the gate".
CompletedIsGated ==
    run.status = "completed" /\ pc = "idle" => closure # None /\ closure.closable

=============================================================================
