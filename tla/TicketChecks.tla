----------------------------- MODULE TicketChecks -----------------------------
(***************************************************************************)
(* What one ticket's worktree is checked for, check by check: verification  *)
(* and its coverage record (internal/engine/ticket_validation.go), compiled *)
(* constraints, what the reviewer is shown (review_delta.go) and the gates  *)
(* of closeout (closeout.go).  Module TicketRun has each of these as one    *)
(* verdict, and the process around them.                                    *)
(*                                                                         *)
(* The worktree is what its files contain and the set of its defects: the   *)
(* commands that would fail in it (of the sweep for stale wording: that     *)
(* there is some) and the constraints that it breaks.                       *)
(***************************************************************************)
EXTENDS DerivedChecks, ValidationCoverage, SequencesExt

CONSTANTS
    Plan,                 \* what tickets ask for
    Terms,                \* the closure gate has stale wording terms
    Constraint, Kind,     \* compiled constraints: "grep" or "command"
    Isolated,             \* the ticket has a worktree of its own
    MaxImplementationAttempts, MaxRepairCycles,
    Content,              \* what a file may contain, Base at first
    None,
    MaxErrors, MaxMishaps \* bounds: runs that fail; slow commands, lapsed waivers

Base == "base"

\* Quality commands are every ticket's; validation commands and declared checks
\* are its own.  It may be about documentation.
Asks(quality, validation, declared, docs) ==
    [quality |-> quality, validation |-> validation, declared |-> declared, docs |-> docs]

\* The sweep for stale wording is the engine's, no ticket asks for it.
ASSUME TicketChecksAssumption ==
    /\ \A p \in Plan : /\ p = Asks(p.quality, p.validation, p.declared, p.docs)
                       /\ StaleWording \notin p.quality \cup p.validation
    /\ Base \in Content
    /\ Terms \in BOOLEAN /\ Isolated \in BOOLEAN
    /\ Kind \in [Constraint -> {"grep", "command"}]
    /\ MaxImplementationAttempts \in Nat \ {0} /\ MaxRepairCycles \in Nat
    /\ MaxErrors \in Nat /\ MaxMishaps \in Nat

VARIABLES
    plan, tools,   \* the ticket's plan; the linters that are installed
    content,       \* of each file of the worktree
    defects,       \* of the worktree
    baseline,      \* its content before the last worker call, or None
    phase,
    verification, review, closeout,
    cycles,        \* repair cycles, in order
    attempts,
    saved,         \* the review as it was persisted
    seen,          \* history: what of each file reviewers were shown last
    errors, mishaps

ticket == << plan, tools >>
worktree == << content, defects, baseline >>
artifacts == << verification, review, saved, closeout, cycles >>
bounds == << errors, mishaps >>
vars == << ticket, worktree, phase, artifacts, attempts, seen, bounds >>

Changed(files) == {f \in File : files[f] # Base}

\* Declared checks are not derived, nor are they run.
Derived(files) ==
    DeriveChecks(Changed(files), tools, plan.docs, Terms,
                 plan.validation \cup plan.declared, FALSE)

Declared == plan.quality \cup plan.validation

\* What may be wrong with a worktree that has these files.
Possible(files) == Declared \cup plan.declared \cup Derived(files) \cup Constraint

Init ==
    /\ plan \in Plan /\ tools \in SUBSET {l \in Linter : \E f \in File : Lints(l, f)}
    /\ content = [f \in File |-> Base] /\ defects = {}
    /\ baseline = None
    /\ phase = "implement"
    /\ verification = None /\ review = None /\ closeout = None
    /\ cycles = << >> /\ attempts = 0 /\ saved = None
    /\ seen = content
    /\ errors = 0 /\ mishaps = 0

-----------------------------------------------------------------------------
\* Worker.

RepairCycle(checks, findings) ==
    [checks |-> checks, findings |-> findings, result |-> "pending"]

\* The cycles that verification started (filterVerificationRepairCycles).
Retries == {n \in DOMAIN cycles : cycles[n].checks # {}}

\* A retry is told the checks of the last of them; a repair is told the review's
\* findings.
ChecksToFix ==
    IF phase = "implement" /\ attempts > 0 /\ Retries # {}
    THEN cycles[Max(Retries)].checks ELSE {}

Worker ==
    /\ phase \in {"implement", "repair"}
    /\ baseline' = content
    /\ content' \in [File -> Content]
    /\ defects' \in SUBSET Possible(content')
    /\ attempts' = attempts + 1
    /\ phase' = "verify"
    /\ UNCHANGED << ticket, artifacts, seen, bounds >>

-----------------------------------------------------------------------------
\* Verification.

Fails(c, slow) ==
    \/ c \in slow
    \/ IF c = StaleWording THEN SweepFails(c \in defects, FALSE) ELSE c \in defects

\* Mutant of Execute: what passed in the last verification is not run again.
ExecuteFailed(slow) ==
    LET last == IF verification = None THEN << >> ELSE verification.coverage.executed
    IN  [c \in {d \in Declared \cup Derived(content) :
                   d \in DOMAIN last => last[d] = "failed"} |-> ResultOf(Fails(c, slow))]

\* One run of every check: the pass that the coverage record is made from.
Execute(slow) == [c \in Declared \cup Derived(content) |-> ResultOf(Fails(c, slow))]

Passed(checks, executed) == \A c \in checks \cap DOMAIN executed : executed[c] = "passed"

\* Mutant of Verdict: derived checks are required.
VerdictOfAll(derived, executed) == Passed(Declared \cup derived, executed)

\* All derived checks are advisory, so that only the declared ones count.
Verdict(derived, executed) == Passed(Declared, executed)

Blocks(finding, lapsed) == finding = "blocking" \/ (lapsed /\ finding = "waived")

\* Blockers are the checks that failed and what the last review found.
Blockers(derived, executed) ==
    [checks |-> {c \in DOMAIN executed \ derived : executed[c] = "failed"},
     findings |-> IF review = None THEN {} ELSE {f \in review.findings : Blocks(f, FALSE)}]
NoBlockers == [checks |-> {}, findings |-> {}]

Coverage(derived, executed) ==
    [derived |-> derived,
     declared |-> IF plan.validation # {} THEN plan.validation ELSE plan.declared,
     skipped |-> Skipped(Changed(content), tools, plan.docs, Terms),
     executed |-> executed,
     blockers |-> Blockers(derived, executed),
     refs |-> cycles,
     limit |-> FALSE,
     closable |-> Blockers(derived, executed) = NoBlockers]

Verify ==
    /\ phase = "verify"
    /\ \E slow \in {{}} \cup {{c} : c \in Declared \cup Derived(content)} :
         /\ slow # {} => mishaps < MaxMishaps
         /\ mishaps' = mishaps + Cardinality(slow)
         /\ \E derived \in {Derived(content)} : \E executed \in {Execute(slow)} :
              verification' = [passed |-> Verdict(derived, executed),
                               coverage |-> Coverage(derived, executed)]
    /\ phase' = "verified"
    /\ UNCHANGED << ticket, worktree, review, saved, closeout, cycles, attempts, seen, errors >>

\* The checks whose only execution of this verification failed.
FailingCheckIDs == FailingIDs(<< verification.coverage.executed >>)
AdvisoryFailing == FailingCheckIDs \cap verification.coverage.derived

\* A retry without a failing check is not recorded as a cycle.
AppendCycle(checks) ==
    cycles' = IF checks = {} THEN cycles ELSE Append(cycles, RepairCycle(checks, {}))

\* Mutant of HandleFailure: one attempt too many.
HandleFailureOneMore(checks) ==
    IF attempts > MaxImplementationAttempts
    THEN /\ phase' = "blocked"
         /\ verification' = [verification EXCEPT !.passed = FALSE, !.coverage.limit = TRUE,
                                                 !.coverage.closable = FALSE]
         /\ UNCHANGED cycles
    ELSE /\ phase' = "implement"
         /\ verification' = [verification EXCEPT !.passed = FALSE]
         /\ AppendCycle(checks)

\* Back to the worker with a cycle for what failed, or out of attempts.
HandleFailure(checks) ==
    IF attempts >= MaxImplementationAttempts
    THEN /\ phase' = "blocked"
         /\ verification' = [verification EXCEPT !.passed = FALSE, !.coverage.limit = TRUE,
                                                 !.coverage.closable = FALSE]
         /\ UNCHANGED cycles
    ELSE /\ phase' = "implement"
         /\ verification' = [verification EXCEPT !.passed = FALSE]
         /\ AppendCycle(checks)

CheckFails ==
    /\ phase = "verified" /\ ~verification.passed
    /\ HandleFailure(FailingCheckIDs)
    /\ UNCHANGED << ticket, worktree, review, saved, closeout, attempts, seen, bounds >>

AdvisoryRepair ==
    AdvisoryFailing # {} /\ attempts < MaxImplementationAttempts

\* Mutant of AdvisoryFails: nobody is told what failed.
AdvisoryFailsUnnamed ==
    /\ phase = "verified" /\ verification.passed /\ AdvisoryRepair
    /\ phase' = "implement"
    /\ UNCHANGED << ticket, worktree, artifacts, attempts, seen, bounds >>

\* Advisory checks send a ticket back as long as there are attempts.
AdvisoryFails ==
    /\ phase = "verified" /\ verification.passed /\ AdvisoryRepair
    /\ phase' = "implement"
    /\ AppendCycle(AdvisoryFailing)
    /\ UNCHANGED << ticket, worktree, verification, review, saved, closeout, attempts, seen,
                    bounds >>

\* The constraints that fail: a command that exits with an error counts as one
\* that could not be run, and a grep looks at the main tree.
FailingConstraints(elsewhere) ==
    {c \in Constraint : Kind[c] = "grep"
                        /\ IF Isolated THEN c \in elsewhere ELSE c \in defects}

\* A constraint that runs out of time, or gets none, does not count.
Constraints ==
    /\ phase = "verified" /\ verification.passed /\ ~AdvisoryRepair
    /\ \E slow \in {{}} \cup {{c} : c \in Constraint} :
         /\ slow # {} => mishaps < MaxMishaps
         /\ mishaps' = mishaps + Cardinality(slow)
         /\ \E elsewhere \in IF Isolated THEN SUBSET Constraint ELSE {{}} :
              IF FailingConstraints(elsewhere) \ slow = {}
              THEN phase' = "review" /\ UNCHANGED << verification, cycles >>
              ELSE HandleFailure(FailingCheckIDs)
    /\ UNCHANGED << ticket, worktree, review, saved, closeout, attempts, seen, errors >>

-----------------------------------------------------------------------------
\* Review.

\* The files whose content is not what it was before the last worker call; all
\* that changed, when nobody remembers what was before.
ReviewDelta ==
    IF baseline = None THEN Changed(content) ELSE {f \in File : content[f] # baseline[f]}

Shown == seen' = [f \in File |-> IF f \in ReviewDelta THEN content[f] ELSE seen[f]]

\* What a finding below the threshold says makes no difference.
Findings == SUBSET {"blocking", "resolved", "waived"}

ReviewBlocks ==
    /\ phase = "review"
    /\ \E findings \in Findings :
         LET blocking == {f \in findings : Blocks(f, FALSE)}
             cycle == RepairCycle({}, blocking)
         IN  /\ blocking # {}
             /\ review' = [findings |-> findings, passed |-> FALSE]
             /\ saved' = review'
             /\ IF Len(cycles) + 1 > MaxRepairCycles
                THEN /\ phase' = "blocked"
                     /\ cycles' = Append(cycles, [cycle EXCEPT !.result = "failed"])
                ELSE phase' = "repair" /\ cycles' = Append(cycles, cycle)
    /\ Shown
    /\ UNCHANGED << ticket, worktree, verification, closeout, attempts, bounds >>

-----------------------------------------------------------------------------
\* Closeout.

\* Mutant of RequiredCoveragePassed: an advisory check counts as any other.
RequiredCoveragePassedByAll(coverage) ==
    /\ DOMAIN coverage.executed # {}
    /\ Passed(DOMAIN coverage.executed, coverage.executed)

\* The verdict, once more from the coverage record; nothing run is no pass.
RequiredCoveragePassed(coverage) ==
    /\ DOMAIN coverage.executed # {}
    /\ Passed(DOMAIN coverage.executed \ coverage.derived, coverage.executed)

\* A resolved finding needs evidence, which no reviewer can give: the result of
\* a review has no place for it.
FindingsValid(findings) == "resolved" \notin findings

Integrity(findings, lapsed) ==
    /\ FindingsValid(findings)
    /\ ~\E f \in findings : Blocks(f, lapsed)
    /\ verification.passed = RequiredCoveragePassed(verification.coverage)

\* Evidence for the criteria: verification if every command passed, the advisory
\* ones too; the review otherwise.
Evidence ==
    IF DOMAIN verification.coverage.executed # {} /\ FailingCheckIDs = {}
    THEN "verification" ELSE "review"

\* The gates that are left when the artifacts are consistent and the verification
\* is theirs: the review's, if a waiver lapses while they are looked at.
FailedGate(findings, lapsed) ==
    IF \E f \in findings : Blocks(f, lapsed) THEN "review" ELSE "none"

Closeout(gate) ==
    [gate |-> gate, evidence |-> Evidence,
     coverage |-> [verification.coverage EXCEPT !.closable = gate = "none"]]

\* Status of the last repair cycle, whatever had started it.
LastCompleted ==
    IF cycles = << >> THEN cycles ELSE [cycles EXCEPT ![Len(cycles)].result = "repaired"]

\* No finding blocks.  A closeout that cannot be built ends the run with an error:
\* the phase that was saved is still review, and the next run knows no baseline.
ReviewPasses ==
    /\ phase = "review"
    /\ \E findings \in {s \in Findings : ~\E f \in s : Blocks(f, FALSE)} :
       \E lapses \in {"never"} \cup IF "waived" \in findings THEN {"early", "late"} ELSE {} :
         /\ lapses # "never" => mishaps < MaxMishaps
         /\ mishaps' = mishaps + IF lapses = "never" THEN 0 ELSE 1
         /\ review' = [findings |-> findings, passed |-> TRUE]
         /\ IF Integrity(findings, lapses = "early")
            THEN /\ saved' = review'
                 /\ cycles' = LastCompleted
                 /\ closeout' = Closeout(FailedGate(findings, lapses = "late"))
                 /\ phase' = "closeout"
                 /\ UNCHANGED << baseline, errors >>
            ELSE /\ errors < MaxErrors /\ errors' = errors + 1
                 /\ phase' = "error" /\ baseline' = None
                 /\ UNCHANGED << saved, cycles, closeout >>
    /\ Shown
    /\ UNCHANGED << ticket, content, defects, verification, attempts >>

\* A resume takes it up in review, with the review that was saved before.
Resume ==
    /\ phase = "error"
    /\ phase' = "review" /\ review' = saved
    /\ UNCHANGED << ticket, worktree, verification, saved, closeout, cycles, attempts, seen,
                    bounds >>

Close ==
    /\ phase = "closeout"
    /\ phase' = IF closeout.gate = "none" THEN "closed" ELSE "repair"
    /\ UNCHANGED << ticket, worktree, artifacts, attempts, seen, bounds >>

Next ==
    \/ Worker \/ Verify \/ CheckFails \/ AdvisoryFails \/ Constraints
    \/ ReviewBlocks \/ ReviewPasses \/ Resume \/ Close

Spec == Init /\ [][Next]_vars
-----------------------------------------------------------------------------
\* Types; the attempts beyond the policy's are those that findings asked for.
TypeOK ==
    /\ plan \in Plan /\ tools \in ToolSignals
    /\ content \in [File -> Content] /\ defects \subseteq Possible(content)
    /\ baseline \in [File -> Content] \cup {None}
    /\ phase \in {"implement", "verify", "verified", "review", "repair", "closeout",
                  "closed", "blocked", "error"}
    /\ verification # None => verification.passed \in BOOLEAN
    /\ Len(cycles) <= MaxImplementationAttempts + MaxRepairCycles
    /\ attempts <= MaxImplementationAttempts + mishaps
                   + Cardinality({n \in DOMAIN cycles : cycles[n].findings # {}})

\* A ticket closes on a worktree in which every quality and validation command
\* succeeds as it is; of the derived checks one fails only if there were no
\* attempts left to repair it; a constraint is broken only if it ran out of time
\* (executeVerification, handleReviewOutcome).
ClosedIsChecked ==
    phase = "closed" =>
        /\ defects \cap Declared = {}
        /\ DOMAIN verification.coverage.executed = Declared \cup Derived(content)
        /\ (\E c \in Derived(content) : Fails(c, {})) => attempts >= MaxImplementationAttempts
        /\ mishaps = 0 /\ ~Isolated => {c \in defects \cap Constraint : Kind[c] = "grep"} = {}

\* The verdict of the verification and the one closeout derives from its record
\* agree: a closeout that cannot be built had nothing executed, or a finding
\* that is resolved or whose waiver lapsed (validateArtifactIntegrity).
CloseoutBuilds ==
    phase = "error" =>
        \/ DOMAIN verification.coverage.executed = {}
        \/ review.findings \cap {"resolved", "waived"} # {}

\* Advisory checks never block a ticket by themselves: one that is blocked for
\* what was checked has a declared check that failed or breaks a constraint
\* ("Advisory checks ... never block closure by themselves").
AdvisoryOnlyAdvises ==
    phase = "blocked" /\ verification.coverage.limit =>
        \/ \E c \in Declared : verification.coverage.executed[c] = "failed"
        \/ FailingConstraints(Constraint) # {}

\* A worker that is called again because checks failed is told these checks and
\* no others, however many cycles of either kind went before
\* (buildImplementPhaseInstructions, appendVerificationRepairCycle).
RetryNamesFailures ==
    phase = "implement" /\ attempts > 0 /\ FailingCheckIDs # {} =>
        ChecksToFix = FailingCheckIDs

\* "requires one fresh-context independent review before ticket closure"
\* (docs/plans/done/initial_v1.md:15): what a ticket changed a reviewer was shown.
ClosedIsReviewed ==
    phase = "closed" => \A f \in Changed(content) : seen[f] = content[f]
=============================================================================
