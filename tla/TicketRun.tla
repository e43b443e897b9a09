----------------------------- MODULE TicketRun -----------------------------
(***************************************************************************)
(* One ticket in one run: RunTicket (internal/engine/ticket_run.go), the    *)
(* snapshot and sidecar files it persists, the resume that restarts it from *)
(* them, and ReopenTicket, which edits the snapshot from another process.   *)
(*                                                                         *)
(* The worktree is a version number: a worker call makes a new version, and *)
(* verification, review and closeout record the version they judged.  The   *)
(* claim is module Claims; here its release either succeeds or fails.       *)
(***************************************************************************)
EXTENDS Integers

CONSTANTS
    MaxImplementationAttempts, \* policy.max_implementation_attempts
    MaxRepairCycles,           \* policy.max_repair_cycles
    MaxRuntimeRetries,         \* maxRuntimeRetryAttempts
    Epic,         \* the ticket is an epic's: its worktree is made per process
    NoArtifact,   \* no snapshot, verification, review or closeout
    MaxStarts,    \* bound: processes that run the ticket
    MaxReopens,   \* bound: `verk reopen` commands
    MaxLapses,    \* bound: waivers that lapse while closeout looks at them
    MaxTree       \* bound: versions of the worktree

Phase == {"intake", "implement", "verify", "review", "repair", "closeout",
          "closed", "blocked"}
Outcome == {"", "closed", "blocked", "needs_decision", "cancelled"}
Judgement == [passed : BOOLEAN, tree : Nat]      \* of a version of the worktree
Optional == Judgement \cup {NoArtifact}
Ticket == [phase : Phase, outcome : Outcome, attempts : Nat,
           checkCycles : Nat, reviewCycles : Nat,
           verification : Optional, review : Optional, closeout : Optional]

ASSUME TicketRunAssumption ==
    /\ MaxImplementationAttempts \in Nat \ {0}
    /\ MaxRepairCycles \in Nat
    /\ MaxRuntimeRetries \in Nat
    /\ Epic \in BOOLEAN
    /\ MaxStarts \in Nat /\ MaxReopens \in Nat
    /\ MaxLapses \in Nat /\ MaxTree \in Nat
    /\ NoArtifact \notin Judgement /\ NoArtifact \notin Ticket

VARIABLES
    pc,       \* where the process that runs the ticket stands
    then,     \* where it goes on when the persist in progress is done
    saved,    \* sidecars the persist in progress has dealt with
    tries,    \* retries of the runtime call in progress
    st,       \* ticketRunState, in memory
    snap,     \* ticket-run.json
    side,     \* the sidecar files
    tree,     \* the version of the worktree
    store,    \* the ticket's status in the ticket store
    edit,     \* the snapshot a reopen in progress is going to write
    goesOn,   \* the epic is run further, whatever this ticket's snapshot says
    starts, reopens, lapses     \* how often each has happened

memory == << then, saved, tries >>
op == << edit, reopens, goesOn >>
vars == << pc, memory, st, snap, side, tree, store, op, starts, lapses >>

PC == {"down", "gate", "loop", "worker", "verify", "constraints", "reviewer",
       "saving", "stop", "release", "return", "fail"}
Running == PC \ {"down"}

\* ticketRunState as RunTicket makes it, before a snapshot is restored.
NewTicket == [phase |-> "intake", outcome |-> "", attempts |-> 0,
              checkCycles |-> 0, reviewCycles |-> 0,
              verification |-> NoArtifact, review |-> NoArtifact,
              closeout |-> NoArtifact]
RepairCycles(t) == t.checkCycles + t.reviewCycles
Stopped(t) == t.phase \in {"closed", "blocked"}

\* The sidecars persist writes before the snapshot: repair cycles (a file each: what
\* counts is how many there are and what triggered them), implementation (it has the
\* number of attempts), verification, review, closeout.
Sidecars == 5

Init ==
    /\ pc = "down" /\ then = "loop" /\ saved = 0 /\ tries = 0
    /\ st = NewTicket
    /\ snap = NoArtifact
    /\ side = NewTicket
    /\ tree = 0
    /\ store = "ready"
    /\ edit = NoArtifact /\ goesOn = TRUE
    /\ starts = 0 /\ reopens = 0 /\ lapses = 0

-----------------------------------------------------------------------------
(* persist *)

\* The outcome a snapshot gets that the engine has set none for.
OutcomeForPhase(t) == IF Stopped(t) THEN t.phase ELSE ""
Snapshot(t) == [t EXCEPT !.outcome = IF @ # "" THEN @ ELSE OutcomeForPhase(t)]

\* The tail of an action: st' is persisted, then the process goes on at l.
PersistThen(l) == pc' = "saving" /\ then' = l /\ saved' = 0 /\ tries' = 0

\* The n-th sidecar is written; an artifact the ticket does not have is skipped.
Written(n, new, old, none) == IF saved + 1 = n /\ new # none THEN new ELSE old

SaveSidecar ==
    /\ pc = "saving" /\ saved < Sidecars
    /\ side' = [side EXCEPT
                   !.checkCycles  = Written(1, st.checkCycles, @, 0),
                   !.reviewCycles = Written(1, st.reviewCycles, @, 0),
                   !.attempts     = Written(2, st.attempts, @, 0),
                   !.verification = Written(3, st.verification, @, NoArtifact),
                   !.review       = Written(4, st.review, @, NoArtifact),
                   !.closeout     = Written(5, st.closeout, @, NoArtifact)]
    /\ saved' = saved + 1
    /\ UNCHANGED << pc, then, tries, st, snap, tree, store, op, starts, lapses >>

SaveSnapshot ==
    /\ pc = "saving" /\ saved = Sidecars
    /\ snap' = Snapshot(st)
    /\ pc' = then
    /\ UNCHANGED << memory, st, side, tree, store, op, starts, lapses >>

-----------------------------------------------------------------------------
(* Starting: a first run, resume, or the next wave of the epic *)

\* loadTicketSnapshot: what the snapshot lacks is taken from the sidecars.
Hydrated(s) ==
    [s EXCEPT
        !.verification = IF @ = NoArtifact THEN side.verification ELSE @,
        !.review       = IF @ = NoArtifact THEN side.review ELSE @,
        !.closeout     = IF @ = NoArtifact THEN side.closeout ELSE @,
        !.attempts     = IF @ = 0 THEN side.attempts ELSE @,
        !.checkCycles  = IF RepairCycles(s) = 0 THEN side.checkCycles ELSE @,
        !.reviewCycles = IF RepairCycles(s) = 0 THEN side.reviewCycles ELSE @]

\* The phase the caller asks for.  An epic always asks for intake.
PlanPhase ==
    IF snap = NoArtifact \/ Epic THEN "intake"
    ELSE IF snap.phase = "blocked" THEN "implement" ELSE snap.phase

\* RunTicket goes on in the snapshot's phase.
InSnapshotPhase ==
    /\ snap # NoArtifact
    /\ snap.phase = PlanPhase \/ (PlanPhase = "intake" /\ snap.phase # "blocked")

\* Mutant: a restart forgets how often the ticket was implemented.
RestoredAfresh ==
    IF snap = NoArtifact THEN NewTicket
    ELSE [Hydrated(snap) EXCEPT
             !.phase = IF InSnapshotPhase THEN @ ELSE PlanPhase,
             !.outcome = "", !.attempts = 0]

Restored ==
    IF snap = NoArtifact THEN NewTicket
    ELSE [Hydrated(snap) EXCEPT
             !.phase = IF InSnapshotPhase THEN @ ELSE PlanPhase,
             !.outcome = ""]

\* Resume takes up every ticket that is not closed.  An epic's scheduler goes by the
\* ticket store: it also takes up a closed ticket the store has as open or ready, but
\* no one asks it to once every ticket's snapshot is closed (the run is "completed").
Schedulable ==
    snap # NoArtifact /\ snap.phase = "closed"
        => Epic /\ goesOn /\ store \in {"open", "ready"}

\* The rest of the epic moves on.  It is run further while its process has not
\* ended, another ticket's snapshot is not closed or a wave is pending.
EpicChanges ==
    /\ Epic /\ pc = "down"
    /\ goesOn' = ~goesOn
    /\ UNCHANGED << pc, memory, st, snap, side, tree, store, edit, reopens,
                    starts, lapses >>

\* Mutant: as initial_v1.md:252 has it, a claimed ticket is in progress.
StatusWhenClaimed == "in_progress"

\* A resumed epic makes its tickets ready; a later wave of the same process takes an
\* open one as it is, which is scheduled alike.
StatusAtStart ==
    IF ~Epic THEN IF starts = 0 THEN "in_progress" ELSE store
    ELSE IF snap # NoArtifact /\ snap.phase = "closed" THEN store ELSE "ready"

\* RunTicket up to canStartTicketRunFromPhase.  An epic has made the ticket's
\* worktree afresh from the wave's base commit.
Start ==
    /\ pc = "down" /\ starts < MaxStarts /\ Schedulable
    /\ starts' = starts + 1
    /\ store' = StatusAtStart
    /\ st' = Restored
    /\ pc' = IF Restored.phase = "closed" THEN "fail" ELSE "gate"
    /\ tree' = IF Epic THEN tree + 1 ELSE tree
    /\ UNCHANGED << memory, snap, side, op, lapses >>

\* The quality gate and the intent gate look at a ticket at intake.
GatesBlock ==
    /\ pc = "gate" /\ st.phase = "intake"
    /\ st' = [st EXCEPT !.phase = "blocked", !.outcome = "blocked"]
    /\ PersistThen("release")
    /\ UNCHANGED << snap, side, tree, store, op, starts, lapses >>

GatesPass ==
    /\ pc = "gate" /\ st.phase = "intake"
    /\ st' = [st EXCEPT !.phase = "implement"]
    /\ PersistThen("loop")
    /\ UNCHANGED << snap, side, tree, store, op, starts, lapses >>

PastIntake ==
    /\ pc = "gate" /\ st.phase # "intake"
    /\ pc' = "loop"
    /\ UNCHANGED << memory, st, snap, side, tree, store, op, starts, lapses >>

-----------------------------------------------------------------------------
(* implement and repair *)

\* From here the worker may change the worktree at any time.
BeginWorker ==
    /\ pc = "loop" /\ st.phase \in {"implement", "repair"} /\ tree < MaxTree
    /\ pc' = "worker" /\ tries' = 0
    /\ tree' = tree + 1
    /\ UNCHANGED << then, saved, st, snap, side, store, op, starts, lapses >>

\* done, done_with_concerns.  executeVerification persists once more.
WorkerDone ==
    /\ pc = "worker"
    /\ st' = [st EXCEPT !.phase = "verify", !.attempts = @ + 1]
    /\ PersistThen("verify")
    /\ UNCHANGED << snap, side, tree, store, op, starts, lapses >>

\* needs_context, blocked.
WorkerBlocked ==
    /\ pc = "worker"
    /\ st' = [st EXCEPT !.phase = "blocked", !.outcome = "blocked",
                        !.attempts = @ + 1]
    /\ PersistThen("stop")
    /\ UNCHANGED << snap, side, tree, store, op, starts, lapses >>

\* Mutant: a retryable failure is retried however often there was one.
RuntimeRetryForever ==
    /\ pc \in {"worker", "reviewer"}
    /\ tries' = tries + 1
    /\ UNCHANGED << pc, then, saved, st, snap, side, tree, store, op, starts, lapses >>

\* A retryable failure of the worker or the reviewer.
RuntimeRetry ==
    /\ pc \in {"worker", "reviewer"} /\ tries < MaxRuntimeRetries
    /\ tries' = tries + 1
    /\ UNCHANGED << pc, then, saved, st, snap, side, tree, store, op, starts, lapses >>

\* Retries used up, the claim lost or operator input wanted: blockRuntimeExecution.
RuntimeBlocked ==
    /\ pc \in {"worker", "reviewer"}
    /\ \E o \in {"blocked", "cancelled"} :
          st' = [st EXCEPT !.phase = "blocked", !.outcome = o]
    /\ PersistThen("stop")
    /\ UNCHANGED << snap, side, tree, store, op, starts, lapses >>

-----------------------------------------------------------------------------
(* verify *)

BeginVerify ==
    /\ pc = "loop" /\ st.phase = "verify"
    /\ PersistThen("verify")
    /\ UNCHANGED << st, snap, side, tree, store, op, starts, lapses >>

\* A cycle is recorded for checks that fail; then the worker is asked again.
BackToImplement(t, checks) ==
    [t EXCEPT !.phase = "implement",
              !.checkCycles = IF checks THEN @ + 1 ELSE @]

\* Mutant: the last attempt is not the last.
HandleVerificationFailureOneMore(t, checks) ==
    IF t.attempts > MaxImplementationAttempts
    THEN [t EXCEPT !.phase = "blocked", !.outcome = "needs_decision"]
    ELSE BackToImplement(t, checks)

\* Mutant: a ticket that cannot be verified is tried again for ever.
HandleVerificationFailureAgain(t, checks) == BackToImplement(t, checks)

HandleVerificationFailure(t, checks) ==
    IF t.attempts >= MaxImplementationAttempts
    THEN [t EXCEPT !.phase = "blocked", !.outcome = "needs_decision"]
    ELSE BackToImplement(t, checks)

Verified(passed) == [passed |-> passed, tree |-> tree]

\* The result is persisted by itself before it is acted on (the four actions
\* below go on from what was persisted).
Verify ==
    /\ pc = "verify"
    /\ \E passed \in BOOLEAN :
          st' = [st EXCEPT !.verification = Verified(passed)]
    /\ PersistThen("constraints")
    /\ UNCHANGED << snap, side, tree, store, op, starts, lapses >>

\* A required check failed.
VerificationFailed ==
    /\ pc = "constraints" /\ ~st.verification.passed
    /\ st' = HandleVerificationFailure(st, TRUE)
    /\ PersistThen("loop")
    /\ UNCHANGED << snap, side, tree, store, op, starts, lapses >>

\* Only advisory checks failed: repaired as long as there are attempts left.
AdvisoryFailed ==
    /\ pc = "constraints" /\ st.verification.passed
    /\ st.attempts < MaxImplementationAttempts
    /\ st' = BackToImplement(st, TRUE)
    /\ PersistThen("loop")
    /\ UNCHANGED << snap, side, tree, store, op, starts, lapses >>

\* A compiled constraint fails the verification, and names no check.  (It is
\* persisted once with the failed verification alone, which only repeats Verify.)
ConstraintFailed ==
    /\ pc = "constraints" /\ st.verification.passed
    /\ st' = HandleVerificationFailure(
                 [st EXCEPT !.verification.passed = FALSE], FALSE)
    /\ PersistThen("loop")
    /\ UNCHANGED << snap, side, tree, store, op, starts, lapses >>

VerificationPassed ==
    /\ pc = "constraints" /\ st.verification.passed
    /\ st' = [st EXCEPT !.phase = "review"]
    /\ PersistThen("loop")
    /\ UNCHANGED << snap, side, tree, store, op, starts, lapses >>

-----------------------------------------------------------------------------
(* review and closeout *)

BeginReviewer ==
    /\ pc = "loop" /\ st.phase = "review"
    /\ pc' = "reviewer" /\ tries' = 0
    /\ UNCHANGED << then, saved, st, snap, side, tree, store, op, starts, lapses >>

\* BuildCloseoutArtifact, of a passed verification and a passed review.  A waived
\* finding whose waiver lapses on the way fails its review gate.
Closeout(closable) == [passed |-> closable, tree |-> st.verification.tree]
Lapsed(closable) == lapses' = IF closable THEN lapses ELSE lapses + 1

\* Mutant: a closeout that is there is kept.
ReviewPassedKeepsCloseout ==
    /\ pc = "reviewer"
    /\ \E closable \in BOOLEAN :
          /\ closable \/ lapses < MaxLapses
          /\ Lapsed(closable)
          /\ st' = [st EXCEPT !.phase = "closeout", !.review = Verified(TRUE),
                              !.closeout = IF @ = NoArtifact THEN Closeout(closable)
                                           ELSE @]
    /\ PersistThen("loop")
    /\ UNCHANGED << snap, side, tree, store, op, starts >>

ReviewPassed ==
    /\ pc = "reviewer"
    /\ \E closable \in BOOLEAN :
          /\ closable \/ lapses < MaxLapses
          /\ Lapsed(closable)
          /\ st' = [st EXCEPT !.phase = "closeout", !.review = Verified(TRUE),
                              !.closeout = Closeout(closable)]
    /\ PersistThen("loop")
    /\ UNCHANGED << snap, side, tree, store, op, starts >>

\* Mutant: a ticket the review has blocked is returned before it is persisted.
ReviewBlocksUnsaved ==
    /\ pc = "reviewer"
    /\ LET t == [st EXCEPT !.review = Verified(FALSE), !.reviewCycles = @ + 1]
       IN  IF RepairCycles(t) > MaxRepairCycles
           THEN /\ st' = [t EXCEPT !.phase = "blocked", !.outcome = "needs_decision"]
                /\ pc' = "release" /\ tries' = 0
                /\ UNCHANGED << then, saved >>
           ELSE /\ st' = [t EXCEPT !.phase = "repair"]
                /\ PersistThen("loop")
    /\ UNCHANGED << snap, side, tree, store, op, starts, lapses >>

\* Blocking findings: a repair cycle, unless that is one too many.  All cycles
\* count, also those verification made.
ReviewBlocks ==
    /\ pc = "reviewer"
    /\ LET t == [st EXCEPT !.review = Verified(FALSE), !.reviewCycles = @ + 1]
       IN  IF RepairCycles(t) > MaxRepairCycles
           THEN /\ st' = [t EXCEPT !.phase = "blocked", !.outcome = "needs_decision"]
                /\ PersistThen("release")
           ELSE /\ st' = [t EXCEPT !.phase = "repair"]
                /\ PersistThen("loop")
    /\ UNCHANGED << snap, side, tree, store, op, starts, lapses >>

CloseTicket ==
    /\ pc = "loop" /\ st.phase = "closeout"
    /\ st' = [st EXCEPT !.phase = IF st.closeout.passed THEN "closed" ELSE "repair"]
    /\ PersistThen("loop")
    /\ UNCHANGED << snap, side, tree, store, op, starts, lapses >>

-----------------------------------------------------------------------------
(* Leaving *)

Stop ==
    /\ pc = "stop" \/ (pc = "loop" /\ Stopped(st))
    /\ PersistThen("release")
    /\ UNCHANGED << st, snap, side, tree, store, op, starts, lapses >>

Release ==
    /\ pc = "release"
    /\ pc' = "return"
    /\ UNCHANGED << memory, st, snap, side, tree, store, op, starts, lapses >>

\* Every `return err`: a cancelled context, an agent or git error, a result that
\* does not validate, a closeout that cannot be built, a save or release that fails.
Fails ==
    /\ pc \in {"gate", "loop", "worker", "verify", "reviewer", "saving", "release"}
    /\ pc' = "fail"
    /\ UNCHANGED << memory, st, snap, side, tree, store, op, starts, lapses >>

\* The deferred store update, from the phase in memory; a failure is only logged.
UpdateStatus ==
    /\ pc \in {"return", "fail"}
    /\ store' \in {store, IF Stopped(st) THEN st.phase ELSE "open"}
    /\ pc' = "down" /\ st' = NewTicket
    /\ then' = "loop" /\ saved' = 0 /\ tries' = 0
    /\ UNCHANGED << snap, side, tree, op, starts, lapses >>

\* The process is killed.
Crash ==
    /\ pc # "down"
    /\ pc' = "down" /\ st' = NewTicket
    /\ then' = "loop" /\ saved' = 0 /\ tries' = 0
    /\ UNCHANGED << snap, side, tree, store, op, starts, lapses >>

-----------------------------------------------------------------------------
(* ReopenTicket: it takes no run lock, so the ticket may be running *)

ReopenTargets(phase) == IF phase = "blocked" THEN {"implement", "repair"}
                        ELSE IF phase = "closed" THEN {"repair"} ELSE {}

ReopenRead ==
    /\ edit = NoArtifact /\ reopens < MaxReopens
    /\ snap # NoArtifact
    /\ \E to \in ReopenTargets(snap.phase) :
          edit' = [Hydrated(snap) EXCEPT !.phase = to]
    /\ reopens' = reopens + 1
    /\ UNCHANGED << pc, memory, st, snap, side, tree, store, goesOn, starts, lapses >>

\* The transition commit, then the ticket store.
ReopenCommit ==
    /\ edit # NoArtifact
    /\ snap' = edit
    /\ edit' = NoArtifact
    /\ store' \in {store, "ready"}
    /\ UNCHANGED << pc, memory, st, side, tree, reopens, goesOn, starts, lapses >>

-----------------------------------------------------------------------------
Persist   == SaveSidecar \/ SaveSnapshot
Gate      == GatesBlock \/ GatesPass \/ PastIntake
Worker    == BeginWorker \/ WorkerDone \/ WorkerBlocked
Verifier  == BeginVerify \/ Verify \/ VerificationFailed \/ AdvisoryFailed
             \/ ConstraintFailed \/ VerificationPassed
Reviewer  == BeginReviewer \/ ReviewPassed \/ ReviewBlocks \/ CloseTicket
Runtime   == RuntimeRetry \/ RuntimeBlocked
Leave     == Stop \/ Release \/ UpdateStatus
RunTicket == Persist \/ Gate \/ Worker \/ Verifier \/ Reviewer \/ Runtime \/ Leave
Reopen    == ReopenRead \/ ReopenCommit

Next == Start \/ RunTicket \/ Fails \/ Crash \/ Reopen \/ EpicChanges

Spec == Init /\ [][Next]_vars

\* The process takes its steps: agent calls and verification commands have
\* timeouts, the rest is local.  Nothing need start, fail, crash or be reopened.
FairSpec == Spec /\ WF_vars(RunTicket)
-----------------------------------------------------------------------------
(* Properties *)

\* The type invariant.
TypeOK ==
    /\ pc \in PC /\ then \in {"loop", "verify", "constraints", "stop", "release"}
    /\ saved \in 0 .. Sidecars /\ tries \in 0 .. MaxRuntimeRetries
    /\ st \in Ticket /\ side \in Ticket
    /\ snap \in Ticket \cup {NoArtifact} /\ edit \in Ticket \cup {NoArtifact}
    /\ tree \in Nat
    /\ store \in {"ready", "open", "in_progress", "blocked", "closed"}
    /\ starts \in Nat /\ reopens \in Nat /\ lapses \in Nat
    /\ goesOn \in BOOLEAN

\* The version of the worktree that is there passed verification, passed review
\* and was found closable, in that order.
Vouched(a)   == a # NoArtifact /\ a.passed /\ a.tree = tree
Complete(t) == Vouched(t.verification) /\ Vouched(t.review) /\ Vouched(t.closeout)

\* "closed: implementation and verification complete" (docs/ticket-state-machine.md):
\* what a closed ticket's artifacts vouch for is the worktree as it is, however
\* many repairs, crashes, resumes, failed saves and reopenings it took.
ClosedIsVerified ==
    snap # NoArtifact /\ snap.phase = "closed" => Complete(snap)

\* No run asks for more attempts than the policy allows: beyond them each blocking
\* review (or lapsed waiver), each restart and each reopening buys one at most.
BudgetKept ==
    pc # "down" =>
        st.attempts <= MaxImplementationAttempts + st.reviewCycles + lapses
                       + (starts - 1) + reopens

\* The persisted counters that budgets are read from never go back: no crash,
\* failed save or resume gives a ticket attempts or cycles it has used up.
BudgetNotForgotten ==
    [][snap # NoArtifact => /\ snap' # NoArtifact
                            /\ snap'.attempts >= snap.attempts
                            /\ RepairCycles(snap') >= RepairCycles(snap)]_vars

\* RunTicket returns without an error only when the ticket has stopped and the
\* snapshot on disk says so, with the outcome and artifacts it returns.
ReturnedIsRecorded == pc = "return" => Stopped(st) /\ snap = Snapshot(st)

\* A process that runs a ticket gets to the end of it: no verification, review,
\* repair or runtime failure is answered by another round for ever.
Terminates == (pc # "down") ~> (pc = "down")

\* initial_v1.md:254: successful closeout -> `closed` in the ticket store.  As long as
\* the epic is run further, a crash before the deferred write or a failure of it
\* strands no closed ticket: the store knows, or the scheduler takes the ticket up
\* once more and the write is tried again.
ClosedReachesStore ==
    snap # NoArtifact /\ snap.phase = "closed" /\ pc = "down" /\ goesOn
        => store = "closed" \/ Schedulable

\* The same for good, as the document says it.  Not of this code: with nothing else
\* of the epic left, no one tells the store what the last ticket's process did not.
ClosedIsInStore ==
    snap # NoArtifact /\ snap.phase = "closed" /\ pc = "down" /\ ~Schedulable
        => store = "closed"
=============================================================================
