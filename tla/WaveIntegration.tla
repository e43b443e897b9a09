-------------------------- MODULE WaveIntegration ---------------------------
(***************************************************************************)
(* The waves of an epic: RunEpic's and resumeEpicMode's loop, wave          *)
(* verification with its repair cycles, and the integration transaction,    *)
(* which takes the work of a wave's closed tickets from their frozen refs    *)
(* through the integration worktree and the run's hidden base ref to the    *)
(* main tree, is announced in run.json and replayed after a crash           *)
(* (internal/engine/epic_run.go, resume.go, wave_verify.go, worktree.go).   *)
(*                                                                         *)
(* A tree is the set of changes made to the run's first commit, and a       *)
(* commit is its tree.  <<t, k>> is the k-th commit a worker made in t's    *)
(* worktree; <<t, 0>> is what a repair of a wave of t changed.  How a       *)
(* ticket comes to be closed is module TicketRun; sub-epics are left out.   *)
(***************************************************************************)
EXTENDS Integers, FiniteSets

CONSTANTS
    Ticket,
    Checked,          \* tickets whose files some wave check covers
    MaxCommits,       \* commits a worker makes, at most
    MaxRepairCycles,  \* policy.max_wave_repair_cycles
    None,             \* no ref, no worktree, no transaction, no base recorded
    RefName,          \* the name of the base ref where a commit is expected
    MaxStarts,        \* bound: processes
    MaxMishaps        \* bound: failing operations, edits of main, lost refs

Change == Ticket \X (0 .. MaxCommits)
Tree == SUBSET Change
Transaction == [refs : SUBSET Ticket, base : Tree]
Worktree == [head : Tree, tree : Tree]
\* run.json: what the loop and the transaction keep in it.
Run == [state : {"none", "running", "blocked", "completed"},
        pending : Transaction \cup {None},       \* pending_wave_integration
        last : {None, RefName} \cup Tree,        \* last_wave_base_commit
        waves : BOOLEAN]                         \* some wave was scheduled

ASSUME WaveIntegrationAssumption ==
    /\ Checked \subseteq Ticket
    /\ MaxCommits \in Nat \ {0} /\ MaxRepairCycles \in Nat
    /\ MaxStarts \in Nat \ {0} /\ MaxMishaps \in Nat
    /\ None # RefName
    /\ None \notin Transaction /\ None \notin Worktree
    /\ \A tree \in Tree : tree \notin {None, RefName}

VARIABLES
    phase,      \* how far each ticket is, on disk
    work,       \* commits in the worktree the ticket last ended with
    base,       \* refs/verk/runs/<run>/base
    main,       \* the tickets' and repairs' changes in the main tree
    edited,     \* somebody else changed the main tree too
    wt,         \* the integration worktree
    run,        \* run.json
    flag,       \* wave_verification_passed of the pending wave's artifact
    verified,   \* history: trees that passed the checks that apply to them
    pc,         \* where the process stands
    resumed,    \* it is resumeEpicMode and not RunEpic
    origin,     \* how the transaction in progress was come by
    wave,       \* tickets of the wave in progress
    going,      \* those that are still being run
    cycle,      \* repair cycles of the verification in progress
    failing,    \* the wave is going to block the epic
    starts, mishaps

tickets == << phase, work >>
repo == << base, main, edited, wt >>
files == << run, flag, verified >>
turn == << origin, wave, going, cycle, failing >>
bounds == << starts, mishaps >>
vars == << tickets, repo, files, pc, resumed, turn, bounds >>

PC == {"down", "loop", "work", "verify", "repair", "clear", "commit", "advance",
       "apply", "finish", "settle"}

InPhase(p) == {t \in Ticket : phase[t] = p}

\* What the tickets changed against the wave's base.
Changed(ts) == {c \in Change : c[1] \in ts /\ c[2] \in 1 .. work[c[1]]}

\* `git cherry-pick --no-commit` of the refs: of each ticket the commit its ref names.
Picked(ts) == {c \in Changed(ts) : c[2] = work[c[1]]}

Repairs(ts) == ts \X {0}

\* The integration worktree, made afresh from the base ref, with the refs applied.
Integration(ts) == [head |-> base, tree |-> base \cup Picked(ts)]

NewRun == [state |-> "running", pending |-> None, last |-> None, waves |-> FALSE]

Init ==
    /\ phase = [t \in Ticket |-> "open"] /\ work = [t \in Ticket |-> 0]
    /\ base = None /\ main = {} /\ edited = FALSE /\ wt = None
    /\ run = [NewRun EXCEPT !.state = "none"]
    /\ flag = "none" /\ verified = {{}}
    /\ pc = "down" /\ resumed = FALSE
    /\ origin = "wave" /\ wave = {} /\ going = {} /\ cycle = 0 /\ failing = FALSE
    /\ starts = 0 /\ mishaps = 0

\* The end of a process: what it had in memory is gone.
Down ==
    /\ pc' = "down" /\ resumed' = FALSE /\ origin' = "wave"
    /\ wave' = {} /\ going' = {} /\ cycle' = 0 /\ failing' = FALSE

GoTo(l) == pc' = l /\ UNCHANGED << resumed, turn >>

Mishap == mishaps < MaxMishaps /\ mishaps' = mishaps + 1 /\ UNCHANGED starts

-----------------------------------------------------------------------------
(* Processes: RunEpic once, then resumes *)

\* RunEpic to the loop: the ref, run.json and the gates, which may block the run.
Start ==
    /\ pc = "down" /\ run.state = "none"
    /\ starts' = 1
    /\ base' = main
    /\ \/ run' = NewRun /\ GoTo("loop")
       \/ run' = [NewRun EXCEPT !.state = "blocked"] /\ GoTo("down")
    /\ UNCHANGED << tickets, main, edited, wt, flag, verified, mishaps >>

\* updateRunStatusFromTickets.
StatusFromTickets ==
    IF InPhase("blocked") # {} THEN "blocked"
    ELSE IF InPhase("open") # {} THEN "running" ELSE "completed"

\* resolveResumeWaveBase; None is its error.
ResumeBase ==
    IF base # None THEN base
    ELSE IF run.last # None THEN IF run.last = RefName THEN None ELSE run.last
    ELSE IF run.waves THEN None ELSE {}

\* Mutant: every ticket is made ready again, the closed ones too.
ReadyAgainAll == [t \in Ticket |-> "open"]

\* Tickets that are not closed are made ready again.
ReadyAgain == [t \in Ticket |-> IF phase[t] = "closed" THEN "closed" ELSE "open"]

\* The command line does not resume a completed run; resumeExecutionAllowed does
\* not a run whose tickets are all closed, unless a wave is pending.
Resume ==
    /\ pc = "down" /\ run.state \notin {"none", "completed"} /\ starts < MaxStarts
    /\ starts' = starts + 1
    /\ run' = [run EXCEPT !.state = StatusFromTickets]
    /\ IF /\ ResumeBase # None
          /\ run.pending # None \/ StatusFromTickets # "completed"
       THEN /\ pc' = "loop" /\ resumed' = TRUE
            /\ base' = ResumeBase
            /\ phase' = ReadyAgain
       ELSE UNCHANGED << pc, resumed, base, phase >>
    /\ UNCHANGED << work, main, edited, wt, flag, verified, turn, mishaps >>

-----------------------------------------------------------------------------
(* The loop: first the pending wave, then a new one *)

Idle == pc = "loop" /\ run.pending = None
MainIsBase == main = base /\ ~edited     \* assertMainTreeMatchesWaveBase

\* No ticket is ready: all are closed, or the open ones wait for a blocked one or for
\* another run's claims (a status of its own, resumed as a blocked run is).  RunEpic
\* asks the closure gate before the run is completed.
Finished ==
    /\ Idle
    /\ \E s \in {"completed", "blocked"} :
          /\ s = "completed" => InPhase("closed") = Ticket
          /\ s = "blocked" => InPhase("closed") # Ticket \/ ~resumed
          /\ run' = [run EXCEPT !.state = s]
    /\ Down
    /\ UNCHANGED << tickets, repo, flag, verified, bounds >>

DirtyMain ==
    /\ Idle /\ InPhase("open") # {} /\ ~MainIsBase
    /\ run' = [run EXCEPT !.state = "blocked"]
    /\ Down
    /\ UNCHANGED << tickets, repo, flag, verified, bounds >>

\* BuildWave: dependencies, claims, scopes and the concurrency limit leave some of
\* the open tickets, never none.  Its artifact is new.
StartWave ==
    /\ Idle /\ MainIsBase
    /\ \E w \in SUBSET InPhase("open") \ {{}} : wave' = w /\ going' = w
    /\ run' = [run EXCEPT !.waves = TRUE]
    /\ flag' = "none"
    /\ pc' = "work" /\ origin' = "wave" /\ cycle' = 0 /\ failing' = FALSE
    /\ UNCHANGED << tickets, repo, verified, resumed, bounds >>

\* A ticket of the wave ends; the others go on.
TicketEnds ==
    /\ pc = "work"
    /\ \E t \in going, p \in {"closed", "blocked"}, n \in 0 .. MaxCommits :
          /\ phase' = [phase EXCEPT ![t] = p]
          /\ work' = [work EXCEPT ![t] = n]
          /\ going' = going \ {t}
    /\ UNCHANGED << repo, files, pc, resumed, origin, wave, cycle, failing, bounds >>

\* A ticket that ends in an error stays, or is set back to, open: a resume schedules
\* it again, however often it has erred.
TicketErrs ==
    /\ pc = "work"
    /\ \E t \in going : going' = going \ {t}
    /\ UNCHANGED << tickets, repo, files, pc, resumed, origin, wave, cycle, failing, bounds >>

-----------------------------------------------------------------------------
(* A wave whose tickets have all ended *)

Ended == pc = "work" /\ going = {}

\* Mutant: blocked siblings are integrated too.
AcceptedAll == wave

\* mergeEligibleTicketIDs.
Accepted == {t \in wave : phase[t] = "closed"}

\* The accepted tickets are frozen and applied in a new integration worktree, and
\* the transaction is announced.  RunEpic's wave review may fail the wave before:
\* its tickets are integrated all the same.
Integrate ==
    /\ Ended /\ Accepted # {}
    /\ wt' = Integration(Accepted)
    /\ run' = [run EXCEPT !.pending = [refs |-> Accepted, base |-> base]]
    /\ failing' \in {Accepted # wave, ~resumed \/ Accepted # wave}
    /\ pc' = "verify"
    /\ UNCHANGED << tickets, base, main, edited, flag, verified, resumed,
                    origin, wave, going, cycle, bounds >>

\* Nothing was closed, or two tickets changed the same files.
NotIntegrated ==
    /\ Ended
    /\ Accepted = {} \/ Cardinality(Accepted) > 1
    /\ failing' = TRUE
    /\ pc' = "settle"
    /\ UNCHANGED << tickets, repo, files, resumed, origin, wave, going, cycle, bounds >>

\* AcceptWave's error.  RunEpic goes on to settle the wave, resume returns.
OutOfScope ==
    /\ Ended
    /\ IF resumed
       THEN run' = [run EXCEPT !.state = "blocked"] /\ Down
       ELSE /\ failing' = TRUE /\ pc' = "settle"
            /\ UNCHANGED << run, resumed, origin, wave, going, cycle >>
    /\ UNCHANGED << tickets, repo, flag, verified, bounds >>

-----------------------------------------------------------------------------
(* runWaveVerificationLoop *)

Refs == run.pending.refs
HasChecks == Refs \cap Checked # {}

\* completeAlreadyAppliedPendingWaveIntegration: what may be wrong with "applied".
Advanced ==
    /\ base # run.pending.base
    /\ Changed(Refs) # {} /\ Changed(Refs) \subseteq base \ run.pending.base

\* Mutant: the main tree is not looked at.
AppliedUnseen == Advanced

Applied == Advanced /\ MainIsBase

\* integrationManagerForPendingTransaction: the worktree as it was left, or a new one.
Reopened == IF wt # None THEN wt ELSE Integration(Refs)

\* Mutant: a wave with any recorded outcome is taken for one that passed.
TakeUpJudged ==
    /\ pc = "loop" /\ run.pending # None
    /\ IF flag # "none"
       THEN /\ origin' = "passed"
            /\ IF Applied THEN wt' = wt /\ pc' = "finish"
               ELSE wt' = Reopened /\ pc' = "commit"
       ELSE wt' = Reopened /\ pc' = "verify" /\ origin' = "pending"
    /\ cycle' = 0 /\ failing' = FALSE
    /\ UNCHANGED << tickets, base, main, edited, files, resumed, wave, going, bounds >>

\* The loop finds a pending wave: one that passed is completed, another verified
\* again, in which case the worktree is removed when the process returns.
TakeUp ==
    /\ pc = "loop" /\ run.pending # None
    /\ IF flag = "passed"
       THEN /\ origin' = "passed"
            /\ IF Applied THEN wt' = wt /\ pc' = "finish"
               ELSE wt' = Reopened /\ pc' = "commit"
       ELSE wt' = Reopened /\ pc' = "verify" /\ origin' = "pending"
    /\ cycle' = 0 /\ failing' = FALSE
    /\ UNCHANGED << tickets, base, main, edited, files, resumed, wave, going, bounds >>

\* Nothing to check, or every check passes, which the artifact records.
ChecksPass ==
    /\ pc = "verify"
    /\ flag' = IF HasChecks THEN "passed" ELSE flag
    /\ verified' = verified \cup {wt.tree}
    /\ GoTo("commit")
    /\ UNCHANGED << tickets, repo, run, bounds >>

\* Mutant: one repair cycle more.
ChecksFailOneMore ==
    /\ pc = "verify" /\ HasChecks /\ cycle <= MaxRepairCycles
    /\ pc' = "repair" /\ cycle' = cycle + 1
    /\ UNCHANGED << tickets, repo, files, resumed, origin, wave, going, failing, bounds >>

\* Mutant: repair cycles are not counted.
ChecksFailAgain ==
    /\ pc = "verify" /\ HasChecks /\ cycle < MaxRepairCycles
    /\ pc' = "repair" /\ cycle' = cycle
    /\ UNCHANGED << tickets, repo, files, resumed, origin, wave, going, failing, bounds >>

ChecksFail ==
    /\ pc = "verify" /\ HasChecks /\ cycle < MaxRepairCycles
    /\ pc' = "repair" /\ cycle' = cycle + 1
    /\ UNCHANGED << tickets, repo, files, resumed, origin, wave, going, failing, bounds >>

\* The repair worker changes the integrated tree, which is checked again.
Repaired ==
    /\ pc = "repair"
    /\ wt' = [wt EXCEPT !.tree = @ \cup Repairs(Refs)]
    /\ GoTo("verify")
    /\ UNCHANGED << tickets, base, main, edited, files, bounds >>

\* The last cycle leaves failing checks, or the repair worker fails.
VerificationFails ==
    /\ \/ pc = "verify" /\ HasChecks /\ cycle = MaxRepairCycles
       \/ pc = "repair"
    /\ flag' = "failed"
    /\ GoTo("clear")
    /\ UNCHANGED << tickets, repo, run, verified, bounds >>

\* A check or a repair cannot be run, the process is told to stop, a failure cannot be
\* saved: the wave has failed in memory only, where its coverage starts as not closable.
ChecksUnrun ==
    /\ pc \in {"verify", "repair"} /\ HasChecks /\ Mishap
    /\ GoTo("clear")
    /\ UNCHANGED << tickets, repo, files >>

\* clearPendingWaveVerificationOnTerminalFailure, and the epic is blocked.
ClearPending ==
    /\ pc = "clear"
    /\ run' = [run EXCEPT !.pending = None, !.state = "blocked"]
    /\ wt' = None
    /\ Down
    /\ UNCHANGED << tickets, base, main, edited, flag, verified, bounds >>

-----------------------------------------------------------------------------
(* completePendingWaveIntegrationTransaction, write by write *)

\* Nothing is left to do but to say so, or CommitWave commits in the worktree.
CommitWave ==
    /\ pc = "commit"
    /\ IF Applied THEN wt' = wt /\ GoTo("finish")
       ELSE wt' = [wt EXCEPT !.head = wt.tree] /\ GoTo("advance")
    /\ UNCHANGED << tickets, base, main, edited, files, bounds >>

\* Mutant: the main tree is left to the next wave.
AdvanceBaseOnly ==
    /\ pc = "advance"
    /\ base' = wt.head
    /\ GoTo("finish")
    /\ UNCHANGED << tickets, main, edited, wt, files, bounds >>

AdvanceBase ==
    /\ pc = "advance"
    /\ base' = wt.head
    /\ GoTo("apply")
    /\ UNCHANGED << tickets, main, edited, wt, files, bounds >>

Delta == base \ run.pending.base

\* `git apply --index`, after --check: all of the diff, or none if any is there.
ApplyToMain ==
    /\ pc = "apply" /\ Delta \cap main = {}
    /\ main' = main \cup Delta
    /\ GoTo("finish")
    /\ UNCHANGED << tickets, base, edited, wt, files, bounds >>

\* The worktree of a wave that had passed before this process is not removed.
Cleaned == IF origin = "passed" THEN wt ELSE None
\* An error in the pending wave blocks the epic; one in the wave just run does not.
Blocked == IF origin = "wave" THEN run ELSE [run EXCEPT !.state = "blocked"]

\* The diff does not apply, or the wave cannot be saved: RollbackBaseRef.
ApplyFails ==
    /\ pc = "apply"
    /\ IF Delta # {} /\ (edited \/ Delta \cap main # {})
       THEN UNCHANGED bounds ELSE Mishap
    /\ base' = run.pending.base
    /\ wt' = Cleaned /\ run' = Blocked
    /\ Down
    /\ UNCHANGED << tickets, main, edited, flag, verified >>

\* Neither the diff nor the roll back succeeds.
RollbackFails ==
    /\ pc = "apply" /\ Mishap
    /\ wt' = Cleaned /\ run' = Blocked
    /\ Down
    /\ UNCHANGED << tickets, base, main, edited, flag, verified >>

\* Mutant: the base of the next wave is not recorded.
FinishUnrecorded ==
    /\ pc = "finish"
    /\ run' = [run EXCEPT !.pending = None]
    /\ wt' = None
    /\ GoTo(IF origin = "wave" THEN "settle" ELSE "loop")
    /\ UNCHANGED << tickets, base, main, edited, flag, verified, bounds >>

\* The cursor is saved.  A worktree that is left has no reader any more.
Finish ==
    /\ pc = "finish"
    /\ run' = [run EXCEPT !.pending = None, !.last = base]
    /\ wt' = None
    /\ GoTo(IF origin = "wave" THEN "settle" ELSE "loop")
    /\ UNCHANGED << tickets, base, main, edited, flag, verified, bounds >>

\* The wave is over.  RunEpic returns when it blocks the epic, resume saves that
\* and goes round again.
SettleWave ==
    /\ pc = "settle"
    /\ run' = [run EXCEPT !.last = IF @ # None THEN @
                                   ELSE IF resumed THEN RefName ELSE base,
                          !.state = IF failing THEN "blocked" ELSE @]
    /\ IF failing /\ ~resumed THEN Down ELSE GoTo("loop")
    /\ UNCHANGED << tickets, repo, flag, verified, bounds >>

-----------------------------------------------------------------------------
(* What may go wrong *)

\* What the loop's own save of a blocked run writes when the pending wave returns an
\* error: the cursor as it is in memory, where a wave may be complete already.
Rescued ==
    IF run.pending = None \/ (origin = "wave" /\ pc \notin {"loop", "verify"}) THEN run
    ELSE [run EXCEPT !.state = "blocked",
                     !.pending = IF pc \in {"clear", "finish"} THEN None ELSE @,
                     !.last = IF pc = "finish" THEN base ELSE @]

\* Another error return: the process is told to stop, git or a write fails.
Fails ==
    /\ pc \in {"loop", "verify", "clear", "commit", "advance", "finish", "settle"} \/ Ended
    /\ Mishap
    /\ wt' = IF pc \in {"loop", "work", "settle"} THEN wt ELSE Cleaned
    /\ run' \in {run, Rescued}
    /\ Down
    /\ UNCHANGED << tickets, base, main, edited, flag, verified >>

Crash ==
    /\ pc # "down"
    /\ Down
    /\ UNCHANGED << tickets, repo, files, bounds >>

\* Somebody edits the main tree, files of no ticket, or takes the edit back.
EditMain ==
    /\ Mishap
    /\ edited' = ~edited
    /\ UNCHANGED << tickets, base, main, wt, files, pc, resumed, turn >>

\* The hidden ref is lost between two processes, though not from a wave that reached
\* the main tree and is still announced: resume would go back behind that wave.
LoseRef ==
    /\ pc = "down" /\ base # None /\ Mishap
    /\ run.pending # None => main = run.pending.base
    /\ base' = None
    /\ UNCHANGED << tickets, main, edited, wt, files, pc, resumed, turn >>

-----------------------------------------------------------------------------
Loop == Finished \/ DirtyMain \/ StartWave \/ TakeUp
WaveEnds == TicketEnds \/ TicketErrs \/ Integrate \/ NotIntegrated \/ OutOfScope
Verification ==
    \/ ChecksPass \/ ChecksFail \/ Repaired \/ VerificationFails
    \/ ChecksUnrun \/ ClearPending
Completion ==
    \/ CommitWave \/ AdvanceBase \/ ApplyToMain \/ ApplyFails \/ RollbackFails
    \/ Finish \/ SettleWave

Process == Loop \/ WaveEnds \/ Verification \/ Completion

Next == Start \/ Resume \/ Process \/ Fails \/ Crash \/ EditMain \/ LoseRef

Spec == Init /\ [][Next]_vars

\* The process takes its steps: tickets come to an end (module TicketRun), checks
\* and repair workers have timeouts.  Nothing need start, fail or be edited.
FairSpec == Spec /\ WF_vars(Process)
-----------------------------------------------------------------------------
(* Properties *)

\* The type invariant: in it that no verification has more repair cycles than the
\* policy allows, and that there is a transaction and a worktree where one is used.
TypeOK ==
    /\ phase \in [Ticket -> {"open", "blocked", "closed"}]
    /\ work \in [Ticket -> 0 .. MaxCommits]
    /\ base \in {None} \cup Tree /\ main \in Tree /\ edited \in BOOLEAN
    /\ wt \in Worktree \cup {None}
    /\ run \in Run
    /\ flag \in {"none", "passed", "failed"} /\ verified \subseteq Tree
    /\ pc \in PC /\ resumed \in BOOLEAN
    /\ origin \in {"wave", "pending", "passed"}
    /\ wave \subseteq Ticket /\ going \subseteq wave
    /\ cycle \in 0 .. MaxRepairCycles /\ failing \in BOOLEAN
    /\ starts \in Nat /\ mishaps \in Nat
    /\ pc # "down" => base # None
    /\ pc \in {"verify", "repair", "clear", "commit", "advance", "apply", "finish"}
          => run.pending # None
    /\ pc \in {"verify", "repair", "commit", "advance"} => wt # None

\* The base ref and the main tree differ at most by the wave run.json says is being
\* integrated, whatever crash, failed write, roll back or lost ref came between: a
\* wave is never started on, and a run never left with, half of another wave.
DifferenceIsPending ==
    base # None =>
        (base \ main) \cup (main \ base)
            \subseteq IF run.pending = None THEN {} ELSE Refs \X (0 .. MaxCommits)

\* Only closed tickets, and repairs of waves of theirs, get into the base ref and the
\* main tree, though their siblings in the wave block, err or are run again.
OnlyClosedWork ==
    \A c \in main \cup (IF base = None THEN {} ELSE base) : phase[c[1]] = "closed"

\* The announcement of a wave is withdrawn only when all that its tickets changed is
\* in the main tree or, if its checks have not passed, nothing of it.
AllOrNothing ==
    [][run.pending # None /\ run'.pending = None =>
          \/ Changed(Refs) \subseteq main'
          \/ flag' # "passed" /\ main' \cap (Refs \X (0 .. MaxCommits)) = {}]_vars

\* worker-isolation.md: "Integration gate runs checks before applying to main."  The
\* work that is together in the main tree was together in a tree that passed.
MainIsVerified ==
    \E tree \in verified : {c \in tree : c[2] > 0} = {c \in main : c[2] > 0}

\* The same of the repairs too: the main tree is a tree that passed the checks.
MainPassedChecks == main \in verified

\* With no wave pending, the base commit that run.json gives a resume that finds the
\* ref gone is the one the ref had.
CursorIsBase ==
    run.pending = None /\ base # None =>
        run.last \in {None, RefName, base}

\* A process that runs an epic comes to an end, unless tickets err in it again and
\* again: blocked tickets, failing checks, repairs and dirty trees do not keep it
\* going.  (A resume goes on after a wave that failed, and an erring ticket is ready
\* again each time: without the first disjunct this is false.)
Terminates == []<><<TicketErrs>>_vars \/ ((pc # "down") ~> (pc = "down"))

\* The waves of an epic are integrated one at a time, whole and once.  (A ticket that
\* changed nothing plays no part.)
Abstract == INSTANCE AtomicWaves WITH
    closed <- {t \in InPhase("closed") : work[t] > 0},
    accepted <- IF run.pending = None THEN {} ELSE {t \in Refs : work[t] > 0},
    integrated <- {t \in Ticket : << t, work[t] >> \in main /\ work[t] > 0}

ImplementsAtomicWaves == Abstract!Spec
=============================================================================
