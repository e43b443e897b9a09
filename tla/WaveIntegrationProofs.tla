----------------------- MODULE WaveIntegrationProofs ------------------------
(***************************************************************************)
(* Proofs about WaveIntegration, for every set of tickets and all bounds.   *)
(***************************************************************************)
EXTENDS WaveIntegration, TLAPS

\* The commits and repairs of closed tickets.
ClosedChanges == {c \in Change : phase[c[1]] = "closed"}

\* Every tree the run keeps, in git or in run.json, consists of them; a wave that is
\* announced is one of closed tickets; a ticket that is still being run is not closed.
ClosedTrees ==
    /\ main \subseteq ClosedChanges
    /\ base # None => base \subseteq ClosedChanges
    /\ wt # None => wt.head \subseteq ClosedChanges /\ wt.tree \subseteq ClosedChanges
    /\ run.last \notin {None, RefName} => run.last \subseteq ClosedChanges
ClosedRefs ==
    run.pending # None =>
        /\ run.pending.base \subseteq ClosedChanges
        /\ run.pending.refs \subseteq InPhase("closed")
GoingIsOpen == \A t \in going : phase[t] = "open"

IInv == TypeOK /\ ClosedTrees /\ ClosedRefs /\ GoingIsOpen
-----------------------------------------------------------------------------
(* The conjuncts of TypeOK, by the variables they are about. *)
TicketTypes ==
    /\ phase \in [Ticket -> {"open", "blocked", "closed"}]
    /\ work \in [Ticket -> 0 .. MaxCommits]
RepoTypes ==
    /\ base \in {None} \cup Tree /\ main \in Tree /\ edited \in BOOLEAN
    /\ wt \in Worktree \cup {None}
FileTypes ==
    /\ run \in Run
    /\ flag \in {"none", "passed", "failed"} /\ verified \subseteq Tree
TurnTypes ==
    /\ pc \in PC /\ resumed \in BOOLEAN
    /\ origin \in {"wave", "pending", "passed"}
    /\ wave \subseteq Ticket /\ going \subseteq wave
    /\ cycle \in 0 .. MaxRepairCycles /\ failing \in BOOLEAN
BoundTypes == starts \in Nat /\ mishaps \in Nat
Places ==
    /\ pc # "down" => base # None
    /\ pc \in {"verify", "repair", "clear", "commit", "advance", "apply", "finish"}
          => run.pending # None
    /\ pc \in {"verify", "repair", "commit", "advance"} => wt # None
Types ==
    TicketTypes /\ RepoTypes /\ FileTypes /\ TurnTypes /\ BoundTypes /\ Places

\* Together they are the type invariant.
LEMMA TypeOKIsTypes == TypeOK <=> Types
  BY DEF TypeOK, Types, TicketTypes, RepoTypes, FileTypes, TurnTypes, BoundTypes,
         Places

\* The markers are no trees, transactions or worktrees; no budget is negative.
LEMMA Markers ==
    /\ None # RefName /\ None \notin Transaction /\ None \notin Worktree
    /\ \A x \in Tree : x # None /\ x # RefName
  BY WaveIntegrationAssumption DEF WaveIntegrationAssumption

\* Numbers of commits and of repair cycles stay in their ranges.
LEMMA Natural ==
    /\ 0 \in 0 .. MaxCommits /\ 0 \in 0 .. MaxRepairCycles
    /\ \A n \in 0 .. MaxRepairCycles :
          n < MaxRepairCycles => n + 1 \in 0 .. MaxRepairCycles
<1>1. MaxCommits \in Nat /\ MaxRepairCycles \in Nat
  BY WaveIntegrationAssumption DEF WaveIntegrationAssumption
<1> QED
  BY <1>1

\* Trees are closed under what the run does with them.
LEMMA Trees ==
    /\ {} \in Tree
    /\ \A x, y \in Tree : x \cup y \in Tree /\ x \ y \in Tree
    /\ \A ts \in SUBSET Ticket : Picked(ts) \in Tree /\ Repairs(ts) \in Tree
    /\ \A x \in Tree : x # None /\ x # RefName
<1>1. {} \in Tree /\ \A x, y \in Tree : x \cup y \in Tree /\ x \ y \in Tree
  BY DEF Tree
<1>2. ASSUME NEW ts \in SUBSET Ticket PROVE Picked(ts) \in Tree
  BY DEF Tree, Picked, Changed
<1>3. ASSUME NEW ts \in SUBSET Ticket PROVE Repairs(ts) \in Tree
  BY Natural DEF Tree, Change, Repairs
<1> QED
  BY <1>1, <1>2, <1>3, Markers

\* A new integration worktree is one.
LEMMA Worktrees ==
  ASSUME RepoTypes, base # None
  PROVE  \A ts \in SUBSET Ticket :
            Integration(ts) \in Worktree /\ Integration(ts) # None
<1> SUFFICES ASSUME NEW ts \in SUBSET Ticket PROVE Integration(ts) \in Worktree
  BY Markers
<1>1. base \in Tree /\ base \cup Picked(ts) \in Tree
  BY Trees DEF RepoTypes
<1> QED
  BY <1>1 DEF Integration, Worktree

\* A worktree whose head or whose tree is changed is one.
LEMMA WorktreeEdits ==
  ASSUME NEW w \in Worktree, NEW x \in Tree
  PROVE  /\ w.head \in Tree /\ w.tree \in Tree
         /\ [w EXCEPT !.head = x] \in Worktree /\ [w EXCEPT !.head = x] # None
         /\ [w EXCEPT !.tree = x] \in Worktree /\ [w EXCEPT !.tree = x] # None
<1>1. /\ w.head \in Tree /\ w.tree \in Tree
      /\ [w EXCEPT !.head = x] \in Worktree /\ [w EXCEPT !.tree = x] \in Worktree
  BY DEF Worktree
<1> QED
  BY <1>1, Markers

\* Of the two, the other stays what it was.
LEMMA WorktreeFields ==
  ASSUME NEW w \in Worktree, NEW x
  PROVE  /\ [w EXCEPT !.head = x].head = x /\ [w EXCEPT !.head = x].tree = w.tree
         /\ [w EXCEPT !.tree = x].tree = x /\ [w EXCEPT !.tree = x].head = w.head
  BY DEF Worktree

\* What an edit of run.json leaves of its type.
LEMMA RunEdits ==
  ASSUME NEW r \in Run, NEW s \in {"none", "running", "blocked", "completed"},
         NEW p \in Transaction \cup {None}, NEW l \in {None, RefName} \cup Tree
  PROVE  /\ r.pending \in Transaction \cup {None}
         /\ r.last \in {None, RefName} \cup Tree
         /\ r.state \in {"none", "running", "blocked", "completed"}
         /\ [r EXCEPT !.state = s] \in Run
         /\ [r EXCEPT !.waves = TRUE] \in Run
         /\ [r EXCEPT !.pending = p] \in Run
         /\ [r EXCEPT !.pending = p, !.state = s] \in Run
         /\ [r EXCEPT !.pending = p, !.last = l] \in Run
         /\ [r EXCEPT !.last = l, !.state = s] \in Run
         /\ [r EXCEPT !.state = s, !.pending = p, !.last = l] \in Run
  BY DEF Run

\* What it leaves of the announcement and of the recorded base.
LEMMA RunFields ==
  ASSUME NEW r \in Run, NEW s, NEW p, NEW l
  PROVE  /\ [r EXCEPT !.state = s].pending = r.pending
         /\ [r EXCEPT !.state = s].last = r.last
         /\ [r EXCEPT !.waves = TRUE].pending = r.pending
         /\ [r EXCEPT !.waves = TRUE].last = r.last
         /\ [r EXCEPT !.pending = p].pending = p
         /\ [r EXCEPT !.pending = p].last = r.last
         /\ [r EXCEPT !.pending = p, !.state = s].pending = p
         /\ [r EXCEPT !.pending = p, !.state = s].last = r.last
         /\ [r EXCEPT !.pending = p, !.last = l].pending = p
         /\ [r EXCEPT !.pending = p, !.last = l].last = l
         /\ [r EXCEPT !.last = l, !.state = s].pending = r.pending
         /\ [r EXCEPT !.last = l, !.state = s].last = l
         /\ [r EXCEPT !.state = s, !.pending = p, !.last = l].pending = p
         /\ [r EXCEPT !.state = s, !.pending = p, !.last = l].last = l
  BY DEF Run

\* What the save of a blocked run writes is a run.json.
LEMMA RescuedTypes ==
  ASSUME RepoTypes, FileTypes, Places
  PROVE  Rescued \in Run
<1> DEFINE p == IF pc \in {"clear", "finish"} THEN None ELSE run.pending
           l == IF pc = "finish" THEN base ELSE run.last
<1>1. p \in Transaction \cup {None} /\ l \in {None, RefName} \cup Tree
  BY RunEdits DEF RepoTypes, FileTypes, Places
<1>2. [run EXCEPT !.state = "blocked", !.pending = p, !.last = l] \in Run
  <2> HIDE DEF p, l
  <2> QED
    BY <1>1, RunEdits DEF FileTypes
<1> QED
  BY <1>2 DEF Rescued, FileTypes

\* So is that of a new run, in each of its states.
LEMMA NewRuns ==
    NewRun \in Run /\ \A s \in {"none", "blocked"} : [NewRun EXCEPT !.state = s] \in Run
  BY DEF NewRun, Run

\* An announced transaction is one.
LEMMA PendingTypes ==
  ASSUME FileTypes, run.pending # None
  PROVE  Refs \in SUBSET Ticket /\ run.pending.base \in Tree
  BY RunEdits DEF FileTypes, Refs, Transaction, Run

\* The worktree that is taken up again is one.
LEMMA Reopens ==
  ASSUME RepoTypes, FileTypes, base # None, run.pending # None
  PROVE  Reopened \in Worktree /\ Reopened # None
  BY Worktrees, PendingTypes, Markers DEF Reopened, RepoTypes

\* A process that has ended is in no place where anything is needed.
LEMMA WhenDown == Down => TurnTypes' /\ Places'
  BY Natural DEF Down, TurnTypes, Places, PC

\* The initial state has its types.
THEOREM TypeInit == Init => TypeOK
<1> SUFFICES ASSUME Init PROVE Types
  BY TypeOKIsTypes
<1>1. TicketTypes /\ BoundTypes
  BY Natural DEF Init, TicketTypes, BoundTypes
<1>2. RepoTypes /\ FileTypes
  BY Trees, NewRuns DEF Init, RepoTypes, FileTypes
<1>3. TurnTypes /\ Places
  BY Natural DEF Init, TurnTypes, Places, PC
<1> QED
  BY <1>1, <1>2, <1>3 DEF Types

\* Every step keeps them.
THEOREM TypeNext == TypeOK /\ [Next]_vars => TypeOK'
<1> SUFFICES ASSUME Types, [Next]_vars PROVE Types'
  BY TypeOKIsTypes, PTL
<1> USE DEF Types
<1>1. CASE Start
  <2>1. TicketTypes'
    BY <1>1 DEF Start, TicketTypes, tickets
  <2>2. RepoTypes'
    BY <1>1, Trees DEF Start, RepoTypes, repo
  <2>3. FileTypes'
    BY <1>1, Trees, NewRuns DEF Start, FileTypes, files
  <2>4. TurnTypes'
    BY <1>1 DEF Start, TurnTypes, turn, GoTo, PC
  <2>5. BoundTypes'
    BY <1>1 DEF Start, BoundTypes, bounds
  <2>6. Places'
    BY <1>1, Trees DEF Start, Places, repo, files, GoTo, RepoTypes
  <2> QED
    BY <2>1, <2>2, <2>3, <2>4, <2>5, <2>6
<1>2. CASE Resume
  <2>1. TicketTypes'
    BY <1>2 DEF Resume, TicketTypes, tickets, ReadyAgain
  <2>2. RepoTypes'
    BY <1>2, Trees, RunEdits DEF Resume, RepoTypes, repo, FileTypes, ResumeBase
  <2>3. FileTypes'
    BY <1>2, RunEdits DEF Resume, FileTypes, files, StatusFromTickets
  <2>4. TurnTypes'
    BY <1>2 DEF Resume, TurnTypes, turn, PC
  <2>5. BoundTypes'
    BY <1>2 DEF Resume, BoundTypes, bounds
  <2>6. Places'
    BY <1>2, Trees DEF Resume, Places, repo, files
  <2> QED
    BY <2>1, <2>2, <2>3, <2>4, <2>5, <2>6
<1>3. CASE Finished
  <2>1. TicketTypes' /\ RepoTypes' /\ BoundTypes'
    BY <1>3 DEF Finished, TicketTypes, tickets, RepoTypes, repo, BoundTypes, bounds
  <2>2. FileTypes'
    BY <1>3, RunEdits DEF Finished, FileTypes, files
  <2>3. TurnTypes' /\ Places'
    BY <1>3, WhenDown DEF Finished
  <2> QED
    BY <2>1, <2>2, <2>3
<1>4. CASE DirtyMain
  <2>1. TicketTypes' /\ RepoTypes' /\ BoundTypes'
    BY <1>4 DEF DirtyMain, TicketTypes, tickets, RepoTypes, repo, BoundTypes, bounds
  <2>2. FileTypes'
    BY <1>4, RunEdits DEF DirtyMain, FileTypes, files
  <2>3. TurnTypes' /\ Places'
    BY <1>4, WhenDown DEF DirtyMain
  <2> QED
    BY <2>1, <2>2, <2>3
<1>5. CASE StartWave
  <2>1. TicketTypes' /\ RepoTypes' /\ BoundTypes'
    BY <1>5 DEF StartWave, TicketTypes, tickets, RepoTypes, repo, BoundTypes, bounds
  <2>2. FileTypes'
    BY <1>5, RunEdits DEF StartWave, FileTypes, files
  <2>3. TurnTypes'
    BY <1>5, Natural DEF StartWave, TurnTypes, turn, InPhase, PC
  <2>4. Places'
    BY <1>5 DEF StartWave, Places, repo, files, Idle
  <2> QED
    BY <2>1, <2>2, <2>3, <2>4
<1>6. CASE TakeUp
  <2>1. TicketTypes' /\ FileTypes' /\ BoundTypes'
    BY <1>6 DEF TakeUp, TicketTypes, tickets, FileTypes, files, BoundTypes, bounds
  <2>2. RepoTypes'
    BY <1>6, Reopens DEF TakeUp, RepoTypes, repo, Places
  <2>3. TurnTypes'
    BY <1>6, Natural DEF TakeUp, TurnTypes, turn, PC
  <2>4. Places'
    BY <1>6, Reopens DEF TakeUp, Places, repo, files
  <2> QED
    BY <2>1, <2>2, <2>3, <2>4
<1>7. CASE TicketEnds
  <2>1. RepoTypes' /\ FileTypes' /\ BoundTypes'
    BY <1>7 DEF TicketEnds, RepoTypes, repo, FileTypes, files, BoundTypes, bounds
  <2>2. TicketTypes'
    BY <1>7 DEF TicketEnds, TicketTypes, tickets
  <2>3. TurnTypes'
    BY <1>7 DEF TicketEnds, TurnTypes, turn
  <2>4. Places'
    BY <1>7 DEF TicketEnds, Places, repo, files
  <2> QED
    BY <2>1, <2>2, <2>3, <2>4
<1>8. CASE TicketErrs
  <2>1. TicketTypes' /\ RepoTypes' /\ FileTypes'
    BY <1>8 DEF TicketErrs, TicketTypes, tickets, RepoTypes, repo, FileTypes, files
  <2>2. TurnTypes'
    BY <1>8 DEF TicketErrs, TurnTypes, turn
  <2>3. BoundTypes'
    BY <1>8 DEF TicketErrs, BoundTypes, bounds
  <2>4. Places'
    BY <1>8 DEF TicketErrs, Places, repo, files
  <2> QED
    BY <2>1, <2>2, <2>3, <2>4
<1>9. CASE Integrate
  <2>1. TicketTypes' /\ BoundTypes'
    BY <1>9 DEF Integrate, TicketTypes, tickets, BoundTypes, bounds
  <2>2. RepoTypes'
    BY <1>9, Worktrees
    DEF Integrate, RepoTypes, repo, Accepted, TurnTypes, Places, Ended
  <2>3. FileTypes'
    BY <1>9, RunEdits
    DEF Integrate, FileTypes, files, Accepted, RepoTypes, TurnTypes, Transaction,
        Places, Ended
  <2>4. TurnTypes'
    BY <1>9 DEF Integrate, TurnTypes, turn, PC
  <2>5. Places'
    <3>1. run'.pending = [refs |-> Accepted, base |-> base]
      BY <1>9, RunFields DEF Integrate, FileTypes
    <3>2. run'.pending \in Transaction
      BY <3>1, <1>9
      DEF Integrate, Accepted, RepoTypes, TurnTypes, Transaction, Places, Ended
    <3>3. wt' # None
      BY <1>9, Worktrees DEF Integrate, Accepted, TurnTypes, Places, Ended
    <3> QED
      BY <1>9, <3>2, <3>3, Markers DEF Integrate, Places, Ended
  <2> QED
    BY <2>1, <2>2, <2>3, <2>4, <2>5
<1>10. CASE NotIntegrated
  <2>1. TicketTypes' /\ RepoTypes' /\ FileTypes' /\ BoundTypes'
    BY <1>10
    DEF NotIntegrated, TicketTypes, tickets, RepoTypes, repo, FileTypes, files,
        BoundTypes, bounds
  <2>2. TurnTypes'
    BY <1>10 DEF NotIntegrated, TurnTypes, turn, PC
  <2>3. Places'
    BY <1>10 DEF NotIntegrated, Places, repo, files, Ended
  <2> QED
    BY <2>1, <2>2, <2>3
<1>11. CASE OutOfScope
  <2>1. TicketTypes' /\ RepoTypes' /\ BoundTypes'
    BY <1>11
    DEF OutOfScope, TicketTypes, tickets, RepoTypes, repo, BoundTypes, bounds
  <2>2. FileTypes'
    BY <1>11, RunEdits DEF OutOfScope, FileTypes, files
  <2>3. TurnTypes' /\ Places'
    BY <1>11, WhenDown
    DEF OutOfScope, TurnTypes, turn, Places, repo, files, PC, Ended
  <2> QED
    BY <2>1, <2>2, <2>3
<1>12. CASE ChecksPass
  <2>1. TicketTypes' /\ RepoTypes' /\ BoundTypes'
    BY <1>12
    DEF ChecksPass, TicketTypes, tickets, RepoTypes, repo, BoundTypes, bounds
  <2>2. FileTypes'
    BY <1>12 DEF ChecksPass, FileTypes, files, RepoTypes, Places, Worktree
  <2>3. TurnTypes'
    BY <1>12 DEF ChecksPass, TurnTypes, turn, GoTo, PC
  <2>4. Places'
    BY <1>12 DEF ChecksPass, Places, repo, files, GoTo
  <2> QED
    BY <2>1, <2>2, <2>3, <2>4
<1>13. CASE ChecksFail
  <2>1. TicketTypes' /\ RepoTypes' /\ FileTypes' /\ BoundTypes'
    BY <1>13
    DEF ChecksFail, TicketTypes, tickets, RepoTypes, repo, FileTypes, files,
        BoundTypes, bounds
  <2>2. TurnTypes'
    BY <1>13, Natural DEF ChecksFail, TurnTypes, turn, PC
  <2>3. Places'
    BY <1>13 DEF ChecksFail, Places, repo, files
  <2> QED
    BY <2>1, <2>2, <2>3
<1>14. CASE Repaired
  <2>1. TicketTypes' /\ FileTypes' /\ BoundTypes'
    BY <1>14
    DEF Repaired, TicketTypes, tickets, FileTypes, files, BoundTypes, bounds
  <2>2. RepoTypes'
    BY <1>14, WorktreeEdits, Trees, PendingTypes
    DEF Repaired, RepoTypes, repo, Places
  <2>3. TurnTypes'
    BY <1>14 DEF Repaired, TurnTypes, turn, GoTo, PC
  <2>4. Places'
    BY <1>14, WorktreeEdits, Trees, PendingTypes
    DEF Repaired, Places, repo, files, GoTo, RepoTypes
  <2> QED
    BY <2>1, <2>2, <2>3, <2>4
<1>15. CASE VerificationFails
  <2>1. TicketTypes' /\ RepoTypes' /\ BoundTypes'
    BY <1>15
    DEF VerificationFails, TicketTypes, tickets, RepoTypes, repo, BoundTypes, bounds
  <2>2. FileTypes'
    BY <1>15 DEF VerificationFails, FileTypes, files
  <2>3. TurnTypes'
    BY <1>15 DEF VerificationFails, TurnTypes, turn, GoTo, PC
  <2>4. Places'
    BY <1>15 DEF VerificationFails, Places, repo, files, GoTo
  <2> QED
    BY <2>1, <2>2, <2>3, <2>4
<1>16. CASE ChecksUnrun
  <2>1. TicketTypes' /\ RepoTypes' /\ FileTypes'
    BY <1>16
    DEF ChecksUnrun, TicketTypes, tickets, RepoTypes, repo, FileTypes, files
  <2>2. TurnTypes'
    BY <1>16 DEF ChecksUnrun, TurnTypes, turn, GoTo, PC
  <2>3. BoundTypes'
    BY <1>16 DEF ChecksUnrun, BoundTypes, bounds, Mishap
  <2>4. Places'
    BY <1>16 DEF ChecksUnrun, Places, repo, files, GoTo
  <2> QED
    BY <2>1, <2>2, <2>3, <2>4
<1>17. CASE ClearPending
  <2>1. TicketTypes' /\ BoundTypes'
    BY <1>17 DEF ClearPending, TicketTypes, tickets, BoundTypes, bounds
  <2>2. RepoTypes'
    BY <1>17 DEF ClearPending, RepoTypes, repo
  <2>3. FileTypes'
    BY <1>17, RunEdits DEF ClearPending, FileTypes, files
  <2>4. TurnTypes' /\ Places'
    BY <1>17, WhenDown DEF ClearPending
  <2> QED
    BY <2>1, <2>2, <2>3, <2>4
<1>18. CASE CommitWave
  <2>1. TicketTypes' /\ FileTypes' /\ BoundTypes'
    BY <1>18
    DEF CommitWave, TicketTypes, tickets, FileTypes, files, BoundTypes, bounds
  <2>2. RepoTypes'
    BY <1>18, WorktreeEdits DEF CommitWave, RepoTypes, repo, Places
  <2>3. TurnTypes'
    BY <1>18 DEF CommitWave, TurnTypes, turn, GoTo, PC
  <2>4. Places'
    BY <1>18, WorktreeEdits DEF CommitWave, Places, repo, files, GoTo, RepoTypes
  <2> QED
    BY <2>1, <2>2, <2>3, <2>4
<1>19. CASE AdvanceBase
  <2>1. TicketTypes' /\ FileTypes' /\ BoundTypes'
    BY <1>19
    DEF AdvanceBase, TicketTypes, tickets, FileTypes, files, BoundTypes, bounds
  <2>2. RepoTypes'
    BY <1>19 DEF AdvanceBase, RepoTypes, repo, Worktree, Places
  <2>3. TurnTypes'
    BY <1>19 DEF AdvanceBase, TurnTypes, turn, GoTo, PC
  <2>4. Places'
    BY <1>19, Trees DEF AdvanceBase, Places, repo, files, GoTo, RepoTypes, Worktree
  <2> QED
    BY <2>1, <2>2, <2>3, <2>4
<1>20. CASE ApplyToMain
  <2>1. TicketTypes' /\ FileTypes' /\ BoundTypes'
    BY <1>20
    DEF ApplyToMain, TicketTypes, tickets, FileTypes, files, BoundTypes, bounds
  <2>2. RepoTypes'
    BY <1>20, Trees, PendingTypes DEF ApplyToMain, RepoTypes, repo, Delta, Places
  <2>3. TurnTypes'
    BY <1>20 DEF ApplyToMain, TurnTypes, turn, GoTo, PC
  <2>4. Places'
    BY <1>20 DEF ApplyToMain, Places, repo, files, GoTo
  <2> QED
    BY <2>1, <2>2, <2>3, <2>4
<1>21. CASE ApplyFails
  <2>1. TicketTypes'
    BY <1>21 DEF ApplyFails, TicketTypes, tickets
  <2>2. RepoTypes'
    BY <1>21, PendingTypes DEF ApplyFails, RepoTypes, repo, Cleaned, Places
  <2>3. FileTypes'
    BY <1>21, RunEdits DEF ApplyFails, FileTypes, files, Blocked
  <2>4. TurnTypes' /\ Places'
    BY <1>21, WhenDown DEF ApplyFails
  <2>5. BoundTypes'
    BY <1>21 DEF ApplyFails, BoundTypes, bounds, Mishap
  <2> QED
    BY <2>1, <2>2, <2>3, <2>4, <2>5
<1>22. CASE RollbackFails
  <2>1. TicketTypes'
    BY <1>22 DEF RollbackFails, TicketTypes, tickets
  <2>2. RepoTypes'
    BY <1>22 DEF RollbackFails, RepoTypes, repo, Cleaned
  <2>3. FileTypes'
    BY <1>22, RunEdits DEF RollbackFails, FileTypes, files, Blocked
  <2>4. TurnTypes' /\ Places'
    BY <1>22, WhenDown DEF RollbackFails
  <2>5. BoundTypes'
    BY <1>22 DEF RollbackFails, BoundTypes, bounds, Mishap
  <2> QED
    BY <2>1, <2>2, <2>3, <2>4, <2>5
<1>23. CASE Finish
  <2>1. TicketTypes' /\ BoundTypes'
    BY <1>23 DEF Finish, TicketTypes, tickets, BoundTypes, bounds
  <2>2. RepoTypes'
    BY <1>23 DEF Finish, RepoTypes, repo
  <2>3. FileTypes'
    BY <1>23, RunEdits DEF Finish, FileTypes, files, RepoTypes, Places
  <2>4. TurnTypes'
    BY <1>23 DEF Finish, TurnTypes, turn, GoTo, PC
  <2>5. Places'
    BY <1>23 DEF Finish, Places, repo, files, GoTo
  <2> QED
    BY <2>1, <2>2, <2>3, <2>4, <2>5
<1>24. CASE SettleWave
  <2>1. TicketTypes' /\ RepoTypes' /\ BoundTypes'
    BY <1>24
    DEF SettleWave, TicketTypes, tickets, RepoTypes, repo, BoundTypes, bounds
  <2>2. FileTypes'
    <3> DEFINE l == IF run.last # None THEN run.last
                    ELSE IF resumed THEN RefName ELSE base
               s == IF failing THEN "blocked" ELSE run.state
    <3>1. /\ l \in {None, RefName} \cup Tree
          /\ s \in {"none", "running", "blocked", "completed"}
      BY <1>24, RunEdits DEF SettleWave, RepoTypes, FileTypes, Places
    <3>2. [run EXCEPT !.last = l, !.state = s] \in Run
      <4> HIDE DEF l, s
      <4> QED
        BY <3>1, RunEdits DEF FileTypes
    <3> QED
      BY <1>24, <3>2 DEF SettleWave, FileTypes
  <2>3. TurnTypes'
    BY <1>24, WhenDown DEF SettleWave, TurnTypes, turn, GoTo, PC
  <2>4. Places'
    BY <1>24, WhenDown DEF SettleWave, Places, repo, files, GoTo
  <2> QED
    BY <2>1, <2>2, <2>3, <2>4
<1>25. CASE Fails
  <2>1. TicketTypes'
    BY <1>25 DEF Fails, TicketTypes, tickets
  <2>2. RepoTypes'
    BY <1>25 DEF Fails, RepoTypes, repo, Cleaned
  <2>3. FileTypes'
    BY <1>25, RescuedTypes DEF Fails, FileTypes, files
  <2>4. TurnTypes' /\ Places'
    BY <1>25, WhenDown DEF Fails
  <2>5. BoundTypes'
    BY <1>25 DEF Fails, BoundTypes, bounds, Mishap
  <2> QED
    BY <2>1, <2>2, <2>3, <2>4, <2>5
<1>26. CASE Crash
  <2>1. TicketTypes' /\ RepoTypes' /\ FileTypes' /\ BoundTypes'
    BY <1>26
    DEF Crash, TicketTypes, tickets, RepoTypes, repo, FileTypes, files, BoundTypes,
        bounds
  <2>2. TurnTypes' /\ Places'
    BY <1>26, WhenDown DEF Crash
  <2> QED
    BY <2>1, <2>2
<1>27. CASE EditMain
  <2>1. TicketTypes' /\ FileTypes' /\ TurnTypes' /\ Places'
    BY <1>27
    DEF EditMain, TicketTypes, tickets, FileTypes, files, TurnTypes, turn, Places,
        repo, files
  <2>2. RepoTypes'
    BY <1>27 DEF EditMain, RepoTypes, repo
  <2>3. BoundTypes'
    BY <1>27 DEF EditMain, BoundTypes, bounds, Mishap
  <2> QED
    BY <2>1, <2>2, <2>3
<1>28. CASE LoseRef
  <2>1. TicketTypes' /\ FileTypes' /\ TurnTypes'
    BY <1>28 DEF LoseRef, TicketTypes, tickets, FileTypes, files, TurnTypes, turn
  <2>2. RepoTypes'
    BY <1>28 DEF LoseRef, RepoTypes, repo
  <2>3. BoundTypes'
    BY <1>28 DEF LoseRef, BoundTypes, bounds, Mishap
  <2>4. Places'
    BY <1>28 DEF LoseRef, Places, repo, files
  <2> QED
    BY <2>1, <2>2, <2>3, <2>4
<1>29. CASE UNCHANGED vars
  BY <1>29
  DEF vars, TicketTypes, tickets, RepoTypes, repo, FileTypes, files, TurnTypes,
      turn, BoundTypes, bounds, Places, repo, files
<1> QED
  BY <1>1, <1>2, <1>3, <1>4, <1>5, <1>6, <1>7, <1>8, <1>9, <1>10, <1>11, <1>12,
     <1>13, <1>14, <1>15, <1>16, <1>17, <1>18, <1>19, <1>20, <1>21, <1>22, <1>23,
     <1>24, <1>25, <1>26, <1>27, <1>28, <1>29
  DEF Next, Process, Loop, WaveEnds, Verification, Completion

\* Every state has the types of TypeOK: a verification has no more repair cycles than
\* the policy allows, and where a transaction or a worktree is used there is one.
THEOREM TypeCorrect == Spec => []TypeOK
  BY TypeInit, TypeNext, PTL DEF Spec

-----------------------------------------------------------------------------
(* Only closed work gets into the run's trees *)

\* What is applied of closed tickets, and what repairs them, is closed work.
LEMMA ClosedPieces ==
  ASSUME NEW ts \in SUBSET Ticket, ts \subseteq InPhase("closed")
  PROVE  Picked(ts) \subseteq ClosedChanges /\ Repairs(ts) \subseteq ClosedChanges
<1>1. Picked(ts) \subseteq ClosedChanges
  BY DEF Picked, Changed, ClosedChanges, InPhase
<1>2. Repairs(ts) \subseteq ClosedChanges
  BY Natural DEF Repairs, Change, ClosedChanges, InPhase
<1> QED
  BY <1>1, <1>2

\* A new integration worktree holds closed work.
LEMMA ClosedIntegration ==
  ASSUME ClosedTrees, base # None,
         NEW ts \in SUBSET Ticket, ts \subseteq InPhase("closed")
  PROVE  /\ Integration(ts).head \subseteq ClosedChanges
         /\ Integration(ts).tree \subseteq ClosedChanges
  BY ClosedPieces DEF ClosedTrees, Integration

\* The worktree that is taken up again holds closed work.
LEMMA ClosedReopened ==
  ASSUME RepoTypes, FileTypes, ClosedTrees, ClosedRefs, base # None, run.pending # None
  PROVE  Reopened.head \subseteq ClosedChanges /\ Reopened.tree \subseteq ClosedChanges
  BY ClosedIntegration, PendingTypes DEF Reopened, Refs, ClosedTrees, ClosedRefs

\* So does the base that a resume finds or makes.
LEMMA ClosedResumeBase ==
  ASSUME ClosedTrees, ResumeBase # None
  PROVE  ResumeBase \subseteq ClosedChanges
  BY DEF ClosedTrees, ResumeBase

\* A step that closes tickets, and opens none that is closed, keeps closed work closed.
LEMMA Monotone ==
  ASSUME \A t \in Ticket : phase[t] = "closed" => phase'[t] = "closed"
  PROVE  /\ ClosedChanges \subseteq ClosedChanges'
         /\ InPhase("closed") \subseteq InPhase("closed")'
<1>1. InPhase("closed") \subseteq InPhase("closed")'
  BY DEF InPhase
<1>2. \A c \in Change : c[1] \in Ticket
  BY DEF Change
<1> QED
  BY <1>1, <1>2 DEF ClosedChanges

\* Where neither tickets nor trees nor run.json change there is nothing to show.
LEMMA ClosedUnchanged ==
  ASSUME ClosedTrees, ClosedRefs, UNCHANGED << phase, repo, files >>
  PROVE  ClosedTrees' /\ ClosedRefs'
  BY DEF ClosedTrees, ClosedRefs, ClosedChanges, InPhase, repo, files

\* What the save of a blocked run does to the announcement and to the recorded base.
LEMMA RescuedFields ==
  ASSUME RepoTypes, FileTypes, Places
  PROVE  /\ Rescued.pending \in {run.pending, None}
         /\ Rescued.last = run.last \/ (Rescued.last = base /\ base # None)
<1> DEFINE p == IF pc \in {"clear", "finish"} THEN None ELSE run.pending
           l == IF pc = "finish" THEN base ELSE run.last
           r == [run EXCEPT !.state = "blocked", !.pending = p, !.last = l]
<1>1. r.pending = p /\ r.last = l
  <2> HIDE DEF p, l
  <2> QED
    BY RunFields DEF FileTypes
<1>2. p \in {run.pending, None} /\ (l = run.last \/ (l = base /\ base # None))
  BY DEF Places
<1>3. Rescued \in {run, r}
  BY DEF Rescued
<1> HIDE DEF p, l, r
<1> QED
  BY <1>1, <1>2, <1>3

\* A new run has closed nothing, and none of its trees holds anything.
THEOREM ClosedInit == Init => ClosedTrees /\ ClosedRefs /\ GoingIsOpen
  BY DEF Init, ClosedTrees, ClosedRefs, GoingIsOpen, NewRun

\* No step takes the work of a ticket that is not closed into a tree of the run, or
\* opens a closed ticket whose work is in one.
THEOREM ClosedNext ==
  IInv /\ TypeOK' /\ [Next]_vars => ClosedTrees' /\ ClosedRefs' /\ GoingIsOpen'
<1> SUFFICES ASSUME Types, Types', ClosedTrees, ClosedRefs, GoingIsOpen, [Next]_vars
             PROVE  ClosedTrees' /\ ClosedRefs' /\ GoingIsOpen'
  BY TypeOKIsTypes, PTL DEF IInv
<1> USE DEF Types
<1>1. CASE Start
  <2>1. UNCHANGED phase
    BY <1>1 DEF Start, tickets
  <2>2. /\ ClosedChanges \subseteq ClosedChanges'
        /\ InPhase("closed") \subseteq InPhase("closed")'
    BY <2>1, Monotone
  <2>3. ClosedTrees'
    BY <1>1, <2>2, NewRuns DEF Start, ClosedTrees, repo, files, NewRun, GoTo
  <2>4. ClosedRefs'
    BY <1>1, <2>2 DEF Start, ClosedRefs, files, NewRun
  <2>5. GoingIsOpen'
    BY <1>1, <2>1 DEF Start, GoingIsOpen, GoTo, turn
  <2> QED
    BY <2>3, <2>4, <2>5
<1>2. CASE Resume
  <2>1. \A t \in Ticket : phase[t] = "closed" => phase'[t] = "closed"
    BY <1>2 DEF Resume, TicketTypes, GoingIsOpen, TurnTypes, ReadyAgain
  <2>2. /\ ClosedChanges \subseteq ClosedChanges'
        /\ InPhase("closed") \subseteq InPhase("closed")'
    BY <2>1, Monotone
  <2>3. ClosedTrees'
    BY <1>2, <2>2, ClosedResumeBase, RunFields
    DEF Resume, ClosedTrees, repo, files, FileTypes
  <2>4. ClosedRefs'
    BY <1>2, <2>2, RunFields DEF Resume, ClosedRefs, files, FileTypes
  <2>5. GoingIsOpen'
    BY <1>2 DEF Resume, GoingIsOpen, turn, ReadyAgain, TicketTypes, TurnTypes
  <2> QED
    BY <2>3, <2>4, <2>5
<1>3. CASE Finished
  <2>1. UNCHANGED phase
    BY <1>3 DEF Finished, tickets
  <2>2. /\ ClosedChanges \subseteq ClosedChanges'
        /\ InPhase("closed") \subseteq InPhase("closed")'
    BY <2>1, Monotone
  <2>3. ClosedTrees'
    BY <1>3, <2>2, RunFields DEF Finished, ClosedTrees, repo, files, FileTypes
  <2>4. ClosedRefs'
    BY <1>3, <2>2, RunFields DEF Finished, ClosedRefs, files, FileTypes
  <2>5. GoingIsOpen'
    BY <1>3, <2>1 DEF Finished, GoingIsOpen, Down
  <2> QED
    BY <2>3, <2>4, <2>5
<1>4. CASE DirtyMain
  <2>1. UNCHANGED phase
    BY <1>4 DEF DirtyMain, tickets
  <2>2. /\ ClosedChanges \subseteq ClosedChanges'
        /\ InPhase("closed") \subseteq InPhase("closed")'
    BY <2>1, Monotone
  <2>3. ClosedTrees'
    BY <1>4, <2>2, RunFields DEF DirtyMain, ClosedTrees, repo, files, FileTypes
  <2>4. ClosedRefs'
    BY <1>4, <2>2, RunFields DEF DirtyMain, ClosedRefs, files, FileTypes
  <2>5. GoingIsOpen'
    BY <1>4, <2>1 DEF DirtyMain, GoingIsOpen, Down
  <2> QED
    BY <2>3, <2>4, <2>5
<1>5. CASE StartWave
  <2>1. UNCHANGED phase
    BY <1>5 DEF StartWave, tickets
  <2>2. /\ ClosedChanges \subseteq ClosedChanges'
        /\ InPhase("closed") \subseteq InPhase("closed")'
    BY <2>1, Monotone
  <2>3. ClosedTrees'
    BY <1>5, <2>2, RunFields DEF StartWave, ClosedTrees, repo, files, FileTypes
  <2>4. ClosedRefs'
    BY <1>5, <2>2, RunFields DEF StartWave, ClosedRefs, files, FileTypes
  <2>5. GoingIsOpen'
    BY <1>5, <2>1 DEF StartWave, GoingIsOpen, InPhase
  <2> QED
    BY <2>3, <2>4, <2>5
<1>6. CASE TakeUp
  <2>1. UNCHANGED phase
    BY <1>6 DEF TakeUp, tickets
  <2>2. /\ ClosedChanges \subseteq ClosedChanges'
        /\ InPhase("closed") \subseteq InPhase("closed")'
    BY <2>1, Monotone
  <2>3. ClosedTrees'
    BY <1>6, <2>2, ClosedReopened DEF TakeUp, ClosedTrees, repo, files, Places
  <2>4. ClosedRefs'
    BY <1>6, <2>2 DEF TakeUp, ClosedRefs, files
  <2>5. GoingIsOpen'
    BY <1>6, <2>1 DEF TakeUp, GoingIsOpen
  <2> QED
    BY <2>3, <2>4, <2>5
<1>7. CASE TicketEnds
  <2>1. \A t \in Ticket : phase[t] = "closed" => phase'[t] = "closed"
    BY <1>7 DEF TicketEnds, TicketTypes, GoingIsOpen, TurnTypes
  <2>2. /\ ClosedChanges \subseteq ClosedChanges'
        /\ InPhase("closed") \subseteq InPhase("closed")'
    BY <2>1, Monotone
  <2>3. ClosedTrees'
    BY <1>7, <2>2 DEF TicketEnds, ClosedTrees, repo, files
  <2>4. ClosedRefs'
    BY <1>7, <2>2 DEF TicketEnds, ClosedRefs, files
  <2>5. GoingIsOpen'
    BY <1>7 DEF TicketEnds, GoingIsOpen, TicketTypes, TurnTypes
  <2> QED
    BY <2>3, <2>4, <2>5
<1>8. CASE TicketErrs
  <2>1. UNCHANGED << phase, repo, files >>
    BY <1>8 DEF TicketErrs, tickets
  <2>2. GoingIsOpen'
    BY <1>8, <2>1 DEF TicketErrs, GoingIsOpen
  <2> QED
    BY <2>1, <2>2, ClosedUnchanged
<1>9. CASE Integrate
  <2>1. UNCHANGED phase
    BY <1>9 DEF Integrate, tickets
  <2>2. /\ ClosedChanges \subseteq ClosedChanges'
        /\ InPhase("closed") \subseteq InPhase("closed")'
    BY <2>1, Monotone
  <2>3. ClosedTrees'
    BY <1>9, <2>2, ClosedIntegration, RunFields
    DEF Integrate, ClosedTrees, repo, files, FileTypes, Places, Ended, Accepted,
        InPhase, TurnTypes
  <2>4. ClosedRefs'
    BY <1>9, <2>2, RunFields
    DEF Integrate, ClosedRefs, files, FileTypes, ClosedTrees, Places, Ended,
        Accepted, InPhase, TurnTypes
  <2>5. GoingIsOpen'
    BY <1>9, <2>1 DEF Integrate, GoingIsOpen
  <2> QED
    BY <2>3, <2>4, <2>5
<1>10. CASE NotIntegrated
  <2>1. UNCHANGED << phase, repo, files >>
    BY <1>10 DEF NotIntegrated, tickets
  <2>2. GoingIsOpen'
    BY <1>10, <2>1 DEF NotIntegrated, GoingIsOpen
  <2> QED
    BY <2>1, <2>2, ClosedUnchanged
<1>11. CASE OutOfScope
  <2>1. UNCHANGED phase
    BY <1>11 DEF OutOfScope, tickets
  <2>2. /\ ClosedChanges \subseteq ClosedChanges'
        /\ InPhase("closed") \subseteq InPhase("closed")'
    BY <2>1, Monotone
  <2>3. ClosedTrees'
    <3>1. run'.last = run.last
      <4>1. [run EXCEPT !.state = "blocked"].last = run.last
        BY RunFields DEF FileTypes
      <4>2. run' \in {run, [run EXCEPT !.state = "blocked"]}
        BY <1>11 DEF OutOfScope
      <4> QED
        BY <4>1, <4>2
    <3> QED
      BY <1>11, <2>2, <3>1 DEF OutOfScope, ClosedTrees, repo
  <2>4. ClosedRefs'
    <3>1. run'.pending = run.pending
      <4>1. [run EXCEPT !.state = "blocked"].pending = run.pending
        BY RunFields DEF FileTypes
      <4>2. run' \in {run, [run EXCEPT !.state = "blocked"]}
        BY <1>11 DEF OutOfScope
      <4> QED
        BY <4>1, <4>2
    <3> QED
      BY <2>2, <3>1 DEF ClosedRefs
  <2>5. GoingIsOpen'
    BY <1>11, <2>1 DEF OutOfScope, GoingIsOpen, Down
  <2> QED
    BY <2>3, <2>4, <2>5
<1>12. CASE ChecksPass
  <2>1. UNCHANGED phase
    BY <1>12 DEF ChecksPass, tickets
  <2>2. /\ ClosedChanges \subseteq ClosedChanges'
        /\ InPhase("closed") \subseteq InPhase("closed")'
    BY <2>1, Monotone
  <2>3. ClosedTrees'
    BY <1>12, <2>2 DEF ChecksPass, ClosedTrees, repo, files
  <2>4. ClosedRefs'
    BY <1>12, <2>2 DEF ChecksPass, ClosedRefs, files
  <2>5. GoingIsOpen'
    BY <1>12, <2>1 DEF ChecksPass, GoingIsOpen, GoTo, turn
  <2> QED
    BY <2>3, <2>4, <2>5
<1>13. CASE ChecksFail
  <2>1. UNCHANGED << phase, repo, files >>
    BY <1>13 DEF ChecksFail, tickets
  <2>2. GoingIsOpen'
    BY <1>13, <2>1 DEF ChecksFail, GoingIsOpen
  <2> QED
    BY <2>1, <2>2, ClosedUnchanged
<1>14. CASE Repaired
  <2>1. UNCHANGED phase
    BY <1>14 DEF Repaired, tickets
  <2>2. /\ ClosedChanges \subseteq ClosedChanges'
        /\ InPhase("closed") \subseteq InPhase("closed")'
    BY <2>1, Monotone
  <2>3. ClosedTrees'
    BY <1>14, <2>2, ClosedPieces, PendingTypes, WorktreeFields
    DEF Repaired, ClosedTrees, repo, files, RepoTypes, Places, ClosedRefs, Refs
  <2>4. ClosedRefs'
    BY <1>14, <2>2 DEF Repaired, ClosedRefs, files
  <2>5. GoingIsOpen'
    BY <1>14, <2>1 DEF Repaired, GoingIsOpen, GoTo, turn
  <2> QED
    BY <2>3, <2>4, <2>5
<1>15. CASE VerificationFails
  <2>1. UNCHANGED phase
    BY <1>15 DEF VerificationFails, tickets
  <2>2. /\ ClosedChanges \subseteq ClosedChanges'
        /\ InPhase("closed") \subseteq InPhase("closed")'
    BY <2>1, Monotone
  <2>3. ClosedTrees'
    BY <1>15, <2>2 DEF VerificationFails, ClosedTrees, repo, files
  <2>4. ClosedRefs'
    BY <1>15, <2>2 DEF VerificationFails, ClosedRefs, files
  <2>5. GoingIsOpen'
    BY <1>15, <2>1 DEF VerificationFails, GoingIsOpen, GoTo, turn
  <2> QED
    BY <2>3, <2>4, <2>5
<1>16. CASE ChecksUnrun
  <2>1. UNCHANGED << phase, repo, files >>
    BY <1>16 DEF ChecksUnrun, tickets
  <2>2. GoingIsOpen'
    BY <1>16, <2>1 DEF ChecksUnrun, GoingIsOpen, GoTo, turn
  <2> QED
    BY <2>1, <2>2, ClosedUnchanged
<1>17. CASE ClearPending
  <2>1. UNCHANGED phase
    BY <1>17 DEF ClearPending, tickets
  <2>2. /\ ClosedChanges \subseteq ClosedChanges'
        /\ InPhase("closed") \subseteq InPhase("closed")'
    BY <2>1, Monotone
  <2>3. ClosedTrees'
    BY <1>17, <2>2, RunFields DEF ClearPending, ClosedTrees, repo, files, FileTypes
  <2>4. ClosedRefs'
    BY <1>17, <2>2, RunFields DEF ClearPending, ClosedRefs, files, FileTypes
  <2>5. GoingIsOpen'
    BY <1>17, <2>1 DEF ClearPending, GoingIsOpen, Down
  <2> QED
    BY <2>3, <2>4, <2>5
<1>18. CASE CommitWave
  <2>1. UNCHANGED phase
    BY <1>18 DEF CommitWave, tickets
  <2>2. /\ ClosedChanges \subseteq ClosedChanges'
        /\ InPhase("closed") \subseteq InPhase("closed")'
    BY <2>1, Monotone
  <2>3. ClosedTrees'
    <3>1. wt \in Worktree
      BY <1>18 DEF CommitWave, RepoTypes, Places
    <3>2. [wt EXCEPT !.head = wt.tree].head = wt.tree
          /\ [wt EXCEPT !.head = wt.tree].tree = wt.tree
      BY <3>1, WorktreeFields
    <3>3. wt' = wt \/ (wt'.head = wt.tree /\ wt'.tree = wt.tree)
      BY <1>18, <3>2 DEF CommitWave
    <3>4. wt # None
      BY <1>18 DEF CommitWave, Places
    <3> QED
      BY <1>18, <2>2, <3>3, <3>4 DEF CommitWave, ClosedTrees, files
  <2>4. ClosedRefs'
    BY <1>18, <2>2 DEF CommitWave, ClosedRefs, files
  <2>5. GoingIsOpen'
    BY <1>18, <2>1 DEF CommitWave, GoingIsOpen, GoTo, turn
  <2> QED
    BY <2>3, <2>4, <2>5
<1>19. CASE AdvanceBase
  <2>1. UNCHANGED phase
    BY <1>19 DEF AdvanceBase, tickets
  <2>2. /\ ClosedChanges \subseteq ClosedChanges'
        /\ InPhase("closed") \subseteq InPhase("closed")'
    BY <2>1, Monotone
  <2>3. ClosedTrees'
    BY <1>19, <2>2 DEF AdvanceBase, ClosedTrees, repo, files, Places
  <2>4. ClosedRefs'
    BY <1>19, <2>2 DEF AdvanceBase, ClosedRefs, files
  <2>5. GoingIsOpen'
    BY <1>19, <2>1 DEF AdvanceBase, GoingIsOpen, GoTo, turn
  <2> QED
    BY <2>3, <2>4, <2>5
<1>20. CASE ApplyToMain
  <2>1. UNCHANGED phase
    BY <1>20 DEF ApplyToMain, tickets
  <2>2. /\ ClosedChanges \subseteq ClosedChanges'
        /\ InPhase("closed") \subseteq InPhase("closed")'
    BY <2>1, Monotone
  <2>3. ClosedTrees'
    BY <1>20, <2>2 DEF ApplyToMain, ClosedTrees, repo, files, Places, Delta
  <2>4. ClosedRefs'
    BY <1>20, <2>2 DEF ApplyToMain, ClosedRefs, files
  <2>5. GoingIsOpen'
    BY <1>20, <2>1 DEF ApplyToMain, GoingIsOpen, GoTo, turn
  <2> QED
    BY <2>3, <2>4, <2>5
<1>21. CASE ApplyFails
  <2>1. UNCHANGED phase
    BY <1>21 DEF ApplyFails, tickets
  <2>2. /\ ClosedChanges \subseteq ClosedChanges'
        /\ InPhase("closed") \subseteq InPhase("closed")'
    BY <2>1, Monotone
  <2>3. ClosedTrees'
    BY <1>21, <2>2, RunFields
    DEF ApplyFails, ClosedTrees, repo, files, FileTypes, Places, ClosedRefs,
        Cleaned, Blocked
  <2>4. ClosedRefs'
    BY <1>21, <2>2, RunFields DEF ApplyFails, ClosedRefs, files, FileTypes, Blocked
  <2>5. GoingIsOpen'
    BY <1>21, <2>1 DEF ApplyFails, GoingIsOpen, Down
  <2> QED
    BY <2>3, <2>4, <2>5
<1>22. CASE RollbackFails
  <2>1. UNCHANGED phase
    BY <1>22 DEF RollbackFails, tickets
  <2>2. /\ ClosedChanges \subseteq ClosedChanges'
        /\ InPhase("closed") \subseteq InPhase("closed")'
    BY <2>1, Monotone
  <2>3. ClosedTrees'
    BY <1>22, <2>2, RunFields
    DEF RollbackFails, ClosedTrees, repo, files, FileTypes, Cleaned, Blocked
  <2>4. ClosedRefs'
    BY <1>22, <2>2, RunFields
    DEF RollbackFails, ClosedRefs, files, FileTypes, Blocked
  <2>5. GoingIsOpen'
    BY <1>22, <2>1 DEF RollbackFails, GoingIsOpen, Down
  <2> QED
    BY <2>3, <2>4, <2>5
<1>23. CASE Finish
  <2>1. UNCHANGED phase
    BY <1>23 DEF Finish, tickets
  <2>2. /\ ClosedChanges \subseteq ClosedChanges'
        /\ InPhase("closed") \subseteq InPhase("closed")'
    BY <2>1, Monotone
  <2>3. ClosedTrees'
    BY <1>23, <2>2, RunFields
    DEF Finish, ClosedTrees, repo, files, FileTypes, Places
  <2>4. ClosedRefs'
    BY <1>23, <2>2, RunFields DEF Finish, ClosedRefs, files, FileTypes
  <2>5. GoingIsOpen'
    BY <1>23, <2>1 DEF Finish, GoingIsOpen, GoTo, turn
  <2> QED
    BY <2>3, <2>4, <2>5
<1>24. CASE SettleWave
  <2>1. UNCHANGED phase
    BY <1>24 DEF SettleWave, tickets
  <2>2. /\ ClosedChanges \subseteq ClosedChanges'
        /\ InPhase("closed") \subseteq InPhase("closed")'
    BY <2>1, Monotone
  <2>3. ClosedTrees'
    BY <1>24, <2>2, RunFields
    DEF SettleWave, ClosedTrees, repo, files, FileTypes, Places
  <2>4. ClosedRefs'
    BY <1>24, <2>2, RunFields DEF SettleWave, ClosedRefs, files, FileTypes
  <2>5. GoingIsOpen'
    BY <1>24, <2>1 DEF SettleWave, GoingIsOpen, GoTo, Down, turn
  <2> QED
    BY <2>3, <2>4, <2>5
<1>25. CASE Fails
  <2>1. UNCHANGED phase
    BY <1>25 DEF Fails, tickets
  <2>2. /\ ClosedChanges \subseteq ClosedChanges'
        /\ InPhase("closed") \subseteq InPhase("closed")'
    BY <2>1, Monotone
  <2>3. ClosedTrees'
    <3>1. run'.last = run.last \/ (run'.last = base /\ base # None)
      BY <1>25, RescuedFields DEF Fails
    <3> QED
      BY <1>25, <2>2, <3>1 DEF Fails, ClosedTrees, Cleaned
  <2>4. ClosedRefs'
    <3>1. run'.pending \in {run.pending, None}
      BY <1>25, RescuedFields DEF Fails
    <3> QED
      BY <2>2, <3>1 DEF ClosedRefs
  <2>5. GoingIsOpen'
    BY <1>25, <2>1 DEF Fails, GoingIsOpen, Down
  <2> QED
    BY <2>3, <2>4, <2>5
<1>26. CASE Crash
  <2>1. UNCHANGED << phase, repo, files >>
    BY <1>26 DEF Crash, tickets
  <2>2. GoingIsOpen'
    BY <1>26, <2>1 DEF Crash, GoingIsOpen, Down
  <2> QED
    BY <2>1, <2>2, ClosedUnchanged
<1>27. CASE EditMain
  <2>1. UNCHANGED phase
    BY <1>27 DEF EditMain, tickets
  <2>2. /\ ClosedChanges \subseteq ClosedChanges'
        /\ InPhase("closed") \subseteq InPhase("closed")'
    BY <2>1, Monotone
  <2>3. ClosedTrees'
    BY <1>27, <2>2 DEF EditMain, ClosedTrees, repo, files
  <2>4. ClosedRefs'
    BY <1>27, <2>2 DEF EditMain, ClosedRefs, files
  <2>5. GoingIsOpen'
    BY <1>27, <2>1 DEF EditMain, GoingIsOpen, turn
  <2> QED
    BY <2>3, <2>4, <2>5
<1>28. CASE LoseRef
  <2>1. UNCHANGED phase
    BY <1>28 DEF LoseRef, tickets
  <2>2. /\ ClosedChanges \subseteq ClosedChanges'
        /\ InPhase("closed") \subseteq InPhase("closed")'
    BY <2>1, Monotone
  <2>3. ClosedTrees'
    BY <1>28, <2>2 DEF LoseRef, ClosedTrees, repo, files
  <2>4. ClosedRefs'
    BY <1>28, <2>2 DEF LoseRef, ClosedRefs, files
  <2>5. GoingIsOpen'
    BY <1>28, <2>1 DEF LoseRef, GoingIsOpen, turn
  <2> QED
    BY <2>3, <2>4, <2>5
<1>29. CASE UNCHANGED vars
  BY <1>29
  DEF vars, tickets, repo, files, turn, ClosedTrees, ClosedRefs, GoingIsOpen,
      ClosedChanges, InPhase
<1> QED
  BY <1>1, <1>2, <1>3, <1>4, <1>5, <1>6, <1>7, <1>8, <1>9, <1>10, <1>11, <1>12,
     <1>13, <1>14, <1>15, <1>16, <1>17, <1>18, <1>19, <1>20, <1>21, <1>22, <1>23,
     <1>24, <1>25, <1>26, <1>27, <1>28, <1>29
  DEF Next, Process, Loop, WaveEnds, Verification, Completion

\* The base ref and the main tree hold closed tickets' work and repairs of it only,
\* whatever siblings in the wave do, whatever fails and however often it is resumed.
THEOREM OnlyClosedWorkHolds == Spec => []OnlyClosedWork
<1>1. Init => IInv
  BY TypeInit, ClosedInit DEF IInv
<1>2. IInv /\ [Next]_vars => IInv'
  BY TypeNext, ClosedNext DEF IInv
<1>3. IInv => OnlyClosedWork
  BY DEF IInv, ClosedTrees, ClosedChanges, OnlyClosedWork
<1> QED
  BY <1>1, <1>2, <1>3, PTL DEF Spec
=============================================================================
