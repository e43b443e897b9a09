--------------------------- MODULE EpicRunProofs ---------------------------
(***************************************************************************)
(* Proofs about EpicRun, for every set of children, checks and findings and *)
(* all bounds.                                                              *)
(***************************************************************************)
EXTENDS EpicRun, SequenceTheorems, TLAPS

\* The types of TypeOK, of the artifacts whole.
ClosureTypes ==
    /\ art \in Closure
    /\ closure \in Closure \cup {None}
    /\ failed \subseteq Check
    /\ cycle \in 0 .. MaxRepairCycles
FileTypes ==
    /\ run \in Run
    /\ plan \in {"none", "passed", "gap"}
    /\ child \in [Child -> ChildState]
    /\ current \in {"none", "older", "this"}
HistoryTypes == checked \in BOOLEAN /\ reviewed \in BOOLEAN /\ dispatched \in Nat
TurnTypes ==
    /\ pc \in PC /\ resuming \in BOOLEAN /\ wave \subseteq Child
    /\ exit \in {"none", "success", "blocked", "error"}
BoundTypes == starts \in 0 .. MaxStarts /\ mishaps \in 0 .. MaxMishaps
Types == ClosureTypes /\ FileTypes /\ HistoryTypes /\ TurnTypes /\ BoundTypes

\* What the artifact on disk says when the gate has passed, and of which tree.
Passed ==
    /\ closure # None /\ closure.closable
    /\ ~HasUnresolved(closure.findings) /\ failed = {}
    /\ checked /\ reviewed

\* What is on disk while the gate is at work: the artifact in memory, or, before a
\* cycle is announced, one that knows no more than it.
OnDisk ==
    /\ pc \in InGate \ {"gate_init"} =>
          closure # None /\ closure.cycles = art.cycles
    /\ pc \in InGate \ {"gate_init", "gate_cycle"} => closure = art
    /\ pc = "gate_cycle" =>
          \A i \in Item :
              /\ closure.findings[i] # "none" => art.findings[i] # "none"
              /\ closure.findings[i] = "open" => art.findings[i] = "open"

\* The last cycle is under way from its announcement to the review of the repair.
Repairing ==
    pc \in {"gate_worker", "gate_rechecks", "gate_rereview"} =>
        art.cycles # << >> /\ Last(art.cycles) = "repair_pending"

\* Who may judge has seen the tree, and there is a cycle left where one begins.
Places ==
    /\ pc \in {"gate_review", "gate_rereview"} => checked
    /\ pc = "gate_cycle" => cycle < MaxRepairCycles
    /\ pc = "gate_passed" => Passed
    /\ pc \in {"rescan", "rederive"} => resuming
    /\ exit = "success" /\ ~resuming => pc = "idle" /\ Passed

\* Every worker has a cycle in the artifact, the next one too.
Announced ==
    /\ dispatched <= (IF closure = None THEN 0 ELSE Len(closure.cycles))
    /\ pc = "gate_worker" => dispatched < Len(closure.cycles)

IInv == Types /\ OnDisk /\ Repairing /\ Places /\ Announced

\* What one step may do to the findings on disk.
FindingsStep ==
    closure # None =>
        /\ closure' # None
        /\ \A i \in Item :
            /\ closure.findings[i] # "none" => closure'.findings[i] # "none"
            /\ closure.findings[i] = "open" /\ closure'.findings[i] = "resolved" =>
                /\ closure.cycles # << >> /\ Last(closure.cycles) = "repair_pending"
                /\ checked' /\ reviewed'

-----------------------------------------------------------------------------
(* The artifact's operators. *)

LEMMA NewClosureType == NewClosure \in Closure /\ NewClosure.cycles = << >>
  BY DEF NewClosure, Closure, Cycle

LEMMA BlockType ==
  ASSUME NEW a \in Closure, NEW limit \in BOOLEAN
  PROVE  /\ Block(a, limit) \in Closure
         /\ Block(a, limit).findings = a.findings
         /\ Block(a, limit).cycles = a.cycles
  BY DEF Block, Closure

LEMMA CloseType ==
  ASSUME NEW a \in Closure
  PROVE  /\ Close(a) \in Closure
         /\ Close(a).findings = a.findings
         /\ Close(a).cycles = a.cycles
         /\ Close(a).closable
  BY DEF Close, Closure

LEMMA SetLastType ==
  ASSUME NEW a \in Closure, a.cycles # << >>, NEW status \in Cycle
  PROVE  /\ SetLast(a, status) \in Closure
         /\ SetLast(a, status).findings = a.findings
         /\ Len(SetLast(a, status).cycles) = Len(a.cycles)
<1> DEFINE cs == [a.cycles EXCEPT ![Len(a.cycles)] = status]
<1>1. a.cycles \in Seq(Cycle) BY DEF Closure
<1>2. cs \in Seq(Cycle) /\ Len(cs) = Len(a.cycles) BY <1>1, ExceptSeq
<1>3. SetLast(a, status) = [a EXCEPT !.cycles = cs] BY DEF SetLast
<1> QED BY <1>2, <1>3 DEF Closure

LEMMA FindingsType ==
  ASSUME NEW a \in Closure, NEW found \in [Item -> {"none", "open", "resolved"}]
  PROVE  /\ [a EXCEPT !.findings = found] \in Closure
         /\ [a EXCEPT !.findings = found].findings = found
         /\ [a EXCEPT !.findings = found].cycles = a.cycles
  BY DEF Closure

LEMMA AppendType ==
  ASSUME NEW a \in Closure
  PROVE  LET b == [a EXCEPT !.cycles = Append(@, "repair_pending")]
         IN  /\ b \in Closure /\ b.findings = a.findings
             /\ b.cycles # << >> /\ Last(b.cycles) = "repair_pending"
             /\ Len(b.cycles) = Len(a.cycles) + 1
<1> DEFINE cs == Append(a.cycles, "repair_pending")
           b == [a EXCEPT !.cycles = cs]
<1>1. a.cycles \in Seq(Cycle) BY DEF Closure
<1>2. cs \in Seq(Cycle) /\ Len(cs) = Len(a.cycles) + 1 /\ cs[Len(cs)] = "repair_pending"
  BY <1>1 DEF Cycle
<1>3. b \in Closure /\ b.findings = a.findings /\ b.cycles = cs
  BY <1>2 DEF Closure
<1>4. cs # << >> BY <1>2, <1>1
<1> QED BY <1>2, <1>3, <1>4 DEF Last

LEMMA FindingsOf ==
  ASSUME NEW a \in Closure
  PROVE  a.findings \in [Item -> {"none", "open", "resolved"}]
  BY DEF Closure

\* Merging forgets nothing and closes nothing.
LEMMA MergedType ==
  ASSUME NEW f \in [Item -> {"none", "open", "resolved"}], NEW fresh
  PROVE  /\ Merged(f, fresh) \in [Item -> {"none", "open", "resolved"}]
         /\ \A i \in Item :
              /\ f[i] # "none" => Merged(f, fresh)[i] # "none"
              /\ f[i] = "open" => Merged(f, fresh)[i] = "open"
  BY DEF Merged

\* Resolving forgets nothing.
LEMMA ResolvedType ==
  ASSUME NEW f \in [Item -> {"none", "open", "resolved"}], NEW source, NEW fresh
  PROVE  /\ Resolved(f, source, fresh) \in [Item -> {"none", "open", "resolved"}]
         /\ \A i \in Item : f[i] # "none" => Resolved(f, source, fresh)[i] # "none"
  BY DEF Resolved
-----------------------------------------------------------------------------
LEMMA InitHolds == Init => IInv
<1>1. SUFFICES ASSUME Init PROVE IInv
  OBVIOUS
<1>2. Types
  <2>1. ClosureTypes BY <1>1, NewClosureType, EpicRunAssumption
          DEF Init, ClosureTypes, EpicRunAssumption
  <2>2. FileTypes BY <1>1 DEF Init, FileTypes, Run, ChildState
  <2>3. HistoryTypes /\ TurnTypes BY <1>1 DEF Init, HistoryTypes, TurnTypes, PC
  <2>4. BoundTypes BY <1>1, EpicRunAssumption DEF Init, BoundTypes, EpicRunAssumption
  <2> QED BY <2>1, <2>2, <2>3, <2>4 DEF Types
<1> QED BY <1>1, <1>2 DEF Init, IInv, OnDisk, Repairing, Places, Announced, InGate

\* The steps outside the gate leave its artifact alone, and are not in it.
LEMMA Outside ==
  ASSUME IInv, closure' = closure, art' = art, failed' = failed, cycle' = cycle,
         dispatched' = dispatched, Types',
         pc' \notin InGate \ {"gate_init"}, pc' # "gate_passed",
         pc' \in {"rescan", "rederive"} => resuming',
         exit' = "success" /\ ~resuming' => pc' = "idle" /\ Passed'
  PROVE  IInv'
  BY DEF IInv, OnDisk, Repairing, Places, Announced, InGate

Kept == << closure, art, failed, cycle, dispatched >>
CommandStep ==
    \/ RunEpic \/ QualityGate \/ PlanReviewSkipped \/ PlanReviewed \/ PlanBlocks
    \/ StartWave \/ Wave \/ NoneReady \/ MarkGate \/ GateBlocksRun \/ GateClosesRun
    \/ Published \/ Retry \/ AutoResume \/ Rescan \/ Rederive \/ Reopen \/ Crash

LEMMA CommandKeeps == CommandStep => Kept' = Kept
  BY DEF Kept, CommandStep, RunEpic, QualityGate, PlanReviewSkipped, PlanReviewed,
         PlanBlocks, StartWave, Wave, NoneReady, MarkGate, GateBlocksRun, GateClosesRun,
         Published, Retry, AutoResume, Rescan, Rederive, Reopen, Crash, GoTo, Return,
         files, history, gate, process

\* Steps of the commands go to known places and return known results.
LEMMA CommandTurns ==
  ASSUME IInv, CommandStep
  PROVE  TurnTypes'
<1> USE DEF IInv, Types, TurnTypes, PC, InGate, GoTo, Return, gate, process
<1>1. CASE RunEpic BY <1>1 DEF RunEpic
<1>2. CASE QualityGate BY <1>2 DEF QualityGate
<1>3. CASE PlanReviewSkipped BY <1>3 DEF PlanReviewSkipped
<1>4. CASE PlanReviewed BY <1>4 DEF PlanReviewed
<1>5. CASE PlanBlocks BY <1>5 DEF PlanBlocks
<1>6. CASE Wave BY <1>6 DEF Wave
<1>18. CASE StartWave BY <1>18 DEF StartWave
<1>7. CASE NoneReady BY <1>7 DEF NoneReady
<1>8. CASE MarkGate BY <1>8 DEF MarkGate
<1>9. CASE GateBlocksRun BY <1>9 DEF GateBlocksRun
<1>10. CASE GateClosesRun BY <1>10 DEF GateClosesRun
<1>11. CASE Published BY <1>11 DEF Published
<1>12. CASE Retry BY <1>12 DEF Retry
<1>13. CASE AutoResume BY <1>13 DEF AutoResume
<1>14. CASE Rescan BY <1>14 DEF Rescan
<1>15. CASE Rederive BY <1>15 DEF Rederive
<1>16. CASE Reopen BY <1>16 DEF Reopen
<1>17. CASE Crash BY <1>17 DEF Crash
<1> QED BY <1>1, <1>2, <1>3, <1>4, <1>5, <1>6, <1>7, <1>8, <1>9, <1>10, <1>11,
          <1>12, <1>13, <1>14, <1>15, <1>16, <1>17, <1>18
        DEF CommandStep

\* They leave well-formed files.
LEMMA CommandFiles ==
  ASSUME IInv, CommandStep
  PROVE  FileTypes'
<1> USE DEF IInv, Types, FileTypes, Run, ChildState, Blocked, Settled, Selectable,
        Selections, StatusFromTickets, CompletionStatus, files
<1>1. CASE RunEpic BY <1>1 DEF RunEpic
<1>2. CASE QualityGate BY <1>2 DEF QualityGate
<1>3. CASE PlanReviewSkipped BY <1>3 DEF PlanReviewSkipped
<1>4. CASE PlanReviewed BY <1>4 DEF PlanReviewed
<1>5. CASE PlanBlocks BY <1>5 DEF PlanBlocks
<1>6. CASE Wave BY <1>6 DEF Wave
<1>18. CASE StartWave BY <1>18 DEF StartWave
<1>7. CASE NoneReady BY <1>7 DEF NoneReady
<1>8. CASE MarkGate BY <1>8 DEF MarkGate
<1>9. CASE GateBlocksRun BY <1>9 DEF GateBlocksRun
<1>10. CASE GateClosesRun BY <1>10 DEF GateClosesRun
<1>11. CASE Published BY <1>11 DEF Published
<1>12. CASE Retry BY <1>12 DEF Retry
<1>13. CASE AutoResume BY <1>13 DEF AutoResume
<1>14. CASE Rescan BY <1>14 DEF Rescan
<1>15. CASE Rederive BY <1>15 DEF Rederive
<1>16. CASE Reopen BY <1>16 DEF Reopen
<1>17. CASE Crash BY <1>17 DEF Crash
<1> QED BY <1>1, <1>2, <1>3, <1>4, <1>5, <1>6, <1>7, <1>8, <1>9, <1>10, <1>11,
          <1>12, <1>13, <1>14, <1>15, <1>16, <1>17, <1>18
        DEF CommandStep

\* They keep to the bounds.
LEMMA CommandHistory ==
  ASSUME IInv, CommandStep
  PROVE  HistoryTypes' /\ BoundTypes'
<1> USE EpicRunAssumption DEF IInv, Types, HistoryTypes, BoundTypes, EpicRunAssumption, files, history,
            gate, process, bounds
<1>1. CASE RunEpic BY <1>1 DEF RunEpic
<1>2. CASE QualityGate BY <1>2 DEF QualityGate
<1>3. CASE PlanReviewSkipped BY <1>3 DEF PlanReviewSkipped
<1>4. CASE PlanReviewed BY <1>4 DEF PlanReviewed
<1>5. CASE PlanBlocks BY <1>5 DEF PlanBlocks
<1>6. CASE Wave BY <1>6 DEF Wave
<1>18. CASE StartWave BY <1>18 DEF StartWave
<1>7. CASE NoneReady BY <1>7 DEF NoneReady
<1>8. CASE MarkGate BY <1>8 DEF MarkGate
<1>9. CASE GateBlocksRun BY <1>9 DEF GateBlocksRun
<1>10. CASE GateClosesRun BY <1>10 DEF GateClosesRun
<1>11. CASE Published BY <1>11 DEF Published
<1>12. CASE Retry BY <1>12 DEF Retry
<1>13. CASE AutoResume BY <1>13 DEF AutoResume
<1>14. CASE Rescan BY <1>14 DEF Rescan
<1>15. CASE Rederive BY <1>15 DEF Rederive
<1>16. CASE Reopen BY <1>16 DEF Reopen
<1>17. CASE Crash BY <1>17 DEF Crash
<1> QED BY <1>1, <1>2, <1>3, <1>4, <1>5, <1>6, <1>7, <1>8, <1>9, <1>10, <1>11,
          <1>12, <1>13, <1>14, <1>15, <1>16, <1>17, <1>18
        DEF CommandStep

\* They enter no round of the gate, and return success only when it has passed or for
\* a resume.
LEMMA CommandPlaces ==
  ASSUME IInv, CommandStep
  PROVE  /\ pc' \notin InGate \ {"gate_init"} /\ pc' # "gate_passed"
         /\ pc' \in {"rescan", "rederive"} => resuming'
         /\ exit' = "success" /\ ~resuming' => pc' = "idle" /\ Passed'
<1> USE DEF IInv, Types, TurnTypes, HistoryTypes, Places, Passed, InGate, GoTo, Return,
        files, history, gate, process
<1>1. CASE RunEpic BY <1>1 DEF RunEpic
<1>2. CASE QualityGate BY <1>2 DEF QualityGate
<1>3. CASE PlanReviewSkipped BY <1>3 DEF PlanReviewSkipped
<1>4. CASE PlanReviewed BY <1>4 DEF PlanReviewed
<1>5. CASE PlanBlocks BY <1>5 DEF PlanBlocks
<1>6. CASE Wave BY <1>6 DEF Wave
<1>18. CASE StartWave BY <1>18 DEF StartWave
<1>7. CASE NoneReady BY <1>7 DEF NoneReady
<1>8. CASE MarkGate BY <1>8 DEF MarkGate
<1>9. CASE GateBlocksRun BY <1>9 DEF GateBlocksRun
<1>10. CASE GateClosesRun BY <1>10 DEF GateClosesRun
<1>11. CASE Published BY <1>11 DEF Published
<1>12. CASE Retry BY <1>12 DEF Retry
<1>13. CASE AutoResume BY <1>13 DEF AutoResume
<1>14. CASE Rescan BY <1>14 DEF Rescan
<1>15. CASE Rederive BY <1>15 DEF Rederive
<1>16. CASE Reopen BY <1>16 DEF Reopen
<1>17. CASE Crash BY <1>17 DEF Crash
<1> QED BY <1>1, <1>2, <1>3, <1>4, <1>5, <1>6, <1>7, <1>8, <1>9, <1>10, <1>11,
          <1>12, <1>13, <1>14, <1>15, <1>16, <1>17, <1>18
        DEF CommandStep

LEMMA CommandHolds == IInv /\ CommandStep => IInv' /\ FindingsStep
<1>1. SUFFICES ASSUME IInv, CommandStep PROVE IInv' /\ FindingsStep
  OBVIOUS
<1>2. Kept' = Kept BY <1>1, CommandKeeps
<1>3. ClosureTypes' BY <1>1, <1>2 DEF IInv, Types, ClosureTypes, Kept
<1>4. Types' BY <1>1, <1>3, CommandTurns, CommandFiles, CommandHistory DEF Types
<1> QED BY <1>1, <1>2, <1>4, CommandPlaces, Outside DEF Kept, FindingsStep

-----------------------------------------------------------------------------
(* The steps of the gate. *)

\* What a step of the gate leaves alone.
GateKeeps ==
    /\ run' = run /\ plan' = plan /\ child' = child /\ current' = current
    /\ resuming' = resuming /\ wave' = wave /\ exit' = exit
    /\ starts' = starts /\ mishaps' \in {mishaps, mishaps + 1} /\ mishaps' <= MaxMishaps

GateTypes == ClosureTypes /\ HistoryTypes /\ pc \in PC

LEMMA GateTypesSuffice ==
  ASSUME IInv, GateKeeps, GateTypes' PROVE Types'
<1>1. BoundTypes' BY EpicRunAssumption DEF IInv, Types, BoundTypes, GateKeeps, EpicRunAssumption
<1>2. FileTypes' BY DEF IInv, Types, FileTypes, GateKeeps
<1>3. TurnTypes' BY DEF IInv, Types, TurnTypes, GateKeeps, GateTypes
<1> QED BY <1>1, <1>2, <1>3 DEF Types, GateTypes

\* While the gate is at work the command has not returned success.
LEMMA NotReturned ==
  ASSUME IInv, GateKeeps, pc # "idle"
  PROVE  ~(exit' = "success" /\ ~resuming')
  BY DEF IInv, Places, GateKeeps

LEMMA GateInitHolds == IInv /\ GateInit => IInv' /\ FindingsStep
<1>1. SUFFICES ASSUME IInv, GateInit PROVE IInv' /\ FindingsStep
  OBVIOUS
<1>2. /\ art' \in Closure /\ closure' = art'
      /\ art'.cycles = (IF closure = None THEN << >> ELSE closure.cycles)
  BY <1>1, NewClosureType, BlockType DEF GateInit, LoadOrInit, IInv, Types, ClosureTypes
<1>3. closure' # None /\ (closure # None => closure'.findings = closure.findings)
  BY <1>1, <1>2, NoneIsNoClosure, BlockType
     DEF GateInit, LoadOrInit, IInv, Types, ClosureTypes
<1>4. GateKeeps BY <1>1 DEF GateInit, GateKeeps, bounds, IInv, Types, BoundTypes
<1>5. GateTypes'
  <2>1. ClosureTypes' BY <1>1, <1>2, EpicRunAssumption
          DEF GateInit, ClosureTypes, EpicRunAssumption
  <2>2. HistoryTypes' /\ pc' \in PC
    BY <1>1 DEF GateInit, HistoryTypes, IInv, Types, history, PC, InGate
  <2> QED BY <2>1, <2>2 DEF GateTypes
<1>6. pc = "gate_init" /\ pc' = "gate_checks" BY <1>1 DEF GateInit
<1>7. Announced' BY <1>1, <1>2, <1>3, <1>6 DEF Announced, IInv, GateInit, history
<1> QED BY <1>1, <1>2, <1>3, <1>4, <1>5, <1>6, <1>7, GateTypesSuffice, NotReturned
        DEF IInv, OnDisk, Repairing, Places, InGate, FindingsStep

\* Both runs of the checks see the tree and leave the artifact alone.
LEMMA ChecksHold == IInv /\ (GateChecks \/ Rechecks) => IInv' /\ FindingsStep
<1>1. SUFFICES ASSUME IInv, GateChecks \/ Rechecks PROVE IInv' /\ FindingsStep
  OBVIOUS
<1>2. /\ closure' = closure /\ art' = art /\ cycle' = cycle /\ dispatched' = dispatched
      /\ failed' \subseteq Check /\ checked' = TRUE /\ reviewed' = reviewed
      /\ \/ pc = "gate_checks" /\ pc' = "gate_review"
         \/ pc = "gate_rechecks" /\ pc' = "gate_rereview"
  BY <1>1 DEF GateChecks, Rechecks, RunChecks, files
<1>3. GateKeeps
  BY <1>1 DEF GateChecks, Rechecks, RunChecks, files, bounds, GateKeeps, IInv, Types, BoundTypes
<1>4. GateTypes'
  BY <1>1, <1>2 DEF GateTypes, ClosureTypes, HistoryTypes, IInv, Types, PC, InGate
<1> QED BY <1>1, <1>2, <1>3, <1>4, GateTypesSuffice, NotReturned
        DEF IInv, OnDisk, Repairing, Places, Announced, InGate, FindingsStep

\* A verdict closes an artifact without open findings, sends out a worker while there
\* is a cycle left, or blocks; the findings and the cycles are those it was given.
LEMMA JudgeSays ==
  ASSUME NEW a \in Closure, Judge(a), cycle \in 0 .. MaxRepairCycles
  PROVE  /\ art' \in Closure /\ art'.findings = a.findings /\ art'.cycles = a.cycles
         /\ \/ /\ pc' = "gate_passed" /\ failed = {}
               /\ art'.closable /\ ~HasUnresolved(art'.findings)
            \/ pc' = "gate_cycle" /\ cycle < MaxRepairCycles
            \/ pc' = "gate_failed"
<1>1. CASE failed = {} /\ ~HasUnresolved(a.findings) /\ art' = Close(a) /\ pc' = "gate_passed"
  BY <1>1, CloseType
<1>2. CASE cycle < MaxRepairCycles /\ art' = a /\ pc' = "gate_cycle"
  BY <1>2
<1>3. CASE art' = Block(a, MaxRepairCycles > 0) /\ pc' = "gate_failed"
  <2>1. (MaxRepairCycles > 0) \in BOOLEAN OBVIOUS
  <2>2. /\ Block(a, MaxRepairCycles > 0) \in Closure
        /\ Block(a, MaxRepairCycles > 0).findings = a.findings
        /\ Block(a, MaxRepairCycles > 0).cycles = a.cycles
    BY <2>1, BlockType, Zenon
  <2> QED BY <1>3, <2>2
<1>4. \/ failed = {} /\ ~HasUnresolved(a.findings) /\ art' = Close(a) /\ pc' = "gate_passed"
      \/ cycle < MaxRepairCycles /\ art' = a /\ pc' = "gate_cycle"
      \/ art' = Block(a, MaxRepairCycles > 0) /\ pc' = "gate_failed"
  BY Zenon DEF Judge
<1> QED BY <1>1, <1>2, <1>3, <1>4

LEMMA GateReviewHolds == IInv /\ GateReview => IInv' /\ FindingsStep
<1>1. SUFFICES ASSUME IInv, GateReview PROVE IInv' /\ FindingsStep
  OBVIOUS
<1>2. PICK found \in SUBSET Finding, err \in BOOLEAN :
        LET a == [art EXCEPT !.findings = Merged(@, Reported(found, err))] IN
           IF err
           THEN /\ art' = Block(a, FALSE) /\ pc' = "gate_failed"
                /\ closure' = art'
           ELSE /\ Judge(a)
                /\ IF pc' = "gate_cycle" THEN UNCHANGED closure ELSE closure' = art'
  BY <1>1 DEF GateReview
<1> DEFINE f == Merged(art.findings, Reported(found, err))
           a == [art EXCEPT !.findings = f]
<1>3. /\ art \in Closure /\ closure = art /\ closure # None /\ checked
      /\ cycle \in 0 .. MaxRepairCycles
  BY <1>1 DEF GateReview, IInv, Types, ClosureTypes, OnDisk, Places, InGate
<1>4. a \in Closure /\ a.findings = f /\ a.cycles = art.cycles
  BY <1>3, FindingsOf, MergedType, FindingsType
<1>5. \A i \in Item : /\ art.findings[i] # "none" => f[i] # "none"
                      /\ art.findings[i] = "open" => f[i] = "open"
  BY <1>3, FindingsOf, MergedType
<1>6. /\ art' \in Closure /\ art'.findings = f /\ art'.cycles = art.cycles
      /\ \/ /\ pc' = "gate_passed" /\ failed = {} /\ closure' = art'
            /\ art'.closable /\ ~HasUnresolved(art'.findings)
         \/ pc' = "gate_cycle" /\ cycle < MaxRepairCycles /\ closure' = closure
         \/ pc' = "gate_failed" /\ closure' = art'
  <2>1. CASE err BY <2>1, <1>2, <1>4, BlockType
  <2>2. CASE ~err
    <3>1. Judge(a) /\ IF pc' = "gate_cycle" THEN UNCHANGED closure ELSE closure' = art'
      BY <2>2, <1>2
    <3> QED BY <3>1, <1>3, <1>4, JudgeSays
  <2> QED BY <2>1, <2>2
<1>7. closure' # None /\ closure'.cycles = closure.cycles
  BY <1>3, <1>6, NoneIsNoClosure
<1>8. /\ checked' = checked /\ reviewed' = TRUE /\ dispatched' = dispatched
      /\ failed' = failed /\ cycle' = cycle /\ pc = "gate_review" /\ GateKeeps
  BY <1>1 DEF GateReview, bounds, GateKeeps, IInv, Types, BoundTypes
<1>9. GateTypes'
  BY <1>1, <1>3, <1>6, <1>8
     DEF GateTypes, ClosureTypes, HistoryTypes, IInv, Types, PC, InGate
<1>10. OnDisk' BY <1>3, <1>5, <1>6, <1>7 DEF OnDisk, InGate
<1>11. Places' BY <1>1, <1>3, <1>6, <1>7, <1>8, NotReturned DEF Places, Passed
<1>12. Announced' BY <1>1, <1>3, <1>6, <1>7, <1>8 DEF Announced, IInv
<1>13. FindingsStep BY <1>3, <1>5, <1>6, <1>7 DEF FindingsStep
<1> QED BY <1>1, <1>6, <1>8, <1>9, <1>10, <1>11, <1>12, <1>13, GateTypesSuffice
        DEF IInv, Repairing

LEMMA StartCycleHolds == IInv /\ StartCycle => IInv' /\ FindingsStep
<1>1. SUFFICES ASSUME IInv, StartCycle PROVE IInv' /\ FindingsStep
  OBVIOUS
<1>2. /\ art \in Closure /\ closure # None /\ closure.cycles = art.cycles
      /\ cycle \in 0 .. MaxRepairCycles /\ cycle < MaxRepairCycles
  BY <1>1 DEF StartCycle, IInv, Types, ClosureTypes, OnDisk, Places, InGate
<1>3. /\ art' \in Closure /\ closure' = art' /\ art'.cycles # << >>
      /\ art'.findings = art.findings
      /\ Last(art'.cycles) = "repair_pending" /\ Len(art'.cycles) = Len(art.cycles) + 1
  BY <1>1, <1>2, AppendType, Zenon DEF StartCycle
<1>4. closure' # None BY <1>3, NoneIsNoClosure
<1>5. /\ checked' = checked /\ reviewed' = reviewed /\ dispatched' = dispatched
      /\ failed' = failed /\ cycle' = cycle + 1 /\ pc = "gate_cycle"
      /\ pc' = "gate_worker" /\ GateKeeps
  BY <1>1 DEF StartCycle, history, bounds, GateKeeps, IInv, Types, BoundTypes
<1>6. GateTypes'
  BY <1>1, <1>2, <1>3, <1>5, EpicRunAssumption
     DEF GateTypes, ClosureTypes, HistoryTypes, IInv, Types, PC, InGate, EpicRunAssumption
<1>7. Announced'
  <2>1. Len(art.cycles) \in Nat BY <1>2 DEF Closure
  <2> QED BY <1>1, <1>2, <1>3, <1>4, <1>5, <2>1 DEF Announced, IInv, Types, HistoryTypes
<1>8. Places' BY <1>5, <1>1, NotReturned DEF Places
<1>9. FindingsStep BY <1>1, <1>3, <1>4, <1>5 DEF FindingsStep, IInv, OnDisk
<1> QED BY <1>1, <1>3, <1>4, <1>5, <1>6, <1>7, <1>8, <1>9, GateTypesSuffice
        DEF IInv, OnDisk, Repairing, InGate

LEMMA RepairWorkerHolds == IInv /\ RepairWorker => IInv' /\ FindingsStep
<1>1. SUFFICES ASSUME IInv, RepairWorker PROVE IInv' /\ FindingsStep
  OBVIOUS
<1>2. /\ art \in Closure /\ closure # None /\ closure = art /\ art.cycles # << >>
      /\ Last(art.cycles) = "repair_pending" /\ dispatched < Len(closure.cycles)
  BY <1>1 DEF RepairWorker, IInv, Types, ClosureTypes, OnDisk, Repairing, Announced, InGate
<1>3. /\ closure' = art' /\ art' \in Closure /\ Len(art'.cycles) = Len(art.cycles)
      /\ art'.findings = art.findings
      /\ \/ pc' = "gate_rechecks" /\ art' = art
         \/ pc' = "gate_failed"
  <2>1. CASE pc' = "gate_rechecks" /\ UNCHANGED << art, closure >> BY <2>1, <1>2
  <2>2. CASE /\ pc' = "gate_failed"
             /\ art' = Block(SetLast(art, "repair_failed"), FALSE)
             /\ closure' = art'
    <3>1. SetLast(art, "repair_failed") \in Closure
          /\ SetLast(art, "repair_failed").findings = art.findings
          /\ Len(SetLast(art, "repair_failed").cycles) = Len(art.cycles)
      BY <1>2, SetLastType DEF Cycle
    <3> QED BY <2>2, <3>1, BlockType
  <2> QED BY <1>1, <2>1, <2>2 DEF RepairWorker
<1>4. closure' # None BY <1>3, NoneIsNoClosure
<1>5. /\ checked' = FALSE /\ reviewed' = FALSE /\ dispatched' = dispatched + 1
      /\ failed' = failed /\ cycle' = cycle /\ pc = "gate_worker" /\ GateKeeps
  BY <1>1 DEF RepairWorker, bounds, GateKeeps, IInv, Types, BoundTypes
<1>6. GateTypes'
  <2>1. ClosureTypes' /\ pc' \in PC
    BY <1>1, <1>3, <1>5 DEF ClosureTypes, IInv, Types, PC, InGate
  <2>2. dispatched' \in Nat BY <1>1, <1>5 DEF HistoryTypes, IInv, Types
  <2>3. HistoryTypes' BY <1>5, <2>2 DEF HistoryTypes
  <2> QED BY <2>1, <2>3 DEF GateTypes
<1>7. Announced'
  <2>1. Len(art.cycles) \in Nat BY <1>2 DEF Closure
  <2> QED BY <1>1, <1>2, <1>3, <1>4, <1>5, <2>1 DEF Announced, IInv, Types, HistoryTypes
<1>8. Places' BY <1>3, <1>5, <1>1, NotReturned DEF Places
<1>9. FindingsStep BY <1>2, <1>3, <1>4 DEF FindingsStep
<1> QED BY <1>1, <1>2, <1>3, <1>4, <1>5, <1>6, <1>7, <1>8, <1>9, GateTypesSuffice
        DEF IInv, OnDisk, Repairing, InGate

LEMMA RereviewHolds == IInv /\ Rereview => IInv' /\ FindingsStep
<1>1. SUFFICES ASSUME IInv, Rereview PROVE IInv' /\ FindingsStep
  OBVIOUS
<1>2. PICK found \in SUBSET Finding, err \in BOOLEAN :
        LET heard == IF err THEN art.findings
                     ELSE Merged(Resolved(art.findings, Finding, found), found)
            all == Merged(Resolved(heard, Check, failed), failed)
            a == [art EXCEPT !.findings = all] IN
        IF err
        THEN /\ art' = Block(SetLast(a, "review_failed"), FALSE)
             /\ pc' = "gate_failed"
        ELSE Judge(SetLast(a, "completed"))
  BY <1>1 DEF Rereview
<1> DEFINE heard == IF err THEN art.findings
                    ELSE Merged(Resolved(art.findings, Finding, found), found)
           all == Merged(Resolved(heard, Check, failed), failed)
           a == [art EXCEPT !.findings = all]
<1>3. /\ art \in Closure /\ closure = art /\ closure # None /\ checked
      /\ art.cycles # << >> /\ cycle \in 0 .. MaxRepairCycles
  BY <1>1 DEF Rereview, IInv, Types, ClosureTypes, OnDisk, Repairing, Places, InGate
<1>4. /\ all \in [Item -> {"none", "open", "resolved"}]
      /\ \A i \in Item : art.findings[i] # "none" => all[i] # "none"
  <2>1. /\ heard \in [Item -> {"none", "open", "resolved"}]
        /\ \A i \in Item : art.findings[i] # "none" => heard[i] # "none"
    BY <1>3, FindingsOf, MergedType, ResolvedType
  <2> HIDE DEF heard
  <2> QED BY <2>1, MergedType, ResolvedType
<1>5. a \in Closure /\ a.findings = all /\ a.cycles = art.cycles
  BY <1>3, <1>4, FindingsType
<1>6. /\ art' \in Closure /\ art'.findings = all
      /\ Len(art'.cycles) = Len(art.cycles)
      /\ \/ /\ pc' = "gate_passed" /\ failed = {}
            /\ art'.closable /\ ~HasUnresolved(art'.findings)
         \/ pc' = "gate_cycle" /\ cycle < MaxRepairCycles
         \/ pc' = "gate_failed"
  <2> HIDE DEF a, all
  <2>1. \A status \in {"review_failed", "completed"} :
            /\ SetLast(a, status) \in Closure
            /\ SetLast(a, status).findings = all
            /\ Len(SetLast(a, status).cycles) = Len(art.cycles)
    BY <1>3, <1>5, SetLastType DEF Cycle
  <2>2. CASE err
    <3>1. art' = Block(SetLast(a, "review_failed"), FALSE) /\ pc' = "gate_failed"
      BY <2>2, <1>2 DEF a, all
    <3> QED BY <3>1, <2>1, BlockType
  <2>3. CASE ~err
    <3>1. Judge(SetLast(a, "completed")) BY <2>3, <1>2 DEF a, all
    <3> QED BY <3>1, <2>1, <1>3, JudgeSays
  <2> QED BY <2>2, <2>3
<1>7. closure' = art' /\ closure' # None
  BY <1>1, <1>6, NoneIsNoClosure DEF Rereview
<1>8. /\ checked' = checked /\ reviewed' = TRUE /\ dispatched' = dispatched
      /\ failed' = failed /\ cycle' = cycle /\ pc = "gate_rereview" /\ GateKeeps
  BY <1>1 DEF Rereview, bounds, GateKeeps, IInv, Types, BoundTypes
<1>9. GateTypes'
  BY <1>1, <1>6, <1>7, <1>8
     DEF GateTypes, ClosureTypes, HistoryTypes, IInv, Types, PC, InGate
<1>10. OnDisk' BY <1>6, <1>7 DEF OnDisk, InGate
<1>11. Places' BY <1>1, <1>3, <1>6, <1>7, <1>8, NotReturned DEF Places, Passed
<1>12. Announced' BY <1>1, <1>3, <1>6, <1>7, <1>8 DEF Announced, IInv
<1>13. Last(art.cycles) = "repair_pending"
  BY <1>1 DEF Rereview, IInv, Repairing
<1>14. FindingsStep BY <1>3, <1>4, <1>6, <1>7, <1>8, <1>13 DEF FindingsStep
<1> QED BY <1>1, <1>6, <1>8, <1>9, <1>10, <1>11, <1>12, <1>14, GateTypesSuffice
        DEF IInv, Repairing

LEMMA GateErrsHolds == IInv /\ GateErrs => IInv' /\ FindingsStep
<1>1. SUFFICES ASSUME IInv, GateErrs PROVE IInv' /\ FindingsStep
  OBVIOUS
<1>2. /\ Kept' = Kept /\ checked' = checked /\ reviewed' = reviewed
      /\ pc # "idle" /\ pc' = "gate_failed" /\ GateKeeps
  BY <1>1, EpicRunAssumption
     DEF GateErrs, GoTo, Kept, files, history, gate, GateKeeps, InGate, IInv, Types,
         BoundTypes, EpicRunAssumption
<1>3. GateTypes'
  BY <1>1, <1>2 DEF GateTypes, ClosureTypes, HistoryTypes, IInv, Types, PC, Kept
<1> QED BY <1>1, <1>2, <1>3, GateTypesSuffice, NotReturned, Outside DEF Kept, InGate, FindingsStep
-----------------------------------------------------------------------------
(* The invariant, and what follows from it. *)

LEMMA StepHolds == IInv /\ [Next]_vars => IInv' /\ FindingsStep
<1>1. SUFFICES ASSUME IInv, [Next]_vars PROVE IInv' /\ FindingsStep
  OBVIOUS
<1>2. CASE CommandStep BY <1>1, <1>2, CommandHolds
<1>3. CASE GateInit BY <1>1, <1>3, GateInitHolds
<1>4. CASE GateChecks \/ Rechecks BY <1>1, <1>4, ChecksHold
<1>5. CASE GateReview BY <1>1, <1>5, GateReviewHolds
<1>6. CASE StartCycle BY <1>1, <1>6, StartCycleHolds
<1>7. CASE RepairWorker BY <1>1, <1>7, RepairWorkerHolds
<1>8. CASE Rereview BY <1>1, <1>8, RereviewHolds
<1>9. CASE GateErrs BY <1>1, <1>9, GateErrsHolds
<1>10. CASE UNCHANGED vars
  BY <1>1, <1>10
     DEF vars, files, history, process, gate, bounds, IInv, Types, ClosureTypes,
         FileTypes, HistoryTypes, TurnTypes, BoundTypes, OnDisk, Repairing, Places,
         Announced, Passed, FindingsStep
<1> QED
  BY <1>1, <1>2, <1>3, <1>4, <1>5, <1>6, <1>7, <1>8, <1>9, <1>10
     DEF Next, EngineStep, CommandStep

THEOREM Inductive == Spec => []IInv
<1> QED BY InitHolds, StepHolds, PTL DEF Spec

LEMMA TypesGiveTypeOK == Types => TypeOK
<1>1. SUFFICES ASSUME Types PROVE TypeOK
  OBVIOUS
<1>2. ASSUME closure # None
      PROVE  /\ DOMAIN closure = DOMAIN NewClosure
             /\ closure.findings \in [Item -> {"none", "open", "resolved"}]
             /\ \A n \in DOMAIN closure.cycles : closure.cycles[n] \in Cycle
  <2>1. closure \in Closure BY <1>1, <1>2 DEF Types, ClosureTypes
  <2>2. DOMAIN closure = {"findings", "cycles", "closable", "limit"} BY <2>1 DEF Closure
  <2>3. DOMAIN NewClosure = {"findings", "cycles", "closable", "limit"} BY DEF NewClosure
  <2> QED BY <2>1, <2>2, <2>3 DEF Closure
<1> QED BY <1>1, <1>2
        DEF Types, ClosureTypes, FileTypes, TurnTypes, BoundTypes, TypeOK

\* The files and variables of an epic's run are well formed, and no gate has more
\* repair cycles than the policy allows (TypeOK).
THEOREM TypeCorrect == Spec => []TypeOK
<1>1. IInv => TypeOK BY TypesGiveTypeOK DEF IInv
<1> QED BY <1>1, Inductive, PTL

\* When `run epic` reports an epic closed, checks and reviewer had nothing to say of
\* the main tree as it is (ClosesVerifiedTree).
THEOREM ClosesVerifiedTreeHolds == Spec => []ClosesVerifiedTree
<1>1. IInv => ClosesVerifiedTree BY DEF IInv, Places, Passed, ClosesVerifiedTree
<1> QED BY <1>1, Inductive, PTL

\* No repair worker was sent into the main tree that the artifact does not tell of
\* (RepairsAnnounced).
THEOREM RepairsAnnouncedHolds == Spec => []RepairsAnnounced
<1>1. IInv => RepairsAnnounced BY DEF IInv, Announced, RepairsAnnounced
<1> QED BY <1>1, Inductive, PTL

\* A finding on disk is never lost, and resolved only when a repair was made that the
\* checks and the reviewer have seen (FindingsSettle).
THEOREM FindingsSettleHolds == Spec => FindingsSettle
<1>1. IInv /\ [Next]_vars => [FindingsStep]_vars BY StepHolds
<1>2. Spec => [][FindingsStep]_vars BY <1>1, Inductive, PTL DEF Spec
<1> QED BY <1>2 DEF FindingsSettle, FindingsStep
=============================================================================
