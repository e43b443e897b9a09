-------------------------- MODULE TicketRunProofs --------------------------
(***************************************************************************)
(* What module TicketRun promises for all budgets and bounds: the types; of *)
(* a ticket that runs in a worktree of its own (not an epic's, which is     *)
(* made afresh for every process) that it is closed only when its worktree, *)
(* as it is, was verified, reviewed and found closable; the attempts a      *)
(* ticket gets and that no restart forgets them; what is on disk when       *)
(* RunTicket returns; and what the ticket store learns.                    *)
(***************************************************************************)
EXTENDS TicketRun, TLAPS

Working == {"implement", "repair"}      \* phases in which the worktree changes
Judged  == {"review", "closeout", "closed"}

\* An artifact is of the worktree as it is; an epic's is made anew under it.
Current(a) == a # NoArtifact /\ (Epic \/ a.tree = tree)
Found(a)   == Current(a) /\ a.passed

\* What a ticket's phase promises of the artifacts it carries.
Fits(t) ==
    /\ t.phase \in Judged => Found(t.verification)
    /\ t.phase \in {"closeout", "closed"} => Found(t.review) /\ Current(t.closeout)
    /\ t.phase = "closed" => Found(t.closeout)

MemoryFits   == pc # "down" => Fits(st)
SnapshotFits == snap # NoArtifact => Fits(snap)
\* What a reopening is about to write is a ticket to be worked on again.
EditFits     == edit # NoArtifact => edit.phase \in Working

\* When the worktree may be changed, the snapshot does not vouch for it.
WorkIsRecorded ==
    pc \in {"gate", "loop", "worker"} /\ st.phase \in Working
        => snap = NoArtifact \/ snap.phase \notin Judged

At(l) == pc = l \/ (pc = "saving" /\ then = l)

\* The phase the engine is in at each place, and that a verification about to be
\* acted on is one of the worktree as it is.
Places ==
    /\ pc = "worker" => st.phase \in Working
    /\ At("verify") \/ At("constraints") => st.phase = "verify"
    /\ At("constraints") => Current(st.verification)
    /\ pc = "reviewer" => st.phase = "review"

IInv == TypeOK /\ MemoryFits /\ SnapshotFits /\ EditFits /\ WorkIsRecorded /\ Places

-----------------------------------------------------------------------------
(* Tickets *)

\* The fields of a ticket, and what the engine counts up in one.
LEMMA TicketFields ==
    ASSUME NEW t \in Ticket
    PROVE  /\ t.phase \in Phase /\ t.outcome \in Outcome
           /\ t.attempts \in Nat /\ t.attempts + 1 \in Nat
           /\ t.checkCycles \in Nat /\ t.checkCycles + 1 \in Nat
           /\ t.reviewCycles \in Nat /\ t.reviewCycles + 1 \in Nat
           /\ t.verification \in Optional /\ t.review \in Optional
           /\ t.closeout \in Optional
  BY DEF Ticket

\* What the engine's assignments make of a ticket is a ticket.
LEMMA Edits ==
    ASSUME NEW t \in Ticket, NEW p \in Phase, NEW o \in Outcome, NEW n \in Nat,
           NEW a \in Optional, NEW b \in Optional
    PROVE  /\ [t EXCEPT !.outcome = o] \in Ticket
           /\ [t EXCEPT !.phase = p] \in Ticket
           /\ [t EXCEPT !.phase = p, !.outcome = o] \in Ticket
           /\ [t EXCEPT !.phase = p, !.attempts = n] \in Ticket
           /\ [t EXCEPT !.phase = p, !.outcome = o, !.attempts = n] \in Ticket
           /\ [t EXCEPT !.phase = p, !.checkCycles = n] \in Ticket
           /\ [t EXCEPT !.review = a, !.reviewCycles = n] \in Ticket
           /\ [t EXCEPT !.verification = a] \in Ticket
           /\ [t EXCEPT !.phase = p, !.review = a, !.closeout = b] \in Ticket
  BY DEF Ticket

\* The phases and outcomes the engine assigns.
LEMMA Words ==
    /\ {"intake", "implement", "verify", "review", "repair", "closeout", "closed",
        "blocked"} \subseteq Phase
    /\ {"", "closed", "blocked", "needs_decision", "cancelled"} \subseteq Outcome
  BY DEF Phase, Outcome

\* A judgement of the worktree is an artifact, and so is a closeout and the
\* verification a constraint has failed.
LEMMA Judgements ==
    ASSUME tree \in Nat, NEW b \in BOOLEAN
    PROVE  /\ Verified(b) \in Optional /\ Current(Verified(b))
           /\ Verified(b).passed = b
           /\ \A v \in Optional : v # NoArtifact =>
                 /\ v.tree \in Nat /\ v.passed \in BOOLEAN
                 /\ [v EXCEPT !.passed = b] \in Optional
  BY TicketRunAssumption
     DEF TicketRunAssumption, Verified, Current, Optional, Judgement

\* A run without a snapshot starts from a ticket.
LEMMA NewTicketType == NewTicket \in Ticket
  BY DEF NewTicket, Ticket, Phase, Outcome, Optional

\* What persist writes: the ticket, with an outcome.
LEMMA SnapshotType ==
    ASSUME NEW t \in Ticket
    PROVE  /\ Snapshot(t) \in Ticket /\ Snapshot(t).phase = t.phase
           /\ Snapshot(t).verification = t.verification
           /\ Snapshot(t).review = t.review /\ Snapshot(t).closeout = t.closeout
<1> DEFINE o == IF t.outcome # "" THEN t.outcome ELSE OutcomeForPhase(t)
<1>1. o \in Outcome
  BY TicketFields, Words DEF OutcomeForPhase, Stopped
<1>2. Snapshot(t) = [t EXCEPT !.outcome = o]
  BY DEF Snapshot
<1> HIDE DEF o
<1>3. QED
  BY <1>1, <1>2 DEF Ticket

\* Completing a snapshot from well-typed sidecars gives a well-typed ticket with
\* the snapshot's phase and artifacts.
LEMMA HydratedType ==
    ASSUME side \in Ticket, NEW s \in Ticket
    PROVE  /\ Hydrated(s) \in Ticket /\ Hydrated(s).phase = s.phase
           /\ s.verification # NoArtifact => Hydrated(s).verification = s.verification
           /\ s.review # NoArtifact => Hydrated(s).review = s.review
           /\ s.closeout # NoArtifact => Hydrated(s).closeout = s.closeout
  BY DEF Hydrated, Ticket, RepairCycles

\* Another attempt, or none.
LEMMA FailureType ==
    ASSUME NEW t \in Ticket, NEW c \in BOOLEAN
    PROVE  /\ BackToImplement(t, c) \in Ticket
           /\ HandleVerificationFailure(t, c) \in Ticket
           /\ BackToImplement(t, c).phase = "implement"
           /\ HandleVerificationFailure(t, c).phase \in {"implement", "blocked"}
<1> DEFINE n == IF c THEN t.checkCycles + 1 ELSE t.checkCycles
<1>1. n \in Nat
  BY TicketFields
<1>2. BackToImplement(t, c) \in Ticket
  <2>1. BackToImplement(t, c) = [t EXCEPT !.phase = "implement", !.checkCycles = n]
    BY DEF BackToImplement
  <2> HIDE DEF n
  <2>2. QED
    BY <1>1, <2>1 DEF Ticket, Phase
<1>3. BackToImplement(t, c).phase = "implement"
  BY DEF BackToImplement, Ticket
<1>4. /\ [t EXCEPT !.phase = "blocked", !.outcome = "needs_decision"] \in Ticket
      /\ [t EXCEPT !.phase = "blocked", !.outcome = "needs_decision"].phase = "blocked"
  BY Edits, Words DEF Ticket
<1>5. QED
  BY <1>2, <1>3, <1>4 DEF HandleVerificationFailure

\* RunTicket starts from a well-typed ticket: a new one, or the snapshot in its
\* phase or the one the caller asks for, which is before any judgement.
LEMMA RestoredType ==
    ASSUME TypeOK
    PROVE  /\ Restored \in Ticket
           /\ snap = NoArtifact => Restored = NewTicket
           /\ snap # NoArtifact =>
                 /\ Restored.phase \in {snap.phase, "intake", "implement"}
                 /\ Restored.phase \in Working =>
                       snap.phase \in {Restored.phase, "blocked"}
                 /\ snap.verification # NoArtifact =>
                       Restored.verification = snap.verification
                 /\ snap.review # NoArtifact => Restored.review = snap.review
                 /\ snap.closeout # NoArtifact => Restored.closeout = snap.closeout
<1>1. CASE snap = NoArtifact
  BY <1>1, NewTicketType DEF Restored
<1>2. CASE snap # NoArtifact
  <2>1. snap \in Ticket /\ side \in Ticket
    BY <1>2 DEF TypeOK
  <2> DEFINE p == IF InSnapshotPhase THEN Hydrated(snap).phase ELSE PlanPhase
             h == Hydrated(snap)
  <2>2. /\ h \in Ticket /\ h.phase = snap.phase
        /\ snap.verification # NoArtifact => h.verification = snap.verification
        /\ snap.review # NoArtifact => h.review = snap.review
        /\ snap.closeout # NoArtifact => h.closeout = snap.closeout
    BY <2>1, HydratedType
  <2>3. /\ p \in {snap.phase, "intake", "implement"}
        /\ p \in Working => snap.phase \in {p, "blocked"}
    BY <1>2, <2>2 DEF InSnapshotPhase, PlanPhase, Working
  <2>4. p \in Phase
    BY <2>1, <2>3, TicketFields, Words
  <2>5. Restored = [h EXCEPT !.phase = p, !.outcome = ""]
    BY <1>2 DEF Restored
  <2> HIDE DEF p, h
  <2>6. /\ Restored \in Ticket /\ Restored.phase = p
        /\ Restored.verification = h.verification
        /\ Restored.review = h.review /\ Restored.closeout = h.closeout
    BY <2>2, <2>4, <2>5 DEF Ticket, Outcome
  <2>7. QED
    BY <1>2, <2>2, <2>3, <2>6
<1>3. QED
  BY <1>1, <1>2

-----------------------------------------------------------------------------
(* Types *)

\* The initial state is well typed.
LEMMA InitType == Init => TypeOK
  BY NewTicketType, TicketRunAssumption DEF Init, TypeOK, PC, Sidecars,
     TicketRunAssumption

\* Every step keeps the types.
LEMMA TypeInductive == IInv /\ [Next]_vars => TypeOK'
<1> SUFFICES ASSUME IInv, [Next]_vars
             PROVE  TypeOK'
  OBVIOUS
<1>typed. /\ TypeOK /\ st \in Ticket /\ side \in Ticket /\ tree \in Nat
          /\ edit # NoArtifact => edit \in Ticket
          /\ snap # NoArtifact => snap \in Ticket
  BY DEF IInv, TypeOK
<1>save. ASSUME st' \in Ticket, tree' = tree,
               \E l \in {"loop", "verify", "constraints", "stop", "release"} :
                  PersistThen(l),
               UNCHANGED << snap, side, store, op, starts >>, lapses' \in Nat
        PROVE  TypeOK'
  BY <1>typed, <1>save, TicketRunAssumption
     DEF TypeOK, PC, PersistThen, op, Sidecars, TicketRunAssumption
<1>1. CASE Start
  BY <1>typed, <1>1, RestoredType DEF Start, StatusAtStart, TypeOK, PC, memory, op
<1>2. CASE SaveSidecar
  <2>1. side' \in Ticket
    BY <1>typed, <1>2 DEF SaveSidecar, Written, Ticket
  <2>2. QED
    BY <1>typed, <1>2, <2>1 DEF SaveSidecar, Sidecars, TypeOK, PC, memory, op
<1>3. CASE SaveSnapshot
  <2>1. snap' \in Ticket
    BY <1>typed, <1>3, SnapshotType DEF SaveSnapshot
  <2>2. QED
    BY <1>typed, <1>3, <2>1 DEF SaveSnapshot, TypeOK, PC, memory, op
<1>4. CASE GatesBlock
  <2>1. st' \in Ticket
    BY <1>typed, <1>4, TicketFields, Edits, Words DEF GatesBlock
  <2>2. /\ \E l \in {"loop", "verify", "constraints", "stop", "release"} : PersistThen(l)
        /\ UNCHANGED << tree, snap, side, store, op, starts >> /\ lapses' \in Nat
    BY <1>4, <1>typed DEF GatesBlock, TypeOK
  <2>3. QED
    BY <2>1, <2>2, <1>save
<1>5. CASE GatesPass
  <2>1. st' \in Ticket
    BY <1>typed, <1>5, TicketFields, Edits, Words DEF GatesPass
  <2>2. /\ \E l \in {"loop", "verify", "constraints", "stop", "release"} : PersistThen(l)
        /\ UNCHANGED << tree, snap, side, store, op, starts >> /\ lapses' \in Nat
    BY <1>5, <1>typed DEF GatesPass, TypeOK
  <2>3. QED
    BY <2>1, <2>2, <1>save
<1>6. CASE PastIntake
  BY <1>typed, <1>6 DEF PastIntake, TypeOK, PC, memory, op
<1>7. CASE BeginWorker
  BY <1>typed, <1>7, TicketRunAssumption DEF BeginWorker, TicketRunAssumption, TypeOK,
     PC, memory, op
<1>8. CASE WorkerDone
  <2>1. st' \in Ticket
    BY <1>typed, <1>8, TicketFields, Edits, Words DEF WorkerDone
  <2>2. /\ \E l \in {"loop", "verify", "constraints", "stop", "release"} : PersistThen(l)
        /\ UNCHANGED << tree, snap, side, store, op, starts >> /\ lapses' \in Nat
    BY <1>8, <1>typed DEF WorkerDone, TypeOK
  <2>3. QED
    BY <2>1, <2>2, <1>save
<1>9. CASE WorkerBlocked
  <2>1. st' \in Ticket
    BY <1>typed, <1>9, TicketFields, Edits, Words DEF WorkerBlocked
  <2>2. /\ \E l \in {"loop", "verify", "constraints", "stop", "release"} : PersistThen(l)
        /\ UNCHANGED << tree, snap, side, store, op, starts >> /\ lapses' \in Nat
    BY <1>9, <1>typed DEF WorkerBlocked, TypeOK
  <2>3. QED
    BY <2>1, <2>2, <1>save
<1>10. CASE BeginVerify
  <2>1. st' \in Ticket
    BY <1>typed, <1>10 DEF BeginVerify
  <2>2. /\ \E l \in {"loop", "verify", "constraints", "stop", "release"} : PersistThen(l)
        /\ UNCHANGED << tree, snap, side, store, op, starts >> /\ lapses' \in Nat
    BY <1>10, <1>typed DEF BeginVerify, TypeOK
  <2>3. QED
    BY <2>1, <2>2, <1>save
<1>11. CASE Verify
  <2>1. \A b \in BOOLEAN : [st EXCEPT !.verification = Verified(b)] \in Ticket
    BY <1>typed, Judgements DEF Ticket
  <2>2. st' \in Ticket
    BY <1>11, <2>1 DEF Verify
  <2>3. /\ \E l \in {"loop", "verify", "constraints", "stop", "release"} : PersistThen(l)
        /\ UNCHANGED << tree, snap, side, store, op, starts >> /\ lapses' \in Nat
    BY <1>11, <1>typed DEF Verify, TypeOK
  <2>4. QED
    BY <2>1, <2>2, <2>3, <1>save
<1>12. CASE VerificationFailed
  <2>1. st' \in Ticket
    BY <1>typed, <1>12, FailureType DEF VerificationFailed
  <2>2. /\ \E l \in {"loop", "verify", "constraints", "stop", "release"} : PersistThen(l)
        /\ UNCHANGED << tree, snap, side, store, op, starts >> /\ lapses' \in Nat
    BY <1>12, <1>typed DEF VerificationFailed, TypeOK
  <2>3. QED
    BY <2>1, <2>2, <1>save
<1>13. CASE AdvisoryFailed
  <2>1. st' \in Ticket
    BY <1>typed, <1>13, FailureType DEF AdvisoryFailed
  <2>2. /\ \E l \in {"loop", "verify", "constraints", "stop", "release"} : PersistThen(l)
        /\ UNCHANGED << tree, snap, side, store, op, starts >> /\ lapses' \in Nat
    BY <1>13, <1>typed DEF AdvisoryFailed, TypeOK
  <2>3. QED
    BY <2>1, <2>2, <1>save
<1>14. CASE ConstraintFailed
  <2>1. st.verification \in Optional /\ st.verification # NoArtifact
    BY <1>typed, <1>14, TicketFields DEF IInv, Places, At, Current, ConstraintFailed
  <2>2. [st.verification EXCEPT !.passed = FALSE] \in Optional
    BY <1>typed, <2>1, Judgements
  <2>3. [st EXCEPT !.verification = [st.verification EXCEPT !.passed = FALSE]] \in Ticket
    BY <1>typed, <2>2 DEF Ticket
  <2>4. [st EXCEPT !.verification.passed = FALSE] \in Ticket
    BY <2>3
  <2>5. st' \in Ticket
    BY <1>14, <2>4, FailureType DEF ConstraintFailed
  <2>6. /\ \E l \in {"loop", "verify", "constraints", "stop", "release"} : PersistThen(l)
        /\ UNCHANGED << tree, snap, side, store, op, starts >> /\ lapses' \in Nat
    BY <1>14, <1>typed DEF ConstraintFailed, TypeOK
  <2>7. QED
    BY <2>1, <2>2, <2>3, <2>4, <2>5, <2>6, <1>save
<1>15. CASE VerificationPassed
  <2>1. st' \in Ticket
    BY <1>typed, <1>15, TicketFields, Edits, Words DEF VerificationPassed
  <2>2. /\ \E l \in {"loop", "verify", "constraints", "stop", "release"} : PersistThen(l)
        /\ UNCHANGED << tree, snap, side, store, op, starts >> /\ lapses' \in Nat
    BY <1>15, <1>typed DEF VerificationPassed, TypeOK
  <2>3. QED
    BY <2>1, <2>2, <1>save
<1>16. CASE BeginReviewer
  BY <1>typed, <1>16, TicketRunAssumption DEF BeginReviewer, TicketRunAssumption,
     TypeOK, PC, memory, op
<1>17. CASE ReviewPassed
  <2>1. st.verification \in Optional /\ st.verification # NoArtifact
    BY <1>typed, <1>17, TicketFields DEF IInv, Places, MemoryFits, Fits, Judged,
       Found, Current, ReviewPassed
  <2>2. \A b \in BOOLEAN : Closeout(b) \in Optional
    BY <2>1, <1>typed, Judgements DEF Closeout, Optional, Judgement
  <2>3. \A b \in BOOLEAN : [st EXCEPT !.phase = "closeout", !.review = Verified(TRUE),
                                    !.closeout = Closeout(b)] \in Ticket
    BY <1>typed, <2>2, Edits, Judgements, Words
  <2>4. st' \in Ticket
    BY <2>3, <1>17 DEF ReviewPassed
  <2>5. /\ \E l \in {"loop", "verify", "constraints", "stop", "release"} : PersistThen(l)
        /\ UNCHANGED << tree, snap, side, store, op, starts >> /\ lapses' \in Nat
    BY <1>17, <1>typed DEF ReviewPassed, Lapsed, TypeOK
  <2>6. QED
    BY <2>1, <2>2, <2>3, <2>4, <2>5, <1>save
<1>18. CASE ReviewBlocks
  <2>1. [st EXCEPT !.review = Verified(FALSE), !.reviewCycles = @ + 1] \in Ticket
    BY <1>typed, TicketFields, Edits, Judgements
  <2>2. \A t \in Ticket : /\ [t EXCEPT !.phase = "repair"] \in Ticket
                           /\ [t EXCEPT !.phase = "blocked", !.outcome = "needs_decision"]
                                \in Ticket
    BY DEF Ticket, Phase, Outcome
  <2>3. st' \in Ticket
    BY <1>18, <2>1, <2>2 DEF ReviewBlocks
  <2>4. /\ \E l \in {"loop", "verify", "constraints", "stop", "release"} : PersistThen(l)
        /\ UNCHANGED << tree, snap, side, store, op, starts >> /\ lapses' \in Nat
    BY <1>18, <1>typed DEF ReviewBlocks, TypeOK
  <2>5. QED
    BY <2>1, <2>2, <2>3, <2>4, <1>save
<1>19. CASE CloseTicket
  <2>1. \A p \in {"closed", "repair"} : [st EXCEPT !.phase = p] \in Ticket
    BY <1>typed DEF Ticket, Phase, Outcome
  <2>2. st' \in Ticket
    BY <1>19, <2>1 DEF CloseTicket
  <2>3. /\ \E l \in {"loop", "verify", "constraints", "stop", "release"} : PersistThen(l)
        /\ UNCHANGED << tree, snap, side, store, op, starts >> /\ lapses' \in Nat
    BY <1>19, <1>typed DEF CloseTicket, TypeOK
  <2>4. QED
    BY <2>1, <2>2, <2>3, <1>save
<1>20. CASE RuntimeRetry
  BY <1>typed, <1>20, TicketRunAssumption DEF RuntimeRetry, TicketRunAssumption,
     TypeOK, PC, memory, op
<1>21. CASE RuntimeBlocked
  <2>1. \A o \in {"blocked", "cancelled"} :
             [st EXCEPT !.phase = "blocked", !.outcome = o] \in Ticket
    BY <1>typed DEF Ticket, Phase, Outcome
  <2>2. st' \in Ticket
    BY <1>21, <2>1 DEF RuntimeBlocked
  <2>3. /\ \E l \in {"loop", "verify", "constraints", "stop", "release"} : PersistThen(l)
        /\ UNCHANGED << tree, snap, side, store, op, starts >> /\ lapses' \in Nat
    BY <1>21, <1>typed DEF RuntimeBlocked, TypeOK
  <2>4. QED
    BY <2>1, <2>2, <2>3, <1>save
<1>22. CASE Stop
  <2>1. st' \in Ticket
    BY <1>typed, <1>22 DEF Stop
  <2>2. /\ \E l \in {"loop", "verify", "constraints", "stop", "release"} : PersistThen(l)
        /\ UNCHANGED << tree, snap, side, store, op, starts >> /\ lapses' \in Nat
    BY <1>22, <1>typed DEF Stop, TypeOK
  <2>3. QED
    BY <2>1, <2>2, <1>save
<1>23. CASE Release
  BY <1>typed, <1>23 DEF Release, TypeOK, PC, memory, op
<1>24. CASE UpdateStatus
  BY <1>typed, <1>24, NewTicketType, TicketRunAssumption DEF UpdateStatus, Stopped,
     Sidecars, TicketRunAssumption, TypeOK, PC, memory, op
<1>25. CASE Fails
  BY <1>typed, <1>25 DEF Fails, TypeOK, PC, memory, op
<1>26. CASE Crash
  BY <1>typed, <1>26, NewTicketType, TicketRunAssumption DEF Crash, Sidecars,
     TicketRunAssumption, TypeOK, PC, memory, op
<1>27. CASE ReopenRead
  <2>1. snap \in Ticket /\ Hydrated(snap) \in Ticket
    BY <1>typed, <1>27, HydratedType DEF ReopenRead
  <2>2. \A to \in ReopenTargets(snap.phase) : [Hydrated(snap) EXCEPT !.phase = to] \in Ticket
    BY <2>1 DEF Ticket, Phase, ReopenTargets
  <2>3. edit' \in Ticket
    BY <2>2, <1>27 DEF ReopenRead
  <2>4. QED
    BY <1>typed, <1>27, <2>1, <2>2, <2>3 DEF ReopenRead, TypeOK, PC, memory, op
<1>28. CASE ReopenCommit
  BY <1>typed, <1>28 DEF ReopenCommit, TypeOK, PC, memory, op
<1>epic. CASE EpicChanges
  BY <1>typed, <1>epic DEF EpicChanges, TypeOK, memory
<1>29. CASE UNCHANGED vars
  BY <1>typed, <1>29 DEF vars, TypeOK, memory, op
<1>30. QED
  BY <1>1, <1>2, <1>3, <1>4, <1>5, <1>6, <1>7, <1>8, <1>9, <1>10, <1>11, <1>12,
     <1>13, <1>14, <1>15, <1>16, <1>17, <1>18, <1>19, <1>20, <1>21, <1>22,
     <1>23, <1>24, <1>25, <1>26, <1>27, <1>28, <1>29, <1>epic
     DEF Next, RunTicket, Persist, Gate, Worker, Verifier, Reviewer, Runtime, Leave,
         Reopen
-----------------------------------------------------------------------------
(* The invariant *)

Rest == MemoryFits /\ SnapshotFits /\ EditFits /\ WorkIsRecorded /\ Places

\* Nothing has been promised at first.
LEMMA InitRest == Init => Rest
  BY DEF Init, Rest, MemoryFits, SnapshotFits, EditFits, WorkIsRecorded, Places, At

\* A ticket before its review promises nothing.
LEMMA Unjudged ==
    ASSUME NEW t, t.phase \notin Judged
    PROVE  Fits(t)
  BY DEF Fits, Judged

\* An action that ends in a persist need only see to the ticket in memory and to
\* where the engine goes on.
LEMMA PersistKeeps ==
    ASSUME IInv, NEW l, PersistThen(l), UNCHANGED << tree, snap, edit >>, Fits(st)',
           l \in {"verify", "constraints"} => st'.phase = "verify",
           l = "constraints" => Current(st.verification)'
    PROVE  Rest'
  BY DEF IInv, Rest, PersistThen, MemoryFits, SnapshotFits, EditFits, WorkIsRecorded,
         Places, At, Fits, Found, Current

\* Every step keeps the rest of the invariant.
LEMMA RestInductive == IInv /\ [Next]_vars => Rest'
<1> SUFFICES ASSUME IInv, [Next]_vars
             PROVE  Rest'
  OBVIOUS
<1>typed. /\ TypeOK /\ st \in Ticket /\ side \in Ticket /\ tree \in Nat
          /\ edit # NoArtifact => edit \in Ticket
          /\ snap # NoArtifact => snap \in Ticket
  BY DEF IInv, TypeOK
<1>rest. Rest
  BY DEF IInv, Rest
<1>1. CASE Start
  <2>1. CASE snap = NoArtifact
    <3>1. st'.phase = "intake"
      <4>1. NewTicket.phase = "intake"
        BY DEF NewTicket
      <4>2. st' = NewTicket
        BY <1>1, <2>1, <1>typed, RestoredType DEF Start
      <4>3. QED
        BY <4>1, <4>2
    <3>2. QED
      BY <1>1, <2>1, <3>1, <1>rest
         DEF Start, Rest, MemoryFits, SnapshotFits, EditFits, WorkIsRecorded, Places,
             At, Fits, op, Working, Judged
  <2>2. CASE snap # NoArtifact
    <3>1. /\ st'.phase \in {snap.phase, "intake", "implement"}
          /\ st'.phase \in Working => snap.phase \in {st'.phase, "blocked"}
          /\ snap.verification # NoArtifact => st'.verification = snap.verification
          /\ snap.review # NoArtifact => st'.review = snap.review
          /\ snap.closeout # NoArtifact => st'.closeout = snap.closeout
      BY <1>1, <2>2, <1>typed, RestoredType DEF Start
    <3>2. Fits(snap) /\ Fits(snap)'
      BY <1>1, <2>2, <1>rest
         DEF Start, Rest, SnapshotFits, Fits, Found, Current
    <3>3. Fits(st)'
      BY <3>1, <3>2, <1>1 DEF Start, Fits, Found, Current, Judged
    <3>4. /\ pc' \in {"fail", "gate"} /\ snap' = snap /\ edit' = edit
      BY <1>1 DEF Start, op
    <3>5. WorkIsRecorded'
      BY <3>1, <3>4 DEF WorkIsRecorded, Working, Judged
    <3>6. QED
      BY <3>2, <3>3, <3>4, <3>5, <1>rest
         DEF Rest, MemoryFits, SnapshotFits, EditFits, Places, At
  <2>3. QED
    BY <2>1, <2>2
<1>2. CASE SaveSidecar
  BY <1>2, <1>rest DEF SaveSidecar, Rest, MemoryFits, SnapshotFits, EditFits,
     WorkIsRecorded, Places, At, Fits, Found, Current, op
<1>3. CASE SaveSnapshot
  <2>1. /\ snap' = Snapshot(st) /\ snap' \in Ticket
        /\ snap'.phase = st.phase /\ snap'.verification = st.verification
        /\ snap'.review = st.review /\ snap'.closeout = st.closeout
    BY <1>typed, <1>3, SnapshotType DEF SaveSnapshot
  <2>2. Fits(snap)'
    BY <1>rest, <2>1, <1>3 DEF SaveSnapshot, Rest, MemoryFits, Fits, Found, Current
  <2>3. QED
    BY <1>3, <2>1, <2>2, <1>rest, <1>typed DEF SaveSnapshot, Rest, MemoryFits,
       SnapshotFits, EditFits, WorkIsRecorded, Places, At, Fits, Found, Current, op,
       memory, Working, Judged, TypeOK
<1>4. CASE GatesBlock
  <2>1. st'.phase = "blocked"
    BY <1>typed, <1>4 DEF GatesBlock, Ticket
  <2>2. Fits(st)'
    BY <2>1 DEF Fits, Judged
  <2>3. PersistThen("release") /\ UNCHANGED << tree, snap, edit >>
    BY <1>4 DEF GatesBlock, op
  <2>4. QED
    BY <2>1, <2>2, <2>3, PersistKeeps
<1>5. CASE GatesPass
  <2>1. st'.phase = "implement"
    BY <1>typed, <1>5 DEF GatesPass, Ticket
  <2>2. Fits(st)'
    BY <2>1 DEF Fits, Judged
  <2>3. PersistThen("loop") /\ UNCHANGED << tree, snap, edit >>
    BY <1>5 DEF GatesPass, op
  <2>4. QED
    BY <2>1, <2>2, <2>3, PersistKeeps
<1>6. CASE PastIntake
  BY <1>6, <1>rest DEF PastIntake, Rest, MemoryFits, SnapshotFits, EditFits,
     WorkIsRecorded, Places, At, Fits, Found, Current, op, memory
<1>7. CASE BeginWorker
  BY <1>7, <1>rest DEF BeginWorker, Rest, MemoryFits, SnapshotFits, EditFits,
     WorkIsRecorded, Places, At, Fits, Found, Current, op, Working, Judged
<1>8. CASE WorkerDone
  <2>1. st'.phase = "verify"
    BY <1>typed, <1>8 DEF WorkerDone, Ticket
  <2>2. Fits(st)'
    BY <2>1 DEF Fits, Judged
  <2>3. PersistThen("verify") /\ UNCHANGED << tree, snap, edit >>
    BY <1>8 DEF WorkerDone, op
  <2>4. QED
    BY <2>1, <2>2, <2>3, PersistKeeps
<1>9. CASE WorkerBlocked
  <2>1. st'.phase = "blocked"
    BY <1>typed, <1>9 DEF WorkerBlocked, Ticket
  <2>2. Fits(st)'
    BY <2>1 DEF Fits, Judged
  <2>3. PersistThen("stop") /\ UNCHANGED << tree, snap, edit >>
    BY <1>9 DEF WorkerBlocked, op
  <2>4. QED
    BY <2>1, <2>2, <2>3, PersistKeeps
<1>10. CASE BeginVerify
  <2>1. st' = st /\ st.phase = "verify"
    BY <1>10 DEF BeginVerify
  <2>2. Fits(st)'
    BY <2>1 DEF Fits, Judged
  <2>3. PersistThen("verify") /\ UNCHANGED << tree, snap, edit >>
    BY <1>10 DEF BeginVerify, op
  <2>4. QED
    BY <2>1, <2>2, <2>3, PersistKeeps
<1>11. CASE Verify
  <2>1. st.phase = "verify"
    BY <1>rest, <1>11 DEF Verify, Rest, MemoryFits, SnapshotFits, EditFits,
       WorkIsRecorded, Places, At, Fits, Found, Current
  <2>2. \E b \in BOOLEAN : st' = [st EXCEPT !.verification = Verified(b)]
    BY <1>11 DEF Verify
  <2>3. st'.phase = "verify" /\ \E b \in BOOLEAN : st'.verification = Verified(b)
    BY <1>typed, <2>1, <2>2 DEF Ticket
  <2>4. tree' = tree
    BY <1>11 DEF Verify
  <2>5. Current(st.verification)'
    BY <1>typed, <2>3, <2>4, Judgements DEF Current
  <2>6. Fits(st)'
    BY <2>3 DEF Fits, Judged
  <2>7. PersistThen("constraints") /\ UNCHANGED << tree, snap, edit >>
    BY <1>11 DEF Verify, op
  <2>8. QED
    BY <2>1, <2>2, <2>3, <2>4, <2>5, <2>6, <2>7, PersistKeeps
<1>12. CASE VerificationFailed
  <2>1. st'.phase \in {"implement", "blocked"}
    BY <1>typed, <1>12, FailureType DEF VerificationFailed
  <2>2. Fits(st)'
    BY <2>1 DEF Fits, Judged
  <2>3. PersistThen("loop") /\ UNCHANGED << tree, snap, edit >>
    BY <1>12 DEF VerificationFailed, op
  <2>4. QED
    BY <2>1, <2>2, <2>3, PersistKeeps
<1>13. CASE AdvisoryFailed
  <2>1. st'.phase = "implement"
    BY <1>typed, <1>13, FailureType DEF AdvisoryFailed
  <2>2. Fits(st)'
    BY <2>1 DEF Fits, Judged
  <2>3. PersistThen("loop") /\ UNCHANGED << tree, snap, edit >>
    BY <1>13 DEF AdvisoryFailed, op
  <2>4. QED
    BY <2>1, <2>2, <2>3, PersistKeeps
<1>14. CASE ConstraintFailed
  <2>1. st.verification \in Optional /\ st.verification # NoArtifact
    BY <1>typed, <1>rest, <1>14, TicketFields DEF Rest, Places, At, Current,
       ConstraintFailed
  <2>2. [st.verification EXCEPT !.passed = FALSE] \in Optional
    BY <1>typed, <2>1, Judgements
  <2>3. [st EXCEPT !.verification = [st.verification EXCEPT !.passed = FALSE]] \in Ticket
    BY <1>typed, <2>2 DEF Ticket
  <2>4. [st EXCEPT !.verification.passed = FALSE] \in Ticket
    BY <2>3
  <2>5. st'.phase \in {"implement", "blocked"}
    BY <1>14, <2>4, FailureType DEF ConstraintFailed
  <2>6. Fits(st)'
    BY <2>5 DEF Fits, Judged
  <2>7. PersistThen("loop") /\ UNCHANGED << tree, snap, edit >>
    BY <1>14 DEF ConstraintFailed, op
  <2>8. QED
    BY <2>1, <2>2, <2>3, <2>4, <2>5, <2>6, <2>7, PersistKeeps
<1>15. CASE VerificationPassed
  <2>1. st'.phase = "review" /\ st'.verification = st.verification /\ tree' = tree
    BY <1>typed, <1>15 DEF VerificationPassed, Ticket
  <2>2. Found(st.verification)
    BY <1>rest, <1>15 DEF VerificationPassed, Rest, Places, At, Found
  <2>3. Fits(st)'
    BY <2>1, <2>2 DEF Fits, Found, Current
  <2>4. PersistThen("loop") /\ UNCHANGED << tree, snap, edit >>
    BY <1>15 DEF VerificationPassed, op
  <2>5. QED
    BY <2>1, <2>2, <2>3, <2>4, PersistKeeps
<1>16. CASE BeginReviewer
  BY <1>16, <1>rest DEF BeginReviewer, Rest, MemoryFits, SnapshotFits, EditFits,
     WorkIsRecorded, Places, At, Fits, Found, Current, op
<1>17. CASE ReviewPassed
  <2>1. \E b \in BOOLEAN : st' = [st EXCEPT !.phase = "closeout", !.review = Verified(TRUE),
                                        !.closeout = Closeout(b)]
    BY <1>17 DEF ReviewPassed
  <2>2. /\ st'.phase = "closeout" /\ st'.verification = st.verification
        /\ st'.review = Verified(TRUE) /\ \E b \in BOOLEAN : st'.closeout = Closeout(b)
    BY <1>typed, <2>1 DEF Ticket
  <2>3. Found(st.verification) /\ st.verification \in Optional
    BY <1>typed, <1>rest, <1>17, TicketFields DEF ReviewPassed, Rest, Places,
       MemoryFits, Fits, Judged
  <2>4. \A b \in BOOLEAN : Closeout(b) \in Judgement
    BY <1>typed, <2>3, Judgements DEF Closeout, Found, Current, Judgement
  <2>5. \A b \in BOOLEAN : Closeout(b).tree = st.verification.tree
    BY DEF Closeout
  <2>6. \A b \in BOOLEAN : Current(Closeout(b))
    BY <2>3, <2>4, <2>5, TicketRunAssumption DEF Found, Current, TicketRunAssumption
  <2>7. Found(Verified(TRUE))
    BY <1>typed, Judgements DEF Found
  <2>8. tree' = tree
    BY <1>17 DEF ReviewPassed
  <2>9. Fits(st)'
    BY <2>2, <2>3, <2>6, <2>7, <2>8 DEF Fits, Found, Current
  <2>10. PersistThen("loop") /\ UNCHANGED << tree, snap, edit >>
    BY <1>17 DEF ReviewPassed, op
  <2>11. QED
    BY <2>1, <2>2, <2>3, <2>4, <2>5, <2>6, <2>7, <2>8, <2>9, <2>10, PersistKeeps
<1>18. CASE ReviewBlocks
  <2> DEFINE t == [st EXCEPT !.review = Verified(FALSE), !.reviewCycles = @ + 1]
  <2>1. t \in Ticket
    BY <1>typed, TicketFields, Edits, Judgements
  <2>2. \/ st' = [t EXCEPT !.phase = "repair"]
        \/ st' = [t EXCEPT !.phase = "blocked", !.outcome = "needs_decision"]
    BY <1>18 DEF ReviewBlocks
  <2>3. (\E l \in {"loop", "release"} : PersistThen(l)) /\ UNCHANGED << tree, snap, edit >>
    BY <1>18 DEF ReviewBlocks, op
  <2> HIDE DEF t
  <2>4. st'.phase \in {"repair", "blocked"}
    BY <2>1, <2>2 DEF Ticket
  <2>5. Fits(st)'
    BY <2>4 DEF Fits, Judged
  <2>6. QED
    BY <2>3, <2>5, PersistKeeps
<1>19. CASE CloseTicket
  <2>1. \/ st.closeout.passed /\ st' = [st EXCEPT !.phase = "closed"]
        \/ st' = [st EXCEPT !.phase = "repair"]
    BY <1>19 DEF CloseTicket
  <2>2. /\ st'.phase = "repair" \/ (st'.phase = "closed" /\ st.closeout.passed)
        /\ st'.verification = st.verification /\ st'.review = st.review
        /\ st'.closeout = st.closeout
    BY <1>typed, <2>1 DEF Ticket
  <2>3. /\ Found(st.verification) /\ Found(st.review) /\ Current(st.closeout)
        /\ tree' = tree
    BY <1>rest, <1>19 DEF CloseTicket, Rest, MemoryFits, Fits, Judged
  <2>4. Fits(st)'
    BY <2>2, <2>3 DEF Fits, Found, Current, Judged
  <2>5. PersistThen("loop") /\ UNCHANGED << tree, snap, edit >>
    BY <1>19 DEF CloseTicket, op
  <2>6. QED
    BY <2>1, <2>2, <2>3, <2>4, <2>5, PersistKeeps
<1>20. CASE RuntimeRetry
  BY <1>20, <1>rest DEF RuntimeRetry, Rest, MemoryFits, SnapshotFits, EditFits,
     WorkIsRecorded, Places, At, Fits, Found, Current, op
<1>21. CASE RuntimeBlocked
  <2>1. st'.phase = "blocked"
    BY <1>typed, <1>21 DEF RuntimeBlocked, Ticket
  <2>2. Fits(st)'
    BY <2>1 DEF Fits, Judged
  <2>3. PersistThen("stop") /\ UNCHANGED << tree, snap, edit >>
    BY <1>21 DEF RuntimeBlocked, op
  <2>4. QED
    BY <2>2, <2>3, PersistKeeps
<1>22. CASE Stop
  <2>1. st' = st /\ tree' = tree
    BY <1>22 DEF Stop
  <2>2. Fits(st)
    BY <1>rest, <1>22 DEF Stop, Rest, MemoryFits
  <2>3. Fits(st)'
    BY <2>1, <2>2 DEF Fits, Found, Current
  <2>4. PersistThen("release") /\ UNCHANGED << tree, snap, edit >>
    BY <1>22 DEF Stop, op
  <2>5. QED
    BY <2>1, <2>2, <2>3, <2>4, PersistKeeps
<1>23. CASE Release
  BY <1>23, <1>rest DEF Release, Rest, MemoryFits, SnapshotFits, EditFits,
     WorkIsRecorded, Places, At, Fits, Found, Current, op, memory
<1>24. CASE UpdateStatus
  BY <1>24, <1>rest DEF UpdateStatus, Rest, MemoryFits, SnapshotFits, EditFits,
     WorkIsRecorded, Places, At, Fits, Found, Current, op, memory
<1>25. CASE Fails
  BY <1>25, <1>rest DEF Fails, Rest, MemoryFits, SnapshotFits, EditFits,
     WorkIsRecorded, Places, At, Fits, Found, Current, op, memory
<1>26. CASE Crash
  BY <1>26, <1>rest DEF Crash, Rest, MemoryFits, SnapshotFits, EditFits,
     WorkIsRecorded, Places, At, Fits, Found, Current, op, memory
<1>27. CASE ReopenRead
  <2>1. snap \in Ticket /\ Hydrated(snap) \in Ticket
    BY <1>typed, <1>27, HydratedType DEF ReopenRead
  <2>2. edit'.phase \in Working
    BY <2>1, <1>27 DEF ReopenRead, ReopenTargets, Working, Ticket
  <2>3. QED
    BY <1>27, <2>1, <2>2, <1>rest DEF ReopenRead, Rest, MemoryFits, SnapshotFits,
       EditFits, WorkIsRecorded, Places, At, Fits, Found, Current, memory
<1>28. CASE ReopenCommit
  BY <1>28, <1>rest DEF ReopenCommit, Rest, MemoryFits, SnapshotFits, EditFits,
     WorkIsRecorded, Places, At, Fits, Found, Current, memory, Working, Judged
<1>epic. CASE EpicChanges
  BY <1>epic, <1>rest DEF EpicChanges, Rest, MemoryFits, SnapshotFits, EditFits,
     WorkIsRecorded, Places, At, Fits, Found, Current, memory
<1>29. CASE UNCHANGED vars
  BY <1>29, <1>rest DEF Rest, MemoryFits, SnapshotFits, EditFits, WorkIsRecorded,
     Places, At, Fits, Found, Current, vars, memory, op
<1>30. QED
  BY <1>1, <1>2, <1>3, <1>4, <1>5, <1>6, <1>7, <1>8, <1>9, <1>10, <1>11, <1>12,
     <1>13, <1>14, <1>15, <1>16, <1>17, <1>18, <1>19, <1>20, <1>21, <1>22,
     <1>23, <1>24, <1>25, <1>26, <1>27, <1>28, <1>29, <1>epic
     DEF Next, RunTicket, Persist, Gate, Worker, Verifier, Reviewer, Runtime, Leave,
         Reopen

\* The inductive invariant holds of every behaviour.
LEMMA Invariant == Spec => []IInv
<1>1. Init => IInv
  BY InitType, InitRest DEF IInv, Rest
<1>2. IInv /\ [Next]_vars => IInv'
  BY TypeInductive, RestInductive DEF IInv, Rest
<1>3. QED
  BY <1>1, <1>2, PTL DEF Spec

-----------------------------------------------------------------------------
(* Theorems *)

\* Type correctness: every file and variable of the ticket's run is one RunTicket,
\* resume and reopen can make sense of, and no runtime call is retried beyond
\* maxRuntimeRetryAttempts.
THEOREM TypeCorrect == Spec => []TypeOK
<1>1. IInv => TypeOK
  BY DEF IInv
<1>2. QED
  BY <1>1, Invariant, PTL

\* The artifacts of a closed ticket that runs in a worktree of its own vouch for
\* the worktree as it is: no retry, repair, crash, resume, failed save or concurrent
\* reopening makes RunTicket close work it has not verified and reviewed.
THEOREM ClosedIsVerifiedHolds ==
    ASSUME Epic = FALSE
    PROVE  Spec => []ClosedIsVerified
<1>1. IInv => ClosedIsVerified
  BY DEF IInv, SnapshotFits, Fits, Found, Current, Judged, ClosedIsVerified, Complete,
         Vouched
<1>2. QED
  BY <1>1, Invariant, PTL

-----------------------------------------------------------------------------
(* Budgets, what is on disk when RunTicket returns, and the ticket store *)

Up == pc # "down"

\* As many attempts as the policy grants with so many blocking reviews, beyond what
\* lapses, restarts and reopenings have bought.
Within(attempts, reviews) ==
    attempts <= MaxImplementationAttempts + reviews + lapses + (starts - 1) + reopens

\* One attempt more, for a ticket on which a worker is going to be let loose.
Owed(t) ==
    IF t.phase \in {"intake", "implement", "repair"} \/
       (t.phase = "closeout" /\ ~t.closeout.passed)
    THEN 1 ELSE 0

\* A ticket that has been verified has been attempted.
Attempted(t) ==
    /\ t.phase \in {"verify", "review", "closeout", "closed"} => t.attempts > 0
    /\ t.attempts = 0 => t.checkCycles = 0 /\ t.reviewCycles = 0

\* The budget of the ticket in memory, of the snapshot and of a reopening.
MemoryBudget ==
    Up => /\ starts > 0 /\ Attempted(st)
          /\ Within(st.attempts + Owed(st), st.reviewCycles)
FileBudget(s) ==
    s # NoArtifact => /\ starts > 0 /\ Attempted(s)
                      /\ s.attempts > 0 => Within(s.attempts, s.reviewCycles)
SnapshotBudget == FileBudget(snap)
EditBudget     == FileBudget(edit)

\* When the sidecars have the attempts: before any snapshot has.
SidecarsFirst ==
    /\ side.attempts = 0 => side.checkCycles = 0 /\ side.reviewCycles = 0
    /\ snap = NoArtifact =>
          /\ side.attempts = 0
          /\ Up => st.attempts = 0 /\ pc \in {"gate", "saving", "fail"}
          /\ pc = "gate" => st.phase = "intake"
    /\ snap # NoArtifact /\ snap.attempts > 0 => side.attempts > 0
    /\ edit # NoArtifact /\ edit.attempts > 0 => side.attempts > 0
    /\ edit # NoArtifact => snap # NoArtifact
    /\ Up /\ st.attempts = 0 => side.attempts = 0
    /\ Up /\ side.attempts = 0 =>
          /\ st.checkCycles = 0 /\ st.reviewCycles = 0
          /\ st.attempts > 0 => pc = "fail" \/ (pc = "saving" /\ saved < 2)

\* How far a persist in progress has come.
SidecarsWritten ==
    pc = "saving" =>
        /\ saved >= 1 => side.reviewCycles >= st.reviewCycles
        /\ saved >= 2 /\ st.attempts > 0 => side.attempts = st.attempts

\* A ticket may yet start with the attempts of the sidecars.
FromSidecars ==
    \/ snap = NoArtifact \/ snap.attempts = 0
    \/ edit # NoArtifact /\ edit.attempts = 0

\* Then these are within the budget, of the reviews the sidecars have and of those
\* the ticket has that will be written over them.
SidecarBudget ==
    FromSidecars =>
        /\ starts > 0 => Within(side.attempts, side.reviewCycles)
        /\ Up => Within(side.attempts, st.reviewCycles)

\* While a reopening that knows of no attempt is under way no other was, and the
\* snapshot is one attempt behind at most.
OneBehind ==
    edit # NoArtifact /\ edit.attempts = 0 /\ snap # NoArtifact /\ snap.attempts > 0 =>
        /\ side.attempts <= snap.attempts + 1
        /\ pc = "saving" => st.attempts <= snap.attempts + 1
        /\ Up /\ pc \notin {"saving", "fail"} => st.attempts = snap.attempts

Budgets ==
    /\ MemoryBudget /\ SnapshotBudget /\ EditBudget /\ SidecarsFirst
    /\ SidecarsWritten /\ SidecarBudget /\ OneBehind

\* What is on disk when RunTicket is about to return.
Recorded ==
    /\ At("stop") => Stopped(st)
    /\ pc = "saving" /\ then = "release" => Stopped(st)
    /\ pc \in {"release", "return"} => Stopped(st) /\ snap = Snapshot(st)

\* Where the store stands of an epic's ticket.
StoreFollows ==
    /\ store # "in_progress"
    /\ Up => store \in {"ready", "open"}
    /\ Up /\ snap # NoArtifact /\ snap.phase = "closed" => st.phase = "closed"
    /\ ~Up /\ snap # NoArtifact /\ snap.phase = "closed" => store # "blocked"

-----------------------------------------------------------------------------
(* The budget *)

\* The numbers involved.
Counts(t) == t.attempts \in Nat /\ t.checkCycles \in Nat /\ t.reviewCycles \in Nat
Numbers ==
    /\ Counts(st) /\ Counts(side)
    /\ snap # NoArtifact => Counts(snap)
    /\ edit # NoArtifact => Counts(edit)
    /\ starts \in Nat /\ reopens \in Nat /\ lapses \in Nat /\ saved \in 0 .. 5
    /\ MaxImplementationAttempts \in Nat /\ MaxImplementationAttempts > 0

\* The types say that all of them are natural numbers.
LEMMA TypesCount == (TypeOK => Numbers) /\ (TypeOK' => Numbers')
<1>1. TypeOK => Numbers
  BY TicketFields, TicketRunAssumption
     DEF TypeOK, TicketRunAssumption, Sidecars, Numbers, Counts
<1> QED BY <1>1, PTL

\* A ticket is owed one attempt at most.
LEMMA OwedIsSmall == \A t : Owed(t) \in {0, 1}
  BY DEF Owed

\* At the beginning nothing has been attempted.
LEMMA InitBudgets == Init => Budgets
<1> SUFFICES ASSUME Init
             PROVE  Budgets
  OBVIOUS
<1>1. /\ pc = "down" /\ snap = NoArtifact /\ edit = NoArtifact /\ starts = 0
      /\ side.attempts = 0 /\ side.checkCycles = 0 /\ side.reviewCycles = 0
  BY DEF Init, NewTicket
<1>2. MemoryBudget /\ SnapshotBudget /\ EditBudget
  BY <1>1 DEF MemoryBudget, SnapshotBudget, EditBudget, FileBudget, Up
<1>3. SidecarsFirst /\ SidecarsWritten /\ SidecarBudget /\ OneBehind
  BY <1>1 DEF SidecarsFirst, SidecarsWritten, SidecarBudget, FromSidecars, OneBehind, Up
<1> QED BY <1>2, <1>3 DEF Budgets

\* A step that changes the ticket in memory and persists it.
LEMMA PersistKeepsBudgets ==
    ASSUME TypeOK, TypeOK', Budgets, Up, pc \notin {"saving", "fail"},
           \E l \in PC : PersistThen(l),
           UNCHANGED << snap, side, edit, starts, reopens >>, lapses' >= lapses,
           st'.attempts \in {st.attempts, st.attempts + 1},
           st'.reviewCycles >= st.reviewCycles,
           snap = NoArtifact => st'.attempts = 0,
           side.attempts = 0 => st'.checkCycles = 0 /\ st'.reviewCycles = 0,
           Attempted(st)', Within(st.attempts + Owed(st), st.reviewCycles)'
    PROVE  Budgets'
<1>1. pc' = "saving" /\ saved' = 0
  BY DEF PersistThen
<1>2. Numbers /\ Numbers'
  BY TypesCount
<1>3. MemoryBudget'
  BY DEF Budgets, MemoryBudget, Up
<1>4. SnapshotBudget' /\ EditBudget'
  BY <1>2 DEF Budgets, SnapshotBudget, EditBudget, FileBudget, Attempted, Within,
              Numbers, Counts
<1>5. SidecarsFirst' /\ SidecarsWritten'
  BY <1>1, <1>2 DEF Budgets, SidecarsFirst, SidecarsWritten, Up, Numbers, Counts
<1>6. SidecarBudget'
  BY <1>1, <1>2 DEF Budgets, SidecarBudget, FromSidecars, Within, Up, Numbers, Counts
<1>7. OneBehind'
  BY <1>1, <1>2 DEF Budgets, OneBehind, Up, Numbers, Counts
<1> QED BY <1>3, <1>4, <1>5, <1>6, <1>7 DEF Budgets

\* A step that changes no ticket, in memory or in a file, and none that ends the
\* process.
LEMMA PlaceKeepsBudgets ==
    ASSUME TypeOK, TypeOK', Budgets, Up, pc' # "down", pc' # "saving",
           pc \notin {"saving", "fail"} \/ pc' = "fail",
           pc' \in {"gate", "fail"} \/ snap # NoArtifact, pc' = "gate" => pc = "gate",
           UNCHANGED << st, snap, side, edit, starts, reopens, lapses >>
    PROVE  Budgets'
<1>1. Numbers /\ Numbers'
  BY TypesCount
<1>2. MemoryBudget' /\ SnapshotBudget' /\ EditBudget'
  BY DEF Budgets, MemoryBudget, SnapshotBudget, EditBudget, FileBudget, Attempted,
         Within, Up, Owed
<1>3. SidecarsFirst' /\ SidecarsWritten'
  BY <1>1 DEF Budgets, SidecarsFirst, SidecarsWritten, Up, Numbers, Counts
<1>4. SidecarBudget'
  BY DEF Budgets, SidecarBudget, FromSidecars, Within, Up
<1>5. OneBehind'
  BY DEF Budgets, OneBehind, Up
<1> QED BY <1>2, <1>3, <1>4, <1>5 DEF Budgets

\* The process ends.
LEMMA EndKeepsBudgets ==
    ASSUME Budgets, pc' = "down",
           UNCHANGED << snap, side, edit, starts, reopens, lapses >>
    PROVE  Budgets'
<1>1. MemoryBudget' /\ SnapshotBudget' /\ EditBudget'
  BY DEF Budgets, MemoryBudget, SnapshotBudget, EditBudget, FileBudget, Attempted,
         Within, Up
<1>2. SidecarsFirst' /\ SidecarsWritten'
  BY DEF Budgets, SidecarsFirst, SidecarsWritten, Up
<1>3. SidecarBudget' /\ OneBehind'
  BY DEF Budgets, SidecarBudget, FromSidecars, Within, Up, OneBehind
<1> QED BY <1>1, <1>2, <1>3 DEF Budgets

\* The counters of a snapshot completed from the sidecars.
LEMMA HydratedCounts ==
    ASSUME Counts(side), side \in Ticket, NEW s \in Ticket
    PROVE  /\ Counts(Hydrated(s))
           /\ Hydrated(s).attempts = IF s.attempts = 0 THEN side.attempts ELSE s.attempts
           /\ Hydrated(s).checkCycles =
                 IF RepairCycles(s) = 0 THEN side.checkCycles ELSE s.checkCycles
           /\ Hydrated(s).reviewCycles =
                 IF RepairCycles(s) = 0 THEN side.reviewCycles ELSE s.reviewCycles
  BY DEF Hydrated, Ticket, Counts

\* A file's ticket, completed from the sidecars, is within the budget; and who has no
\* attempt after that has none in the sidecars either.
LEMMA HydratedBudget ==
    ASSUME TypeOK, Budgets, snap # NoArtifact
    PROVE  LET h == Hydrated(snap) IN
           /\ Counts(h)
           /\ Within(h.attempts, h.reviewCycles)
           /\ snap.attempts > 0 => /\ h.attempts = snap.attempts
                                   /\ h.reviewCycles >= snap.reviewCycles
           /\ snap.attempts = 0 => /\ h.attempts = side.attempts
                                   /\ h.reviewCycles = side.reviewCycles
           /\ h.attempts = 0 => side.attempts = 0 /\ h.checkCycles = 0
                                /\ h.reviewCycles = 0
<1> DEFINE h == Hydrated(snap)
<1>1. Numbers /\ snap \in Ticket /\ side \in Ticket
  BY TypesCount DEF TypeOK
<1>2. /\ Counts(h)
      /\ h.attempts = IF snap.attempts = 0 THEN side.attempts ELSE snap.attempts
      /\ h.checkCycles = IF RepairCycles(snap) = 0 THEN side.checkCycles
                         ELSE snap.checkCycles
      /\ h.reviewCycles = IF RepairCycles(snap) = 0 THEN side.reviewCycles
                          ELSE snap.reviewCycles
  BY <1>1, HydratedCounts DEF Numbers
<1> HIDE DEF h
<1>3. starts > 0 /\ Attempted(snap)
      /\ (snap.attempts > 0 => Within(snap.attempts, snap.reviewCycles))
  BY DEF Budgets, SnapshotBudget, FileBudget
<1>4. snap.attempts > 0 => /\ h.attempts = snap.attempts
                           /\ h.reviewCycles >= snap.reviewCycles
  BY <1>1, <1>2 DEF Numbers, Counts, RepairCycles
<1>5. snap.attempts = 0 => h.attempts = side.attempts /\ h.reviewCycles = side.reviewCycles
                           /\ h.checkCycles = side.checkCycles
  BY <1>1, <1>2, <1>3 DEF Numbers, Counts, RepairCycles, Attempted
<1>6. Within(h.attempts, h.reviewCycles)
  <2>1. CASE snap.attempts = 0
    BY <1>3, <1>5, <2>1 DEF Budgets, SidecarBudget, FromSidecars, Within
  <2>2. CASE snap.attempts > 0
    BY <1>1, <1>2, <1>3, <1>4, <2>2 DEF Within, Numbers, Counts
  <2> QED BY <1>1, <2>1, <2>2 DEF Numbers, Counts
<1>7. h.attempts = 0 => side.attempts = 0 /\ h.checkCycles = 0 /\ h.reviewCycles = 0
  BY <1>1, <1>4, <1>5 DEF Budgets, SidecarsFirst, Numbers, Counts
<1> QED BY <1>2, <1>4, <1>5, <1>6, <1>7 DEF h


\* Every step keeps the budgets.
LEMMA BudgetsInductive == IInv /\ IInv' /\ Budgets /\ [Next]_vars => Budgets'
<1> SUFFICES ASSUME IInv, IInv', Budgets, [Next]_vars
             PROVE  Budgets'
  OBVIOUS
<1>typed. /\ TypeOK /\ TypeOK' /\ Numbers /\ Numbers' /\ st \in Ticket /\ st' \in Ticket
          /\ side \in Ticket
  <2>1. TypeOK /\ TypeOK'
    BY DEF IInv
  <2>2. st \in Ticket /\ st' \in Ticket /\ side \in Ticket
    BY <2>1 DEF TypeOK
  <2> QED BY <2>1, <2>2, TypesCount
<1>owed. Owed(st) \in {0, 1}
  BY OwedIsSmall
<1>memory. Up => /\ starts > 0 /\ Attempted(st)
                 /\ Within(st.attempts + Owed(st), st.reviewCycles)
  BY DEF Budgets, MemoryBudget
<1>persist. ASSUME Up, pc \notin {"saving", "fail"}, pc = "gate" \/ snap # NoArtifact,
                   \E l \in PC : PersistThen(l),
                   UNCHANGED << snap, side, edit, starts, reopens >>, lapses' >= lapses,
                   st'.attempts \in {st.attempts, st.attempts + 1},
                   pc = "gate" => st'.attempts = st.attempts,
                   st'.reviewCycles >= st.reviewCycles,
                   \/ st'.checkCycles = st.checkCycles /\ st'.reviewCycles = st.reviewCycles
                   \/ st.attempts > 0,
                   st'.phase \in {"verify", "review", "closeout", "closed"}
                       => st'.attempts > 0,
                   Within(st.attempts + Owed(st), st.reviewCycles)'
            PROVE  Budgets'
  <2>1. snap = NoArtifact => st'.attempts = 0
    BY <1>persist DEF Budgets, SidecarsFirst, Up
  <2>2. side.attempts = 0 => st'.checkCycles = 0 /\ st'.reviewCycles = 0
    BY <1>persist, <1>typed DEF Budgets, SidecarsFirst, Up, Numbers, Counts
  <2>3. Attempted(st)'
    BY <1>persist, <1>typed, <1>memory DEF Attempted, Numbers, Counts
  <2> QED BY <1>persist, <1>typed, <2>1, <2>2, <2>3, PersistKeepsBudgets
<1>place. ASSUME Up, pc \notin {"saving", "fail"}
          PROVE  pc = "gate" \/ snap # NoArtifact
  BY <1>place DEF Budgets, SidecarsFirst
<1>1. CASE Start
  <2>1. /\ pc = "down" /\ starts' = starts + 1 /\ st' = Restored
        /\ pc' \in {"gate", "fail"}
        /\ UNCHANGED << memory, snap, side, op, lapses >>
    BY <1>1 DEF Start
  <2>2. CASE snap = NoArtifact
    <3>1. st' = NewTicket /\ pc' = "gate" /\ side.attempts = 0
      BY <1>1, <2>1, <2>2 DEF Start, Restored, NewTicket, Budgets, SidecarsFirst
    <3>2. /\ st'.attempts = 0 /\ st'.checkCycles = 0 /\ st'.reviewCycles = 0
          /\ st'.phase = "intake"
      BY <3>1 DEF NewTicket
    <3>3. Owed(st)' = 1
      BY <3>2 DEF Owed
    <3>4. MemoryBudget'
      BY <1>typed, <2>1, <3>2, <3>3 DEF MemoryBudget, Attempted, Within, Numbers, op
    <3>5. SnapshotBudget' /\ EditBudget' /\ SidecarsFirst' /\ SidecarsWritten'
      BY <1>typed, <2>1, <2>2, <3>1, <3>2
         DEF Budgets, SnapshotBudget, EditBudget, FileBudget, SidecarsFirst,
             SidecarsWritten, Up, op
    <3>6. SidecarBudget' /\ OneBehind'
      BY <1>typed, <2>1, <2>2, <3>1, <3>2
         DEF Budgets, SidecarsFirst, SidecarBudget, Within, OneBehind, Numbers, Counts, op
    <3> QED BY <3>4, <3>5, <3>6 DEF Budgets
  <2>3. CASE snap # NoArtifact
    <3> DEFINE h == Hydrated(snap)
    <3>1. /\ st'.attempts = h.attempts /\ st'.checkCycles = h.checkCycles
          /\ st'.reviewCycles = h.reviewCycles
          /\ st'.phase \in {snap.phase, "intake", "implement"}
      <4>1. snap \in Ticket
        BY <1>typed, <2>3 DEF TypeOK
      <4>2. h \in Ticket
        BY <1>typed, <4>1, HydratedType
      <4>3. st'.phase \in {snap.phase, "intake", "implement"}
        BY <1>typed, <2>1, <2>3, RestoredType
      <4>4. st' = [h EXCEPT !.phase = IF InSnapshotPhase THEN @ ELSE PlanPhase,
                            !.outcome = ""]
        BY <2>1, <2>3 DEF Restored
      <4> HIDE DEF h
      <4> QED BY <4>2, <4>3, <4>4 DEF Ticket
    <3>2. /\ Counts(h) /\ Within(h.attempts, h.reviewCycles)
          /\ snap.attempts > 0 => /\ h.attempts = snap.attempts
                                  /\ h.reviewCycles >= snap.reviewCycles
          /\ snap.attempts = 0 => /\ h.attempts = side.attempts
                                  /\ h.reviewCycles = side.reviewCycles
          /\ h.attempts = 0 => side.attempts = 0 /\ h.checkCycles = 0
                               /\ h.reviewCycles = 0
      BY <1>typed, <2>3, HydratedBudget
    <3> HIDE DEF h
    <3>3. Counts(snap) /\ starts > 0 /\ Attempted(snap)
          /\ (snap.attempts > 0 => Within(snap.attempts, snap.reviewCycles))
      BY <1>typed, <2>3 DEF Numbers, Budgets, SnapshotBudget, FileBudget
    <3>4. Owed(st)' \in {0, 1}
      BY OwedIsSmall
    <3>5. MemoryBudget'
      <4>1. Attempted(st)'
        BY <3>1, <3>2, <3>3 DEF Attempted, Counts
      <4>2. Within(st.attempts + Owed(st), st.reviewCycles)'
        BY <1>typed, <2>1, <3>1, <3>2, <3>4 DEF Within, Numbers, Counts, op
      <4> QED BY <1>typed, <2>1, <4>1, <4>2 DEF MemoryBudget, Numbers
    <3>6. SnapshotBudget' /\ EditBudget'
      BY <1>typed, <2>1 DEF Budgets, SnapshotBudget, EditBudget, FileBudget, Attempted,
                            Within, Numbers, Counts, op
    <3>7. SidecarsFirst' /\ SidecarsWritten'
      BY <1>typed, <2>1, <2>3, <3>1, <3>2, <3>3
         DEF Budgets, SidecarsFirst, SidecarsWritten, Up, Numbers, Counts, op
    <3>8. OneBehind'
      BY <1>typed, <2>1, <2>3, <3>1, <3>2 DEF Budgets, OneBehind, op
    <3>9. SidecarBudget'
      <4>1. CASE snap.attempts = 0
        BY <1>typed, <2>1, <2>3, <3>1, <3>2, <3>3, <4>1
           DEF Budgets, SidecarBudget, FromSidecars, Within, Numbers, Counts, op
      <4>2. CASE snap.attempts > 0
        BY <1>typed, <2>1, <2>3, <3>1, <3>2, <3>3, <4>2
           DEF Budgets, SidecarBudget, FromSidecars, OneBehind, Within, Numbers, Counts, op
      <4> QED BY <3>3, <4>1, <4>2 DEF Counts
    <3> QED BY <3>5, <3>6, <3>7, <3>8, <3>9 DEF Budgets
  <2> QED BY <2>2, <2>3
<1>2. CASE SaveSidecar
  <2>1. /\ pc = "saving" /\ pc' = "saving" /\ saved' = saved + 1
        /\ UNCHANGED << st, snap, edit, reopens, starts, lapses >>
    BY <1>2 DEF SaveSidecar, op
  <2>2. /\ side'.attempts = IF saved = 1 /\ st.attempts # 0 THEN st.attempts
                            ELSE side.attempts
        /\ side'.checkCycles = IF saved = 0 /\ st.checkCycles # 0 THEN st.checkCycles
                               ELSE side.checkCycles
        /\ side'.reviewCycles = IF saved = 0 /\ st.reviewCycles # 0 THEN st.reviewCycles
                                ELSE side.reviewCycles
    BY <1>2, <1>typed DEF SaveSidecar, Written, Ticket, Numbers
  <2>3. MemoryBudget' /\ SnapshotBudget' /\ EditBudget'
    BY <2>1 DEF Budgets, MemoryBudget, SnapshotBudget, EditBudget, FileBudget, Attempted,
                Within, Up, Owed
  <2>4. SidecarsFirst'
    BY <1>typed, <2>1, <2>2 DEF Budgets, SidecarsFirst, Up, Numbers, Counts
  <2>5. SidecarsWritten'
    BY <1>typed, <2>1, <2>2 DEF Budgets, SidecarsWritten, Numbers, Counts
  <2>6. SidecarBudget'
    <3>1. Within(st.attempts, st.reviewCycles) /\ starts > 0
      BY <1>typed, <1>owed, <1>memory, <2>1 DEF Within, Up, Numbers, Counts
    <3>2. FromSidecars' = FromSidecars
      BY <2>1 DEF FromSidecars
    <3>3. ASSUME FromSidecars
          PROVE  /\ Within(side.attempts, side.reviewCycles)
                 /\ Within(side.attempts, st.reviewCycles)
      BY <2>1, <3>1, <3>3 DEF Budgets, SidecarBudget, Up
    <3>4. saved >= 1 => side.reviewCycles >= st.reviewCycles
      BY <2>1 DEF Budgets, SidecarsWritten
    <3>5. ASSUME FromSidecars
          PROVE  /\ Within(side'.attempts, side'.reviewCycles)
                 /\ Within(side'.attempts, st.reviewCycles)
      BY <1>typed, <2>2, <3>1, <3>3, <3>4, <3>5 DEF Within, Numbers, Counts
    <3> QED BY <2>1, <3>2, <3>5 DEF SidecarBudget, Within
  <2>7. OneBehind'
    BY <1>typed, <2>1, <2>2 DEF Budgets, OneBehind, Numbers, Counts
  <2> QED BY <2>3, <2>4, <2>5, <2>6, <2>7 DEF Budgets
<1>3. CASE SaveSnapshot
  <2>1. /\ pc = "saving" /\ saved = 5 /\ pc' = then
        /\ UNCHANGED << saved, st, side, edit, reopens, starts, lapses >>
    BY <1>3 DEF SaveSnapshot, Sidecars, memory, op
  <2>2. /\ snap' = Snapshot(st) /\ snap' # NoArtifact
        /\ snap'.phase = st.phase /\ snap'.attempts = st.attempts
        /\ snap'.checkCycles = st.checkCycles /\ snap'.reviewCycles = st.reviewCycles
    <3>1. snap' = Snapshot(st)
      BY <1>3 DEF SaveSnapshot
    <3>2. Snapshot(st) # NoArtifact
      BY <1>typed, SnapshotType, TicketRunAssumption DEF TicketRunAssumption
    <3>3. /\ Snapshot(st).phase = st.phase /\ Snapshot(st).attempts = st.attempts
          /\ Snapshot(st).checkCycles = st.checkCycles
          /\ Snapshot(st).reviewCycles = st.reviewCycles
      BY <1>typed DEF Snapshot, Ticket
    <3> QED BY <3>1, <3>2, <3>3
  <2>3. then \in {"loop", "verify", "constraints", "stop", "release"}
    BY <1>typed DEF TypeOK
  <2>4. Within(st.attempts, st.reviewCycles) /\ starts > 0 /\ Attempted(st)
    BY <1>typed, <1>owed, <1>memory, <2>1 DEF Within, Up, Numbers, Counts
  <2>5. MemoryBudget' /\ SnapshotBudget' /\ EditBudget'
    BY <1>memory, <2>1, <2>2, <2>4
       DEF Budgets, MemoryBudget, SnapshotBudget, EditBudget, FileBudget, Attempted,
           Within, Up, Owed
  <2>6. SidecarsFirst' /\ SidecarsWritten'
    BY <1>typed, <2>1, <2>2, <2>3 DEF Budgets, SidecarsFirst, SidecarsWritten, Up, Numbers,
                                      Counts
  <2>7. SidecarBudget'
    <3>1. st.attempts = 0 => side.attempts = 0
      BY <2>1 DEF Budgets, SidecarsFirst, Up
    <3> QED BY <1>typed, <2>1, <2>2, <2>3, <2>4, <3>1
            DEF Budgets, SidecarBudget, FromSidecars, Within, Up, Numbers, Counts
  <2>8. OneBehind'
    BY <1>typed, <2>1, <2>2, <2>3
       DEF Budgets, OneBehind, SidecarsWritten, Up, Numbers, Counts
  <2> QED BY <2>5, <2>6, <2>7, <2>8 DEF Budgets
<1>4. CASE GatesBlock
  <2>1. /\ st'.phase = "blocked" /\ st'.attempts = st.attempts
        /\ st'.checkCycles = st.checkCycles /\ st'.reviewCycles = st.reviewCycles
    BY <1>typed, <1>4 DEF GatesBlock, Ticket
  <2>2. /\ \E l \in PC : PersistThen(l)
        /\ UNCHANGED << snap, side, edit, starts, reopens, lapses >>
    BY <1>4 DEF GatesBlock, op, PC
  <2>3. pc \notin {"saving", "fail"} /\ Up /\ (pc = "gate" => st'.attempts = st.attempts)
    BY <1>4, <2>1 DEF GatesBlock, Up
  <2>4. Owed(st)' = 0
    BY <1>4, <2>1 DEF GatesBlock, Owed
  <2>5. Within(st.attempts + Owed(st), st.reviewCycles)'
    BY <1>typed, <1>owed, <1>memory, <2>1, <2>2, <2>3, <2>4 DEF Within, Numbers, Counts
  <2> QED BY <1>typed, <1>place, <1>memory, <2>1, <2>2, <2>3, <2>5, <1>persist
          DEF Numbers, Counts, Attempted
<1>5. CASE GatesPass
  <2>1. /\ st'.phase = "implement" /\ st'.attempts = st.attempts
        /\ st'.checkCycles = st.checkCycles /\ st'.reviewCycles = st.reviewCycles
    BY <1>typed, <1>5 DEF GatesPass, Ticket
  <2>2. /\ \E l \in PC : PersistThen(l)
        /\ UNCHANGED << snap, side, edit, starts, reopens, lapses >>
    BY <1>5 DEF GatesPass, op, PC
  <2>3. pc \notin {"saving", "fail"} /\ Up /\ (pc = "gate" => st'.attempts = st.attempts)
    BY <1>5, <2>1 DEF GatesPass, Up
  <2>4. Owed(st) = 1 /\ Owed(st)' = 1
    BY <1>5, <2>1 DEF GatesPass, Owed
  <2>5. Within(st.attempts + Owed(st), st.reviewCycles)'
    BY <1>typed, <1>owed, <1>memory, <2>1, <2>2, <2>3, <2>4 DEF Within, Numbers, Counts
  <2> QED BY <1>typed, <1>place, <1>memory, <2>1, <2>2, <2>3, <2>5, <1>persist
          DEF Numbers, Counts, Attempted
<1>6. CASE PastIntake
  <2>1. /\ Up /\ pc' # "down" /\ pc' # "saving"
        /\ pc \notin {"saving", "fail"} \/ pc' = "fail"
        /\ pc' = "gate" => pc = "gate"
        /\ UNCHANGED << st, snap, side, edit, starts, reopens, lapses >>
    BY <1>6 DEF PastIntake, op, Up
  <2>2. pc' \in {"gate", "fail"} \/ snap # NoArtifact
    BY <1>6, <1>place, <2>1 DEF PastIntake, Budgets, SidecarsFirst
  <2> QED BY <1>typed, <2>1, <2>2, PlaceKeepsBudgets
<1>7. CASE BeginWorker
  <2>1. /\ Up /\ pc' # "down" /\ pc' # "saving"
        /\ pc \notin {"saving", "fail"} \/ pc' = "fail"
        /\ pc' = "gate" => pc = "gate"
        /\ UNCHANGED << st, snap, side, edit, starts, reopens, lapses >>
    BY <1>7 DEF BeginWorker, op, Up
  <2>2. pc' \in {"gate", "fail"} \/ snap # NoArtifact
    BY <1>7, <1>place, <2>1 DEF BeginWorker, Budgets, SidecarsFirst
  <2> QED BY <1>typed, <2>1, <2>2, PlaceKeepsBudgets
<1>8. CASE WorkerDone
  <2>1. /\ st'.phase = "verify" /\ st'.attempts = st.attempts + 1
        /\ st'.checkCycles = st.checkCycles /\ st'.reviewCycles = st.reviewCycles
        /\ st.phase \in {"implement", "repair"}
    BY <1>typed, <1>8 DEF WorkerDone, Ticket, IInv, Places, Working
  <2>2. /\ \E l \in PC : PersistThen(l)
        /\ UNCHANGED << snap, side, edit, starts, reopens, lapses >>
    BY <1>8 DEF WorkerDone, op, PC
  <2>3. pc \notin {"saving", "fail"} /\ Up /\ (pc = "gate" => st'.attempts = st.attempts)
    BY <1>8, <2>1 DEF WorkerDone, Up
  <2>4. Owed(st) = 1 /\ Owed(st)' = 0
    BY <1>8, <2>1 DEF WorkerDone, Owed
  <2>5. Within(st.attempts + Owed(st), st.reviewCycles)'
    BY <1>typed, <1>owed, <1>memory, <2>1, <2>2, <2>3, <2>4 DEF Within, Numbers, Counts
  <2> QED BY <1>typed, <1>place, <1>memory, <2>1, <2>2, <2>3, <2>5, <1>persist
          DEF Numbers, Counts, Attempted
<1>9. CASE WorkerBlocked
  <2>1. /\ st'.phase = "blocked" /\ st'.attempts = st.attempts + 1
        /\ st'.checkCycles = st.checkCycles /\ st'.reviewCycles = st.reviewCycles
        /\ st.phase \in {"implement", "repair"}
    BY <1>typed, <1>9 DEF WorkerBlocked, Ticket, IInv, Places, Working
  <2>2. /\ \E l \in PC : PersistThen(l)
        /\ UNCHANGED << snap, side, edit, starts, reopens, lapses >>
    BY <1>9 DEF WorkerBlocked, op, PC
  <2>3. pc \notin {"saving", "fail"} /\ Up /\ (pc = "gate" => st'.attempts = st.attempts)
    BY <1>9, <2>1 DEF WorkerBlocked, Up
  <2>4. Owed(st) = 1 /\ Owed(st)' = 0
    BY <1>9, <2>1 DEF WorkerBlocked, Owed
  <2>5. Within(st.attempts + Owed(st), st.reviewCycles)'
    BY <1>typed, <1>owed, <1>memory, <2>1, <2>2, <2>3, <2>4 DEF Within, Numbers, Counts
  <2> QED BY <1>typed, <1>place, <1>memory, <2>1, <2>2, <2>3, <2>5, <1>persist
          DEF Numbers, Counts, Attempted
<1>10. CASE BeginVerify
  <2>1. st' = st /\ st.phase = "verify" /\ lapses' = lapses
    BY <1>10 DEF BeginVerify
  <2>2. (\E l \in PC : PersistThen(l)) /\ UNCHANGED << snap, side, edit, starts, reopens >>
    BY <1>10 DEF BeginVerify, op, PC
  <2>3. Within(st.attempts + Owed(st), st.reviewCycles)'
    BY <1>typed, <1>owed, <1>memory, <1>10, <2>1, <2>2
       DEF BeginVerify, Within, Owed, Up, Numbers, Counts
  <2> QED BY <1>typed, <1>10, <1>place, <1>memory, <2>1, <2>2, <2>3, <1>persist
          DEF BeginVerify, Up, Numbers, Counts, Attempted
<1>11. CASE Verify
  <2>1. /\ st'.phase = "verify" /\ st'.attempts = st.attempts
        /\ st'.checkCycles = st.checkCycles /\ st'.reviewCycles = st.reviewCycles
        /\ st.phase = "verify"
    BY <1>typed, <1>11 DEF Verify, Ticket, IInv, Places, At
  <2>2. /\ \E l \in PC : PersistThen(l)
        /\ UNCHANGED << snap, side, edit, starts, reopens, lapses >>
    BY <1>11 DEF Verify, op, PC
  <2>3. pc \notin {"saving", "fail"} /\ Up /\ (pc = "gate" => st'.attempts = st.attempts)
    BY <1>11, <2>1 DEF Verify, Up
  <2>4. Owed(st)' = 0
    BY <1>11, <2>1 DEF Verify, Owed
  <2>5. Within(st.attempts + Owed(st), st.reviewCycles)'
    BY <1>typed, <1>owed, <1>memory, <2>1, <2>2, <2>3, <2>4 DEF Within, Numbers, Counts
  <2> QED BY <1>typed, <1>place, <1>memory, <2>1, <2>2, <2>3, <2>5, <1>persist
          DEF Numbers, Counts, Attempted
<1>12. CASE VerificationFailed
  <2>1. /\ st.phase = "verify" /\ st.attempts > 0
        /\ Within(st.attempts, st.reviewCycles)
    BY <1>typed, <1>12, <1>memory, <1>owed
       DEF VerificationFailed, IInv, Places, At, Attempted, Up, Within, Numbers, Counts
  <2>2. /\ st'.attempts = st.attempts /\ st'.reviewCycles = st.reviewCycles
        /\ \/ st'.phase = "blocked"
           \/ st'.phase = "implement" /\ st.attempts < MaxImplementationAttempts
    BY <1>typed, <1>12
       DEF VerificationFailed, HandleVerificationFailure, BackToImplement, Ticket, Numbers, Counts
  <2>3. /\ \E l \in PC : PersistThen(l)
        /\ UNCHANGED << snap, side, edit, starts, reopens, lapses >>
    BY <1>12 DEF VerificationFailed, op, PC
  <2>4. pc \notin {"saving", "fail", "gate"} /\ Up
    BY <1>12 DEF VerificationFailed, Up
  <2>5. Within(st.attempts + Owed(st), st.reviewCycles)'
    <3>1. CASE st'.phase = "blocked"
      <4>1. Owed(st)' = 0
        BY <3>1 DEF Owed
      <4> QED BY <1>typed, <2>1, <2>2, <2>3, <4>1 DEF Within, Numbers, Counts
    <3>2. CASE st'.phase = "implement" /\ st.attempts < MaxImplementationAttempts
      <4>1. Owed(st)' = 1 /\ starts > 0
        BY <1>memory, <2>4, <3>2 DEF Owed
      <4> QED BY <1>typed, <2>2, <2>3, <3>2, <4>1 DEF Within, Numbers, Counts
    <3> QED BY <2>2, <3>1, <3>2
  <2> QED BY <1>typed, <1>place, <2>1, <2>2, <2>3, <2>4, <2>5, <1>persist
          DEF Numbers, Counts
<1>13. CASE AdvisoryFailed
  <2>1. /\ st.phase = "verify" /\ st.attempts > 0
        /\ Within(st.attempts, st.reviewCycles)
    BY <1>typed, <1>13, <1>memory, <1>owed
       DEF AdvisoryFailed, IInv, Places, At, Attempted, Up, Within, Numbers, Counts
  <2>2. /\ st'.attempts = st.attempts /\ st'.reviewCycles = st.reviewCycles
        /\ \/ st'.phase = "blocked"
           \/ st'.phase = "implement" /\ st.attempts < MaxImplementationAttempts
    BY <1>typed, <1>13
       DEF AdvisoryFailed, HandleVerificationFailure, BackToImplement, Ticket, Numbers, Counts
  <2>3. /\ \E l \in PC : PersistThen(l)
        /\ UNCHANGED << snap, side, edit, starts, reopens, lapses >>
    BY <1>13 DEF AdvisoryFailed, op, PC
  <2>4. pc \notin {"saving", "fail", "gate"} /\ Up
    BY <1>13 DEF AdvisoryFailed, Up
  <2>5. Within(st.attempts + Owed(st), st.reviewCycles)'
    <3>1. CASE st'.phase = "blocked"
      <4>1. Owed(st)' = 0
        BY <3>1 DEF Owed
      <4> QED BY <1>typed, <2>1, <2>2, <2>3, <4>1 DEF Within, Numbers, Counts
    <3>2. CASE st'.phase = "implement" /\ st.attempts < MaxImplementationAttempts
      <4>1. Owed(st)' = 1 /\ starts > 0
        BY <1>memory, <2>4, <3>2 DEF Owed
      <4> QED BY <1>typed, <2>2, <2>3, <3>2, <4>1 DEF Within, Numbers, Counts
    <3> QED BY <2>2, <3>1, <3>2
  <2> QED BY <1>typed, <1>place, <2>1, <2>2, <2>3, <2>4, <2>5, <1>persist
          DEF Numbers, Counts
<1>14. CASE ConstraintFailed
  <2>1. /\ st.phase = "verify" /\ st.attempts > 0
        /\ Within(st.attempts, st.reviewCycles)
    BY <1>typed, <1>14, <1>memory, <1>owed
       DEF ConstraintFailed, IInv, Places, At, Attempted, Up, Within, Numbers, Counts
  <2>2. /\ st'.attempts = st.attempts /\ st'.reviewCycles = st.reviewCycles
        /\ \/ st'.phase = "blocked"
           \/ st'.phase = "implement" /\ st.attempts < MaxImplementationAttempts
    BY <1>typed, <1>14
       DEF ConstraintFailed, HandleVerificationFailure, BackToImplement, Ticket, Numbers, Counts
  <2>3. /\ \E l \in PC : PersistThen(l)
        /\ UNCHANGED << snap, side, edit, starts, reopens, lapses >>
    BY <1>14 DEF ConstraintFailed, op, PC
  <2>4. pc \notin {"saving", "fail", "gate"} /\ Up
    BY <1>14 DEF ConstraintFailed, Up
  <2>5. Within(st.attempts + Owed(st), st.reviewCycles)'
    <3>1. CASE st'.phase = "blocked"
      <4>1. Owed(st)' = 0
        BY <3>1 DEF Owed
      <4> QED BY <1>typed, <2>1, <2>2, <2>3, <4>1 DEF Within, Numbers, Counts
    <3>2. CASE st'.phase = "implement" /\ st.attempts < MaxImplementationAttempts
      <4>1. Owed(st)' = 1 /\ starts > 0
        BY <1>memory, <2>4, <3>2 DEF Owed
      <4> QED BY <1>typed, <2>2, <2>3, <3>2, <4>1 DEF Within, Numbers, Counts
    <3> QED BY <2>2, <3>1, <3>2
  <2> QED BY <1>typed, <1>place, <2>1, <2>2, <2>3, <2>4, <2>5, <1>persist
          DEF Numbers, Counts
<1>15. CASE VerificationPassed
  <2>1. /\ st'.phase = "review" /\ st'.attempts = st.attempts
        /\ st'.checkCycles = st.checkCycles /\ st'.reviewCycles = st.reviewCycles
        /\ st.phase = "verify"
    BY <1>typed, <1>15 DEF VerificationPassed, Ticket, IInv, Places, At
  <2>2. /\ \E l \in PC : PersistThen(l)
        /\ UNCHANGED << snap, side, edit, starts, reopens, lapses >>
    BY <1>15 DEF VerificationPassed, op, PC
  <2>3. pc \notin {"saving", "fail"} /\ Up /\ (pc = "gate" => st'.attempts = st.attempts)
    BY <1>15, <2>1 DEF VerificationPassed, Up
  <2>4. Owed(st)' = 0
    BY <1>15, <2>1 DEF VerificationPassed, Owed
  <2>5. Within(st.attempts + Owed(st), st.reviewCycles)'
    BY <1>typed, <1>owed, <1>memory, <2>1, <2>2, <2>3, <2>4 DEF Within, Numbers, Counts
  <2> QED BY <1>typed, <1>place, <1>memory, <2>1, <2>2, <2>3, <2>5, <1>persist
          DEF Numbers, Counts, Attempted
<1>16. CASE BeginReviewer
  <2>1. /\ Up /\ pc' # "down" /\ pc' # "saving"
        /\ pc \notin {"saving", "fail"} \/ pc' = "fail"
        /\ pc' = "gate" => pc = "gate"
        /\ UNCHANGED << st, snap, side, edit, starts, reopens, lapses >>
    BY <1>16 DEF BeginReviewer, op, Up
  <2>2. pc' \in {"gate", "fail"} \/ snap # NoArtifact
    BY <1>16, <1>place, <2>1 DEF BeginReviewer, Budgets, SidecarsFirst
  <2> QED BY <1>typed, <2>1, <2>2, PlaceKeepsBudgets
<1>17. CASE ReviewPassed
  <2>1. st.phase = "review"
    BY <1>17 DEF ReviewPassed, IInv, Places
  <2> PICK b \in BOOLEAN :
         /\ Lapsed(b)
         /\ st' = [st EXCEPT !.phase = "closeout", !.review = Verified(TRUE),
                             !.closeout = Closeout(b)]
    BY <1>17 DEF ReviewPassed
  <2>2. /\ st'.phase = "closeout" /\ st'.attempts = st.attempts
        /\ st'.checkCycles = st.checkCycles /\ st'.reviewCycles = st.reviewCycles
        /\ st'.closeout.passed = b
    BY <1>typed DEF Ticket, Closeout
  <2>3. (\E l \in PC : PersistThen(l)) /\ UNCHANGED << snap, side, edit, starts, reopens >>
    BY <1>17 DEF ReviewPassed, op, PC
  <2>4. /\ lapses' = IF b THEN lapses ELSE lapses + 1
        /\ lapses' >= lapses
    BY <1>typed DEF Lapsed, Numbers
  <2>5. Within(st.attempts + Owed(st), st.reviewCycles)'
    BY <1>typed, <1>memory, <1>17, <2>1, <2>2, <2>3, <2>4
       DEF ReviewPassed, Within, Owed, Up, Numbers, Counts
  <2> QED BY <1>typed, <1>17, <1>place, <1>memory, <2>1, <2>2, <2>3, <2>4, <2>5, <1>persist
          DEF ReviewPassed, Up, Numbers, Counts, Attempted
<1>18. CASE ReviewBlocks
  <2>1. /\ st.phase = "review" /\ st.attempts > 0
        /\ Within(st.attempts, st.reviewCycles)
    BY <1>typed, <1>18, <1>memory, <1>owed
       DEF ReviewBlocks, IInv, Places, Attempted, Up, Within, Numbers, Counts
  <2>2. /\ st'.attempts = st.attempts /\ st'.reviewCycles = st.reviewCycles + 1
        /\ st'.phase \in {"blocked", "repair"}
    BY <1>typed, <1>18 DEF ReviewBlocks, Ticket
  <2>3. /\ \E l \in PC : PersistThen(l)
        /\ UNCHANGED << snap, side, edit, starts, reopens, lapses >>
    BY <1>18 DEF ReviewBlocks, op, PC
  <2>4. Within(st.attempts + Owed(st), st.reviewCycles)'
    BY <1>typed, <2>1, <2>2, <2>3 DEF Within, Owed, Numbers, Counts
  <2> QED BY <1>typed, <1>18, <1>place, <2>1, <2>2, <2>3, <2>4, <1>persist
          DEF ReviewBlocks, Up, Numbers, Counts
<1>19. CASE CloseTicket
  <2>1. /\ st.phase = "closeout" /\ st.attempts > 0
    BY <1>typed, <1>19, <1>memory DEF CloseTicket, Attempted, Up, Numbers, Counts
  <2>2. /\ st'.attempts = st.attempts /\ st'.checkCycles = st.checkCycles
        /\ st'.reviewCycles = st.reviewCycles
        /\ st'.phase = IF st.closeout.passed THEN "closed" ELSE "repair"
    BY <1>typed, <1>19 DEF CloseTicket, Ticket
  <2>3. /\ \E l \in PC : PersistThen(l)
        /\ UNCHANGED << snap, side, edit, starts, reopens, lapses >>
    BY <1>19 DEF CloseTicket, op, PC
  <2>4. Within(st.attempts + Owed(st), st.reviewCycles)'
    BY <1>typed, <1>memory, <1>19, <2>1, <2>2, <2>3
       DEF CloseTicket, Within, Owed, Up, Numbers, Counts
  <2> QED BY <1>typed, <1>19, <1>place, <2>1, <2>2, <2>3, <2>4, <1>persist
          DEF CloseTicket, Up, Numbers, Counts
<1>20. CASE RuntimeRetry
  <2>1. /\ Up /\ pc' # "down" /\ pc' # "saving"
        /\ pc \notin {"saving", "fail"} \/ pc' = "fail"
        /\ pc' = "gate" => pc = "gate"
        /\ UNCHANGED << st, snap, side, edit, starts, reopens, lapses >>
    BY <1>20 DEF RuntimeRetry, op, Up
  <2>2. pc' \in {"gate", "fail"} \/ snap # NoArtifact
    BY <1>20, <1>place, <2>1 DEF RuntimeRetry, Budgets, SidecarsFirst
  <2> QED BY <1>typed, <2>1, <2>2, PlaceKeepsBudgets
<1>21. CASE RuntimeBlocked
  <2>1. /\ st'.phase = "blocked" /\ st'.attempts = st.attempts
        /\ st'.checkCycles = st.checkCycles /\ st'.reviewCycles = st.reviewCycles
    BY <1>typed, <1>21 DEF RuntimeBlocked, Ticket
  <2>2. /\ \E l \in PC : PersistThen(l)
        /\ UNCHANGED << snap, side, edit, starts, reopens, lapses >>
    BY <1>21 DEF RuntimeBlocked, op, PC
  <2>3. pc \notin {"saving", "fail"} /\ Up /\ (pc = "gate" => st'.attempts = st.attempts)
    BY <1>21, <2>1 DEF RuntimeBlocked, Up
  <2>4. Owed(st)' = 0
    BY <1>21, <2>1 DEF RuntimeBlocked, Owed
  <2>5. Within(st.attempts + Owed(st), st.reviewCycles)'
    BY <1>typed, <1>owed, <1>memory, <2>1, <2>2, <2>3, <2>4 DEF Within, Numbers, Counts
  <2> QED BY <1>typed, <1>place, <1>memory, <2>1, <2>2, <2>3, <2>5, <1>persist
          DEF Numbers, Counts, Attempted
<1>22. CASE Stop
  <2>1. st' = st /\ lapses' = lapses
    BY <1>22 DEF Stop
  <2>2. (\E l \in PC : PersistThen(l)) /\ UNCHANGED << snap, side, edit, starts, reopens >>
    BY <1>22 DEF Stop, op, PC
  <2>3. Within(st.attempts + Owed(st), st.reviewCycles)'
    BY <1>memory, <1>22, <2>1, <2>2 DEF Stop, Within, Owed, Up
  <2> QED BY <1>typed, <1>22, <1>place, <1>memory, <2>1, <2>2, <2>3, <1>persist
          DEF Stop, Up, Numbers, Counts, Attempted
<1>23. CASE Release
  <2>1. /\ Up /\ pc' # "down" /\ pc' # "saving"
        /\ pc \notin {"saving", "fail"} \/ pc' = "fail"
        /\ pc' = "gate" => pc = "gate"
        /\ UNCHANGED << st, snap, side, edit, starts, reopens, lapses >>
    BY <1>23 DEF Release, op, Up
  <2>2. pc' \in {"gate", "fail"} \/ snap # NoArtifact
    BY <1>23, <1>place, <2>1 DEF Release, Budgets, SidecarsFirst
  <2> QED BY <1>typed, <2>1, <2>2, PlaceKeepsBudgets
<1>24. CASE Fails
  <2>1. /\ Up /\ pc' # "down" /\ pc' # "saving"
        /\ pc \notin {"saving", "fail"} \/ pc' = "fail"
        /\ pc' = "gate" => pc = "gate"
        /\ UNCHANGED << st, snap, side, edit, starts, reopens, lapses >>
    BY <1>24 DEF Fails, op, Up
  <2>2. pc' \in {"gate", "fail"} \/ snap # NoArtifact
    BY <1>24, <1>place, <2>1 DEF Fails, Budgets, SidecarsFirst
  <2> QED BY <1>typed, <2>1, <2>2, PlaceKeepsBudgets
<1>25. CASE UpdateStatus
  BY <1>25, EndKeepsBudgets DEF UpdateStatus, op
<1>26. CASE Crash
  BY <1>26, EndKeepsBudgets DEF Crash, op
<1>27. CASE ReopenRead
  <2> DEFINE h == Hydrated(snap)
  <2>1. /\ snap # NoArtifact /\ reopens' = reopens + 1
        /\ UNCHANGED << pc, memory, st, snap, side, starts, lapses >>
        /\ \E to \in {"implement", "repair"} : edit' = [h EXCEPT !.phase = to]
    BY <1>27 DEF ReopenRead, ReopenTargets
  <2>2. /\ Counts(h) /\ Within(h.attempts, h.reviewCycles)
        /\ snap.attempts > 0 => /\ h.attempts = snap.attempts
                                /\ h.reviewCycles >= snap.reviewCycles
        /\ snap.attempts = 0 => /\ h.attempts = side.attempts
                                /\ h.reviewCycles = side.reviewCycles
        /\ h.attempts = 0 => side.attempts = 0 /\ h.checkCycles = 0
                             /\ h.reviewCycles = 0
    BY <1>typed, <2>1, HydratedBudget
  <2>3. h \in Ticket /\ Counts(snap)
    BY <1>typed, <2>1, HydratedType DEF TypeOK, Numbers
  <2> HIDE DEF h
  <2>4. /\ edit'.attempts = h.attempts /\ edit'.checkCycles = h.checkCycles
        /\ edit'.reviewCycles = h.reviewCycles /\ edit'.phase \in {"implement", "repair"}
    BY <2>1, <2>3 DEF Ticket
  <2>5. MemoryBudget' /\ SnapshotBudget'
    BY <1>typed, <1>owed, <2>1
       DEF Budgets, MemoryBudget, SnapshotBudget, FileBudget, Attempted, Within, Up,
           Owed, Numbers, Counts
  <2>6. EditBudget'
    BY <1>typed, <2>1, <2>2, <2>4 DEF Budgets, SnapshotBudget, EditBudget, FileBudget,
                                      Attempted, Within, Numbers, Counts
  <2>7. SidecarsFirst' /\ SidecarsWritten'
    BY <1>typed, <2>1, <2>2, <2>3, <2>4 DEF Budgets, SidecarsFirst, SidecarsWritten, Up,
                                            memory, Numbers, Counts
  <2>8. SidecarBudget'
    BY <1>typed, <2>1, <2>2, <2>3, <2>4
       DEF Budgets, SidecarBudget, FromSidecars, Within, Up, Numbers, Counts
  <2>9. OneBehind'
    BY <2>1, <2>2, <2>3, <2>4 DEF OneBehind, Counts
  <2> QED BY <2>5, <2>6, <2>7, <2>8, <2>9 DEF Budgets
<1>28. CASE ReopenCommit
  <2>1. /\ edit # NoArtifact /\ snap' = edit /\ edit' = NoArtifact
        /\ UNCHANGED << pc, saved, st, side, reopens, starts, lapses >>
    BY <1>28 DEF ReopenCommit, memory
  <2>2. MemoryBudget' /\ SnapshotBudget' /\ EditBudget'
    BY <1>memory, <2>1 DEF Budgets, MemoryBudget, SnapshotBudget, EditBudget, FileBudget,
                           Attempted, Within, Up, Owed
  <2>3. SidecarsFirst' /\ SidecarsWritten' /\ OneBehind'
    BY <2>1 DEF Budgets, SidecarsFirst, SidecarsWritten, OneBehind, Up
  <2>4. SidecarBudget'
    BY <2>1 DEF Budgets, SidecarBudget, FromSidecars, Within, Up
  <2> QED BY <2>2, <2>3, <2>4 DEF Budgets
<1>epic. CASE EpicChanges
  BY <1>epic DEF EpicChanges, memory, Budgets, MemoryBudget, SnapshotBudget, EditBudget,
     FileBudget, Attempted, Within, SidecarsFirst, SidecarsWritten, SidecarBudget,
     FromSidecars, OneBehind, Up, Owed
<1>29. CASE UNCHANGED vars
  BY <1>29 DEF vars, memory, op, Budgets, MemoryBudget, SnapshotBudget, EditBudget,
     FileBudget, Attempted, Within, SidecarsFirst, SidecarsWritten, SidecarBudget,
     FromSidecars, OneBehind, Up, Owed
<1> QED
  BY <1>1, <1>2, <1>3, <1>4, <1>5, <1>6, <1>7, <1>8, <1>9, <1>10, <1>11, <1>12,
     <1>13, <1>14, <1>15, <1>16, <1>17, <1>18, <1>19, <1>20, <1>21, <1>22, <1>23,
     <1>24, <1>25, <1>26, <1>27, <1>28, <1>29, <1>epic
     DEF Next, RunTicket, Persist, Gate, Worker, Verifier, Reviewer, Runtime, Leave,
         Reopen

\* The budgets are kept by every behaviour.
LEMMA BudgetInvariant == Spec => []Budgets
<1>1. Init => Budgets
  BY InitBudgets
<1>2. IInv /\ IInv' /\ Budgets /\ [Next]_vars => Budgets'
  BY BudgetsInductive
<1> QED BY <1>1, <1>2, Invariant, PTL DEF Spec

\* However often a ticket is run, reopened and stopped half way, it gets no more
\* attempts than the policy grants and its reviews, restarts and reopenings buy.
THEOREM BudgetKeptHolds == Spec => []BudgetKept
<1>1. IInv /\ Budgets => BudgetKept
  <2> SUFFICES ASSUME IInv, Budgets, pc # "down"
               PROVE  st.attempts <= MaxImplementationAttempts + st.reviewCycles + lapses
                                       + (starts - 1) + reopens
    BY DEF BudgetKept
  <2>1. Numbers
    BY TypesCount DEF IInv
  <2>2. Within(st.attempts + Owed(st), st.reviewCycles)
    BY DEF Budgets, MemoryBudget, Up
  <2> QED BY <2>1, <2>2, OwedIsSmall DEF Within, Numbers, Counts
<1> QED BY <1>1, Invariant, BudgetInvariant, PTL

-----------------------------------------------------------------------------
(* What is on disk when RunTicket returns *)

\* Without a reopening no other process writes the snapshot.
LEMMA AloneInductive == MaxReopens = 0 => (Spec => [](edit = NoArtifact))
<1> SUFFICES ASSUME MaxReopens = 0
             PROVE  Spec => [](edit = NoArtifact)
  OBVIOUS
<1>1. Init => edit = NoArtifact
  BY DEF Init
<1>2. IInv /\ edit = NoArtifact /\ [Next]_vars => (edit = NoArtifact)'
  <2> SUFFICES ASSUME IInv, edit = NoArtifact, [Next]_vars
               PROVE  edit' = NoArtifact
    OBVIOUS
  <2>1. ~ReopenRead
    BY DEF ReopenRead, IInv, TypeOK
  <2> QED BY <2>1 DEF Next, RunTicket, Persist, Gate, Worker, Verifier, Reviewer, Runtime,
          Leave, Reopen, Start, SaveSidecar, SaveSnapshot, GatesBlock, GatesPass,
          PastIntake, BeginWorker, WorkerDone, WorkerBlocked, BeginVerify, Verify,
          VerificationFailed, AdvisoryFailed, ConstraintFailed, VerificationPassed,
          BeginReviewer, ReviewPassed, ReviewBlocks, CloseTicket, RuntimeRetry,
          RuntimeBlocked, Stop, Release, UpdateStatus, Fails, Crash, ReopenCommit, EpicChanges, op, vars
<1> QED BY <1>1, <1>2, Invariant, PTL DEF Spec

\* RunTicket returns from a ticket that has stopped, after it was persisted.
LEMMA RecordedInductive ==
    IInv /\ Recorded /\ edit = NoArtifact /\ [Next]_vars => Recorded'
<1> SUFFICES ASSUME IInv, Recorded, edit = NoArtifact, [Next]_vars
             PROVE  Recorded'
  OBVIOUS
<1>typed. st \in Ticket /\ then \in {"loop", "verify", "constraints", "stop", "release"}
  BY DEF IInv, TypeOK
<1>on. ASSUME PersistThen("loop") \/ PersistThen("verify") \/ PersistThen("constraints")
       PROVE  Recorded'
  BY <1>on DEF PersistThen, Recorded, At
<1>off. ASSUME PersistThen("stop") \/ PersistThen("release"), Stopped(st)'
        PROVE  Recorded'
  BY <1>off DEF PersistThen, Recorded, At
<1>same. ASSUME UNCHANGED << then, st, snap >>,
                pc' = pc \/ pc' \in {"down", "fail", "gate", "loop", "worker", "reviewer"}
         PROVE  Recorded'
  BY <1>same DEF Recorded, At, Snapshot, Stopped, OutcomeForPhase
<1>away. ASSUME pc' \in {"down", "fail", "gate"}
         PROVE  Recorded'
  BY <1>away DEF Recorded, At
<1>1. CASE Start \/ UpdateStatus \/ Crash \/ Fails
  BY <1>1, <1>away DEF Start, UpdateStatus, Crash, Fails
<1>2. CASE SaveSidecar \/ RuntimeRetry \/ PastIntake \/ BeginWorker \/ BeginReviewer
  BY <1>2, <1>same DEF SaveSidecar, RuntimeRetry, PastIntake, BeginWorker, BeginReviewer,
     memory
<1>3. CASE SaveSnapshot
  <2>1. pc = "saving" /\ pc' = then /\ then' = then /\ st' = st /\ snap' = Snapshot(st)
    BY <1>3 DEF SaveSnapshot, memory
  <2>2. then \in {"stop", "release"} => Stopped(st)
    BY <2>1 DEF Recorded, At
  <2> QED BY <1>typed, <2>1, <2>2 DEF Recorded, At, Snapshot, Stopped, OutcomeForPhase
<1>4. CASE GatesBlock \/ WorkerBlocked \/ RuntimeBlocked
  <2>1. st'.phase = "blocked" /\ (PersistThen("stop") \/ PersistThen("release"))
    BY <1>typed, <1>4 DEF GatesBlock, WorkerBlocked, RuntimeBlocked, Ticket
  <2> QED BY <2>1, <1>off DEF Stopped
<1>5. CASE GatesPass \/ WorkerDone \/ BeginVerify \/ Verify \/ VerificationFailed
           \/ AdvisoryFailed \/ ConstraintFailed \/ VerificationPassed \/ ReviewPassed
           \/ CloseTicket
  BY <1>5, <1>on DEF GatesPass, WorkerDone, BeginVerify, Verify, VerificationFailed,
     AdvisoryFailed, ConstraintFailed, VerificationPassed, ReviewPassed, CloseTicket
<1>6. CASE ReviewBlocks
  <2>1. \/ PersistThen("loop")
        \/ st'.phase = "blocked" /\ PersistThen("release")
    BY <1>typed, <1>6 DEF ReviewBlocks, Ticket
  <2> QED BY <2>1, <1>on, <1>off DEF Stopped
<1>7. CASE Stop
  BY <1>7, <1>off DEF Stop, Recorded, At, Stopped
<1>8. CASE Release
  BY <1>8 DEF Release, Recorded, At, memory, Snapshot, Stopped, OutcomeForPhase
<1>9. CASE ReopenRead
  BY <1>9, <1>same DEF ReopenRead, memory
<1>10. CASE EpicChanges \/ UNCHANGED vars
  BY <1>10, <1>same DEF EpicChanges, vars, memory
<1> QED
  BY <1>1, <1>2, <1>3, <1>4, <1>5, <1>6, <1>7, <1>8, <1>9, <1>10
     DEF Next, RunTicket, Persist, Gate, Worker, Verifier, Reviewer, Runtime, Leave,
         Reopen, ReopenCommit

\* Where nobody reopens the ticket meanwhile, RunTicket returns without an error only
\* what the snapshot on disk says, of a ticket that has stopped.
THEOREM ReturnedIsRecordedHolds == MaxReopens = 0 => (Spec => []ReturnedIsRecorded)
<1> SUFFICES ASSUME MaxReopens = 0
             PROVE  Spec => []ReturnedIsRecorded
  OBVIOUS
<1>1. Init => Recorded
  BY DEF Init, Recorded, At
<1>2. IInv /\ Recorded /\ edit = NoArtifact /\ [Next]_vars => Recorded'
  BY RecordedInductive
<1>3. Recorded => ReturnedIsRecorded
  BY DEF Recorded, ReturnedIsRecorded
<1> QED BY <1>1, <1>2, <1>3, Invariant, AloneInductive, PTL DEF Spec

-----------------------------------------------------------------------------
(* What a restart knows of the budgets *)

\* The ticket in memory has used up what the snapshot has: a restart takes the counters
\* of the snapshot, or of the sidecars if it has none, and RunTicket only adds to them.
NotBehind ==
    Up /\ snap # NoArtifact => /\ st.attempts >= snap.attempts
                               /\ RepairCycles(st) >= RepairCycles(snap)

\* A step that takes nothing off the counters in memory and leaves the snapshot alone.
LEMMA AddingKeepsNotBehind ==
    ASSUME TypeOK, TypeOK', NotBehind, Up, snap' = snap,
           st'.attempts >= st.attempts, st'.checkCycles >= st.checkCycles,
           st'.reviewCycles >= st.reviewCycles
    PROVE  NotBehind'
<1>1. Numbers /\ Numbers'
  BY TypesCount
<1> QED BY <1>1 DEF NotBehind, RepairCycles, Numbers, Counts

\* Unless a reopening is under way, no step of any process brings memory behind.
LEMMA NotBehindInductive ==
    IInv /\ IInv' /\ NotBehind /\ edit = NoArtifact /\ [Next]_vars => NotBehind'
<1> SUFFICES ASSUME IInv, IInv', NotBehind, edit = NoArtifact, [Next]_vars
             PROVE  NotBehind'
  OBVIOUS
<1>typed. TypeOK /\ TypeOK' /\ Numbers /\ Numbers' /\ st \in Ticket
  BY TypesCount DEF IInv, TypeOK
<1>same. ASSUME Up, UNCHANGED << st, snap >>
         PROVE  NotBehind'
  BY <1>same DEF NotBehind, Up, RepairCycles
<1>adds. ASSUME Up, snap' = snap,
                st'.attempts \in {st.attempts, st.attempts + 1},
                st'.checkCycles \in {st.checkCycles, st.checkCycles + 1},
                st'.reviewCycles \in {st.reviewCycles, st.reviewCycles + 1}
         PROVE  NotBehind'
  BY <1>adds, <1>typed, AddingKeepsNotBehind DEF Numbers, Counts
<1>1. CASE Start
  <2>1. st' = Restored /\ snap' = snap
    BY <1>1 DEF Start
  <2>2. CASE snap = NoArtifact
    BY <2>1, <2>2 DEF NotBehind
  <2>3. CASE snap # NoArtifact
    <3> DEFINE h == Hydrated(snap)
    <3>1. snap \in Ticket /\ side \in Ticket /\ Counts(snap) /\ Counts(side)
      BY <1>typed, <2>3 DEF TypeOK, Numbers
    <3>2. h \in Ticket
      BY <3>1, <1>typed, HydratedType
    <3>3. /\ h.attempts = IF snap.attempts = 0 THEN side.attempts ELSE snap.attempts
          /\ h.checkCycles = IF RepairCycles(snap) = 0 THEN side.checkCycles
                             ELSE snap.checkCycles
          /\ h.reviewCycles = IF RepairCycles(snap) = 0 THEN side.reviewCycles
                              ELSE snap.reviewCycles
      BY <3>1, HydratedCounts
    <3>4. st' = [h EXCEPT !.phase = IF InSnapshotPhase THEN @ ELSE PlanPhase,
                          !.outcome = ""]
      BY <2>1, <2>3 DEF Restored
    <3> HIDE DEF h
    <3>5. /\ st'.attempts = h.attempts /\ st'.checkCycles = h.checkCycles
          /\ st'.reviewCycles = h.reviewCycles
      BY <3>2, <3>4 DEF Ticket
    <3> QED BY <2>1, <3>1, <3>3, <3>5 DEF NotBehind, RepairCycles, Counts
  <2> QED BY <2>2, <2>3
<1>2. CASE SaveSnapshot
  <2>1. Snapshot(st).attempts = st.attempts /\ Snapshot(st).checkCycles = st.checkCycles
        /\ Snapshot(st).reviewCycles = st.reviewCycles
    BY <1>typed DEF Snapshot, Ticket
  <2>2. st' = st /\ snap' = Snapshot(st)
    BY <1>2 DEF SaveSnapshot
  <2>3. /\ st'.attempts >= snap'.attempts
        /\ RepairCycles(st') >= RepairCycles(snap')
    BY <1>typed, <2>1, <2>2 DEF RepairCycles, Numbers, Counts
  <2> QED BY <2>3 DEF NotBehind
<1>3. CASE GatesBlock \/ GatesPass \/ WorkerDone \/ WorkerBlocked \/ RuntimeBlocked
           \/ Verify \/ VerificationFailed \/ AdvisoryFailed \/ ConstraintFailed
           \/ VerificationPassed \/ ReviewPassed \/ ReviewBlocks \/ CloseTicket
  <2>1. Up /\ snap' = snap
    <3>1. CASE ReviewPassed
      BY <3>1 DEF Up, ReviewPassed
    <3>2. CASE ReviewBlocks
      BY <3>2 DEF Up, ReviewBlocks
    <3> QED BY <1>3, <3>1, <3>2 DEF Up, GatesBlock, GatesPass, WorkerDone, WorkerBlocked,
            RuntimeBlocked, Verify, VerificationFailed, AdvisoryFailed, ConstraintFailed,
            VerificationPassed, CloseTicket
  <2>2. /\ st'.attempts \in {st.attempts, st.attempts + 1}
        /\ st'.checkCycles \in {st.checkCycles, st.checkCycles + 1}
        /\ st'.reviewCycles \in {st.reviewCycles, st.reviewCycles + 1}
    <3>1. CASE GatesBlock \/ GatesPass \/ WorkerDone \/ WorkerBlocked \/ RuntimeBlocked
               \/ VerificationPassed \/ CloseTicket
      BY <3>1, <1>typed DEF Ticket, GatesBlock, GatesPass, WorkerDone, WorkerBlocked,
         RuntimeBlocked, VerificationPassed, CloseTicket
    <3>4. CASE Verify
      BY <3>4, <1>typed DEF Ticket, Verify
    <3>5. CASE ReviewPassed
      BY <3>5, <1>typed DEF Ticket, ReviewPassed
    <3>2. CASE VerificationFailed \/ AdvisoryFailed \/ ConstraintFailed
      BY <3>2, <1>typed DEF Ticket, VerificationFailed, AdvisoryFailed, ConstraintFailed,
         HandleVerificationFailure, BackToImplement
    <3>3. CASE ReviewBlocks
      BY <3>3, <1>typed DEF Ticket, ReviewBlocks
    <3> QED BY <1>3, <3>1, <3>2, <3>3, <3>4, <3>5
  <2> QED BY <2>1, <2>2, <1>adds
<1>4. CASE SaveSidecar \/ PastIntake \/ BeginWorker \/ BeginVerify \/ BeginReviewer
           \/ RuntimeRetry \/ Stop \/ Release \/ Fails
  BY <1>4, <1>same DEF Up, SaveSidecar, PastIntake, BeginWorker, BeginVerify, BeginReviewer,
     RuntimeRetry, Stop, Release, Fails
<1>5. CASE UpdateStatus \/ Crash
  BY <1>5 DEF UpdateStatus, Crash, NotBehind, Up
<1>6. CASE ReopenRead \/ EpicChanges \/ UNCHANGED vars
  BY <1>6 DEF ReopenRead, EpicChanges, vars, NotBehind, Up, RepairCycles
<1> QED
  BY <1>1, <1>2, <1>3, <1>4, <1>5, <1>6
     DEF Next, RunTicket, Persist, Gate, Worker, Verifier, Reviewer, Runtime, Leave,
         Reopen, ReopenCommit

\* Where nobody reopens the ticket meanwhile, whose half-written edit could, neither a
\* crash nor a failed save nor a resume takes back an attempt or a cycle that
\* ticket-run.json has counted.
THEOREM BudgetNotForgottenHolds == MaxReopens = 0 => (Spec => BudgetNotForgotten)
<1> SUFFICES ASSUME MaxReopens = 0
             PROVE  Spec => BudgetNotForgotten
  OBVIOUS
<1> DEFINE Counted == /\ snap' # NoArtifact
                      /\ snap'.attempts >= snap.attempts
                      /\ RepairCycles(snap') >= RepairCycles(snap)
<1>1. Init => NotBehind
  BY DEF Init, NotBehind, Up
<1>2. IInv /\ IInv' /\ NotBehind /\ edit = NoArtifact /\ [Next]_vars => NotBehind'
  BY NotBehindInductive
<1>3. IInv /\ NotBehind /\ edit = NoArtifact /\ [Next]_vars
        => [snap # NoArtifact => Counted]_vars
  <2> SUFFICES ASSUME IInv, NotBehind, edit = NoArtifact, [Next]_vars, snap # NoArtifact
               PROVE  Counted
    OBVIOUS
  <2>1. Numbers /\ st \in Ticket
    BY TypesCount DEF IInv, TypeOK
  <2>2. CASE SaveSnapshot
    <3>1. /\ Snapshot(st).attempts = st.attempts
          /\ Snapshot(st).checkCycles = st.checkCycles
          /\ Snapshot(st).reviewCycles = st.reviewCycles
      BY <2>1 DEF Snapshot, Ticket
    <3>2. Snapshot(st) # NoArtifact
      BY <2>1, SnapshotType, TicketRunAssumption DEF TicketRunAssumption
    <3>3. snap' = Snapshot(st) /\ Up
      BY <2>2 DEF SaveSnapshot, Up
    <3>4. st.attempts >= snap.attempts /\ RepairCycles(st) >= RepairCycles(snap)
      BY <3>3 DEF NotBehind
    <3>5. RepairCycles(snap') = RepairCycles(st)
      BY <3>1, <3>3 DEF RepairCycles
    <3> QED BY <3>1, <3>2, <3>3, <3>4, <3>5
  <2>3. CASE snap' = snap
    BY <2>1, <2>3 DEF Numbers, Counts, RepairCycles
  <2>4. SaveSnapshot \/ snap' = snap
    <3>1. CASE ReviewPassed
      BY <3>1 DEF ReviewPassed
    <3>2. CASE ReviewBlocks
      BY <3>2 DEF ReviewBlocks
    <3>3. CASE ReopenRead
      BY <3>3 DEF ReopenRead
    <3> QED BY <3>1, <3>2, <3>3 DEF Next, RunTicket, Persist, Gate, Worker, Verifier, Reviewer,
         Runtime, Leave, Reopen, Start, SaveSidecar, GatesBlock, GatesPass, PastIntake,
         BeginWorker, WorkerDone, WorkerBlocked, BeginVerify, Verify, VerificationFailed,
         AdvisoryFailed, ConstraintFailed, VerificationPassed, BeginReviewer, CloseTicket,
         RuntimeRetry, RuntimeBlocked, Stop, Release, UpdateStatus, Fails, Crash,
         ReopenCommit, EpicChanges, vars
  <2> QED BY <2>2, <2>3, <2>4
<1> QED BY <1>1, <1>2, <1>3, Invariant, AloneInductive, PTL DEF Spec, BudgetNotForgotten

-----------------------------------------------------------------------------
(* What the ticket store is told *)

\* The store follows the ticket of an epic.
LEMMA StoreFollowsInductive == Epic /\ IInv /\ StoreFollows /\ [Next]_vars => StoreFollows'
<1> SUFFICES ASSUME Epic, IInv, StoreFollows, [Next]_vars
             PROVE  StoreFollows'
  OBVIOUS
<1>typed. /\ TypeOK /\ st \in Ticket /\ side \in Ticket
          /\ snap # NoArtifact => snap \in Ticket
          /\ edit # NoArtifact => edit \in Ticket /\ edit.phase \in Working
  BY DEF IInv, TypeOK, EditFits
<1>same. ASSUME pc # "down", pc' # "down", UNCHANGED << snap, store >>,
                st.phase = "closed" => st'.phase = "closed"
         PROVE  StoreFollows'
  BY <1>same DEF StoreFollows, Up
<1>1. CASE Start
  <2>1. /\ pc = "down" /\ Schedulable /\ st' = Restored /\ pc' \in {"gate", "fail"}
        /\ snap' = snap
        /\ store' = IF snap # NoArtifact /\ snap.phase = "closed" THEN store ELSE "ready"
    BY <1>1 DEF Start, StatusAtStart
  <2>2. snap # NoArtifact /\ snap.phase = "closed" =>
           store \in {"open", "ready"} /\ st'.phase = "closed"
    <3> SUFFICES ASSUME snap # NoArtifact, snap.phase = "closed"
                 PROVE  store \in {"open", "ready"} /\ st'.phase = "closed"
      OBVIOUS
    <3>1. store \in {"open", "ready"}
      BY <2>1 DEF Schedulable
    <3>2. InSnapshotPhase
      BY DEF InSnapshotPhase, PlanPhase
    <3>3. Hydrated(snap) \in Ticket /\ Hydrated(snap).phase = "closed"
      BY <1>typed, HydratedType
    <3>4. st' = [Hydrated(snap) EXCEPT !.phase = Hydrated(snap).phase, !.outcome = ""]
      BY <2>1, <3>2 DEF Restored
    <3> HIDE DEF Hydrated
    <3> QED BY <3>1, <3>3, <3>4 DEF Ticket
  <2> QED BY <2>1, <2>2 DEF StoreFollows, Up
<1>2. CASE SaveSidecar \/ RuntimeRetry \/ PastIntake \/ BeginWorker \/ BeginReviewer
           \/ BeginVerify \/ Stop \/ Release \/ Fails
  BY <1>2, <1>same DEF SaveSidecar, RuntimeRetry, PastIntake, BeginWorker, BeginReviewer,
     BeginVerify, Stop, Release, Fails, PersistThen
<1>3. CASE SaveSnapshot
  <2>1. snap'.phase = st.phase /\ pc = "saving" /\ pc' = then /\ UNCHANGED << st, store >>
    BY <1>typed, <1>3, SnapshotType DEF SaveSnapshot
  <2>2. then # "down"
    BY <1>typed DEF TypeOK
  <2> QED BY <2>1, <2>2 DEF StoreFollows, Up
<1>4. CASE GatesBlock \/ GatesPass \/ WorkerDone \/ WorkerBlocked \/ Verify
           \/ VerificationFailed \/ AdvisoryFailed \/ ConstraintFailed
           \/ VerificationPassed \/ ReviewPassed \/ ReviewBlocks \/ RuntimeBlocked
  <2>1. pc # "down" /\ pc' = "saving" /\ UNCHANGED << snap, store >>
    BY <1>4 DEF GatesBlock, GatesPass, WorkerDone, WorkerBlocked, Verify,
       VerificationFailed, AdvisoryFailed, ConstraintFailed, VerificationPassed,
       ReviewPassed, ReviewBlocks, RuntimeBlocked, PersistThen
  <2>2. st.phase # "closed"
    BY <1>4 DEF IInv, Places, At, Working, GatesBlock, GatesPass, WorkerDone,
       WorkerBlocked, Verify, VerificationFailed, AdvisoryFailed, ConstraintFailed,
       VerificationPassed, ReviewPassed, ReviewBlocks, RuntimeBlocked
  <2> QED BY <2>1, <2>2, <1>same
<1>5. CASE CloseTicket
  BY <1>5, <1>same DEF CloseTicket, PersistThen
<1>6. CASE UpdateStatus
  BY <1>6 DEF UpdateStatus, StoreFollows, Up, Stopped
<1>7. CASE Crash
  BY <1>7 DEF Crash, StoreFollows, Up
<1>8. CASE ReopenRead
  BY <1>8 DEF ReopenRead, StoreFollows, Up
<1>9. CASE ReopenCommit
  BY <1>typed, <1>9 DEF ReopenCommit, StoreFollows, Up, Working
<1>10. CASE EpicChanges \/ UNCHANGED vars
  BY <1>10 DEF EpicChanges, vars, StoreFollows, Up
<1> QED
  BY <1>1, <1>2, <1>3, <1>4, <1>5, <1>6, <1>7, <1>8, <1>9, <1>10
     DEF Next, RunTicket, Persist, Gate, Worker, Verifier, Reviewer, Runtime, Leave,
         Reopen

\* As long as an epic is run further, the store knows of each ticket of it that is
\* closed, or the scheduler takes the ticket up again: no crash and no failed write
\* leaves it in progress or blocked.
THEOREM ClosedReachesStoreHolds ==
    ASSUME Epic = TRUE
    PROVE  Spec => []ClosedReachesStore
<1>1. Init => StoreFollows
  BY DEF Init, StoreFollows, Up
<1>2. IInv /\ StoreFollows /\ [Next]_vars => StoreFollows'
  BY StoreFollowsInductive
<1>3. IInv /\ StoreFollows => ClosedReachesStore
  BY DEF IInv, TypeOK, StoreFollows, ClosedReachesStore, Schedulable, Up
<1> QED BY <1>1, <1>2, <1>3, Invariant, PTL DEF Spec
=============================================================================
