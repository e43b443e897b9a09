------------------------- MODULE TicketChecksProofs -------------------------
(***************************************************************************)
(* Proofs about TicketChecks, for all files, plans, constraints and bounds. *)
(***************************************************************************)
EXTENDS TicketChecks, FiniteSetTheorems, SequenceTheorems, TLAPS

\* The fields of a verification's artifact.
Record(v) ==
    /\ DOMAIN v = {"passed", "coverage"}
    /\ DOMAIN v.coverage = {"derived", "declared", "skipped", "executed", "blockers",
                            "refs", "limit", "closable"}

\* There is one where it is acted on, and only a ticket that is blocked has
\* reached a limit by it.
Recorded ==
    phase \in {"verified", "review", "repair", "closeout", "closed", "error", "blocked"} =>
        Record(verification)
        /\ (phase # "blocked" => verification.coverage.limit = FALSE)

\* From a verification to the next worker call its record is about the worktree as
\* it is, and its verdict follows from the record.
Results(executed) ==
    \A c \in Declared \cup Derived(content) :
        /\ executed[c] \in {"passed", "failed"}
        /\ executed[c] = "passed" => ~Fails(c, {})
Judged ==
    phase \in {"verified", "review", "closeout", "closed", "error"} =>
        /\ DOMAIN verification.coverage.executed = Declared \cup Derived(content)
        /\ verification.coverage.derived = Derived(content)
        /\ Results(verification.coverage.executed)
        /\ verification.passed = Passed(Declared, verification.coverage.executed)

\* What comes to review passed, advisory checks and constraints as far as they count.
Broken == {c \in defects \cap Constraint : Kind[c] = "grep"}
Reviewed ==
    phase \in {"review", "closeout", "closed", "error"} =>
        /\ verification.passed
        /\ AdvisoryFailing # {} => attempts >= MaxImplementationAttempts
        /\ mishaps = 0 /\ ~Isolated => Broken = {}

Types == plan \in Plan /\ mishaps \in Nat /\ attempts \in Nat

IInv == Types /\ Recorded /\ Judged /\ Reviewed /\ CloseoutBuilds /\ AdvisoryOnlyAdvises

-----------------------------------------------------------------------------
(* Operators. *)

\* Of a record with one pass the failing checks are those that failed in it.
LEMMA FailingOfOnePass ==
  ASSUME NEW e
  PROVE  FailingIDs(<< e >>) = {c \in DOMAIN e : e[c] = "failed"}
<1>1. Executed(<< e >>) = DOMAIN e BY DEF Executed
<1>2. ASSUME NEW c \in DOMAIN e PROVE LatestExecution(<< e >>, c) = e[c]
  <2>1. {i \in DOMAIN << e >> : c \in DOMAIN << e >>[i]} = {1} BY <1>2
  <2>2. Max({1}) = 1 BY DEF Max
  <2> QED BY <2>1, <2>2 DEF LatestExecution
<1> QED BY <1>1, <1>2 DEF FailingIDs

\* At most one command is slow.
LEMMA OneSlow ==
  ASSUME NEW S, NEW slow \in {{}} \cup {{c} : c \in S}
  PROVE  Cardinality(slow) \in Nat /\ (Cardinality(slow) = 0 => slow = {})
<1>1. CASE slow = {} BY <1>1, FS_EmptySet
<1>2. ASSUME NEW c \in S, slow = {c} PROVE Cardinality(slow) = 1
  BY <1>2, FS_Singleton
<1> QED BY <1>1, <1>2

\* A command that fails in the worktree fails when it is run.
LEMMA ExecuteSays ==
  ASSUME NEW slow
  PROVE  /\ DOMAIN Execute(slow) = Declared \cup Derived(content)
         /\ Results(Execute(slow))
<1>1. ASSUME NEW c \in Declared \cup Derived(content)
      PROVE  /\ Execute(slow)[c] \in {"passed", "failed"}
             /\ Execute(slow)[c] = "passed" => ~Fails(c, {})
  BY <1>1 DEF Execute, ResultOf, Fails
<1> QED BY <1>1 DEF Execute, Results

\* A failing command is kept out of a ticket's own checks by a verdict that passed.
LEMMA CleanDeclared ==
  ASSUME plan \in Plan, NEW e, DOMAIN e = Declared \cup Derived(content), Results(e),
         Passed(Declared, e)
  PROVE  defects \cap Declared = {}
<1>1. ASSUME NEW c \in Declared PROVE c \notin defects
  <2>1. c # StaleWording BY TicketChecksAssumption DEF TicketChecksAssumption, Declared
  <2>2. ~Fails(c, {}) BY DEF Passed, Results
  <2> QED BY <2>1, <2>2 DEF Fails
<1> QED BY <1>1

\* Nothing is derived anew as long as the worktree stays as it is.
LEMMA SameChecks ==
  ASSUME UNCHANGED << ticket, worktree >>
  PROVE  /\ Declared' = Declared /\ Derived(content)' = Derived(content)
         /\ \A c : Fails(c, {})' = Fails(c, {})
         /\ Broken' = Broken /\ FailingConstraints(Constraint)' = FailingConstraints(Constraint)
<1>1. Declared' = Declared /\ Derived(content)' = Derived(content)
  BY DEF Declared, Derived, ticket, worktree
<1>2. \A c : Fails(c, {})' = Fails(c, {}) BY DEF Fails, worktree
<1> QED BY <1>1, <1>2 DEF Broken, FailingConstraints, worktree

\* A verification that failed leaves a record of the same executions.
LEMMA HandleFailureKeeps ==
  ASSUME Record(verification), NEW checks, HandleFailure(checks)
  PROVE  /\ Record(verification)'
         /\ phase' = "implement"
            \/ (phase' = "blocked"
                /\ verification'.coverage.executed = verification.coverage.executed)
<1>1. CASE attempts >= MaxImplementationAttempts BY <1>1 DEF HandleFailure, Record
<1>2. CASE ~(attempts >= MaxImplementationAttempts) BY <1>2 DEF HandleFailure, Record
<1> QED BY <1>1, <1>2

-----------------------------------------------------------------------------
(* The invariant: initially, and one lemma per action. *)

LEMMA InitInvariant == Init => IInv
BY DEF Init, IInv, Types, Recorded, Judged, Reviewed, CloseoutBuilds, AdvisoryOnlyAdvises

LEMMA WorkerStep == IInv /\ Worker => IInv'
BY DEF IInv, Types, Recorded, Judged, Reviewed, CloseoutBuilds, AdvisoryOnlyAdvises, Worker,
       ticket, bounds

LEMMA VerifyStep ==
  ASSUME IInv, Verify
  PROVE  IInv'
<1>1. PICK slow \in {{}} \cup {{c} : c \in Declared \cup Derived(content)} :
        /\ mishaps' = mishaps + Cardinality(slow)
        /\ verification' = [passed |-> Verdict(Derived(content), Execute(slow)),
                            coverage |-> Coverage(Derived(content), Execute(slow))]
  BY DEF Verify
<1>2. phase' = "verified" /\ UNCHANGED << ticket, worktree >> /\ attempts' = attempts
  BY DEF Verify
<1>3. Types'
  BY <1>1, <1>2, OneSlow DEF IInv, Types, ticket
<1>4. Recorded' BY <1>1, <1>2 DEF Recorded, Record, Coverage
<1>5. Judged'
  <2>1. /\ verification'.passed = Passed(Declared, Execute(slow))
        /\ verification'.coverage.executed = Execute(slow)
        /\ verification'.coverage.derived = Derived(content)
    BY <1>1 DEF Coverage, Verdict
  <2> DEFINE e == Execute(slow)
  <2>2. /\ DOMAIN e = Declared \cup Derived(content)
        /\ Results(e)
    BY ExecuteSays
  <2> HIDE DEF e
  <2>3. verification'.coverage.executed = e BY <2>1 DEF e
  <2>4. (Results(verification.coverage.executed))'
    BY <1>2, <2>2, <2>3, SameChecks DEF Results
  <2>5. (Passed(Declared, verification.coverage.executed))' = Passed(Declared, e)
    BY <1>2, <2>3, SameChecks DEF Passed
  <2> QED BY <1>2, <2>1, <2>2, <2>3, <2>4, <2>5, SameChecks DEF e, Judged
<1>6. (Reviewed /\ CloseoutBuilds /\ AdvisoryOnlyAdvises)'
  BY <1>2 DEF Reviewed, CloseoutBuilds, AdvisoryOnlyAdvises
<1> QED BY <1>3, <1>4, <1>5, <1>6 DEF IInv

LEMMA CheckFailsStep ==
  ASSUME IInv, CheckFails
  PROVE  IInv'
<1>1. /\ phase = "verified" /\ ~verification.passed /\ HandleFailure(FailingCheckIDs)
      /\ UNCHANGED << ticket, worktree >> /\ UNCHANGED << attempts, mishaps >>
  BY DEF CheckFails, bounds
<1>2. Record(verification) BY <1>1 DEF IInv, Recorded
<1>3. /\ Record(verification)'
      /\ phase' = "implement"
         \/ (phase' = "blocked"
             /\ verification'.coverage.executed = verification.coverage.executed)
  BY <1>1, <1>2, HandleFailureKeeps
<1>4. (Types /\ Recorded /\ Judged /\ Reviewed /\ CloseoutBuilds)'
  BY <1>1, <1>3 DEF IInv, Types, Recorded, Judged, Reviewed, CloseoutBuilds, ticket
<1>5. AdvisoryOnlyAdvises'
  <2>1. PICK c \in Declared : verification.coverage.executed[c] = "failed"
    BY <1>1 DEF IInv, Judged, Results, Passed
  <2>2. c \in Declared' BY <1>1, SameChecks
  <2> QED BY <1>3, <2>1, <2>2 DEF AdvisoryOnlyAdvises
<1> QED BY <1>4, <1>5 DEF IInv

LEMMA AdvisoryFailsStep ==
  ASSUME IInv, AdvisoryFails
  PROVE  IInv'
BY DEF IInv, Types, Recorded, Judged, Reviewed, CloseoutBuilds, AdvisoryOnlyAdvises,
       AdvisoryFails, ticket, bounds

\* A verification that goes on to the next phase with the worktree it has.
LEMMA JudgedStays ==
  ASSUME IInv, UNCHANGED << ticket, worktree, verification >>,
         phase \in {"verified", "review", "closeout", "closed", "error"}
  PROVE  Judged'
<1>1. (Results(verification.coverage.executed))'
  BY SameChecks DEF IInv, Judged, Results
<1>2. (Passed(Declared, verification.coverage.executed))'
        = Passed(Declared, verification.coverage.executed)
  BY SameChecks DEF Passed
<1> QED BY <1>1, <1>2, SameChecks DEF IInv, Judged

LEMMA ConstraintsStep ==
  ASSUME IInv, Constraints
  PROVE  IInv'
<1>1. /\ phase = "verified" /\ verification.passed /\ ~AdvisoryRepair
      /\ UNCHANGED << ticket, worktree, attempts >>
  BY DEF Constraints
<1>2. PICK slow \in {{}} \cup {{c} : c \in Constraint},
           elsewhere \in IF Isolated THEN SUBSET Constraint ELSE {{}} :
        /\ mishaps' = mishaps + Cardinality(slow)
        /\ IF FailingConstraints(elsewhere) \ slow = {}
           THEN phase' = "review" /\ UNCHANGED << verification, cycles >>
           ELSE HandleFailure(FailingCheckIDs)
  BY DEF Constraints
<1>3. Types' BY <1>1, <1>2, OneSlow DEF IInv, Types, ticket
<1>4. CASE FailingConstraints(elsewhere) \ slow = {}
  <2>1. phase' = "review" /\ UNCHANGED verification BY <1>2, <1>4
  <2>2. Recorded' BY <1>1, <2>1 DEF IInv, Recorded, Record
  <2>3. Judged' BY <1>1, <2>1, JudgedStays
  <2>4. Reviewed'
    <3>1. verification'.passed BY <1>1, <2>1
    <3>2. (AdvisoryFailing # {} => attempts >= MaxImplementationAttempts)'
      <4>1. AdvisoryFailing' = AdvisoryFailing
        BY <2>1 DEF AdvisoryFailing, FailingCheckIDs
      <4> QED BY <1>1, <4>1, TicketChecksAssumption
            DEF IInv, Types, AdvisoryRepair, TicketChecksAssumption
    <3>3. ASSUME mishaps' = 0, ~Isolated PROVE Broken' = {}
      <4>1. slow = {}
        <5>1. mishaps + Cardinality(slow) = 0 BY <1>2, <3>3
        <5> QED BY <5>1, OneSlow DEF IInv, Types
      <4>2. Broken = {} BY <1>4, <3>3, <4>1 DEF FailingConstraints, Broken
      <4> QED BY <1>1, <4>2, SameChecks
    <3> QED BY <3>1, <3>2, <3>3 DEF Reviewed
  <2> QED BY <1>3, <2>1, <2>2, <2>3, <2>4 DEF IInv, CloseoutBuilds, AdvisoryOnlyAdvises
<1>5. CASE FailingConstraints(elsewhere) \ slow # {}
  <2>1. HandleFailure(FailingCheckIDs) BY <1>2, <1>5
  <2>2. Record(verification) BY <1>1 DEF IInv, Recorded
  <2>3. /\ Record(verification)'
        /\ phase' \in {"implement", "blocked"}
    BY <2>1, <2>2, HandleFailureKeeps
  <2>4. FailingConstraints(Constraint) # {} BY <1>5 DEF FailingConstraints
  <2>5. AdvisoryOnlyAdvises' BY <1>1, <2>4, SameChecks DEF AdvisoryOnlyAdvises
  <2> QED BY <1>3, <2>3, <2>5 DEF IInv, Recorded, Judged, Reviewed, CloseoutBuilds
<1> QED BY <1>4, <1>5

LEMMA ReviewBlocksStep ==
  ASSUME IInv, ReviewBlocks
  PROVE  IInv'
<1>1. /\ phase = "review" /\ phase' \in {"blocked", "repair"}
      /\ UNCHANGED << ticket, verification, attempts, bounds >>
  BY DEF ReviewBlocks
<1>2. Record(verification)' /\ verification'.coverage.limit = FALSE
  BY <1>1 DEF IInv, Recorded, Record
<1> QED BY <1>1, <1>2 DEF IInv, Types, Recorded, Judged, Reviewed, CloseoutBuilds,
      AdvisoryOnlyAdvises, ticket, bounds

\* What was reviewed stays so, as long as the ticket is not worked on.
LEMMA ReviewedStays ==
  ASSUME IInv, UNCHANGED << ticket, content, defects, verification, attempts >>,
         phase \in {"review", "closeout", "closed", "error"},
         mishaps' \in Nat, mishaps' >= mishaps
  PROVE  Judged' /\ Reviewed'
<1>1. /\ Declared' = Declared /\ Derived(content)' = Derived(content) /\ Broken' = Broken
      /\ \A c : Fails(c, {})' = Fails(c, {})
  BY DEF Declared, Derived, Fails, Broken, ticket
<1>2. (Results(verification.coverage.executed))'
  BY <1>1 DEF IInv, Judged, Results
<1>3. (Passed(Declared, verification.coverage.executed))'
        = Passed(Declared, verification.coverage.executed)
  BY <1>1 DEF Passed
<1>4. Judged' BY <1>1, <1>2, <1>3 DEF IInv, Judged
<1>5. AdvisoryFailing' = AdvisoryFailing BY DEF AdvisoryFailing, FailingCheckIDs
<1>6. mishaps' = 0 => mishaps = 0 BY DEF IInv, Types
<1>7. Reviewed' BY <1>1, <1>5, <1>6 DEF IInv, Reviewed
<1> QED BY <1>4, <1>7

\* The verdict of a verification that passed is closeout's, unless nothing was run.
LEMMA VerdictsAgree ==
  ASSUME IInv, phase = "review", DOMAIN verification.coverage.executed # {}
  PROVE  verification.passed = RequiredCoveragePassed(verification.coverage)
<1>1. Passed(Declared, verification.coverage.executed)
  BY DEF IInv, Judged, Reviewed
<1>2. RequiredCoveragePassed(verification.coverage)
  BY <1>1 DEF IInv, Judged, Passed, RequiredCoveragePassed
<1> QED BY <1>1, <1>2 DEF IInv, Judged

LEMMA ReviewPassesStep ==
  ASSUME IInv, ReviewPasses
  PROVE  IInv'
<1>1. /\ phase = "review" /\ phase' \in {"closeout", "error"}
      /\ UNCHANGED << ticket, content, defects, verification, attempts >>
      /\ mishaps' \in Nat /\ mishaps' >= mishaps
  BY DEF ReviewPasses, IInv, Types
<1>2. Types' BY <1>1 DEF IInv, Types, ticket
<1>3. Recorded' BY <1>1 DEF IInv, Recorded, Record
<1>4. Judged' /\ Reviewed' BY <1>1, ReviewedStays
<1>5. CloseoutBuilds'
  <2>1. SUFFICES ASSUME phase' = "error", DOMAIN verification.coverage.executed # {}
                 PROVE  review'.findings \cap {"resolved", "waived"} # {}
    BY <1>1 DEF CloseoutBuilds
  <2>2. PICK findings \in {s \in Findings : ~\E f \in s : Blocks(f, FALSE)} :
          \E lapses \in {"never", "early", "late"} :
            /\ review' = [findings |-> findings, passed |-> TRUE]
            /\ ~Integrity(findings, lapses = "early")
    BY <2>1 DEF ReviewPasses
  <2>3. verification.passed = RequiredCoveragePassed(verification.coverage)
    BY <1>1, <2>1, VerdictsAgree
  <2>4. "resolved" \in findings \/ \E lapsed \in BOOLEAN : \E f \in findings : Blocks(f, lapsed)
    BY <2>2, <2>3 DEF Integrity, FindingsValid
  <2>5. "resolved" \in findings \/ "waived" \in findings
    BY <2>2, <2>4 DEF Blocks
  <2> QED BY <2>2, <2>5
<1>6. AdvisoryOnlyAdvises' BY <1>1 DEF AdvisoryOnlyAdvises
<1> QED BY <1>2, <1>3, <1>4, <1>5, <1>6 DEF IInv

LEMMA ResumeStep ==
  ASSUME IInv, Resume
  PROVE  IInv'
<1>1. /\ phase = "error" /\ phase' = "review"
      /\ UNCHANGED << ticket, worktree, verification, attempts, bounds >>
  BY DEF Resume
<1>2. Judged' /\ Reviewed'
  BY <1>1, ReviewedStays DEF IInv, Types, worktree, bounds
<1> QED BY <1>1, <1>2 DEF IInv, Types, Recorded, Record, CloseoutBuilds,
      AdvisoryOnlyAdvises, ticket, bounds

LEMMA CloseStep ==
  ASSUME IInv, Close
  PROVE  IInv'
<1>1. /\ phase = "closeout" /\ phase' \in {"closed", "repair"}
      /\ UNCHANGED << ticket, worktree, verification, attempts, bounds >>
  BY DEF Close, artifacts
<1>2. Judged' /\ Reviewed'
  BY <1>1, ReviewedStays DEF IInv, Types, worktree, bounds
<1> QED BY <1>1, <1>2 DEF IInv, Types, Recorded, Record, CloseoutBuilds,
      AdvisoryOnlyAdvises, ticket, bounds

LEMMA StutterStep ==
  ASSUME IInv, UNCHANGED vars
  PROVE  IInv'
<1>1. UNCHANGED << ticket, worktree, verification, review, phase, attempts, bounds >>
  BY DEF vars, artifacts
<1>2. Judged' BY <1>1, JudgedStays DEF Judged
<1>3. Reviewed' BY <1>1, ReviewedStays DEF IInv, Types, Reviewed, worktree, bounds
<1>4. AdvisoryOnlyAdvises' BY <1>1, SameChecks DEF IInv, AdvisoryOnlyAdvises
<1> QED BY <1>1, <1>2, <1>3, <1>4 DEF IInv, Types, Recorded, Record, CloseoutBuilds,
      ticket, bounds

-----------------------------------------------------------------------------
(* The theorems. *)

\* The invariant is inductive: what is verified, reviewed and closed is the
\* worktree as it is, with the record that was made of it.
THEOREM Inductive == Spec => []IInv
<1>1. Init => IInv BY InitInvariant
<1>2. IInv /\ [Next]_vars => IInv'
  BY WorkerStep, VerifyStep, CheckFailsStep, AdvisoryFailsStep, ConstraintsStep,
     ReviewBlocksStep, ReviewPassesStep, ResumeStep, CloseStep, StutterStep DEF Next
<1> QED BY <1>1, <1>2, PTL DEF Spec

\* A ticket closes on a worktree in which its commands succeed as it is, whatever
\* they are and however often it was repaired (executeVerification,
\* handleReviewOutcome).
THEOREM ClosedIsCheckedHolds == Spec => []ClosedIsChecked
<1>1. IInv => ClosedIsChecked
  <2> SUFFICES ASSUME IInv, phase = "closed" PROVE ClosedIsChecked
    BY DEF ClosedIsChecked
  <2> DEFINE e == verification.coverage.executed
  <2>1. /\ DOMAIN e = Declared \cup Derived(content) /\ Results(e)
        /\ verification.coverage.derived = Derived(content)
        /\ Passed(Declared, e)
    BY DEF IInv, Judged, Reviewed
  <2>2. defects \cap Declared = {} BY <2>1, CleanDeclared DEF IInv, Types
  <2>3. ASSUME NEW c \in Derived(content), Fails(c, {})
        PROVE  attempts >= MaxImplementationAttempts
    <3>1. e[c] = "failed" BY <2>1, <2>3 DEF Results
    <3>2. c \in FailingCheckIDs BY <2>1, <3>1, FailingOfOnePass DEF FailingCheckIDs
    <3> QED BY <2>1, <3>2 DEF AdvisoryFailing, IInv, Reviewed
  <2>4. mishaps = 0 /\ ~Isolated => Broken = {} BY DEF IInv, Reviewed
  <2> QED BY <2>1, <2>2, <2>3, <2>4 DEF ClosedIsChecked, Broken
<1> QED BY <1>1, Inductive, PTL

\* The two verdicts of a verification agree: a closeout fails to be built for
\* findings, or because nothing was run (validateArtifactIntegrity).
THEOREM CloseoutBuildsHolds == Spec => []CloseoutBuilds
<1>1. IInv => CloseoutBuilds BY DEF IInv
<1> QED BY <1>1, Inductive, PTL

\* Derived checks, of any files and with any linters, block no ticket
\* (failingChecksSummary, handleVerificationFailure).
THEOREM AdvisoryOnlyAdvisesHolds == Spec => []AdvisoryOnlyAdvises
<1>1. IInv => AdvisoryOnlyAdvises BY DEF IInv
<1> QED BY <1>1, Inductive, PTL
-----------------------------------------------------------------------------
(* Repair cycles: how many there are, and what the worker is told of them. *)

\* All a ticket may ever be checked for, and the cycles that may come of it.
Known == Declared \cup UNION {Derived(files) : files \in [File -> Content]}
Cycle == [checks : SUBSET Known, findings : SUBSET {"blocking", "resolved", "waived"},
          result : {"pending", "failed", "repaired"}]

\* The cycles that a review started.
Repairs == {n \in DOMAIN cycles : cycles[n].findings # {}}

Shapes ==
    /\ tools \in ToolSignals
    /\ content \in [File -> Content] /\ defects \subseteq Possible(content)
    /\ baseline \in [File -> Content] \cup {None}
    /\ phase \in {"implement", "verify", "verified", "review", "repair", "closeout",
                  "closed", "blocked", "error"}
    /\ verification # None => verification.passed \in BOOLEAN
    /\ cycles \in Seq(Cycle)

\* A worker call that is going to be made is paid for beforehand: by an attempt of the
\* policy's, by a finding, or by a waiver that lapsed late.
Owed ==
    IF phase \in {"implement", "repair"} \/ (phase = "closeout" /\ closeout.gate # "none")
    THEN 1 ELSE 0

\* Each cycle is of one kind; verification starts one per attempt at most, and none
\* with the last; of those the review starts, one that is one too many is the last.
Rounds ==
    /\ Len(cycles) = Cardinality(Retries) + Cardinality(Repairs)
    /\ Cardinality(Retries) <= attempts
    /\ phase \in {"verify", "verified"} => Cardinality(Retries) < attempts
    /\ Cardinality(Retries) < MaxImplementationAttempts
    /\ Cardinality(Repairs) <= IF phase = "blocked" THEN MaxRepairCycles + 1
                               ELSE MaxRepairCycles
    /\ attempts + Owed <= MaxImplementationAttempts + mishaps + Cardinality(Repairs)

CycleInv == Shapes /\ Rounds /\ RetryNamesFailures

\* Both kinds of cycle can be counted.
LEMMA CyclesFinite ==
  ASSUME NEW X, cycles \in Seq(X)
  PROVE  /\ IsFiniteSet(Retries) /\ IsFiniteSet(Repairs)
         /\ Cardinality(Retries) \in Nat /\ Cardinality(Repairs) \in Nat
<1>1. DOMAIN cycles = 1 .. Len(cycles) /\ Len(cycles) \in Nat OBVIOUS
<1>2. IsFiniteSet(DOMAIN cycles) BY <1>1, FS_Interval
<1>3. Retries \subseteq DOMAIN cycles /\ Repairs \subseteq DOMAIN cycles
  BY DEF Retries, Repairs
<1> QED BY <1>2, <1>3, FS_Subset, FS_CardinalityType

\* A new cycle counts for its kind; the checks it names are the ones a retry is told.
LEMMA CyclesAppended ==
  ASSUME NEW X, cycles \in Seq(X), NEW c \in X, cycles' = Append(cycles, c)
  PROVE  /\ cycles' \in Seq(X) /\ Len(cycles') = Len(cycles) + 1
         /\ Cardinality(Retries)' = Cardinality(Retries) + IF c.checks # {} THEN 1 ELSE 0
         /\ Cardinality(Repairs)' = Cardinality(Repairs) + IF c.findings # {} THEN 1 ELSE 0
         /\ c.checks # {} => Retries' # {} /\ cycles'[Max(Retries')].checks = c.checks
<1> DEFINE n == Len(cycles) + 1
<1>1. /\ cycles' \in Seq(X) /\ Len(cycles') = n /\ cycles'[n] = c
      /\ \A i \in 1 .. Len(cycles) : cycles'[i] = cycles[i]
  BY AppendProperties
<1>2. /\ DOMAIN cycles = 1 .. Len(cycles) /\ DOMAIN cycles' = 1 .. n
      /\ Len(cycles) \in Nat
  BY <1>1
<1>3. DOMAIN cycles' = DOMAIN cycles \cup {n} /\ n \notin DOMAIN cycles BY <1>2
<1>4. Retries' = IF c.checks # {} THEN Retries \cup {n} ELSE Retries
  BY <1>1, <1>2, <1>3 DEF Retries
<1>5. Repairs' = IF c.findings # {} THEN Repairs \cup {n} ELSE Repairs
  BY <1>1, <1>2, <1>3 DEF Repairs
<1>6. n \notin Retries /\ n \notin Repairs BY <1>3 DEF Retries, Repairs
<1>7. /\ IsFiniteSet(Retries) /\ IsFiniteSet(Repairs)
      /\ Cardinality(Retries) \in Nat /\ Cardinality(Repairs) \in Nat
  BY CyclesFinite
<1>8. /\ Cardinality(Retries \cup {n}) = Cardinality(Retries) + 1
      /\ Cardinality(Repairs \cup {n}) = Cardinality(Repairs) + 1
  BY <1>6, <1>7, FS_AddElement
<1>9. ASSUME c.checks # {} PROVE Max(Retries') = n
  <2>1. n \in Retries' /\ \A i \in Retries' : i \in Nat /\ i <= n
    BY <1>2, <1>4, <1>9 DEF Retries
  <2>2. n \in Nat BY <1>2
  <2>3. \A m \in Retries' : (\A i \in Retries' : m >= i) <=> m = n
    BY <2>1, <2>2
  <2> QED BY <2>1, <2>3 DEF Max
<1>10. Cardinality(Retries)' = Cardinality(Retries) + IF c.checks # {} THEN 1 ELSE 0
  BY <1>4, <1>7, <1>8
<1>11. Cardinality(Repairs)' = Cardinality(Repairs) + IF c.findings # {} THEN 1 ELSE 0
  BY <1>5, <1>7, <1>8
<1>12. c.checks # {} => Retries' # {} /\ cycles'[Max(Retries')].checks = c.checks
  BY <1>1, <1>4, <1>9
<1> QED BY <1>1, <1>10, <1>11, <1>12

\* What the ticket may be checked for is the same all along.
LEMMA KnownStays ==
  ASSUME UNCHANGED ticket
  PROVE  /\ Known' = Known /\ Cycle' = Cycle
         /\ \A files : Possible(files)' = Possible(files)
<1>1. Declared' = Declared /\ \A files : Derived(files)' = Derived(files)
  BY DEF Declared, Derived, ticket
<1>2. Known' = Known BY <1>1 DEF Known
<1> QED BY <1>1, <1>2 DEF Cycle, Possible, ticket

\* The numbers that rounds are counted with.
LEMMA RoundNumbers ==
  ASSUME IInv, CycleInv
  PROVE  /\ Cardinality(Retries) \in Nat /\ Cardinality(Repairs) \in Nat
         /\ attempts \in Nat /\ mishaps \in Nat /\ Owed \in {0, 1}
         /\ MaxImplementationAttempts \in Nat /\ MaxRepairCycles \in Nat
BY CyclesFinite, TicketChecksAssumption
   DEF IInv, Types, CycleInv, Shapes, Owed, TicketChecksAssumption

\* The checks that failed are some of those that were run.
LEMMA FailingKnown ==
  ASSUME IInv, CycleInv, phase = "verified"
  PROVE  FailingCheckIDs \subseteq Known
<1>1. FailingCheckIDs \subseteq DOMAIN verification.coverage.executed
  BY FailingOfOnePass DEF FailingCheckIDs
<1>2. Derived(content) \subseteq Known
  BY DEF Known, CycleInv, Shapes
<1> QED BY <1>1, <1>2 DEF IInv, Judged, Known

\* No cycle more, and nothing that has to be paid for.
LEMMA RoundsStay ==
  ASSUME IInv, CycleInv, UNCHANGED << cycles, attempts >>,
         mishaps' \in Nat, mishaps' >= mishaps,
         attempts + Owed' <= MaxImplementationAttempts + mishaps' + Cardinality(Repairs),
         phase' \in {"verify", "verified"} => phase \in {"verify", "verified"},
         phase = "blocked" => phase' = "blocked"
  PROVE  Rounds'
<1>1. /\ Retries' = Retries /\ Repairs' = Repairs BY DEF Retries, Repairs
<1>2. /\ Cardinality(Retries)' = Cardinality(Retries)
      /\ Cardinality(Repairs)' = Cardinality(Repairs)
  BY <1>1
<1> QED BY <1>2, RoundNumbers DEF CycleInv, Rounds

\* The worktree is left as it is.
LEMMA ShapesStay ==
  ASSUME CycleInv, UNCHANGED << ticket, content, defects >>, baseline' \in {baseline, None},
         phase' \in {"implement", "verify", "verified", "review", "repair", "closeout",
                    "closed", "blocked", "error"},
         verification' # None => verification'.passed \in BOOLEAN,
         cycles' \in Seq(Cycle)
  PROVE  Shapes'
<1>1. Cycle' = Cycle /\ Possible(content)' = Possible(content)
  BY KnownStays
<1>2. tools' = tools BY DEF ticket
<1> QED BY <1>1, <1>2 DEF CycleInv, Shapes

\* Back to the worker with the checks that failed.
LEMMA RetryStep ==
  ASSUME IInv, CycleInv, phase = "verified", phase' = "implement",
         UNCHANGED << ticket, content, defects, baseline, attempts >>,
         mishaps' \in Nat, mishaps' >= mishaps,
         attempts < MaxImplementationAttempts,
         FailingCheckIDs' = FailingCheckIDs, AppendCycle(FailingCheckIDs),
         verification'.passed \in BOOLEAN
  PROVE  CycleInv'
<1> DEFINE F == FailingCheckIDs
           c == RepairCycle(F, {})
<1>1. cycles \in Seq(Cycle) /\ Cycle' = Cycle /\ \A files : Possible(files)' = Possible(files)
  BY KnownStays DEF CycleInv, Shapes
<1>2. c \in Cycle BY FailingKnown DEF RepairCycle, Cycle
<1>3. c.checks = F /\ c.findings = {} BY DEF RepairCycle
<1>4. F' = F BY DEF F
<1> HIDE DEF c
<1>5. cycles' = IF F = {} THEN cycles ELSE Append(cycles, c) BY DEF AppendCycle, c
<1>6. CASE F = {}
  <2>1. cycles' = cycles BY <1>5, <1>6
  <2>2. Shapes' BY <1>1, <2>1, ShapesStay
  <2>3. Owed' = 1 BY DEF Owed
  <2>4. Rounds' BY <2>1, <2>3, RoundNumbers, RoundsStay
  <2>5. RetryNamesFailures' BY <1>4, <1>6 DEF RetryNamesFailures, F
  <2> QED BY <2>2, <2>4, <2>5 DEF CycleInv
<1>7. CASE F # {}
  <2>1. /\ cycles' \in Seq(Cycle) /\ Len(cycles') = Len(cycles) + 1
        /\ Cardinality(Retries)' = Cardinality(Retries) + 1
        /\ Cardinality(Repairs)' = Cardinality(Repairs)
        /\ Retries' # {} /\ cycles'[Max(Retries')].checks = F
    <3>1. cycles' = Append(cycles, c) BY <1>5, <1>7
    <3>2. /\ cycles' \in Seq(Cycle) /\ Len(cycles') = Len(cycles) + 1
          /\ Cardinality(Retries)' = Cardinality(Retries) + IF c.checks # {} THEN 1 ELSE 0
          /\ Cardinality(Repairs)' = Cardinality(Repairs) + IF c.findings # {} THEN 1 ELSE 0
          /\ c.checks # {} => Retries' # {} /\ cycles'[Max(Retries')].checks = c.checks
      BY <1>1, <1>2, <3>1, CyclesAppended
    <3> QED BY <1>3, <1>7, <3>2, RoundNumbers
  <2>2. Shapes' BY <1>1, <2>1, ShapesStay
  <2>3. Owed' = 1 BY DEF Owed
  <2>4. Len(cycles) = Cardinality(Retries) + Cardinality(Repairs)
        /\ Cardinality(Retries) < attempts
        /\ Cardinality(Repairs) <= MaxRepairCycles
    BY DEF CycleInv, Rounds
  <2>5. Rounds' BY <2>1, <2>3, <2>4, RoundNumbers DEF Rounds
  <2>6. RetryNamesFailures'
    <3>1. ChecksToFix' = IF attempts' > 0 THEN F ELSE {} BY <2>1 DEF ChecksToFix
    <3> QED BY <1>4, <3>1 DEF RetryNamesFailures, F
  <2> QED BY <2>2, <2>5, <2>6 DEF CycleInv
<1> QED BY <1>6, <1>7

\* A verification that failed: another attempt, or the end.
LEMMA HandleFailureRounds ==
  ASSUME IInv, CycleInv, phase = "verified", HandleFailure(FailingCheckIDs),
         UNCHANGED << ticket, content, defects, baseline, attempts >>,
         mishaps' \in Nat, mishaps' >= mishaps
  PROVE  CycleInv'
<1>1. Record(verification) BY DEF IInv, Recorded
<1>2. CASE attempts >= MaxImplementationAttempts
  <2>1. phase' = "blocked" /\ cycles' = cycles /\ verification'.passed = FALSE
    BY <1>1, <1>2 DEF HandleFailure, Record
  <2>2. Shapes' BY <2>1, ShapesStay DEF CycleInv, Shapes
  <2>3. Owed' = 0 BY <2>1 DEF Owed
  <2>4. attempts + Owed <= MaxImplementationAttempts + mishaps + Cardinality(Repairs)
    BY DEF CycleInv, Rounds
  <2>5. Rounds' BY <2>1, <2>3, <2>4, RoundNumbers, RoundsStay
  <2> QED BY <2>1, <2>2, <2>5 DEF CycleInv, RetryNamesFailures
<1>3. CASE ~(attempts >= MaxImplementationAttempts)
  <2>1. /\ phase' = "implement" /\ AppendCycle(FailingCheckIDs)
        /\ verification'.passed = FALSE
        /\ verification'.coverage.executed = verification.coverage.executed
    BY <1>1, <1>3 DEF HandleFailure, Record
  <2>2. FailingCheckIDs' = FailingCheckIDs BY <2>1 DEF FailingCheckIDs
  <2>3. attempts < MaxImplementationAttempts BY <1>3, RoundNumbers
  <2>4. verification'.passed \in BOOLEAN BY <2>1
  <2> QED BY <2>1, <2>2, <2>3, <2>4, RetryStep
<1> QED BY <1>2, <1>3

\* A step after which no worker is called: what the next one is told does not matter.
LEMMA QuietStep ==
  ASSUME IInv, CycleInv, UNCHANGED << ticket, content, defects, cycles, attempts >>,
         baseline' \in {baseline, None},
         phase' \in {"verified", "review", "repair", "closeout", "closed", "error"},
         phase' = "verified" => phase = "verify", phase # "blocked",
         verification' # None => verification'.passed \in BOOLEAN,
         mishaps' \in Nat, mishaps' >= mishaps,
         Owed' = 1 => Owed = 1 \/ mishaps' > mishaps
  PROVE  CycleInv'
<1>1. Shapes' BY ShapesStay DEF CycleInv, Shapes
<1>2. Owed' \in {0, 1} BY DEF Owed
<1>3. attempts + Owed' <= MaxImplementationAttempts + mishaps' + Cardinality(Repairs)
  BY <1>2, RoundNumbers DEF CycleInv, Rounds
<1>4. Rounds' BY <1>3, RoundsStay
<1> QED BY <1>1, <1>4 DEF CycleInv, RetryNamesFailures

LEMMA InitCycles == Init => CycleInv
<1> SUFFICES ASSUME Init PROVE CycleInv OBVIOUS
<1>1. cycles = << >> /\ Retries = {} /\ Repairs = {} BY DEF Init, Retries, Repairs
<1>2. Len(cycles) = 0 /\ cycles \in Seq(Cycle) BY <1>1
<1>3. Cardinality(Retries) = 0 /\ Cardinality(Repairs) = 0 BY <1>1, FS_EmptySet
<1>4. /\ content \in [File -> Content] /\ tools \in ToolSignals
      /\ attempts = 0 /\ mishaps = 0 /\ phase = "implement"
      /\ defects = {} /\ baseline = None /\ verification = None
  BY TicketChecksAssumption DEF Init, ToolSignals, TicketChecksAssumption
<1>5. Shapes BY <1>2, <1>4 DEF Shapes
<1>6. Rounds
  BY <1>2, <1>3, <1>4, TicketChecksAssumption DEF Rounds, Owed, TicketChecksAssumption
<1> QED BY <1>4, <1>5, <1>6 DEF CycleInv, RetryNamesFailures

LEMMA WorkerRounds == IInv /\ CycleInv /\ Worker => CycleInv'
<1> SUFFICES ASSUME IInv, CycleInv, Worker PROVE CycleInv' OBVIOUS
<1>1. /\ phase \in {"implement", "repair"} /\ phase' = "verify"
      /\ content' \in [File -> Content] /\ defects' \subseteq Possible(content')
      /\ baseline' = content /\ attempts' = attempts + 1
      /\ UNCHANGED << ticket, cycles, verification, mishaps >>
  BY DEF Worker, artifacts, bounds
<1>2. Cycle' = Cycle /\ Possible(content)' = Possible(content') /\ tools' = tools
  BY <1>1, KnownStays DEF ticket
<1>3. Shapes' BY <1>1, <1>2 DEF CycleInv, Shapes
<1>4. Retries' = Retries /\ Repairs' = Repairs BY <1>1 DEF Retries, Repairs
<1>5. Owed = 1 /\ Owed' = 0 BY <1>1 DEF Owed
<1>6. /\ Cardinality(Retries)' = Cardinality(Retries)
      /\ Cardinality(Repairs)' = Cardinality(Repairs)
  BY <1>4
<1>7. Rounds' BY <1>1, <1>5, <1>6, RoundNumbers DEF CycleInv, Rounds
<1> QED BY <1>1, <1>3, <1>7 DEF CycleInv, RetryNamesFailures

LEMMA VerifyRounds == IInv /\ CycleInv /\ Verify => CycleInv'
<1> SUFFICES ASSUME IInv, CycleInv, Verify PROVE CycleInv' OBVIOUS
<1>1. PICK slow \in {{}} \cup {{c} : c \in Declared \cup Derived(content)} :
        /\ mishaps' = mishaps + Cardinality(slow)
        /\ verification' = [passed |-> Verdict(Derived(content), Execute(slow)),
                            coverage |-> Coverage(Derived(content), Execute(slow))]
  BY DEF Verify
<1>2. mishaps' \in Nat /\ mishaps' >= mishaps
  BY <1>1, OneSlow, RoundNumbers
<1>3. verification'.passed \in BOOLEAN BY <1>1 DEF Verdict, Passed
<1>4. /\ phase = "verify" /\ phase' = "verified"
      /\ UNCHANGED << ticket, content, defects, baseline, cycles, attempts >>
  BY DEF Verify, worktree
<1>5. Owed' = 0 BY <1>4 DEF Owed
<1> QED BY <1>2, <1>3, <1>4, <1>5, QuietStep

LEMMA CheckFailsRounds == IInv /\ CycleInv /\ CheckFails => CycleInv'
BY HandleFailureRounds, RoundNumbers DEF CheckFails, worktree, bounds

LEMMA AdvisoryFailsRounds == IInv /\ CycleInv /\ AdvisoryFails => CycleInv'
<1> SUFFICES ASSUME IInv, CycleInv, AdvisoryFails PROVE CycleInv' OBVIOUS
<1>1. /\ phase = "verified" /\ phase' = "implement" /\ verification.passed
      /\ attempts < MaxImplementationAttempts
      /\ UNCHANGED << ticket, content, defects, baseline, verification, attempts, mishaps >>
      /\ AppendCycle(AdvisoryFailing)
  BY DEF AdvisoryFails, AdvisoryRepair, worktree, bounds
<1>2. FailingCheckIDs \subseteq verification.coverage.derived
  <2> DEFINE e == verification.coverage.executed
  <2>1. /\ DOMAIN e = Declared \cup Derived(content)
        /\ verification.coverage.derived = Derived(content) /\ Passed(Declared, e)
    BY <1>1 DEF IInv, Judged
  <2>2. FailingCheckIDs = {c \in DOMAIN e : e[c] = "failed"}
    BY FailingOfOnePass DEF FailingCheckIDs
  <2> QED BY <2>1, <2>2 DEF Passed
<1>3. AdvisoryFailing = FailingCheckIDs BY <1>2 DEF AdvisoryFailing
<1>4. FailingCheckIDs' = FailingCheckIDs BY <1>1 DEF FailingCheckIDs
<1>5. Record(verification) BY <1>1 DEF IInv, Recorded
<1>6. verification'.passed \in BOOLEAN
  BY <1>1, <1>5, TicketChecksAssumption DEF CycleInv, Shapes, IInv, Judged, Passed
<1> QED BY <1>1, <1>3, <1>4, <1>6, RoundNumbers, RetryStep

LEMMA ConstraintsRounds == IInv /\ CycleInv /\ Constraints => CycleInv'
<1> SUFFICES ASSUME IInv, CycleInv, Constraints PROVE CycleInv' OBVIOUS
<1>1. /\ phase = "verified"
      /\ UNCHANGED << ticket, content, defects, baseline, attempts >>
  BY DEF Constraints, worktree
<1>2. PICK slow \in {{}} \cup {{c} : c \in Constraint},
           elsewhere \in IF Isolated THEN SUBSET Constraint ELSE {{}} :
        /\ mishaps' = mishaps + Cardinality(slow)
        /\ IF FailingConstraints(elsewhere) \ slow = {}
           THEN phase' = "review" /\ UNCHANGED << verification, cycles >>
           ELSE HandleFailure(FailingCheckIDs)
  BY DEF Constraints
<1>3. mishaps' \in Nat /\ mishaps' >= mishaps
  <2>1. mishaps' = mishaps + Cardinality(slow) BY <1>2
  <2>2. Cardinality(slow) \in Nat BY OneSlow
  <2> QED BY <2>1, <2>2, RoundNumbers
<1>4. CASE HandleFailure(FailingCheckIDs) BY <1>1, <1>3, <1>4, HandleFailureRounds
<1>5. CASE phase' = "review" /\ UNCHANGED << verification, cycles >>
  <2>1. Owed' = 0 BY <1>5 DEF Owed
  <2> QED BY <1>1, <1>3, <1>5, <2>1, QuietStep DEF CycleInv, Shapes
<1> QED BY <1>2, <1>4, <1>5

LEMMA ReviewBlocksRounds == IInv /\ CycleInv /\ ReviewBlocks => CycleInv'
<1> SUFFICES ASSUME IInv, CycleInv, ReviewBlocks PROVE CycleInv' OBVIOUS
<1>1. PICK findings \in Findings :
        LET blocking == {f \in findings : Blocks(f, FALSE)}
            cycle == RepairCycle({}, blocking)
        IN  /\ blocking # {}
            /\ IF Len(cycles) + 1 > MaxRepairCycles
               THEN /\ phase' = "blocked"
                    /\ cycles' = Append(cycles, [cycle EXCEPT !.result = "failed"])
               ELSE phase' = "repair" /\ cycles' = Append(cycles, cycle)
  BY DEF ReviewBlocks
<1>2. PICK c \in Cycle :
        /\ c.checks = {} /\ c.findings # {} /\ cycles' = Append(cycles, c)
        /\ phase' = IF Len(cycles) + 1 > MaxRepairCycles THEN "blocked" ELSE "repair"
  <2> DEFINE blocking == {f \in findings : Blocks(f, FALSE)}
             Made(r) == [checks |-> {}, findings |-> blocking, result |-> r]
  <2>1. Made("failed") \in Cycle /\ Made("pending") \in Cycle
    <3>1. blocking \subseteq {"blocking", "resolved", "waived"} BY DEF Findings
    <3> QED BY <3>1 DEF Cycle
  <2>2. /\ RepairCycle({}, blocking) = Made("pending")
        /\ [Made("pending") EXCEPT !.result = "failed"] = Made("failed")
    <3>1. RepairCycle({}, blocking) = Made("pending") BY DEF RepairCycle
    <3>2. ASSUME NEW found
          PROVE  [[checks |-> {}, findings |-> found, result |-> "pending"]
                     EXCEPT !.result = "failed"]
                 = [checks |-> {}, findings |-> found, result |-> "failed"]
      OBVIOUS
    <3> QED BY <3>1, <3>2
  <2>3. CASE Len(cycles) + 1 > MaxRepairCycles
    <3>1. cycles' = Append(cycles, Made("failed")) /\ blocking # {} /\ phase' = "blocked"
      BY <1>1, <2>2, <2>3
    <3>2. Made("failed").checks = {} /\ Made("failed").findings # {} BY <3>1
    <3> HIDE DEF Made
    <3> QED BY <2>1, <2>3, <3>1, <3>2
  <2>4. CASE ~(Len(cycles) + 1 > MaxRepairCycles)
    <3>1. cycles' = Append(cycles, Made("pending")) /\ blocking # {} /\ phase' = "repair"
      BY <1>1, <2>2, <2>4
    <3>2. Made("pending").checks = {} /\ Made("pending").findings # {} BY <3>1
    <3> HIDE DEF Made
    <3> QED BY <2>1, <2>4, <3>1, <3>2
  <2> QED BY <2>3, <2>4
<1>3. /\ phase = "review"
      /\ UNCHANGED << ticket, content, defects, baseline, verification, attempts, mishaps >>
  BY DEF ReviewBlocks, worktree, bounds
<1>4. cycles \in Seq(Cycle) BY DEF CycleInv, Shapes
<1>5. /\ cycles' \in Seq(Cycle) /\ Len(cycles') = Len(cycles) + 1
      /\ Cardinality(Retries)' = Cardinality(Retries)
      /\ Cardinality(Repairs)' = Cardinality(Repairs) + 1
  <2>1. /\ cycles' \in Seq(Cycle) /\ Len(cycles') = Len(cycles) + 1
        /\ Cardinality(Retries)' = Cardinality(Retries) + IF c.checks # {} THEN 1 ELSE 0
        /\ Cardinality(Repairs)' = Cardinality(Repairs) + IF c.findings # {} THEN 1 ELSE 0
    BY <1>2, <1>4, CyclesAppended
  <2> QED BY <1>2, <2>1, RoundNumbers
<1>6. Shapes' BY <1>2, <1>3, <1>5, ShapesStay DEF CycleInv, Shapes
<1>7. Owed' \in {0, 1} BY DEF Owed
<1>8. /\ Len(cycles) = Cardinality(Retries) + Cardinality(Repairs)
      /\ Cardinality(Retries) <= attempts
      /\ Cardinality(Retries) < MaxImplementationAttempts
      /\ Cardinality(Repairs) <= MaxRepairCycles
      /\ attempts <= MaxImplementationAttempts + mishaps + Cardinality(Repairs)
  BY <1>3, RoundNumbers DEF CycleInv, Rounds
<1>9. Rounds' BY <1>2, <1>3, <1>5, <1>7, <1>8, RoundNumbers DEF Rounds
<1> QED BY <1>2, <1>6, <1>9 DEF CycleInv, RetryNamesFailures

\* The last cycle's result is not what is counted.
LEMMA LastCompletedKeeps ==
  ASSUME CycleInv, cycles' \in {cycles, LastCompleted}
  PROVE  /\ cycles' \in Seq(Cycle) /\ Len(cycles') = Len(cycles)
         /\ Retries' = Retries /\ Repairs' = Repairs
<1>1. cycles \in Seq(Cycle) BY DEF CycleInv, Shapes
<1>2. CASE cycles' = cycles BY <1>1, <1>2 DEF Retries, Repairs
<1>3. CASE cycles' # cycles
  <2> DEFINE n == Len(cycles)
  <2>1. cycles # << >> /\ cycles' = [cycles EXCEPT ![n].result = "repaired"]
    BY <1>3 DEF LastCompleted
  <2>2. n \in DOMAIN cycles /\ DOMAIN cycles = 1 .. n /\ n \in Nat BY <1>1, <2>1
  <2>3. cycles[n] \in Cycle BY <1>1, <2>2
  <2>4. /\ [cycles[n] EXCEPT !.result = "repaired"] \in Cycle
        /\ [cycles[n] EXCEPT !.result = "repaired"].checks = cycles[n].checks
        /\ [cycles[n] EXCEPT !.result = "repaired"].findings = cycles[n].findings
    BY <2>3 DEF Cycle
  <2>5. cycles' = [cycles EXCEPT ![n] = [cycles[n] EXCEPT !.result = "repaired"]]
    BY <2>1
  <2>6. cycles' \in Seq(Cycle) /\ Len(cycles') = n
    BY <1>1, <2>2, <2>4, <2>5, ExceptSeq
  <2>7. \A i \in DOMAIN cycles : /\ cycles'[i].checks = cycles[i].checks
                                 /\ cycles'[i].findings = cycles[i].findings
    BY <1>1, <2>2, <2>4, <2>5
  <2> QED BY <2>2, <2>6, <2>7 DEF Retries, Repairs
<1> QED BY <1>2, <1>3

LEMMA ReviewPassesRounds == IInv /\ CycleInv /\ ReviewPasses => CycleInv'
<1> SUFFICES ASSUME IInv, CycleInv, ReviewPasses PROVE CycleInv' OBVIOUS
<1>1. PICK findings \in {s \in Findings : ~\E f \in s : Blocks(f, FALSE)},
           lapses \in {"never", "early", "late"} :
        /\ mishaps' = mishaps + IF lapses = "never" THEN 0 ELSE 1
        /\ IF Integrity(findings, lapses = "early")
           THEN /\ cycles' = LastCompleted
                /\ closeout' = Closeout(FailedGate(findings, lapses = "late"))
                /\ phase' = "closeout" /\ baseline' = baseline
           ELSE phase' = "error" /\ baseline' = None /\ cycles' = cycles
  BY DEF ReviewPasses
<1>2. /\ phase = "review"
      /\ UNCHANGED << ticket, content, defects, verification, attempts >>
  BY DEF ReviewPasses
<1>3. mishaps' \in Nat /\ mishaps' >= mishaps BY <1>1, RoundNumbers
<1>4. /\ cycles' \in Seq(Cycle) /\ Len(cycles') = Len(cycles)
      /\ Retries' = Retries /\ Repairs' = Repairs
  BY <1>1, LastCompletedKeeps
<1>5. phase' \in {"closeout", "error"} /\ baseline' \in {baseline, None} BY <1>1
<1>6. Shapes' BY <1>2, <1>4, <1>5, ShapesStay DEF CycleInv, Shapes
<1>7. attempts + Owed' <= MaxImplementationAttempts + mishaps' + Cardinality(Repairs)
  <2>1. attempts <= MaxImplementationAttempts + mishaps + Cardinality(Repairs)
    BY RoundNumbers DEF CycleInv, Rounds
  <2>2. Owed' = 1 => mishaps' = mishaps + 1
    <3>1. SUFFICES ASSUME phase' = "closeout", closeout'.gate # "none"
                   PROVE  lapses = "late"
      BY <1>1, <1>5 DEF Owed
    <3>2. closeout'.gate = FailedGate(findings, lapses = "late")
      BY <1>1, <3>1 DEF Closeout
    <3>3. PICK f \in findings : Blocks(f, lapses = "late")
      BY <3>1, <3>2 DEF FailedGate
    <3> QED BY <3>3 DEF Blocks
  <2>3. Owed' \in {0, 1} BY DEF Owed
  <2> QED BY <1>3, <2>1, <2>2, <2>3, RoundNumbers
<1>8. Rounds'
  <2>1. Cardinality(Retries') = Cardinality(Retries)
        /\ Cardinality(Repairs') = Cardinality(Repairs)
    BY <1>4
  <2> QED BY <1>2, <1>3, <1>4, <1>5, <1>7, <2>1, RoundNumbers DEF CycleInv, Rounds
<1> QED BY <1>5, <1>6, <1>8 DEF CycleInv, RetryNamesFailures

LEMMA ResumeRounds == IInv /\ CycleInv /\ Resume => CycleInv'
<1> SUFFICES ASSUME IInv, CycleInv, Resume PROVE CycleInv' OBVIOUS
<1>1. Owed' = 0 BY DEF Resume, Owed
<1> QED BY <1>1, QuietStep, RoundNumbers DEF Resume, worktree, bounds, CycleInv, Shapes

LEMMA CloseRounds == IInv /\ CycleInv /\ Close => CycleInv'
<1> SUFFICES ASSUME IInv, CycleInv, Close PROVE CycleInv' OBVIOUS
<1>1. Owed' = 1 => Owed = 1 BY DEF Close, Owed
<1> QED BY <1>1, QuietStep, RoundNumbers
        DEF Close, worktree, artifacts, bounds, CycleInv, Shapes

LEMMA StutterRounds == IInv /\ CycleInv /\ UNCHANGED vars => CycleInv'
<1> SUFFICES ASSUME IInv, CycleInv, UNCHANGED vars PROVE CycleInv' OBVIOUS
<1>1. UNCHANGED << ticket, content, defects, baseline, verification, cycles, phase,
                   attempts, mishaps, closeout >>
  BY DEF vars, worktree, artifacts, bounds
<1>2. Shapes' BY <1>1, ShapesStay DEF CycleInv, Shapes
<1>3. Retries' = Retries /\ Repairs' = Repairs /\ Owed' = Owed
  BY <1>1 DEF Retries, Repairs, Owed
<1>4. Rounds' BY <1>1, <1>3 DEF CycleInv, Rounds
<1>5. FailingCheckIDs' = FailingCheckIDs /\ ChecksToFix' = ChecksToFix
  BY <1>1, <1>3 DEF FailingCheckIDs, ChecksToFix
<1> QED BY <1>1, <1>2, <1>4, <1>5 DEF CycleInv, RetryNamesFailures

\* Cycles are counted, and told, as they should be in every behaviour.
LEMMA CyclesInductive == Spec => []CycleInv
<1>1. Init => CycleInv BY InitCycles
<1>2. IInv /\ CycleInv /\ [Next]_vars => CycleInv'
  BY WorkerRounds, VerifyRounds, CheckFailsRounds, AdvisoryFailsRounds, ConstraintsRounds,
     ReviewBlocksRounds, ReviewPassesRounds, ResumeRounds, CloseRounds, StutterRounds
     DEF Next
<1> QED BY <1>1, <1>2, Inductive, PTL DEF Spec

\* The types; and with them that no ticket goes through more repair cycles, nor gets
\* more attempts, than the policy, its reviews and its lapsed waivers make
\* (handleVerificationFailure, handleReviewOutcome).
THEOREM TypeCorrect == Spec => []TypeOK
<1>1. IInv /\ CycleInv => TypeOK
  <2> SUFFICES ASSUME IInv, CycleInv PROVE TypeOK OBVIOUS
  <2>1. Len(cycles) <= MaxImplementationAttempts + MaxRepairCycles
    BY RoundNumbers DEF CycleInv, Rounds
  <2>2. attempts <= MaxImplementationAttempts + mishaps + Cardinality(Repairs)
    BY RoundNumbers DEF CycleInv, Rounds
  <2> QED BY <2>1, <2>2 DEF TypeOK, Repairs, IInv, Types, CycleInv, Shapes
<1> QED BY <1>1, Inductive, CyclesInductive, PTL

\* A worker called again because checks failed is told exactly these, whatever the
\* checks are and however many cycles of either kind went before
\* (buildImplementPhaseInstructions, appendVerificationRepairCycle).
THEOREM RetryNamesFailuresHolds == Spec => []RetryNamesFailures
<1>1. CycleInv => RetryNamesFailures BY DEF CycleInv
<1> QED BY <1>1, CyclesInductive, PTL
=============================================================================
