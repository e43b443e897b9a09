-------------------------- MODULE WaveChecksProofs --------------------------
(***************************************************************************)
(* Proofs about WaveChecks, for all files, commands, budgets and bounds.    *)
(***************************************************************************)
EXTENDS WaveChecks, SequenceTheorems, WellFoundedInduction, TLAPS

\* The checks of a verification, and what a pass may have made of them.
IDs == {ID(j) : j \in Jobs}
Pass == UNION {[D -> Result] : D \in SUBSET IDs}

\* There are gate commands, and they are run where derived checks are: a check's
\* identity is its command.
OneTree == Gate # << >> /\ \A i \in DOMAIN Gate : Gate[i].path = "."

\* A coverage record, and references that say what their cycle's pass found.
Covered(cov) ==
    /\ DOMAIN cov = {"executed", "refs", "blockers", "reason", "skipped", "limit", "closable"}
    /\ cov.executed \in Seq(Pass)
    /\ \A r \in cov.refs : r.cycle \in Nat
    /\ cov.closable \in BOOLEAN
Told(cov) ==
    \A r \in cov.refs : r.result # "pending" =>
        /\ r.cycle + 1 \in DOMAIN cov.executed
        /\ r.check \in DOMAIN cov.executed[r.cycle + 1]
        /\ cov.executed[r.cycle + 1][r.check]
             = IF r.result = "repaired" THEN "passed" ELSE "failed"

\* A verification has a record, unless there is nothing to run.
Shape ==
    /\ derived = DerivedJobs(changed, tools)
    /\ pc = "idle" => coverage = None
    /\ pc # "idle" /\ Jobs # {} => Covered(coverage)
    /\ pc # "idle" /\ Jobs = {} => pc = "over" /\ coverage = None /\ outcome = "passed"
    /\ pc = "first" => /\ cycle = 0 /\ failing = {}
                       /\ coverage.executed = << >> /\ coverage.refs = {}
                       /\ coverage.reason = {}
    /\ pc \in {"first", "repair", "worker", "again"} => outcome = "none"

\* Between passes: what fails is known, and who is sent out is on record.
Round ==
    pc \in {"repair", "worker", "again"} =>
        /\ Len(coverage.executed) = IF pc = "repair" THEN cycle + 1 ELSE cycle
        /\ Executed(coverage.executed) = IDs
        /\ failing = FailingIDs(coverage.executed)
        /\ coverage.reason = {}
        /\ \A r \in coverage.refs : r.result = "pending" =>
             pc # "repair" /\ r.cycle = cycle /\ (failing # {} => r.check \in failing)
        /\ OneTree => failing # {}

Telling == OneTree /\ pc # "idle" /\ Jobs # {} => Told(coverage)
Caused == OneTree => FailureHasCause

\* No cycle beyond the policy's, and no worker without one.
Budget ==
    /\ cycle \in 0 .. MaxWaveRepairCycles
    /\ pc = "repair" => cycle < MaxWaveRepairCycles
    /\ workers \in Nat /\ starts \in 0 .. MaxStarts /\ mishaps \in 0 .. MaxMishaps
    /\ workers + (IF pc = "idle" THEN 0 ELSE MaxWaveRepairCycles - cycle)
         <= MaxWaveRepairCycles * starts

IInv == TypeOK /\ Shape /\ Round /\ Telling /\ Caused /\ GatePassed /\ Budget

-----------------------------------------------------------------------------
(* Operators. *)

\* A set of indices has a last one.
LEMMA LastIndex ==
  ASSUME NEW n \in Nat, NEW S \in SUBSET (1 .. n), S # {}
  PROVE  /\ Max(S) \in S
         /\ \A i \in S : i <= Max(S)
<1> DEFINE T == {n - i : i \in S}
           R == OpToRel(<, Nat)
<1>1. T \subseteq Nat /\ T # {}
  <2>1. \A i \in S : n - i \in Nat OBVIOUS
  <2>2. PICK i \in S : TRUE OBVIOUS
  <2> QED BY <2>1, <2>2
<1>2. PICK m \in T : \A k \in T : ~(<< k, m >> \in R)
  <2> HIDE DEF T
  <2> QED BY <1>1, NatLessThanWellFounded, WFMin
<1>3. \A k \in T : ~(k < m) BY <1>1, <1>2 DEF OpToRel
<1>4. PICK i \in S : m = n - i OBVIOUS
<1>5. \A j \in S : i >= j BY <1>3, <1>4
<1> QED BY <1>4, <1>5 DEF Max

LEMMA LastIndexIs ==
  ASSUME NEW n \in Nat, NEW S \in SUBSET (1 .. n), NEW i \in S, \A j \in S : j <= i
  PROVE  Max(S) = i
<1>1. Max(S) \in S /\ i <= Max(S) BY LastIndex
<1>2. Max(S) <= i BY <1>1
<1>3. \A j, k \in S : j <= k /\ k <= j => j = k
  <2>1. \A j, k \in 1 .. n : j <= k /\ k <= j => j = k OBVIOUS
  <2> QED BY <2>1
<1> QED BY <1>1, <1>2, <1>3

\* What is run once more is judged by that, what is not by what it was.
LEMMA LatestAfter ==
  ASSUME NEW X, NEW passes \in Seq(X), NEW e \in X
  PROVE  /\ Executed(Append(passes, e)) = Executed(passes) \cup DOMAIN e
         /\ \A id \in DOMAIN e : LatestExecution(Append(passes, e), id) = e[id]
         /\ \A id \in Executed(passes) \ DOMAIN e :
              LatestExecution(Append(passes, e), id) = LatestExecution(passes, id)
<1> DEFINE all == Append(passes, e)
           n == Len(passes)
           In(ps, id) == {i \in DOMAIN ps : id \in DOMAIN ps[i]}
<1>1. /\ DOMAIN passes = 1 .. n /\ DOMAIN all = 1 .. n + 1 /\ n \in Nat
      /\ all[n + 1] = e /\ \A i \in 1 .. n : all[i] = passes[i]
  OBVIOUS
<1> HIDE DEF all, n
<1>2. Executed(all) = Executed(passes) \cup DOMAIN e
  <2>1. \A i \in 1 .. n + 1 : i \in 1 .. n \/ i = n + 1 BY <1>1
  <2> QED BY <1>1, <2>1 DEF Executed
<1>3. ASSUME NEW id \in DOMAIN e PROVE LatestExecution(all, id) = e[id]
  <2>1. n + 1 \in In(all, id) /\ In(all, id) \in SUBSET (1 .. n + 1) BY <1>1, <1>3
  <2>2. \A j \in In(all, id) : j <= n + 1 BY <1>1
  <2>3. Max(In(all, id)) = n + 1
    <3>1. n + 1 \in Nat BY <1>1
    <3> HIDE DEF In
    <3> QED BY ONLY <2>1, <2>2, <3>1, LastIndexIs
  <2> QED BY <1>1, <2>3 DEF LatestExecution
<1>4. ASSUME NEW id \in Executed(passes) \ DOMAIN e
      PROVE  LatestExecution(all, id) = LatestExecution(passes, id)
  <2>1. In(all, id) = In(passes, id)
    <3>1. \A i \in 1 .. n + 1 : i \in 1 .. n \/ i = n + 1 BY <1>1
    <3> QED BY <1>1, <1>4, <3>1
  <2>2. In(passes, id) # {} /\ In(passes, id) \in SUBSET (1 .. n)
    BY <1>1, <1>4 DEF Executed
  <2>3. Max(In(passes, id)) \in 1 .. n BY <1>1, <2>2, LastIndex
  <2> QED BY <1>1, <2>1, <2>3 DEF LatestExecution
<1> QED BY <1>2, <1>3, <1>4 DEF all

LEMMA FailingAfter ==
  ASSUME NEW X, NEW passes \in Seq(X), NEW e \in X
  PROVE  FailingIDs(Append(passes, e))
           = {id \in DOMAIN e : e[id] = "failed"} \cup (FailingIDs(passes) \ DOMAIN e)
BY LatestAfter DEF FailingIDs

LEMMA NothingRun == Executed(<< >>) = {} /\ FailingIDs(<< >>) = {}
BY DEF Executed, FailingIDs

LEMMA DerivedAtRoot ==
  ASSUME derived = DerivedJobs(changed, tools), NEW j \in derived
  PROVE  j = Job(ID(j), ".")
<1>1. PICK c : j = Job(c, ".") BY DEF DerivedJobs
<1>2. ID(j) = c BY <1>1 DEF Job, ID
<1> QED BY <1>1, <1>2

\* What a check's execution stands for is a job that was run, of that check.
LEMMA RunAsJob ==
  ASSUME derived = DerivedJobs(changed, tools),
         NEW id \in {ID(j) : j \in ToSet(Gate) \cup Chosen}
  PROVE  RunAs(id) \in ToSet(Gate) \cup Chosen /\ ID(RunAs(id)) = id
<1>1. \A j \in Chosen : j = Job(ID(j), ".") BY DerivedAtRoot DEF Chosen
<1>2. CASE id \in {ID(j) : j \in Chosen} BY <1>1, <1>2 DEF RunAs
<1>3. CASE id \notin {ID(j) : j \in Chosen}
  <2> DEFINE S == {i \in DOMAIN Gate : ID(Gate[i]) = id}
  <2>1. DOMAIN Gate = 1 .. Len(Gate) /\ Len(Gate) \in Nat
    BY WaveChecksAssumption DEF WaveChecksAssumption
  <2>2. S # {} /\ S \in SUBSET (1 .. Len(Gate)) BY <1>3, <2>1 DEF ToSet
  <2>3. Max(S) \in S
    <3> HIDE DEF S
    <3> QED BY <2>1, <2>2, LastIndex
  <2>4. RunAs(id) = Gate[Max(S)] BY <1>3 DEF RunAs
  <2> QED BY <2>3, <2>4 DEF ToSet
<1> QED BY <1>2, <1>3

\* A pass gives every check it runs a result, all of them passed if all jobs did.
\* That one failed if some job did takes that commands are run in one directory.
LEMMA PassSays ==
  ASSUME derived = DerivedJobs(changed, tools), NEW slow
  PROVE  /\ DOMAIN ExecuteWaveChecks(slow) = {ID(j) : j \in ToSet(Gate) \cup Chosen}
         /\ ExecuteWaveChecks(slow) \in Pass
         /\ \A id \in DOMAIN ExecuteWaveChecks(slow) :
              ExecuteWaveChecks(slow)[id] \in {"passed", "failed"}
         /\ AllPassed(slow) => \A id \in DOMAIN ExecuteWaveChecks(slow) :
              ExecuteWaveChecks(slow)[id] = "passed"
         /\ OneTree /\ ~AllPassed(slow) => \E id \in DOMAIN ExecuteWaveChecks(slow) :
              ExecuteWaveChecks(slow)[id] = "failed"
<1> DEFINE Run == {ID(j) : j \in ToSet(Gate) \cup Chosen}
           e == ExecuteWaveChecks(slow)
<1>1. DOMAIN e = Run /\ \A id \in Run : e[id] = ResultOf(Fails(RunAs(id), slow))
  BY DEF ExecuteWaveChecks
<1> HIDE DEF e
<1>2. \A id \in Run : e[id] \in {"passed", "failed"} BY <1>1 DEF ResultOf
<1>3. e \in Pass
  <2>1. Run \in SUBSET IDs BY DEF IDs, Jobs, Chosen
  <2>2. e = [id \in Run |-> e[id]] BY <1>1 DEF e, ExecuteWaveChecks
  <2>3. e \in [Run -> Result] BY <1>2, <2>2 DEF Result
  <2> HIDE DEF Run
  <2> QED BY <2>1, <2>3 DEF Pass
<1>4. ASSUME AllPassed(slow), NEW id \in Run PROVE e[id] = "passed"
  <2>1. ~Fails(RunAs(id), slow) BY <1>4, RunAsJob DEF AllPassed
  <2> QED BY <1>1, <2>1 DEF ResultOf
<1>5. ASSUME OneTree, ~AllPassed(slow) PROVE \E id \in Run : e[id] = "failed"
  <2>1. PICK j \in ToSet(Gate) \cup Chosen : Fails(j, slow)
    BY <1>5 DEF AllPassed, OneTree
  <2>2. \A k \in ToSet(Gate) \cup Chosen : k = Job(ID(k), ".")
    <3>1. ASSUME NEW i \in DOMAIN Gate PROVE Gate[i] = Job(ID(Gate[i]), ".")
      BY <1>5, WaveChecksAssumption DEF WaveChecksAssumption, OneTree, ID
    <3> QED BY <3>1, DerivedAtRoot DEF ToSet, Chosen
  <2>3. ID(j) \in Run OBVIOUS
  <2>4. RunAs(ID(j)) = j BY <2>2, <2>3, RunAsJob
  <2> QED BY <1>1, <2>1, <2>3, <2>4 DEF ResultOf
<1> QED BY <1>1, <1>2, <1>3, <1>4, <1>5 DEF e

\* As long as the wave is the same, its checks are.
LEMMA SameChecks ==
  ASSUME UNCHANGED wave
  PROVE  /\ UNCHANGED << changed, tools, derived, merged >>
         /\ Jobs' = Jobs /\ IDs' = IDs /\ Pass' = Pass
         /\ DerivedJobs(changed, tools)' = DerivedJobs(changed, tools)
BY DEF wave, Jobs, IDs, Pass, DerivedJobs

LEMMA InitInvariant == Init => IInv
<1> SUFFICES ASSUME Init PROVE IInv OBVIOUS
<1> USE DEF Init
<1>1. TypeOK BY WaveChecksAssumption DEF TypeOK, WaveChecksAssumption, PC, ToolSignals, Jobs
<1>2. Shape /\ Round /\ Telling /\ Caused /\ GatePassed
  BY DEF Shape, Round, Telling, Caused, GatePassed, FailureHasCause
<1>3. Budget BY WaveChecksAssumption DEF WaveChecksAssumption, Budget
<1> QED BY <1>1, <1>2, <1>3 DEF IInv

-----------------------------------------------------------------------------
(* The coverage record. *)

Alike(cov, old) == cov.executed = old.executed /\ cov.refs = old.refs

LEMMA RecordSays ==
  ASSUME derived = DerivedJobs(changed, tools), NEW cov, Covered(cov), NEW slow
  PROVE  LET new == Record(cov, slow) IN
         /\ Covered(new) /\ new.refs = cov.refs /\ new.reason = cov.reason
         /\ new.executed = Append(cov.executed, ExecuteWaveChecks(slow))
<1>1. ExecuteWaveChecks(slow) \in Pass BY PassSays
<1>2. Append(cov.executed, ExecuteWaveChecks(slow)) \in Seq(Pass)
  BY <1>1, AppendProperties DEF Covered
<1> QED BY <1>2 DEF Covered, Record

LEMMA VerdictSays ==
  ASSUME NEW cov, Covered(cov), NEW ids
  PROVE  /\ Covered(MarkPassed(cov)) /\ Alike(MarkPassed(cov), cov)
         /\ Covered(MarkFailed(cov, ids)) /\ Alike(MarkFailed(cov, ids), cov)
         /\ MarkFailed(cov, ids).reason = IF cov.reason = {} THEN ids ELSE cov.reason
         /\ Covered(Unrepaired(cov, ids)) /\ Alike(Unrepaired(cov, ids), cov)
         /\ Unrepaired(cov, ids).reason = IF cov.reason = {} THEN ids ELSE cov.reason
BY DEF Covered, Alike, MarkPassed, MarkFailed, Unrepaired

LEMMA SettleSays ==
  ASSUME NEW cov, Covered(cov), NEW n \in Nat, NEW still
  PROVE  LET new == SettleCycle(cov, n, still) IN
         /\ Covered(new) /\ new.executed = cov.executed /\ new.reason = cov.reason
         /\ \A r \in new.refs :
              \/ r \in cov.refs /\ ~(r.cycle = n /\ r.result = "pending")
              \/ \E old \in cov.refs :
                   /\ old.cycle = n /\ old.result = "pending"
                   /\ r = RepairRef(old.check, n,
                                    IF old.check \in still THEN "failed" ELSE "repaired")
<1> DEFINE new == SettleCycle(cov, n, still)
<1>1. new.refs = {IF r.cycle = n /\ r.result = "pending"
                  THEN RepairRef(r.check, n, IF r.check \in still THEN "failed" ELSE "repaired")
                  ELSE r : r \in cov.refs}
  BY DEF SettleCycle, Covered
<1>2. new.executed = cov.executed /\ new.reason = cov.reason /\ DOMAIN new = DOMAIN cov
      /\ new.closable = cov.closable
  BY DEF SettleCycle, Covered
<1> HIDE DEF new
<1>3. ASSUME NEW r \in new.refs
      PROVE  \/ r \in cov.refs /\ ~(r.cycle = n /\ r.result = "pending")
             \/ \E old \in cov.refs :
                  /\ old.cycle = n /\ old.result = "pending"
                  /\ r = RepairRef(old.check, n,
                                   IF old.check \in still THEN "failed" ELSE "repaired")
  <2>1. PICK old \in cov.refs :
          r = IF old.cycle = n /\ old.result = "pending"
              THEN RepairRef(old.check, n, IF old.check \in still THEN "failed" ELSE "repaired")
              ELSE old
    BY <1>1
  <2>2. CASE old.cycle = n /\ old.result = "pending" BY <2>1, <2>2
  <2>3. CASE ~(old.cycle = n /\ old.result = "pending") BY <2>1, <2>3
  <2> QED BY <2>2, <2>3
<1>4. \A r \in new.refs : r.cycle \in Nat BY <1>3 DEF Covered, RepairRef
<1> QED BY <1>2, <1>3, <1>4 DEF Covered, new

LEMMA RepairedSays ==
  ASSUME NEW cov, Covered(cov), NEW ids \in SUBSET IDs
  PROVE  LET new == MarkRepaired(cov, ids) IN
         /\ Covered(new) /\ new.refs = cov.refs
         /\ new.executed = Append(cov.executed, [id \in ids |-> "repaired"])
         /\ [id \in ids |-> "repaired"] \in Pass
<1>1. [id \in ids |-> "repaired"] \in [ids -> Result] BY DEF Result
<1>2. [id \in ids |-> "repaired"] \in Pass BY <1>1 DEF Pass
<1>3. Append(cov.executed, [id \in ids |-> "repaired"]) \in Seq(Pass)
  BY <1>2, AppendProperties DEF Covered
<1> QED BY <1>2, <1>3 DEF Covered, MarkRepaired

LEMMA DispatchSays ==
  ASSUME NEW cov, Covered(cov), NEW ids, NEW n \in Nat
  PROVE  LET new == AppendRepairCycle(cov, ids, n) IN
         /\ Covered(new) /\ new.executed = cov.executed /\ new.reason = cov.reason
         /\ cov.refs \subseteq new.refs
         /\ \A r \in new.refs \ cov.refs :
              r.result = "pending" /\ r.cycle = n /\ (ids # {} => r.check \in ids)
<1> DEFINE new == AppendRepairCycle(cov, ids, n)
           added == {RepairRef(id, n, "pending") : id \in IF ids = {} THEN {None} ELSE ids}
<1>1. /\ new.refs = cov.refs \cup added /\ new.executed = cov.executed
      /\ new.reason = cov.reason /\ DOMAIN new = DOMAIN cov /\ new.closable = cov.closable
  BY DEF AppendRepairCycle, Covered
<1>2. \A r \in added : r.result = "pending" /\ r.cycle = n /\ (ids # {} => r.check \in ids)
  BY DEF RepairRef
<1> HIDE DEF new, added
<1> QED BY <1>1, <1>2 DEF Covered, new

-----------------------------------------------------------------------------
(* The steps. *)

\* What a pass needs to have found for its verdict, or for the repair after it.
LEMMA DecideStep ==
  ASSUME IInv, pc \in {"first", "again"}, UNCHANGED << wave, tree, cycle >>,
         NEW slow, NEW ifPassed, NEW ifFailed,
         Covered(ifPassed), Covered(ifFailed),
         Decide(slow, ifPassed, ifFailed), failing' = FailingIDs(ifFailed.executed),
         AllPassed(slow) =>
            /\ IDs \subseteq Executed(ifPassed.executed)
            /\ FailingIDs(ifPassed.executed) = {}
            /\ \A r \in ifPassed.refs : r.result # "pending"
            /\ OneTree => Told(ifPassed),
         ~AllPassed(slow) =>
            /\ Len(ifFailed.executed) = cycle + 1 /\ Executed(ifFailed.executed) = IDs
            /\ ifFailed.reason = {}
            /\ \A r \in ifFailed.refs : r.result # "pending"
            /\ OneTree => Told(ifFailed) /\ FailingIDs(ifFailed.executed) # {}
  PROVE  /\ (Shape /\ Round /\ Telling /\ Caused /\ GatePassed)'
         /\ pc' \in {"saving", "repair"} /\ outcome' \in {"none", "passed", "failed"}
         /\ pc' = "repair" => cycle < MaxWaveRepairCycles
<1>1. Jobs # {} /\ outcome = "none" /\ derived = DerivedJobs(changed, tools)
  BY DEF IInv, Shape
<1>2. Jobs' = Jobs /\ IDs' = IDs /\ Pass' = Pass /\ derived' = DerivedJobs(changed, tools)'
  BY <1>1, SameChecks
<1>3. CASE AllPassed(slow)
  <2>1. /\ coverage' = MarkPassed(ifPassed) /\ pc' = "saving" /\ outcome' = "passed"
    BY <1>3 DEF Decide, Conclude
  <2>2. Covered(coverage') /\ Alike(coverage', ifPassed) BY <2>1, VerdictSays
  <2>3. Covered(coverage)' BY <1>2, <2>2 DEF Covered
  <2>4. OneTree => Told(coverage') BY <1>3, <2>2 DEF Told, Alike
  <2>5. tree' \cap ToSet(Gate) = {} BY <1>3 DEF AllPassed, Fails
  <2>6. GatePassed' BY <1>2, <1>3, <2>2, <2>5 DEF GatePassed, Alike, IDs
  <2> QED BY <1>1, <1>2, <2>1, <2>3, <2>4, <2>6
        DEF Shape, Round, Telling, Caused, FailureHasCause
<1>4. CASE ~AllPassed(slow) /\ cycle < MaxWaveRepairCycles
  <2>1. coverage' = ifFailed /\ pc' = "repair" /\ outcome' = "none"
    BY <1>1, <1>4 DEF Decide
  <2>2. Covered(coverage)' BY <1>2, <2>1 DEF Covered
  <2>3. Round' BY <1>2, <1>4, <2>1 DEF Round
  <2> QED BY <1>1, <1>2, <1>4, <2>1, <2>2, <2>3
        DEF Shape, Telling, Caused, FailureHasCause, GatePassed
<1>5. CASE ~AllPassed(slow) /\ ~(cycle < MaxWaveRepairCycles)
  <2> DEFINE ids == FailingIDs(ifFailed.executed)
  <2>1. coverage' = Unrepaired(ifFailed, ids) /\ pc' = "saving" /\ outcome' = "failed"
    BY <1>5 DEF Decide, Conclude
  <2>2. /\ Covered(coverage') /\ Alike(coverage', ifFailed)
        /\ coverage'.reason = ids
    BY <1>5, <2>1, VerdictSays
  <2>3. Covered(coverage)' BY <1>2, <2>2 DEF Covered
  <2>4. OneTree => Told(coverage') BY <1>5, <2>2 DEF Told, Alike
  <2>5. Caused' BY <1>5, <2>1, <2>2 DEF Caused, FailureHasCause, Alike
  <2> QED BY <1>1, <1>2, <2>1, <2>3, <2>4, <2>5 DEF Shape, Round, Telling, GatePassed
<1> QED BY <1>3, <1>4, <1>5

\* The types and the budget through a pass.
LEMMA PassCounts ==
  ASSUME IInv, pc \in {"first", "again"}, pc' \in {"saving", "repair"},
         outcome' \in {"none", "passed", "failed"},
         pc' = "repair" => cycle < MaxWaveRepairCycles, NEW slow, Slow(slow),
         UNCHANGED << wave, tree, saved, cycle, workers, starts >>
  PROVE  (TypeOK /\ Budget)'
<1>1. Jobs' = Jobs BY SameChecks
<1>2. mishaps' \in 0 .. MaxMishaps
  BY WaveChecksAssumption DEF WaveChecksAssumption, Slow, IInv, Budget
<1>3. TypeOK' BY <1>1, <1>2 DEF IInv, TypeOK, wave, PC
<1>4. Budget' BY <1>2 DEF IInv, Budget
<1> QED BY <1>3, <1>4

LEMMA FirstPassStep ==
  ASSUME IInv, FirstPass
  PROVE  IInv'
<1>1. PICK slow :
        /\ Slow(slow)
        /\ failing' = FailingIDs(Record(coverage, slow).executed)
        /\ Decide(slow, Record(coverage, slow), Record(coverage, slow))
  BY DEF FirstPass
<1>2. pc = "first" /\ UNCHANGED << wave, tree, saved, cycle, workers, starts >>
  BY DEF FirstPass
<1> DEFINE cov == Record(coverage, slow)
           e == ExecuteWaveChecks(slow)
<1>3. /\ derived = DerivedJobs(changed, tools) /\ cycle = 0 /\ Covered(coverage)
      /\ coverage.executed = << >> /\ coverage.refs = {} /\ coverage.reason = {}
  BY <1>2 DEF IInv, Shape
<1>4. /\ Covered(cov) /\ cov.refs = {} /\ cov.reason = {}
      /\ cov.executed = Append(coverage.executed, e)
  BY <1>3, RecordSays
<1>5. e \in Pass BY <1>3, PassSays
<1>6. coverage.executed \in Seq(Pass) BY <1>3 DEF Covered
<1>7. DOMAIN e = IDs
  <2>1. ToSet(Gate) \cup Chosen = Jobs BY <1>3 DEF Chosen, Jobs
  <2> QED BY <1>3, <2>1, PassSays DEF IDs
<1>8. Executed(cov.executed) = IDs
  <2> HIDE DEF cov, e
  <2>1. Executed(Append(coverage.executed, e)) = Executed(coverage.executed) \cup DOMAIN e
    BY <1>5, <1>6, LatestAfter
  <2>2. Executed(coverage.executed) = {} BY <1>3, NothingRun
  <2> QED BY <1>4, <1>7, <2>1, <2>2
<1>9. FailingIDs(cov.executed) = {id \in DOMAIN e : e[id] = "failed"}
  <2> HIDE DEF cov, e
  <2>1. FailingIDs(Append(coverage.executed, e))
          = {id \in DOMAIN e : e[id] = "failed"} \cup (FailingIDs(coverage.executed) \ DOMAIN e)
    BY <1>5, <1>6, FailingAfter
  <2>2. FailingIDs(coverage.executed) = {} BY <1>3, NothingRun
  <2> QED BY <1>4, <2>1, <2>2
<1>10. Len(cov.executed) = 1 BY <1>3, <1>4
<1>11. AllPassed(slow) => FailingIDs(cov.executed) = {}
  BY <1>3, <1>9, PassSays
<1>12. OneTree /\ ~AllPassed(slow) => FailingIDs(cov.executed) # {}
  BY <1>3, <1>9, PassSays
<1>13. Told(cov) BY <1>4 DEF Told
<1>14. /\ (Shape /\ Round /\ Telling /\ Caused /\ GatePassed)'
       /\ pc' \in {"saving", "repair"} /\ outcome' \in {"none", "passed", "failed"}
       /\ pc' = "repair" => cycle < MaxWaveRepairCycles
  <2> HIDE DEF cov
  <2>1. Decide(slow, cov, cov) /\ failing' = FailingIDs(cov.executed) BY <1>1 DEF cov
  <2>2. Len(cov.executed) = cycle + 1 BY <1>3, <1>10
  <2>3. /\ IDs \subseteq Executed(cov.executed)
        /\ \A r \in cov.refs : r.result # "pending"
    BY <1>4, <1>8
  <2> QED BY <1>2, <1>4, <1>8, <1>11, <1>12, <1>13, <2>1, <2>2, <2>3, DecideStep
<1>15. (TypeOK /\ Budget)' BY <1>1, <1>2, <1>14, PassCounts
<1> QED BY <1>14, <1>15 DEF IInv

\* A reference that was right stays so when more passes are recorded.
LEMMA ToldAfter ==
  ASSUME NEW old, Covered(old), Told(old), NEW new,
         DOMAIN old.executed \subseteq DOMAIN new.executed,
         \A i \in DOMAIN old.executed : new.executed[i] = old.executed[i],
         \A r \in new.refs :
            \/ r \in old.refs
            \/ /\ r.cycle + 1 \in DOMAIN new.executed
               /\ r.check \in DOMAIN new.executed[r.cycle + 1]
               /\ new.executed[r.cycle + 1][r.check]
                    = IF r.result = "repaired" THEN "passed" ELSE "failed"
  PROVE  Told(new)
BY DEF Told

LEMMA RunAgainStep ==
  ASSUME IInv, RunAgain
  PROVE  IInv'
<1>1. PICK slow :
        /\ Slow(slow)
        /\ failing' = FailingIDs(Record(coverage, slow).executed)
        /\ Decide(slow,
                  MarkRepaired(SettleCycle(Record(coverage, slow), cycle, {}), failing),
                  SettleCycle(Record(coverage, slow), cycle,
                              FailingIDs(Record(coverage, slow).executed)))
  BY DEF RunAgain
<1>2. pc = "again" /\ UNCHANGED << wave, tree, saved, cycle, workers, starts >>
  BY DEF RunAgain
<1> DEFINE cov == Record(coverage, slow)
           e == ExecuteWaveChecks(slow)
           ids == FailingIDs(cov.executed)
           settled == SettleCycle(cov, cycle, {})
           ifPassed == MarkRepaired(settled, failing)
           ifFailed == SettleCycle(cov, cycle, ids)
           repaired == [id \in failing |-> "repaired"]
<1>3. /\ derived = DerivedJobs(changed, tools) /\ Covered(coverage)
      /\ Len(coverage.executed) = cycle /\ Executed(coverage.executed) = IDs
      /\ failing = FailingIDs(coverage.executed) /\ coverage.reason = {}
      /\ \A r \in coverage.refs : r.result = "pending" =>
           r.cycle = cycle /\ (failing # {} => r.check \in failing)
      /\ OneTree => failing # {} /\ Told(coverage)
      /\ cycle \in Nat
  BY <1>2, WaveChecksAssumption
     DEF WaveChecksAssumption, IInv, Shape, Round, Telling, Budget
<1>4. /\ Covered(cov) /\ cov.refs = coverage.refs /\ cov.reason = {}
      /\ cov.executed = Append(coverage.executed, e)
  BY <1>3, RecordSays
<1>5. e \in Pass /\ coverage.executed \in Seq(Pass) BY <1>3, PassSays DEF Covered
<1>6. failing \subseteq DOMAIN e /\ DOMAIN e \subseteq IDs
  <2>1. failing \subseteq IDs BY <1>3 DEF FailingIDs
  <2>2. ASSUME NEW id \in failing PROVE id \in {ID(j) : j \in ToSet(Gate) \cup Chosen}
    <3>1. PICK j \in Jobs : id = ID(j) BY <2>1 DEF IDs
    <3> QED BY <3>1 DEF Jobs, Chosen
  <2>3. DOMAIN e = {ID(j) : j \in ToSet(Gate) \cup Chosen} BY <1>3, PassSays
  <2>4. ToSet(Gate) \cup Chosen \subseteq Jobs BY DEF Jobs, Chosen
  <2> HIDE DEF e
  <2> QED BY <2>2, <2>3, <2>4 DEF IDs
<1>7. Executed(cov.executed) = IDs
  <2> HIDE DEF cov, e
  <2>1. Executed(Append(coverage.executed, e)) = Executed(coverage.executed) \cup DOMAIN e
    BY <1>5, LatestAfter
  <2> QED BY <1>3, <1>4, <1>6, <2>1
<1>8. ids = {id \in DOMAIN e : e[id] = "failed"}
  <2> HIDE DEF cov, e
  <2>1. FailingIDs(Append(coverage.executed, e))
          = {id \in DOMAIN e : e[id] = "failed"} \cup (FailingIDs(coverage.executed) \ DOMAIN e)
    BY <1>5, FailingAfter
  <2> QED BY <1>3, <1>4, <1>6, <2>1
<1>9. /\ DOMAIN coverage.executed = 1 .. cycle /\ DOMAIN cov.executed = 1 .. cycle + 1
      /\ Len(cov.executed) = cycle + 1 /\ cov.executed[cycle + 1] = e
      /\ \A i \in 1 .. cycle : cov.executed[i] = coverage.executed[i]
  <2>1. Append(coverage.executed, e) \in Seq(Pass)
    BY <1>5, AppendProperties
  <2>2. /\ Len(Append(coverage.executed, e)) = cycle + 1
        /\ Append(coverage.executed, e)[cycle + 1] = e
        /\ \A i \in 1 .. cycle : Append(coverage.executed, e)[i] = coverage.executed[i]
    BY <1>3, <1>5, AppendProperties
  <2> HIDE DEF cov, e
  <2> QED BY <1>3, <1>4, <1>5, <2>1, <2>2, LenProperties
<1>10. \A id \in DOMAIN e : e[id] \in {"passed", "failed"} BY <1>3, PassSays
<1>11. AllPassed(slow) => \A id \in DOMAIN e : e[id] = "passed" BY <1>3, PassSays
<1>12. OneTree /\ ~AllPassed(slow) => ids # {} BY <1>3, <1>8, PassSays
<1>13. Covered(settled) /\ settled.executed = cov.executed
  BY <1>3, <1>4, SettleSays
<1>14. /\ Covered(ifPassed) /\ ifPassed.refs = settled.refs /\ repaired \in Pass
       /\ ifPassed.executed = Append(cov.executed, repaired)
  <2>1. failing \in SUBSET IDs BY <1>6
  <2> HIDE DEF settled
  <2> QED BY <1>13, <2>1, RepairedSays
<1>15. Covered(ifFailed) /\ ifFailed.executed = cov.executed /\ ifFailed.reason = {}
  BY <1>3, <1>4, SettleSays
\* The references that either way leaves.
<1>16. ASSUME NEW still, NEW r \in SettleCycle(cov, cycle, still).refs
       PROVE  /\ r.result # "pending"
              /\ \/ r \in coverage.refs
                 \/ /\ r.cycle = cycle /\ (failing # {} => r.check \in failing)
                    /\ r.result = IF r.check \in still THEN "failed" ELSE "repaired"
  <2>1. \/ r \in cov.refs /\ ~(r.cycle = cycle /\ r.result = "pending")
        \/ \E old \in cov.refs :
             /\ old.cycle = cycle /\ old.result = "pending"
             /\ r = RepairRef(old.check, cycle,
                              IF old.check \in still THEN "failed" ELSE "repaired")
    <3> HIDE DEF cov
    <3> QED BY <1>3, <1>4, <1>16, SettleSays
  <2>2. CASE r \in cov.refs /\ ~(r.cycle = cycle /\ r.result = "pending")
    BY <1>3, <1>4, <2>2
  <2>3. ASSUME NEW old \in cov.refs, old.cycle = cycle, old.result = "pending",
               r = RepairRef(old.check, cycle,
                             IF old.check \in still THEN "failed" ELSE "repaired")
        PROVE  /\ r.result # "pending"
               /\ r.cycle = cycle /\ (failing # {} => r.check \in failing)
               /\ r.result = IF r.check \in still THEN "failed" ELSE "repaired"
    BY <1>3, <1>4, <2>3 DEF RepairRef
  <2> QED BY <2>1, <2>2, <2>3
<1>17. AllPassed(slow) =>
         /\ IDs \subseteq Executed(ifPassed.executed)
         /\ FailingIDs(ifPassed.executed) = {}
         /\ \A r \in ifPassed.refs : r.result # "pending"
         /\ OneTree => Told(ifPassed)
  <2> SUFFICES ASSUME AllPassed(slow)
               PROVE  /\ IDs \subseteq Executed(ifPassed.executed)
                      /\ FailingIDs(ifPassed.executed) = {}
                      /\ \A r \in ifPassed.refs : r.result # "pending"
                      /\ OneTree => Told(ifPassed)
    OBVIOUS
  <2>1. cov.executed \in Seq(Pass) BY <1>4 DEF Covered
  <2>2. Executed(Append(cov.executed, repaired)) = Executed(cov.executed) \cup DOMAIN repaired
    <3> HIDE DEF cov, repaired
    <3> QED BY <1>14, <2>1, LatestAfter
  <2>3. FailingIDs(Append(cov.executed, repaired))
          = {id \in DOMAIN repaired : repaired[id] = "failed"} \cup (ids \ DOMAIN repaired)
    <3> HIDE DEF cov, repaired
    <3> QED BY <1>14, <2>1, FailingAfter
  <2>4. ids = {} BY <1>8, <1>11
  <2>5. {id \in DOMAIN repaired : repaired[id] = "failed"} = {} OBVIOUS
  <2>6. \A r \in ifPassed.refs : r.result # "pending" BY <1>14, <1>16
  <2>7. ASSUME OneTree PROVE Told(ifPassed)
    <3>1. /\ DOMAIN ifPassed.executed = 1 .. cycle + 2
          /\ \A i \in 1 .. cycle + 1 : ifPassed.executed[i] = cov.executed[i]
      <4> HIDE DEF cov, repaired, ifPassed
      <4> QED BY <1>3, <1>9, <1>14, <2>1
    <3>2. ASSUME NEW r \in ifPassed.refs, r \notin coverage.refs
          PROVE  /\ r.cycle + 1 \in DOMAIN ifPassed.executed
                 /\ r.check \in DOMAIN ifPassed.executed[r.cycle + 1]
                 /\ ifPassed.executed[r.cycle + 1][r.check]
                      = IF r.result = "repaired" THEN "passed" ELSE "failed"
      <4>1. r.cycle = cycle /\ r.check \in failing /\ r.result = "repaired"
        BY <1>3, <1>14, <1>16, <2>7, <3>2
      <4>2. ifPassed.executed[cycle + 1] = e BY <1>3, <1>9, <3>1
      <4> HIDE DEF ifPassed, e
      <4> QED BY <1>3, <1>6, <1>11, <3>1, <4>1, <4>2
    <3>3. \A i \in DOMAIN coverage.executed : ifPassed.executed[i] = coverage.executed[i]
      <4> HIDE DEF ifPassed, cov
      <4> QED BY <1>3, <1>9, <3>1
    <3>4. DOMAIN coverage.executed \subseteq DOMAIN ifPassed.executed
      <4> HIDE DEF ifPassed, cov
      <4> QED BY <1>3, <1>9, <3>1
    <3> HIDE DEF ifPassed
    <3> QED BY <1>3, <2>7, <3>2, <3>3, <3>4, ToldAfter
  <2> HIDE DEF cov, repaired, ifPassed, ids
  <2> QED BY <1>7, <1>14, <2>2, <2>3, <2>4, <2>5, <2>6, <2>7
<1>18. ~AllPassed(slow) =>
         /\ Len(ifFailed.executed) = cycle + 1 /\ Executed(ifFailed.executed) = IDs
         /\ ifFailed.reason = {}
         /\ \A r \in ifFailed.refs : r.result # "pending"
         /\ OneTree => Told(ifFailed) /\ FailingIDs(ifFailed.executed) # {}
  <2> SUFFICES ASSUME ~AllPassed(slow)
               PROVE  OneTree => Told(ifFailed) /\ FailingIDs(ifFailed.executed) # {}
    BY <1>7, <1>9, <1>15, <1>16
  <2>1. ASSUME OneTree PROVE Told(ifFailed)
    <3>1. ASSUME NEW r \in ifFailed.refs, r \notin coverage.refs
          PROVE  /\ r.cycle + 1 \in DOMAIN ifFailed.executed
                 /\ r.check \in DOMAIN ifFailed.executed[r.cycle + 1]
                 /\ ifFailed.executed[r.cycle + 1][r.check]
                      = IF r.result = "repaired" THEN "passed" ELSE "failed"
      <4>1. /\ r.cycle = cycle /\ r.check \in failing
            /\ r.result = IF r.check \in ids THEN "failed" ELSE "repaired"
        BY <1>3, <1>16, <2>1, <3>1
      <4>2. r.check \in DOMAIN e /\ e[r.check] = IF r.check \in ids THEN "failed" ELSE "passed"
        BY <1>6, <1>8, <1>10, <4>1
      <4> HIDE DEF ifFailed, cov, e, ids
      <4> QED BY <1>3, <1>9, <1>15, <4>1, <4>2
    <3>2. /\ DOMAIN coverage.executed \subseteq DOMAIN ifFailed.executed
          /\ \A i \in DOMAIN coverage.executed : ifFailed.executed[i] = coverage.executed[i]
      <4> HIDE DEF ifFailed, cov
      <4> QED BY <1>3, <1>9, <1>15
    <3> HIDE DEF ifFailed
    <3> QED BY <1>3, <2>1, <3>1, <3>2, ToldAfter
  <2> QED BY <1>12, <1>15, <2>1
<1>19. /\ (Shape /\ Round /\ Telling /\ Caused /\ GatePassed)'
       /\ pc' \in {"saving", "repair"} /\ outcome' \in {"none", "passed", "failed"}
       /\ pc' = "repair" => cycle < MaxWaveRepairCycles
  <2>1. Decide(slow, ifPassed, ifFailed) /\ failing' = FailingIDs(ifFailed.executed)
    BY <1>1, <1>15
  <2> HIDE DEF ifPassed, ifFailed
  <2> QED BY <1>2, <1>14, <1>15, <1>17, <1>18, <2>1, DecideStep
<1>20. (TypeOK /\ Budget)' BY <1>1, <1>2, <1>19, PassCounts
<1> QED BY <1>19, <1>20 DEF IInv

LEMMA StartStep ==
  ASSUME IInv, Start
  PROVE  IInv'
<1>1. /\ pc = "idle" /\ outcome = "none" /\ starts < MaxStarts /\ starts' = starts + 1
      /\ tree' \in {tree, merged} /\ cycle' = 0 /\ failing' = {}
      /\ UNCHANGED << wave, saved, workers, mishaps >>
  BY DEF Start
<1>2. /\ Jobs' = Jobs /\ Pass' = Pass /\ UNCHANGED << changed, tools, derived, merged >>
      /\ DerivedJobs(changed, tools)' = DerivedJobs(changed, tools)
  BY <1>1, SameChecks
<1>3. Budget'
  <2>1. MaxWaveRepairCycles * (starts + 1) = MaxWaveRepairCycles * starts + MaxWaveRepairCycles
    BY WaveChecksAssumption DEF WaveChecksAssumption, IInv, Budget
  <2>2. starts' \in 0 .. MaxStarts
    BY <1>1, WaveChecksAssumption DEF WaveChecksAssumption, IInv, Budget
  <2>3. pc' # "idle" /\ pc' # "repair" BY DEF Start
  <2>4. MaxWaveRepairCycles * starts \in Nat
    BY WaveChecksAssumption DEF WaveChecksAssumption, IInv, Budget
  <2>5. workers + MaxWaveRepairCycles <= MaxWaveRepairCycles * starts'
    BY <1>1, <2>1, <2>4, WaveChecksAssumption DEF WaveChecksAssumption, IInv, Budget
  <2> QED BY <1>1, <2>2, <2>3, <2>5, WaveChecksAssumption
        DEF WaveChecksAssumption, IInv, Budget
<1>4. CASE Jobs = {}
  <2>1. pc' = "over" /\ outcome' = "passed" /\ coverage' = None BY <1>4 DEF Start
  <2>2. tree' = {} BY <1>1, <1>4 DEF IInv, TypeOK
  <2>3. ToSet(Gate) = {} BY <1>4 DEF Jobs
  <2>4. GatePassed' BY <1>2, <1>4, <2>2 DEF GatePassed
  <2>5. TypeOK'
    BY <1>1, <1>2, <1>3, <2>1, WaveChecksAssumption
       DEF WaveChecksAssumption, IInv, TypeOK, PC, Budget
  <2> QED BY <1>2, <1>3, <1>4, <2>1, <2>4, <2>5
        DEF IInv, Shape, Round, Telling, Caused, FailureHasCause
<1>5. CASE Jobs # {}
  <2>1. pc' = "first" /\ outcome' = "none" /\ coverage' = NewCoverage
    BY <1>1, <1>5 DEF Start
  <2>2. /\ Covered(coverage') /\ Told(coverage')
        /\ coverage'.executed = << >> /\ coverage'.refs = {} /\ coverage'.reason = {}
    BY <2>1 DEF NewCoverage, Covered, Told
  <2>3. Covered(coverage)' BY <1>2, <2>2 DEF Covered
  <2>4. TypeOK'
    BY <1>1, <1>2, <1>3, <2>1, WaveChecksAssumption
       DEF WaveChecksAssumption, IInv, TypeOK, PC, Budget
  <2> QED BY <1>1, <1>2, <1>3, <1>5, <2>1, <2>2, <2>3, <2>4
        DEF IInv, Shape, Round, Telling, Caused, FailureHasCause, GatePassed
<1> QED BY <1>4, <1>5

LEMMA DispatchStep ==
  ASSUME IInv, Dispatch
  PROVE  IInv'
<1>1. /\ pc = "repair" /\ pc' = "worker" /\ cycle' = cycle + 1 /\ workers' = workers + 1
      /\ coverage' = AppendRepairCycle(coverage, failing, cycle + 1)
      /\ UNCHANGED << wave, tree, saved, failing, outcome, starts, mishaps >>
  BY DEF Dispatch, bounds
<1>2. /\ Jobs' = Jobs /\ IDs' = IDs /\ Pass' = Pass
      /\ DerivedJobs(changed, tools)' = DerivedJobs(changed, tools)
      /\ UNCHANGED << changed, tools, derived, merged >>
  BY <1>1, SameChecks
<1>3. /\ Jobs # {} /\ Covered(coverage) /\ cycle \in Nat /\ cycle < MaxWaveRepairCycles
      /\ outcome = "none"
      /\ Len(coverage.executed) = cycle + 1 /\ Executed(coverage.executed) = IDs
      /\ failing = FailingIDs(coverage.executed) /\ coverage.reason = {}
      /\ \A r \in coverage.refs : r.result # "pending"
      /\ OneTree => failing # {} /\ Told(coverage)
  BY <1>1 DEF IInv, Shape, Round, Telling, Budget
<1>4. /\ Covered(coverage') /\ coverage'.executed = coverage.executed
      /\ coverage'.reason = coverage.reason
      /\ \A r \in coverage'.refs \ coverage.refs :
           r.result = "pending" /\ r.cycle = cycle + 1 /\ (failing # {} => r.check \in failing)
  BY <1>1, <1>3, DispatchSays
<1>5. Covered(coverage)' BY <1>2, <1>4 DEF Covered
<1>6. OneTree => Told(coverage') BY <1>3, <1>4 DEF Told
<1>7. Round'
  <2>1. ASSUME NEW r \in coverage'.refs, r.result = "pending"
        PROVE  r.cycle = cycle' /\ (failing # {} => r.check \in failing)
    BY <1>1, <1>3, <1>4, <2>1
  <2> QED BY <1>1, <1>2, <1>3, <1>4, <2>1 DEF Round
<1>8. Budget'
  BY <1>1, <1>3, WaveChecksAssumption DEF WaveChecksAssumption, IInv, Budget
<1>9. TypeOK'
  BY <1>1, <1>2, <1>8, WaveChecksAssumption
     DEF WaveChecksAssumption, IInv, TypeOK, PC, Budget
<1>10. (Shape /\ Telling /\ Caused /\ GatePassed)'
  BY <1>1, <1>2, <1>3, <1>5, <1>6
     DEF IInv, Shape, Telling, Caused, FailureHasCause, GatePassed
<1> QED BY <1>7, <1>8, <1>9, <1>10 DEF IInv

LEMMA WorkerDoneStep ==
  ASSUME IInv, WorkerDone
  PROVE  IInv'
<1>1. /\ pc = "worker" /\ pc' = "again" /\ tree' \in SUBSET Jobs
      /\ UNCHANGED << wave, saved, coverage, failing, cycle, outcome, workers, starts, mishaps >>
  BY DEF WorkerDone, memory, bounds
<1>2. /\ Jobs' = Jobs /\ IDs' = IDs /\ Pass' = Pass
      /\ DerivedJobs(changed, tools)' = DerivedJobs(changed, tools)
      /\ UNCHANGED << changed, tools, derived, merged >>
  BY <1>1, SameChecks
<1>3. Covered(coverage) => Covered(coverage)' BY <1>1, <1>2 DEF Covered
<1>4. TypeOK' BY <1>1, <1>2 DEF IInv, TypeOK, PC
<1>5. Budget' BY <1>1 DEF IInv, Budget
<1>6. Round' BY <1>1, <1>2 DEF IInv, Round
<1>7. (Shape /\ Telling /\ Caused /\ GatePassed)'
  BY <1>1, <1>2, <1>3
     DEF IInv, Shape, Telling, Told, Caused, FailureHasCause, GatePassed
<1> QED BY <1>4, <1>5, <1>6, <1>7 DEF IInv

LEMMA WorkerFailsStep ==
  ASSUME IInv, WorkerFails
  PROVE  IInv'
<1>1. /\ pc = "worker" /\ pc' = "saving" /\ outcome' = "failed" /\ tree' \in SUBSET Jobs
      /\ mishaps < MaxMishaps /\ mishaps' = mishaps + 1
      /\ coverage' = MarkFailed(coverage, failing)
      /\ UNCHANGED << wave, saved, failing, cycle, workers, starts >>
  BY DEF WorkerFails, Conclude
<1>2. /\ Jobs' = Jobs /\ IDs' = IDs /\ Pass' = Pass
      /\ DerivedJobs(changed, tools)' = DerivedJobs(changed, tools)
      /\ UNCHANGED << changed, tools, derived, merged >>
  BY <1>1, SameChecks
<1>3. /\ Jobs # {} /\ Covered(coverage) /\ coverage.reason = {}
      /\ failing = FailingIDs(coverage.executed)
      /\ OneTree => failing # {} /\ Told(coverage)
  BY <1>1 DEF IInv, Shape, Round, Telling
<1>4. /\ Covered(coverage') /\ Alike(coverage', coverage) /\ coverage'.reason = failing
  BY <1>1, <1>3, VerdictSays
<1>5. Covered(coverage)' BY <1>2, <1>4 DEF Covered
<1>6. OneTree => Told(coverage') BY <1>3, <1>4 DEF Told, Alike
<1>7. Caused' BY <1>1, <1>3, <1>4 DEF Caused, FailureHasCause, Alike
<1>8. mishaps' \in 0 .. MaxMishaps
  BY <1>1, WaveChecksAssumption DEF WaveChecksAssumption, IInv, Budget
<1>9. (TypeOK /\ Budget)' BY <1>1, <1>2, <1>8 DEF IInv, TypeOK, PC, Budget
<1>10. (Shape /\ Round /\ Telling /\ GatePassed)'
  BY <1>1, <1>2, <1>3, <1>5, <1>6 DEF IInv, Shape, Round, Telling, GatePassed
<1> QED BY <1>7, <1>9, <1>10 DEF IInv

LEMMA CannotRunStep ==
  ASSUME IInv, CannotRun
  PROVE  IInv'
<1>1. /\ pc \in {"first", "again"} /\ pc' = "over" /\ outcome' = "error"
      /\ mishaps < MaxMishaps /\ mishaps' = mishaps + 1
      /\ UNCHANGED << wave, tree, saved, coverage, failing, cycle, workers, starts >>
  BY DEF CannotRun, memory
<1>2. /\ Jobs' = Jobs /\ IDs' = IDs /\ Pass' = Pass
      /\ DerivedJobs(changed, tools)' = DerivedJobs(changed, tools)
      /\ UNCHANGED << changed, tools, derived, merged >>
  BY <1>1, SameChecks
<1>3. Covered(coverage) => Covered(coverage)' BY <1>1, <1>2 DEF Covered
<1>4. mishaps' \in 0 .. MaxMishaps
  BY <1>1, WaveChecksAssumption DEF WaveChecksAssumption, IInv, Budget
<1>5. (TypeOK /\ Budget)' BY <1>1, <1>2, <1>4 DEF IInv, TypeOK, PC, Budget
<1>6. (Shape /\ Round /\ Telling /\ Caused /\ GatePassed)'
  BY <1>1, <1>2, <1>3
     DEF IInv, Shape, Round, Telling, Told, Caused, FailureHasCause, GatePassed
<1> QED BY <1>5, <1>6 DEF IInv

LEMMA SaveStep ==
  ASSUME IInv, Save
  PROVE  IInv'
<1>1. /\ pc = "saving" /\ pc' = "over" /\ saved' = coverage
      /\ UNCHANGED << wave, tree, coverage, failing, cycle, outcome, workers, starts, mishaps >>
  BY DEF Save, memory, bounds
<1>2. /\ Jobs' = Jobs /\ IDs' = IDs /\ Pass' = Pass
      /\ DerivedJobs(changed, tools)' = DerivedJobs(changed, tools)
      /\ UNCHANGED << changed, tools, derived, merged >>
  BY <1>1, SameChecks
<1>3. Covered(coverage) /\ Covered(coverage)'
  BY <1>1, <1>2 DEF IInv, Shape, Covered
<1>4. TypeOK' BY <1>1, <1>2, <1>3 DEF IInv, TypeOK, PC, Covered
<1>5. Budget' BY <1>1 DEF IInv, Budget
<1>6. GatePassed' BY <1>1, <1>2 DEF IInv, GatePassed
<1>7. (Shape /\ Round /\ Telling /\ Caused)'
  BY <1>1, <1>2, <1>3 DEF IInv, Shape, Round, Telling, Told, Caused, FailureHasCause
<1> QED BY <1>4, <1>5, <1>6, <1>7 DEF IInv

\* A process that is gone leaves nothing that is promised of one.
LEMMA GoneStep ==
  ASSUME IInv, Gone, mishaps < MaxMishaps, mishaps' = mishaps + 1,
         pc # "idle", UNCHANGED << wave, tree, saved, workers, starts >>
  PROVE  IInv'
<1>1. Jobs' = Jobs /\ derived' = DerivedJobs(changed, tools)'
  BY SameChecks DEF IInv, Shape
<1>2. mishaps' \in 0 .. MaxMishaps
  BY WaveChecksAssumption DEF WaveChecksAssumption, IInv, Budget
<1>3. Budget'
  <2>1. workers <= MaxWaveRepairCycles * starts
    <3>1. MaxWaveRepairCycles * starts \in Int /\ MaxWaveRepairCycles - cycle \in Nat
      BY WaveChecksAssumption DEF WaveChecksAssumption, IInv, Budget
    <3> QED BY <3>1 DEF IInv, Budget
  <2> QED BY <1>2, <2>1, WaveChecksAssumption DEF WaveChecksAssumption, IInv, Budget, Gone
<1>4. TypeOK'
  BY <1>1, <1>2, WaveChecksAssumption DEF WaveChecksAssumption, IInv, TypeOK, PC, Gone, wave
<1>5. (Shape /\ Round /\ Telling /\ Caused /\ GatePassed)'
  BY <1>1 DEF Gone, Shape, Round, Telling, Caused, FailureHasCause, GatePassed
<1> QED BY <1>3, <1>4, <1>5 DEF IInv

\* Nothing but the place of a verification that has ended, and the bounds.
LEMMA Ended ==
  ASSUME IInv, pc = "saving", pc' = "over", mishaps' \in 0 .. MaxMishaps,
         UNCHANGED << wave, tree, saved, memory, outcome, workers, starts >>
  PROVE  IInv'
<1>1. UNCHANGED << coverage, failing, cycle >> BY DEF memory
<1>2. /\ Jobs' = Jobs /\ IDs' = IDs /\ Pass' = Pass
      /\ DerivedJobs(changed, tools)' = DerivedJobs(changed, tools)
      /\ UNCHANGED << changed, tools, derived, merged >>
  BY SameChecks
<1>3. Covered(coverage) => Covered(coverage)' BY <1>1, <1>2 DEF Covered
<1>4. (TypeOK /\ Budget)' BY <1>1, <1>2 DEF IInv, TypeOK, PC, Budget
<1>5. GatePassed' BY <1>1, <1>2 DEF IInv, GatePassed
<1>6. (Shape /\ Round /\ Telling /\ Caused)'
  BY <1>1, <1>2, <1>3 DEF IInv, Shape, Round, Telling, Told, Caused, FailureHasCause
<1> QED BY <1>4, <1>5, <1>6 DEF IInv

LEMMA SaveFailsStep ==
  ASSUME IInv, SaveFails
  PROVE  IInv'
<1>1. /\ pc = "saving" /\ mishaps < MaxMishaps /\ mishaps' = mishaps + 1
      /\ UNCHANGED << wave, tree, saved, workers, starts >>
  BY DEF SaveFails
<1>2. mishaps' \in 0 .. MaxMishaps
  BY <1>1, WaveChecksAssumption DEF WaveChecksAssumption, IInv, Budget
<1>3. CASE outcome = "passed" BY <1>1, <1>3, GoneStep DEF SaveFails
<1>4. CASE outcome # "passed" BY <1>1, <1>2, <1>4, Ended DEF SaveFails
<1> QED BY <1>3, <1>4

LEMMA CrashStep ==
  ASSUME IInv, Crash
  PROVE  IInv'
BY GoneStep DEF Crash

LEMMA StutterStep ==
  ASSUME IInv, UNCHANGED vars
  PROVE  IInv'
<1>1. UNCHANGED << wave, tree, coverage, failing, cycle, saved, pc, outcome, workers,
                   starts, mishaps >>
  BY DEF vars, memory, bounds
<1>2. /\ Jobs' = Jobs /\ IDs' = IDs /\ Pass' = Pass
      /\ DerivedJobs(changed, tools)' = DerivedJobs(changed, tools)
      /\ UNCHANGED << changed, tools, derived, merged >>
  BY <1>1, SameChecks
<1>3. Covered(coverage) => Covered(coverage)' BY <1>1, <1>2 DEF Covered
<1>4. (TypeOK /\ Budget)' BY <1>1, <1>2 DEF IInv, TypeOK, Budget
<1>5. GatePassed' BY <1>1, <1>2 DEF IInv, GatePassed
<1>6. (Shape /\ Round /\ Telling /\ Caused)'
  BY <1>1, <1>2, <1>3 DEF IInv, Shape, Round, Telling, Told, Caused, FailureHasCause
<1> QED BY <1>4, <1>5, <1>6 DEF IInv

\* The invariant is inductive, for all waves, commands and budgets.
THEOREM Inductive == Spec => []IInv
<1>1. Init => IInv BY InitInvariant
<1>2. IInv /\ [Next]_vars => IInv'
  BY StartStep, FirstPassStep, DispatchStep, WorkerDoneStep, WorkerFailsStep, RunAgainStep,
     CannotRunStep, SaveStep, SaveFailsStep, CrashStep, StutterStep DEF Next
<1> QED BY <1>1, <1>2, PTL DEF Spec

-----------------------------------------------------------------------------
(* What a verification has recorded. *)

Kept(old, new) ==
    /\ IsPrefix(old.executed, new.executed)
    /\ \A r \in old.refs : r.result # "pending" => r \in new.refs

LEMMA PrefixIf ==
  ASSUME NEW X, NEW s \in Seq(X), NEW t \in Seq(X), Len(s) <= Len(t),
         \A i \in 1 .. Len(s) : t[i] = s[i]
  PROVE  IsPrefix(s, t)
<1>1. SubSeq(s, 1, Len(s)) = s BY SubSeqFull
<1>2. SubSeq(t, 1, Len(s)) = s
  <2>1. Len(s) \in Nat /\ Len(t) \in Nat BY LenProperties
  <2>2. \A i \in 1 .. Len(s) : t[i] \in X BY <2>1
  <2>3. /\ SubSeq(t, 1, Len(s)) \in Seq(X) /\ Len(SubSeq(t, 1, Len(s))) = Len(s)
        /\ \A i \in 1 .. Len(s) : SubSeq(t, 1, Len(s))[i] = t[i]
    BY <2>1
  <2> QED BY <2>3, SeqEqual
<1> QED BY <1>1, <1>2 DEF IsPrefix

LEMMA AppendKeeps ==
  ASSUME NEW X, NEW s \in Seq(X), NEW e \in X, NEW f \in X
  PROVE  /\ IsPrefix(s, s) /\ IsPrefix(s, Append(s, e))
         /\ IsPrefix(s, Append(Append(s, e), f))
<1>1. Len(s) \in Nat BY LenProperties
<1>2. IsPrefix(s, s) BY <1>1, PrefixIf
<1>3. /\ Append(s, e) \in Seq(X) /\ Len(Append(s, e)) = Len(s) + 1
      /\ \A i \in 1 .. Len(s) : Append(s, e)[i] = s[i]
  BY <1>1, AppendProperties
<1> DEFINE t == Append(s, e)
<1> HIDE DEF t
<1>4. IsPrefix(s, t)
  <2>1. t \in Seq(X) /\ Len(s) <= Len(t) /\ \A i \in 1 .. Len(s) : t[i] = s[i]
    BY <1>1, <1>3 DEF t
  <2> QED BY <2>1, PrefixIf
<1>5. /\ Append(t, f) \in Seq(X) /\ Len(Append(t, f)) = Len(t) + 1
      /\ \A i \in 1 .. Len(t) : Append(t, f)[i] = t[i]
  BY <1>3, AppendProperties DEF t
<1> DEFINE u == Append(t, f)
<1> HIDE DEF u
<1>6. IsPrefix(s, u)
  <2>1. u \in Seq(X) /\ Len(s) <= Len(u) /\ \A i \in 1 .. Len(s) : u[i] = s[i]
    <3>1. Len(t) = Len(s) + 1 /\ \A i \in 1 .. Len(s) : t[i] = s[i] BY <1>3 DEF t
    <3> QED BY <1>1, <1>5, <3>1 DEF u
  <2> QED BY <2>1, PrefixIf
<1> QED BY <1>2, <1>4, <1>6 DEF t, u

LEMMA SettleKeeps ==
  ASSUME NEW cov, Covered(cov), NEW n, NEW still, NEW r \in cov.refs, r.result # "pending"
  PROVE  r \in SettleCycle(cov, n, still).refs
BY DEF SettleCycle, Covered

\* A pass leaves the record of one of its two verdicts.
LEMMA DecideLeaves ==
  ASSUME NEW slow, NEW ifPassed, NEW ifFailed, Covered(ifPassed), Covered(ifFailed),
         Decide(slow, ifPassed, ifFailed)
  PROVE  Alike(coverage', ifPassed) \/ Alike(coverage', ifFailed)
<1>1. \/ coverage' = MarkPassed(ifPassed) \/ coverage' = ifFailed
      \/ coverage' = Unrepaired(ifFailed, FailingIDs(ifFailed.executed))
  BY DEF Decide, Conclude
<1> QED BY <1>1, VerdictSays DEF Alike

LEMMA PassKeeps ==
  ASSUME IInv, FirstPass \/ RunAgain
  PROVE  Kept(coverage, coverage')
<1>1. pc \in {"first", "again"} BY DEF FirstPass, RunAgain
<1>2. derived = DerivedJobs(changed, tools) /\ Covered(coverage)
  BY <1>1 DEF IInv, Shape
<1>3. coverage.executed \in Seq(Pass) BY <1>2 DEF Covered
<1>4. CASE FirstPass
  <2>1. PICK slow : Decide(slow, Record(coverage, slow), Record(coverage, slow))
    BY <1>4 DEF FirstPass
  <2> DEFINE cov == Record(coverage, slow)
  <2>2. /\ Covered(cov) /\ cov.refs = coverage.refs
        /\ cov.executed = Append(coverage.executed, ExecuteWaveChecks(slow))
    BY <1>2, RecordSays
  <2>3. Alike(coverage', cov) BY <2>1, <2>2, DecideLeaves
  <2>4. IsPrefix(coverage.executed, cov.executed)
    <3>1. ExecuteWaveChecks(slow) \in Pass BY <1>2, PassSays
    <3> HIDE DEF cov
    <3> QED BY <1>3, <2>2, <3>1, AppendKeeps
  <2> QED BY <2>2, <2>3, <2>4 DEF Alike, Kept
<1>5. CASE RunAgain
  <2>1. PICK slow :
          Decide(slow,
                 MarkRepaired(SettleCycle(Record(coverage, slow), cycle, {}), failing),
                 SettleCycle(Record(coverage, slow), cycle,
                             FailingIDs(Record(coverage, slow).executed)))
    BY <1>5 DEF RunAgain
  <2> DEFINE cov == Record(coverage, slow)
             e == ExecuteWaveChecks(slow)
             settled == SettleCycle(cov, cycle, {})
             ifPassed == MarkRepaired(settled, failing)
             ifFailed == SettleCycle(cov, cycle, FailingIDs(cov.executed))
             repaired == [id \in failing |-> "repaired"]
  <2>2. /\ Covered(cov) /\ cov.refs = coverage.refs
        /\ cov.executed = Append(coverage.executed, e)
    BY <1>2, RecordSays
  <2>3. cycle \in Nat /\ failing \in SUBSET IDs
    BY <1>5, WaveChecksAssumption
       DEF WaveChecksAssumption, RunAgain, IInv, Round, Budget, FailingIDs
  <2>4. Covered(settled) /\ settled.executed = cov.executed
    <3> HIDE DEF cov
    <3> QED BY <2>2, <2>3, SettleSays
  <2>5. Covered(ifFailed) /\ ifFailed.executed = cov.executed
    <3> HIDE DEF cov
    <3> QED BY <2>2, <2>3, SettleSays
  <2>6. /\ Covered(ifPassed) /\ ifPassed.refs = settled.refs /\ repaired \in Pass
        /\ ifPassed.executed = Append(settled.executed, repaired)
    <3> HIDE DEF settled
    <3> QED BY <2>3, <2>4, RepairedSays
  <2>7. \A r \in coverage.refs :
          r.result # "pending" => r \in settled.refs /\ r \in ifFailed.refs
    BY <2>2, SettleKeeps
  <2>8. e \in Pass BY <1>2, PassSays
  <2>9. /\ IsPrefix(coverage.executed, ifFailed.executed)
        /\ IsPrefix(coverage.executed, ifPassed.executed)
    <3> HIDE DEF cov, e, settled, ifPassed, ifFailed, repaired
    <3> QED BY <1>3, <2>2, <2>4, <2>5, <2>6, <2>8, AppendKeeps
  <2>10. Kept(coverage, ifPassed) /\ Kept(coverage, ifFailed)
    BY <2>6, <2>7, <2>9 DEF Kept
  <2>11. Alike(coverage', ifPassed) \/ Alike(coverage', ifFailed)
    <3> HIDE DEF ifPassed, ifFailed
    <3> QED BY <2>1, <2>5, <2>6, DecideLeaves DEF ifPassed, ifFailed
  <2> HIDE DEF ifPassed, ifFailed
  <2> QED BY <2>10, <2>11 DEF Alike, Kept
<1> QED BY <1>4, <1>5

LEMMA StepKeeps ==
  ASSUME IInv, Next, coverage # None, coverage' # None
  PROVE  Kept(coverage, coverage')
<1>1. Covered(coverage) BY DEF IInv, Shape
<1>2. coverage.executed \in Seq(Pass) BY <1>1 DEF Covered
<1>3. IsPrefix(coverage.executed, coverage.executed)
  <2>1. Len(coverage.executed) \in Nat BY <1>2, LenProperties
  <2> QED BY <1>2, <2>1, PrefixIf
<1>4. CASE coverage' = coverage BY <1>3, <1>4 DEF Kept
<1>5. CASE Dispatch
  <2>1. coverage' = AppendRepairCycle(coverage, failing, cycle + 1) BY <1>5 DEF Dispatch
  <2>2. cycle + 1 \in Nat
    BY WaveChecksAssumption DEF WaveChecksAssumption, IInv, Budget
  <2> QED BY <1>1, <1>3, <2>1, <2>2, DispatchSays DEF Kept
<1>6. CASE WorkerFails
  <2>1. coverage' = MarkFailed(coverage, failing) BY <1>6 DEF WorkerFails, Conclude
  <2> QED BY <1>1, <1>3, <2>1, VerdictSays DEF Kept, Alike
<1>7. CASE FirstPass \/ RunAgain BY <1>7, PassKeeps
<1>8. ~Start BY DEF Start, IInv, Shape
<1>9. ASSUME WorkerDone \/ CannotRun \/ Save \/ SaveFails \/ Crash PROVE coverage' = coverage
  BY <1>9 DEF WorkerDone, CannotRun, Save, SaveFails, Crash, Gone, memory
<1> QED BY <1>4, <1>5, <1>6, <1>7, <1>8, <1>9 DEF Next

-----------------------------------------------------------------------------
(* The theorems. *)

\* Types, and no more repair workers than cycles for each verification.
THEOREM TypeCorrect == Spec => []TypeOK
<1>1. IInv => TypeOK BY DEF IInv
<1> QED BY <1>1, Inductive, PTL

\* A wave passes on a tree in which every gate command succeeds, and no check's last
\* execution is a failure, however often it was repaired and whatever the commands
\* (runWaveVerificationLoop).
THEOREM GatePassedHolds == Spec => []GatePassed
<1>1. IInv => GatePassed BY DEF IInv
<1> QED BY <1>1, Inductive, PTL

\* A wave's failure and its repairs have causes that are named, if there are gate
\* commands and they are run in one directory; without them it has none
\* (failingExecutionIDs, markWaveCoverageFailed).
THEOREM FailureHasCauseHolds == OneTree => (Spec => []FailureHasCause)
<1> SUFFICES ASSUME OneTree PROVE Spec => []FailureHasCause OBVIOUS
<1>1. IInv => FailureHasCause BY DEF IInv, Caused
<1> QED BY <1>1, Inductive, PTL

\* References of repair cycles tell the truth under the same condition
\* (markCycleCompleted, markCycleStillFailing).
THEOREM RefsTellTheTruthHolds == OneTree => (Spec => []RefsTellTheTruth)
<1> SUFFICES ASSUME OneTree PROVE Spec => []RefsTellTheTruth OBVIOUS
<1>1. IInv => RefsTellTheTruth
  BY DEF IInv, Shape, Telling, Told, RefsTellTheTruth
<1> QED BY <1>1, Inductive, PTL

\* Executions are only ever added, and the outcome of a repair is final
\* (ValidationCoverageArtifact).
THEOREM HistoryKeptHolds == Spec => HistoryKept
<1>1. IInv /\ [Next]_vars =>
        [coverage # None /\ coverage' # None => Kept(coverage, coverage')]_vars
  BY StepKeeps
<1>2. [][coverage # None /\ coverage' # None => Kept(coverage, coverage')]_vars <=> HistoryKept
  BY DEF Kept, HistoryKept
<1> QED BY <1>1, <1>2, Inductive, PTL DEF Spec
=============================================================================
