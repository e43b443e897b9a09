------------------------- MODULE ValidationCoverage -------------------------
(***************************************************************************)
(* The record of what was checked, which tickets and waves keep             *)
(* (internal/state/validation_coverage.go): executions are only ever added, *)
(* and what holds of a check is what its last execution says.               *)
(*                                                                         *)
(* A pass runs a set of checks once: it is the result of each of them, and  *)
(* a history of executions is the sequence of its passes.                   *)
(***************************************************************************)
EXTENDS Naturals, Sequences, FiniteSetsExt

Result == {"passed", "failed", "repaired"}

\* The checks that have been run at all.
Executed(passes) == UNION {DOMAIN passes[i] : i \in DOMAIN passes}

LatestExecution(passes, id) ==
    passes[Max({i \in DOMAIN passes : id \in DOMAIN passes[i]})][id]

\* The checks whose last execution failed.
FailingIDs(passes) ==
    {id \in Executed(passes) : LatestExecution(passes, id) = "failed"}

\* A repair cycle is recorded once for each check that caused it.
RepairRef(id, cycle, result) == [check |-> id, cycle |-> cycle, result |-> result]

\* A command that ran out of time counts as one that failed.
ResultOf(failed) == IF failed THEN "failed" ELSE "passed"
=============================================================================
