----------------------------- MODULE MCEpicRun -----------------------------
(* EpicRun with small sets: the bound on commands keeps the run finite.      *)
EXTENDS EpicRun
=============================================================================
