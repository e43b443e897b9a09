------------------------- MODULE MCWaveIntegration -------------------------
(* WaveIntegration for TLC: the constants are given by the configurations.  *)
EXTENDS WaveIntegration
=============================================================================
