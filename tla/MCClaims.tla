------------------------------ MODULE MCClaims ------------------------------
(* Claims on small instances.                                               *)
EXTENDS Claims
=============================================================================
