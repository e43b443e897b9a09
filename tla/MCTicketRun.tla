---------------------------- MODULE MCTicketRun ----------------------------
(* TicketRun for TLC: the constants are given by the configurations.       *)
EXTENDS TicketRun
=============================================================================
