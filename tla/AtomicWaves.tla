----------------------------- MODULE AtomicWaves ----------------------------
(***************************************************************************)
(* What wave integration promises: the tickets of an accepted wave reach    *)
(* the main tree together, in one step and once, or not at all, and one     *)
(* wave is settled before the next is accepted.                             *)
(***************************************************************************)
CONSTANT Ticket

VARIABLES
    closed,       \* tickets whose work is finished
    accepted,     \* the wave being integrated, or no ticket
    integrated    \* tickets whose work is in the main tree

vars == << closed, accepted, integrated >>

Init == closed = {} /\ accepted = {} /\ integrated = {}

Close(t) ==
    /\ t \notin closed
    /\ closed' = closed \cup {t}
    /\ UNCHANGED << accepted, integrated >>

Accept(wave) ==
    /\ accepted = {}
    /\ wave \subseteq closed \ integrated
    /\ accepted' = wave
    /\ UNCHANGED << closed, integrated >>

Integrate ==
    /\ integrated' = integrated \cup accepted
    /\ UNCHANGED << closed, accepted >>

Settle == accepted' = {} /\ UNCHANGED << closed, integrated >>

Next ==
    \/ \E t \in Ticket : Close(t)
    \/ \E wave \in SUBSET Ticket : Accept(wave)
    \/ Integrate
    \/ Settle

Spec == Init /\ [][Next]_vars
=============================================================================
