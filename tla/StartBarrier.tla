---------------------------- MODULE StartBarrier ----------------------------
(***************************************************************************)
(* What a start barrier promises, with no mechanism: each process first   *)
(* arrives, and a process may go past the barrier only when no process is *)
(* still to arrive.  A process that never arrives (it died) holds all the *)
(* others back for ever; the barrier never lets them through without it.  *)
(***************************************************************************)
CONSTANT Procs

VARIABLE phase      \* phase[p]: "outside", "arrived" or "passed"

Init == phase = [p \in Procs |-> "outside"]

Arrive(p) ==
    /\ phase[p] = "outside"
    /\ phase' = [phase EXCEPT ![p] = "arrived"]

\* Going through is allowed once every process has at least arrived.
GoThrough(p) ==
    /\ phase[p] = "arrived"
    /\ \A q \in Procs : phase[q] # "outside"
    /\ phase' = [phase EXCEPT ![p] = "passed"]

Next == \E p \in Procs : Arrive(p) \/ GoThrough(p)

Spec == Init /\ [][Next]_phase
=============================================================================
