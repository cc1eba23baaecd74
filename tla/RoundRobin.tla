----------------------------- MODULE RoundRobin -----------------------------
(***************************************************************************)
(* What the scheduler promises, without stacks, frames or interrupts:      *)
(* tasks are numbered in the order they were created, they are only        *)
(* created while switching is off, and once switching is on the processor  *)
(* goes round them one by one, for ever.                                   *)
(***************************************************************************)
EXTENDS Naturals

VARIABLES
  n,    \* number of tasks in the ring
  cur,  \* the task that has the processor, 0 before there is one
  on    \* timer ticks switch tasks

rrVars == <<n, cur, on>>

RRInit == n = 0 /\ cur = 0 /\ on = FALSE

Adopt  == n = 0 /\ n' = 1 /\ cur' = 1 /\ UNCHANGED on
Add    == n > 0 /\ ~on /\ n' = n + 1 /\ UNCHANGED <<cur, on>>
Enable == n > 0 /\ ~on /\ on' = TRUE /\ UNCHANGED <<n, cur>>
Turn   == on /\ cur' = (cur % n) + 1 /\ UNCHANGED <<n, on>>

RRNext == Adopt \/ Add \/ Enable \/ Turn

RRSpec     == RRInit /\ [][RRNext]_rrVars
FairRRSpec == RRSpec /\ WF_rrVars(Turn)
=============================================================================
