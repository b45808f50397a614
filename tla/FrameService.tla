---------------------------- MODULE FrameService ----------------------------
(***************************************************************************)
(* What the dedicated render thread promises to the thread that feeds it,  *)
(* with no channel, cache or report in sight: frames are admitted while    *)
(* the service is open, each admitted frame obtains at most one result,    *)
(* results appear in admission order, a result is handed over once, and    *)
(* an admission that was closed stays closed.                              *)
(***************************************************************************)
EXTENDS Naturals, FiniteSets

CONSTANTS FrameLimit   \* how many results may be owed or uncollected at once

VARIABLES
  admitted,    \* frames 1 .. admitted have been accepted, in this order
  produced,    \* the frames that have a result
  collected,   \* the frames whose result the caller has taken
  open,        \* new frames may still be accepted
  alive        \* results may still appear

serviceVars == <<admitted, produced, collected, open, alive>>

Init ==
  /\ admitted = 0
  /\ produced = {}
  /\ collected = {}
  /\ open = TRUE
  /\ alive = TRUE

Admit ==
  /\ open
  /\ Cardinality((1 .. admitted) \ collected) < FrameLimit
  /\ admitted' = admitted + 1
  /\ UNCHANGED <<produced, collected, open, alive>>

\* The oldest frame without a result obtains it.
Produce ==
  /\ alive
  /\ \E n \in 1 .. admitted :
       /\ produced = 1 .. n - 1
       /\ produced' = 1 .. n
  /\ UNCHANGED <<admitted, collected, open, alive>>

\* The call that takes a result may also be the one that finds the executor
\* gone and closes the admission.
Collect ==
  /\ \E n \in produced \ collected : collected' = collected \cup {n}
  /\ open' \in {FALSE, open}
  /\ UNCHANGED <<admitted, produced, alive>>

\* Admission and executor end independently and do not come back.
Close ==
  /\ open' \in {FALSE, open}
  /\ alive' \in {FALSE, alive}
  /\ UNCHANGED <<admitted, produced, collected>>

Next == Admit \/ Produce \/ Collect \/ Close

Spec == Init /\ [][Next]_serviceVars
=============================================================================
