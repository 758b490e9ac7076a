------------------------------ MODULE DockSearch -----------------------------
(***************************************************************************)
(* What the recharger promises: it searches the beacon, approaches it,     *)
(* docks, and once the dock feeds the robot it stays docked.  It gives up  *)
(* an approach or a docking only by searching again, never docks without   *)
(* an approach, and moves from phase to phase only while it is enabled.    *)
(***************************************************************************)
VARIABLES
  phase,      \* search, approach, dock or docked
  enabled     \* the recharger drives the robot

vars == <<phase, enabled>>

Init == phase = "search" /\ ~enabled

\* The console enables the recharger, which always starts with a search.
Start == phase' = "search" /\ enabled' = TRUE

Stop == enabled' = FALSE /\ phase' \in {phase, "search"}

Move(from, to) == enabled /\ phase \in from /\ phase' = to /\ UNCHANGED enabled

Next ==
  \/ Start
  \/ Stop
  \/ Move({"search"}, "approach")
  \/ Move({"approach"}, "dock")
  \/ Move({"dock"}, "docked")
  \/ Move({"approach", "dock"}, "search")

Spec == Init /\ [][Next]_vars
=============================================================================
