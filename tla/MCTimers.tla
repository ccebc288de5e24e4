------------------------------ MODULE MCTimers ------------------------------
(* A countdown that stops, one that goes on, a stopwatch with a limit and one *)
(* without.                                                                   *)
EXTENDS Timers

CONSTANTS match, segment

MCSettings ==
  {[mode |-> "down", durationMs |-> 2, overtime |-> FALSE],
   [mode |-> "down", durationMs |-> 2, overtime |-> TRUE],
   [mode |-> "up", durationMs |-> 3, overtime |-> FALSE],
   [mode |-> "up", durationMs |-> 0, overtime |-> FALSE]}

MCValues == {-2, 1}
MCJumps == {-2, 2}
MCIds == {match, segment}

=============================================================================
