----------------------------- MODULE MCProgram ------------------------------
(* Program for TLC.  Placements sit on the outs of PlacedOuts only; at most  *)
(* MaxPlays plays are counted for each, and there are at most MaxShows shows *)
(* by hand.                                                                  *)
EXTENDS Program

CONSTANTS PlacedOuts, MaxPlays, MaxShows

MCProjects ==
  {[outs |-> Outs, templates |-> ts, items |-> [k \in Keys |-> NoItem]] : ts \in SUBSET Templates}

Bounded ==
  /\ \A k \in Keys : k[1] \notin PlacedOuts => items[k] = NoItem
  /\ \A k \in Keys : triggers[k] <= MaxPlays
  /\ shown <= MaxShows

MCInit == ProgramInit /\ Bounded
MCNext == ProgramNext /\ Bounded'
MCSpec == MCInit /\ [][MCNext]_programVars
MCFairSpec == MCSpec /\ ProgramFairness
=============================================================================
