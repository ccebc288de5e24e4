------------------------------- MODULE OnAir -------------------------------
(***************************************************************************)
(* What playback promises, without its timers, replicants and counters.    *)
(*                                                                         *)
(* A placement is off air, on air for one play, or on air because it is    *)
(* switched on.  The configuration decides about the switched-on ones and  *)
(* about nothing else: a play in progress ends by leaving, by being        *)
(* cleared, or by the placement being switched on (from then on the switch *)
(* owns it).  Playback implements this module.                             *)
(***************************************************************************)
CONSTANT Placements

VARIABLES phase,    \* what each placement is doing
          wanted    \* the placements the configuration keeps on air

vars == <<phase, wanted>>

Phases == {"off", "once", "held"}

TypeOK == /\ phase \in [Placements -> Phases]
          /\ wanted \subseteq Placements

Init == /\ wanted \in SUBSET Placements
        /\ phase = [p \in Placements |-> IF p \in wanted THEN "held" ELSE "off"]

\* A set of placements is played: a wanted one is kept, another plays once.
Cue(P) ==
  /\ phase' = [p \in Placements |->
                 CASE p \in P \cap wanted -> "held"
                   [] p \in P \ wanted    -> "once"
                   [] OTHER               -> phase[p]]
  /\ UNCHANGED wanted

\* A play ends by itself.
Leave(p) ==
  /\ phase[p] = "once"
  /\ phase' = [phase EXCEPT ![p] = "off"]
  /\ UNCHANGED wanted

\* A set of placements is taken off air; the configuration stays.
Clear(P) ==
  /\ phase' = [p \in Placements |-> IF p \in P THEN "off" ELSE phase[p]]
  /\ UNCHANGED wanted

\* The configuration changes, clearing the placements in P on the way: what
\* it wants is on air, what it no longer wants leaves, a play goes on.
Reconfigure(W, P) ==
  /\ wanted' = W
  /\ phase' = [p \in Placements |->
                 CASE p \in W                         -> "held"
                   [] p \notin W /\ p \in wanted \cup P -> "off"
                   [] OTHER                           -> phase[p]]

Next == \/ \E P \in SUBSET Placements : Cue(P) \/ Clear(P)
        \/ \E p \in Placements : Leave(p)
        \/ \E W, P \in SUBSET Placements : Reconfigure(W, P)

Spec == Init /\ [][Next]_vars
=============================================================================
