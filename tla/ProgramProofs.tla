---------------------------- MODULE ProgramProofs ----------------------------
(***************************************************************************)
(* Proofs about the playback, for any outs, placements, templates and      *)
(* projects: of Playback, the scheduler and its store, and of Program, the *)
(* command handlers on top of it, whose steps are steps of Playback or     *)
(* leave it alone.                                                         *)
(*                                                                         *)
(* Playback.  IInv is inductive as it stands.  The steps fall into five    *)
(* kinds (StepKinds), so each proof treats a write of the configuration    *)
(* once and not once for each of the nine handlers that make one.          *)
(*                                                                         *)
(* Program.  What is proved of playback holds of the program; the title by *)
(* hand adds an invariant of its own, which is inductive next to           *)
(* Playback's types.                                                       *)
(***************************************************************************)
EXTENDS Program, TLAPS

IInv ==
  /\ TypeOK
  /\ HeldNeverTimesOut
  /\ HeldIsRemembered
  /\ RememberedOnAirHasEnd

\* A configuration: the placements are on outs that are there.
IsConfig(os, its, tpls) ==
  /\ os \subseteq Outs
  /\ its \in [Keys -> Item \cup {NoItem}]
  /\ \A k \in Keys : its[k] # NoItem => k[1] \in os
  /\ tpls \subseteq Templates

\* A write of a configuration before which nothing comes on air and nothing
\* goes off that the new configuration wants.
Edited ==
  \E os, its, tpls, onAir :
    /\ IsConfig(os, its, tpls)
    /\ onAir \subseteq playing
    /\ DesiredIn(its, tpls) \cap playing \subseteq onAir
    /\ Configure(os, its, tpls, onAir)

Played == \E K \in SUBSET Placed : Play(K)
Stopped == \E S \in Reach : StopOut(S)
Timeout == \E k \in Keys : HoldTimeout(k)

-----------------------------------------------------------------------------
\* What the API, the dashboard and the project files write is a configuration,
\* whichever handler writes it: every step of Playback is of one of five kinds.
LEMMA StepKinds ==
  ASSUME TypeOK, Next
  PROVE  Edited \/ Played \/ Stopped \/ Timeout \/ Restart
<1>1. ASSUME NEW o \in Outs, NEW row \in [ItemIds -> Item \cup {NoItem}], SaveOut(o, row)
      PROVE  Edited
  <2> DEFINE its == [k \in Keys |-> IF k[1] = o THEN row[k[2]] ELSE items[k]]
  <2>1. IsConfig(outs \cup {o}, its, templates)
    BY DEF IsConfig, TypeOK, Keys
  <2> QED  BY <1>1, <2>1 DEF Edited, SaveOut
<1>2. ASSUME NEW k \in Keys, NEW held \in BOOLEAN, HoldItem(k, held)
      PROVE  Edited
  <2> DEFINE its == [items EXCEPT ![k].held = held]
  <2>1. items[k] \in Item
    BY <1>2 DEF HoldItem, Placed, PlacedIn, TypeOK
  <2>2. [items[k] EXCEPT !.held = held] \in Item
    BY <2>1 DEF Item
  <2>3. IsConfig(outs, its, templates)
    BY <1>2, <2>2 DEF IsConfig, TypeOK, HoldItem, Placed, PlacedIn
  <2> QED  BY <1>2, <2>3 DEF Edited, HoldItem
<1>3. ASSUME NEW o \in Outs, RemoveOut(o) \/ DropOut(o)
      PROVE  Edited
  <2>1. IsConfig(outs \ {o}, WithoutOut(o), templates)
    BY DEF IsConfig, TypeOK, WithoutOut
  <2>2. \A k \in DesiredIn(WithoutOut(o), templates) : k[1] # o
    BY DEF DesiredIn, PlacedIn, WithoutOut
  <2>3. CASE RemoveOut(o)
    BY <2>1, <2>2, <2>3 DEF Edited, RemoveOut
  <2>4. CASE DropOut(o)
    BY <2>1, <2>4 DEF Edited, DropOut
  <2> QED  BY <1>3, <2>3, <2>4
<1>4. ASSUME NEW t \in Templates, UpsertTemplate(t) \/ RemoveTemplate(t) \/ DropTemplate(t)
      PROVE  Edited
  <2> DEFINE its == [k \in Keys |-> IF k \in Placed /\ items[k].templateId = t
                                      THEN NoItem ELSE items[k]]
  <2>1. /\ IsConfig(outs, items, templates \cup {t})
        /\ IsConfig(outs, its, templates \ {t})
        /\ IsConfig(outs, items, templates \ {t})
    BY DEF IsConfig, TypeOK
  <2>2. CASE UpsertTemplate(t)
    BY <2>1, <2>2 DEF Edited, UpsertTemplate
  <2>3. CASE RemoveTemplate(t)
    BY <2>1, <2>3 DEF Edited, RemoveTemplate
  <2>4. CASE DropTemplate(t)
    BY <2>1, <2>4 DEF Edited, DropTemplate
  <2> QED  BY <1>4, <2>2, <2>3, <2>4
<1>5. CASE Refresh
  <2>1. IsConfig(outs, items, templates)
    BY DEF IsConfig, TypeOK
  <2> QED  BY <1>5, <2>1 DEF Edited, Refresh
<1>6. ASSUME NEW p \in Projects, OpenProject(p)
      PROVE  Edited
  <2>1. IsConfig(p.outs, p.items, p.templates)
    BY ProjectsAssumption DEF IsConfig
  <2>2. DesiredIn(p.items, p.templates) = {}
    BY ProjectsAssumption DEF DesiredIn, PlacedIn
  <2> QED  BY <1>6, <2>1, <2>2 DEF Edited, OpenProject
<1>7. CASE Edit
  BY <1>1, <1>2, <1>3, <1>4, <1>5, <1>7 DEF Edit
<1>8. CASE Command
  BY <1>8 DEF Command, Played, Stopped, Trigger, TriggerTemplate, TriggerTargets
<1> QED  BY <1>6, <1>7, <1>8 DEF Next, Timeout

\* The state a step leaves, and what it wants on air: the shape every proof
\* below starts from.
LEMMA EditedState ==
  ASSUME TypeOK, Edited
  PROVE  /\ Desired' \subseteq Keys
         /\ \A k \in Keys :
              /\ k \in playing' <=> \/ k \in Desired'
                                    \/ k \in playing' /\ k \in playing /\ timers[k] # "idle"
              /\ triggers'[k] = IF k \in Desired' \ playing THEN triggers[k] + 1 ELSE triggers[k]
              /\ timers'[k] = CASE k \in Desired'      -> "idle"
                                [] k \in Idle \ Desired' -> "none"
                                [] OTHER               -> timers[k]
<1>1. PICK os, its, tpls, onAir :
        /\ IsConfig(os, its, tpls)
        /\ onAir \subseteq playing
        /\ DesiredIn(its, tpls) \cap playing \subseteq onAir
        /\ Configure(os, its, tpls, onAir)
  BY DEF Edited
<1>2. Desired' = DesiredIn(its, tpls)
  BY <1>1 DEF Desired, Configure
<1>3. Desired' \subseteq Keys
  BY <1>2 DEF DesiredIn, PlacedIn
<1>4. Runtime((onAir \cup Desired') \ (Idle \ Desired'), Desired' \ onAir,
              EntriesAfter(Desired', Idle \ Desired'))
  BY <1>1, <1>2 DEF Configure, Sync
<1> QED  BY <1>1, <1>2, <1>3, <1>4 DEF Runtime, EntriesAfter, Idle

-----------------------------------------------------------------------------
(* The invariant *)

LEMMA InitInv == Init => IInv
<1> SUFFICES ASSUME Init PROVE IInv
  OBVIOUS
<1>1. Desired \subseteq Keys
  BY DEF Desired, DesiredIn, PlacedIn
<1>2. TypeOK
  BY <1>1 DEF Init, TypeOK, BootTriggers, BootTimers, Entries
<1>3. HeldNeverTimesOut /\ HeldIsRemembered
  BY <1>1 DEF Init, HeldNeverTimesOut, HeldIsRemembered, BootTimers
<1>4. RememberedOnAirHasEnd
  BY DEF Init, RememberedOnAirHasEnd, Desired, DesiredIn, Placed
<1> QED  BY <1>2, <1>3, <1>4 DEF IInv

LEMMA EditedInv ==
  ASSUME IInv, Edited
  PROVE  IInv'
<1> USE DEF IInv
<1>1. TypeOK'
  <2>1. PICK os, its, tpls, onAir :
          /\ IsConfig(os, its, tpls)
          /\ onAir \subseteq playing
          /\ Configure(os, its, tpls, onAir)
    BY DEF Edited
  <2>2. DesiredIn(its, tpls) \subseteq Keys
    BY DEF DesiredIn, PlacedIn
  <2>3. /\ playing' \subseteq Keys
        /\ triggers' \in [Keys -> Nat]
    BY <2>1, <2>2 DEF Configure, Sync, Runtime, TypeOK
  <2>4. timers' \in [Keys -> Entries]
    <3>1. timers' = EntriesAfter(DesiredIn(its, tpls), Idle \ DesiredIn(its, tpls))
      BY <2>1 DEF Configure, Sync, Runtime
    <3>2. timers' = [k \in Keys |-> timers'[k]]
      BY <3>1 DEF EntriesAfter
    <3>3. \A k \in Keys : timers'[k] \in Entries
      BY EditedState DEF TypeOK, Entries
    <3> QED  BY <3>2, <3>3
  <2> QED  BY <2>1, <2>3, <2>4 DEF TypeOK, IsConfig, Configure
<1>2. HeldNeverTimesOut' /\ HeldIsRemembered'
  BY EditedState DEF HeldNeverTimesOut, HeldIsRemembered
<1>3. RememberedOnAirHasEnd'
  <2> SUFFICES ASSUME NEW k \in playing', timers'[k] = "idle"
               PROVE  k \in Placed' /\ items'[k].held
    BY DEF RememberedOnAirHasEnd
  <2>1. k \in Keys
    BY <1>1 DEF TypeOK
  <2>2. k \in Desired'
    BY <2>1, EditedState
  <2> QED  BY <2>2 DEF Desired, DesiredIn, Placed
<1> QED  BY <1>1, <1>2, <1>3

\* What a step does to the air when it leaves the configuration alone.
LEMMA SameConfig ==
  ASSUME UNCHANGED config
  PROVE  Desired' = Desired /\ Placed' = Placed
BY DEF config, Desired, Placed, DesiredIn, PlacedIn

LEMMA PlayedInv ==
  ASSUME IInv, Played
  PROVE  IInv'
<1> USE DEF IInv
<1>1. PICK K \in SUBSET Placed : Play(K)
  BY DEF Played
<1>2. UNCHANGED config /\ Desired' = Desired /\ Placed' = Placed
  BY <1>1, SameConfig DEF Play
<1>3. Desired \subseteq Placed /\ Placed \subseteq Keys /\ \A k \in Desired : items[k].held
  BY DEF Desired, DesiredIn, Placed, PlacedIn
<1>4. TypeOK'
  BY <1>1, <1>2, <1>3 DEF TypeOK, Play, Runtime, config, Entries
<1>5. HeldNeverTimesOut' /\ HeldIsRemembered'
  BY <1>1, <1>2, <1>3 DEF HeldNeverTimesOut, HeldIsRemembered, Play, Runtime
<1>6. RememberedOnAirHasEnd'
  BY <1>1, <1>2, <1>3 DEF RememberedOnAirHasEnd, Play, Runtime, config, TypeOK
<1> QED  BY <1>4, <1>5, <1>6

LEMMA OtherInv ==
  ASSUME IInv, Stopped \/ Timeout \/ Restart \/ UNCHANGED vars
  PROVE  IInv'
<1> USE DEF IInv
<1>1. UNCHANGED config /\ Desired' = Desired /\ Placed' = Placed
  BY SameConfig DEF Stopped, StopOut, Timeout, HoldTimeout, Restart, vars, config
<1>2. CASE Stopped
  BY <1>1, <1>2 DEF Stopped, StopOut, TypeOK, HeldNeverTimesOut, HeldIsRemembered,
                    RememberedOnAirHasEnd
<1>3. CASE Timeout
  <2>1. PICK k \in Keys : HoldTimeout(k)
    BY <1>3 DEF Timeout
  <2>2. TypeOK'
    BY <2>1 DEF HoldTimeout, TypeOK, Entries
  <2>3. HeldNeverTimesOut' /\ HeldIsRemembered'
    BY <1>1, <2>1 DEF HoldTimeout, TypeOK, HeldNeverTimesOut, HeldIsRemembered
  <2>4. RememberedOnAirHasEnd'
    BY <1>1, <2>1 DEF HoldTimeout, TypeOK, RememberedOnAirHasEnd
  <2> QED  BY <2>2, <2>3, <2>4
<1>4. CASE Restart
  <2>1. Desired \subseteq Keys /\ \A k \in Desired : k \in Placed /\ items[k].held
    BY DEF Desired, DesiredIn, Placed, PlacedIn
  <2>2. TypeOK'
    BY <1>4, <2>1 DEF Restart, config, TypeOK, BootTriggers, BootTimers, Entries
  <2>3. HeldNeverTimesOut' /\ HeldIsRemembered' /\ RememberedOnAirHasEnd'
    BY <1>1, <1>4, <2>1 DEF Restart, config, BootTimers, HeldNeverTimesOut, HeldIsRemembered,
                            RememberedOnAirHasEnd
  <2> QED  BY <2>2, <2>3
<1>5. CASE UNCHANGED vars
  BY <1>1, <1>5 DEF vars, TypeOK, HeldNeverTimesOut, HeldIsRemembered, RememberedOnAirHasEnd
<1> QED  BY <1>2, <1>3, <1>4, <1>5

LEMMA StepInv == IInv /\ [Next]_vars => IInv'
BY StepKinds, EditedInv, PlayedInv, OtherInv DEF IInv

LEMMA Invariant == Spec => []IInv
BY InitInv, StepInv, PTL DEF Spec

\* The runtime stays well formed, and a placement never outlives its out.
THEOREM TypeCorrect == Spec => []TypeOK
<1>1. IInv => TypeOK
  BY DEF IInv
<1> QED  BY <1>1, Invariant, PTL

\* However a placement came to be switched on (before a play, during it, by
\* the arrival of its template), no timeout is left that would take it off air.
THEOREM HeldStays == Spec => []HeldNeverTimesOut
<1>1. IInv => HeldNeverTimesOut
  BY DEF IInv
<1> QED  BY <1>1, Invariant, PTL

\* The scheduler knows what is switched on, so that switching it off finds it.
THEOREM HeldIsKnown == Spec => []HeldIsRemembered
<1>1. IInv => HeldIsRemembered
  BY DEF IInv
<1> QED  BY <1>1, Invariant, PTL

\* Nothing the scheduler has an entry for stays on air without an end.
THEOREM OnAirHasEnd == Spec => []RememberedOnAirHasEnd
<1>1. IInv => RememberedOnAirHasEnd
  BY DEF IInv
<1> QED  BY <1>1, Invariant, PTL

\* The four together: what the scheduler keeps fits the configuration.
THEOREM SchedulerFits == Spec => []SchedulerInv
BY TypeCorrect, HeldStays, HeldIsKnown, OnAirHasEnd, PTL DEF SchedulerInv

-----------------------------------------------------------------------------
(* What a step may never do *)

\* Whatever ends the wish for a placement, its switch, an edit of the out, the
\* loss of the template or of the out, also takes it off air in that step.
THEOREM SwitchedOffLeaves == Spec => SwitchOffHides
<1>1. ASSUME IInv, [Next]_vars
      PROVE  \A k \in Desired \ Desired' : k \notin playing'
  <2>1. Desired \subseteq Keys
    BY DEF Desired, DesiredIn, PlacedIn
  <2>2. CASE Edited
    BY <1>1, <2>1, <2>2, EditedState
       DEF IInv, TypeOK, HeldNeverTimesOut, HeldIsRemembered, Entries
  <2>3. CASE ~Edited
    <3>1. UNCHANGED config
      BY <1>1, <2>3, StepKinds DEF IInv, Played, Play, Stopped, StopOut, Timeout, HoldTimeout,
                                   Restart, vars, config
    <3> QED  BY <3>1, SameConfig
  <2> QED  BY <2>2, <2>3
<1>2. IInv /\ [Next]_vars => [\A k \in Desired \ Desired' : k \notin playing']_vars
  BY <1>1
<1> QED  BY <1>2, Invariant, PTL DEF Spec, SwitchOffHides

\* However many edits and triggers go by, a placement that stays switched on
\* and on air plays its entrance once.
THEOREM HeldPlaysOnce == Spec => HeldDoesNotReplay
<1> DEFINE Replays == \A k \in Keys : /\ k \in Desired /\ k \in Desired'
                                      /\ k \in playing /\ k \in playing'
                                      => triggers'[k] = triggers[k] \/ Restart
<1>1. ASSUME IInv, [Next]_vars
      PROVE  Replays
  <2>1. CASE Edited
    BY <1>1, <2>1, EditedState DEF IInv
  <2>2. CASE Played
    <3>1. PICK K \in SUBSET Placed : Play(K)
      BY <2>2 DEF Played
    <3>2. \A k \in Desired : items[k].held
      BY DEF Desired, DesiredIn
    <3> QED  BY <1>1, <3>1, <3>2 DEF Play, Runtime, IInv, TypeOK
  <2>3. CASE Stopped \/ Timeout \/ UNCHANGED vars
    BY <2>3 DEF Stopped, StopOut, Timeout, HoldTimeout, vars
  <2> QED  BY <1>1, <2>1, <2>2, <2>3, StepKinds DEF IInv
<1>2. IInv /\ [Next]_vars => [Replays]_vars
  BY <1>1
<1> QED  BY <1>2, Invariant, PTL DEF Spec, HeldDoesNotReplay

\* No edit cuts a play in flight short, however many placements and outs it
\* touches, except by removing the out it is on.
THEOREM PlaySurvivesEdits == Spec => EditKeepsPlay
<1> DEFINE Ended(k) == \/ HoldTimeout(k)
                       \/ \E S \in Reach : StopOut(S)
                       \/ RemoveOut(k[1])
                       \/ \E p \in Projects : OpenProject(p)
                       \/ Restart
           Kept == \A k \in playing \ playing' : timers[k] = "armed" => Ended(k)
<1>1. ASSUME IInv, [Next]_vars
      PROVE  Kept
  <2> SUFFICES ASSUME NEW k \in playing, k \notin playing', timers[k] = "armed"
               PROVE  Ended(k)
    OBVIOUS
  <2>1. k \in Keys
    BY <1>1 DEF IInv, TypeOK
  <2>2. ASSUME NEW os, NEW its, NEW tpls, NEW onAir, Configure(os, its, tpls, onAir)
        PROVE  k \notin onAir
    BY <2>2 DEF Configure, Sync, Runtime, Idle
  <2>3. CASE Edit
    <3>1. ASSUME NEW o \in Outs, RemoveOut(o)
          PROVE  Ended(k)
      <4>1. k[1] = o
        BY <2>2, <3>1 DEF RemoveOut
      <4> QED  BY <3>1, <4>1
    <3> QED  BY <2>2, <2>3, <3>1 DEF Edit, SaveOut, HoldItem, DropOut, UpsertTemplate,
                                     RemoveTemplate, DropTemplate, Refresh
  <2>4. CASE Command
    BY <2>4 DEF Command, Trigger, TriggerTemplate, Play, Runtime
  <2>5. ASSUME NEW j \in Keys, HoldTimeout(j)
        PROVE  Ended(k)
    <3>1. j = k
      BY <2>5 DEF HoldTimeout
    <3> QED  BY <2>5, <3>1
  <2>6. ~UNCHANGED vars
    BY DEF vars
  <2> QED  BY <1>1, <2>3, <2>4, <2>5, <2>6 DEF Next
<1>2. IInv /\ [Next]_vars => [Kept]_vars
  BY <1>1
<1> QED  BY <1>2, Invariant, PTL DEF Spec, EditKeepsPlay

-----------------------------------------------------------------------------
(* Playback implements OnAir *)

\* A write of the configuration is a Reconfigure that clears what it takes
\* off air.
LEMMA EditedReconfigures ==
  ASSUME IInv, Edited
  PROVE  OnAirOf!Reconfigure(Desired', playing \ playing')
<1>1. playing \subseteq Keys /\ Desired \subseteq Keys
  BY DEF IInv, TypeOK, Desired, DesiredIn, PlacedIn
<1>2. Phase' = [k \in Keys |->
                 CASE k \in Desired' -> "held"
                   [] k \notin Desired' /\ k \in Desired \cup (playing \ playing') -> "off"
                   [] OTHER -> Phase[k]]
  <2>1. ASSUME NEW k \in Keys
        PROVE  Phase'[k] = CASE k \in Desired' -> "held"
                   [] k \notin Desired' /\ k \in Desired \cup (playing \ playing') -> "off"
                   [] OTHER -> Phase[k]
    <3>1. Phase[k] = IF k \notin playing THEN "off" ELSE IF k \in Desired THEN "held" ELSE "once"
      BY DEF Phase
    <3>2. Phase'[k] = IF k \notin playing' THEN "off" ELSE IF k \in Desired' THEN "held" ELSE "once"
      BY DEF Phase
    <3>3. CASE k \in Desired'
      BY <3>2, <3>3, EditedState DEF IInv
    <3>4. CASE k \notin Desired' /\ k \in Desired
      BY <3>2, <3>4, EditedState
         DEF IInv, TypeOK, HeldNeverTimesOut, HeldIsRemembered, Entries
    <3>5. CASE k \notin Desired' /\ k \notin Desired
      BY <3>1, <3>2, <3>5, EditedState DEF IInv
    <3> QED  BY <3>3, <3>4, <3>5
  <2> QED  BY <2>1 DEF Phase
<1> QED  BY <1>1, <1>2 DEF OnAirOf!Reconfigure

LEMMA OtherStepsMap ==
  ASSUME IInv, Played \/ Stopped \/ Timeout \/ Restart \/ UNCHANGED vars
  PROVE  OnAirOf!Next \/ UNCHANGED OnAirOf!vars
<1>1. UNCHANGED config /\ Desired' = Desired /\ Placed' = Placed
  BY SameConfig DEF Played, Play, Stopped, StopOut, Timeout, HoldTimeout, Restart, vars, config
<1>2. playing \subseteq Keys /\ Placed \subseteq Keys /\ Desired \subseteq Keys
  BY DEF IInv, TypeOK, Desired, DesiredIn, Placed, PlacedIn
<1>3. CASE Played
  <2>1. PICK K \in SUBSET Placed : Play(K)
    BY <1>3 DEF Played
  <2>2. OnAirOf!Cue(K)
    BY <1>1, <1>2, <2>1 DEF OnAirOf!Cue, Phase, Play, Runtime
  <2> QED  BY <1>2, <2>2 DEF OnAirOf!Next
<1>4. CASE Stopped
  <2>1. PICK S \in Reach : StopOut(S)
    BY <1>4 DEF Stopped
  <2>2. OnAirOf!Clear({k \in Placed : k[1] \in S})
    BY <1>1, <1>2, <2>1 DEF OnAirOf!Clear, Phase, StopOut
  <2>3. {k \in Placed : k[1] \in S} \in SUBSET Keys
    BY <1>2
  <2> QED  BY <2>2, <2>3 DEF OnAirOf!Next
<1>5. CASE Timeout
  <2>1. PICK k \in Keys : HoldTimeout(k)
    BY <1>5 DEF Timeout
  <2>2. k \notin Desired
    BY <2>1 DEF IInv, HeldNeverTimesOut, HoldTimeout
  <2>3. CASE k \in playing
    <3>1. OnAirOf!Leave(k)
      BY <1>1, <2>1, <2>2, <2>3 DEF OnAirOf!Leave, Phase, HoldTimeout
    <3> QED  BY <3>1 DEF OnAirOf!Next
  <2>4. CASE k \notin playing
    BY <1>1, <2>1, <2>4 DEF OnAirOf!vars, Phase, HoldTimeout
  <2> QED  BY <2>3, <2>4
<1>6. CASE Restart
  <2>1. OnAirOf!Reconfigure(Desired', playing \ playing')
    BY <1>1, <1>2, <1>6 DEF OnAirOf!Reconfigure, Phase, Restart
  <2> QED  BY <1>1, <1>2, <2>1 DEF OnAirOf!Next
<1>7. CASE UNCHANGED vars
  BY <1>1, <1>7 DEF OnAirOf!vars, Phase, vars
<1> QED  BY <1>3, <1>4, <1>5, <1>6, <1>7

\* Playback, with its timers, counters and replicants, does what OnAir
\* promises of each placement: the configuration alone decides about what it
\* keeps on air, and a play ends by itself, by a command, or by the switch.
THEOREM PlaybackImplementsOnAir == Spec => OnAirSpec
<1>1. Init => OnAirOf!Init
  BY DEF Init, OnAirOf!Init, Phase, Desired, DesiredIn, PlacedIn
<1>2. ASSUME IInv, [Next]_vars
      PROVE  [OnAirOf!Next]_(OnAirOf!vars)
  <2>1. CASE Edited
    <3>1. Desired' \in SUBSET Keys /\ playing \ playing' \in SUBSET Keys
      BY <1>2, <2>1, EditedState DEF IInv, TypeOK
    <3> QED  BY <1>2, <2>1, <3>1, EditedReconfigures DEF OnAirOf!Next
  <2>2. CASE ~Edited
    BY <1>2, <2>2, StepKinds, OtherStepsMap DEF IInv
  <2> QED  BY <2>1, <2>2
<1>3. IInv /\ [Next]_vars => [OnAirOf!Next]_(OnAirOf!vars)
  BY <1>2
<1> QED  BY <1>1, <1>3, Invariant, PTL DEF Spec, OnAirSpec, OnAirOf!Spec

-----------------------------------------------------------------------------
(* Program *)

ProgramIInv == ProgramTypeOK /\ TimedShowHasTimeout /\ shown \in Nat

-----------------------------------------------------------------------------
(* The program and playback *)

\* What a command names is outs, all of them or some.
LEMMA OutsNamed ==
  ASSUME NEW o \in Targets
  PROVE  OutsOf({o}) \in OneOrAll
BY NullsAssumption DEF Targets, OutsOf, OneOrAll

LEMMA StopIsPlayback ==
  ASSUME TypeOK, NEW S \in SUBSET Outs, StopOut(S)
  PROVE  Next \/ UNCHANGED vars
<1>1. CASE S = {}
  <2>1. playing' = playing
    BY <1>1 DEF StopOut
  <2> QED  BY <2>1 DEF StopOut, vars
<1>2. CASE S # {}
  <2>1. S \in Reach
    BY <1>2 DEF Reach
  <2>2. Command
    BY <2>1 DEF Command
  <2> QED  BY <2>2 DEF Next
<1> QED  BY <1>1, <1>2

LEMMA PlaybackStep ==
  ASSUME TypeOK, ProgramNext
  PROVE  Next \/ UNCHANGED vars
<1>1. ASSUME NEW t \in Templates, NEW o \in Targets, ManualVerb(t, o)
      PROVE  Next \/ UNCHANGED vars
  <2>1. CASE PlayTemplateOnce(t, o)
    BY <2>1, OutsNamed DEF PlayTemplateOnce, Next, Command
  <2>2. CASE Show(t, o) \/ WriteShow(t, o) \/ Toggle(t, o)
    BY <2>2 DEF Show, WriteShow, Toggle, UntimedShow, HideTemplate
  <2> QED  BY <1>1, <2>1, <2>2 DEF ManualVerb
<1>2. ASSUME NEW where \in Where, Hide(where) \/ Stop(where)
      PROVE  Next \/ UNCHANGED vars
  <2>1. OutsOf(where) \in SUBSET Outs
    BY DEF Where, OutsOf, Reach
  <2> QED  BY <1>2, <2>1, StopIsPlayback DEF Hide, Stop
<1>3. CASE Reset
  BY <1>3, StopIsPlayback DEF Reset
<1>4. ASSUME NEW t \in Templates, ProgramRemoveTemplate(t)
      PROVE  Next
  BY <1>4 DEF ProgramRemoveTemplate, Next, Edit
<1>5. ASSUME NEW p \in Projects, ProgramOpen(p)
      PROVE  Next
  BY <1>5 DEF ProgramOpen, Next
<1>6. CASE ProgramRestart
  BY <1>6 DEF ProgramRestart, Next
<1>7. CASE \/ \E t \in Templates, where \in Where : HideTemplate(t, where)
           \/ \E o \in Targets : WriteHide(o)
           \/ \E tm \in showTimers : ShowTimeout(tm)
  BY <1>7 DEF HideTemplate, WriteHide, ShowTimeout
<1>8. CASE /\ \/ \E t \in Templates : UpsertTemplate(t) \/ DropTemplate(t)
              \/ \E o \in Outs, row \in [ItemIds -> Item \cup {NoItem}] : SaveOut(o, row)
              \/ \E o \in Outs : RemoveOut(o) \/ DropOut(o)
              \/ \E k \in Keys : Trigger(k) \/ HoldTimeout(k)
              \/ Refresh
           /\ UNCHANGED manual
  BY <1>8 DEF Next, Edit, Command
<1> QED
  BY <1>1, <1>2, <1>3, <1>4, <1>5, <1>6, <1>7, <1>8 DEF ProgramNext

LEMMA ProgramPlaybackInv == ProgramSpec => []IInv
<1>1. ProgramInit => IInv
  BY InitInv DEF ProgramInit
<1>2. IInv /\ [ProgramNext]_programVars => IInv'
  <2> SUFFICES ASSUME IInv, [ProgramNext]_programVars PROVE IInv'
    OBVIOUS
  <2>1. [Next]_vars
    BY PlaybackStep DEF IInv, programVars
  <2> QED  BY <2>1, StepInv
<1> QED  BY <1>1, <1>2, PTL DEF ProgramSpec

-----------------------------------------------------------------------------
(* The title by hand *)

LEMMA ProgramInitInv == ProgramInit => ProgramIInv
<1> SUFFICES ASSUME ProgramInit PROVE ProgramIInv
  OBVIOUS
<1>1. TypeOK
  BY InitInv DEF ProgramInit, IInv
<1>2. active \in Active /\ (active.templateId = NoTemplate => ~active.visible)
  <2>1. CASE active = DefaultActive
    BY <2>1 DEF DefaultActive, Active, Targets
  <2>2. CASE active \in [templateId : Templates, visible : BOOLEAN, outId : Targets]
    BY <2>2, NullsAssumption DEF Active
  <2> QED  BY <2>1, <2>2 DEF ProgramInit
<1> QED  BY <1>1, <1>2 DEF ProgramInit, ProgramIInv, ProgramTypeOK, TimedShowHasTimeout

\* hide clears `visible` or does nothing.
LEMMA HideLeaves ==
  ASSUME active \in Active, NEW t, NEW where, HideActive(t, where)
  PROVE  /\ active' \in Active /\ active'.templateId = active.templateId
         /\ active'.visible => active.visible
BY DEF HideActive, Active

\* The steps that only may hide.
LEMMA HidesInv ==
  ASSUME ProgramIInv, TypeOK', UNCHANGED <<showTimers, shown>>, timed' \in BOOLEAN, timed' => timed,
         active' \in Active, active'.templateId = NoTemplate => ~active'.visible,
         active'.visible => active.visible /\ active'.templateId = active.templateId
  PROVE  ProgramIInv'
BY DEF ProgramIInv, ProgramTypeOK, TimedShowHasTimeout

LEMMA ShowInv ==
  ASSUME ProgramIInv, TypeOK', NEW t \in Templates, NEW o \in Targets, ShowActive(t, o),
         \/ timed' = FALSE /\ UNCHANGED showTimers
         \/ timed' = TRUE /\ showTimers' = showTimers \cup {[templateId |-> t, show |-> shown + 1]}
  PROVE  ProgramIInv'
<1>1. shown' = shown + 1 /\ shown' \in Nat /\ shown \in Nat /\ 1..shown \subseteq 1..shown'
  BY DEF ShowActive, ProgramIInv
<1>2. active' \in Active /\ active'.templateId = t /\ t # NoTemplate
  BY NullsAssumption DEF ShowActive, Active
<1>3. showTimers' \subseteq [templateId : Templates, show : 1..shown']
  BY <1>1 DEF ProgramIInv, ProgramTypeOK
<1>4. TimedShowHasTimeout'
  <2>1. CASE timed' = FALSE
    BY <2>1 DEF TimedShowHasTimeout
  <2>2. CASE showTimers' = showTimers \cup {[templateId |-> t, show |-> shown + 1]}
    <3> DEFINE tm == [templateId |-> t, show |-> shown + 1]
    <3>1. tm \in showTimers' /\ tm.templateId = t
      BY <2>2
    <3>2. tm.templateId = active'.templateId
      BY <1>2, <3>1
    <3> HIDE DEF tm
    <3> QED  BY <3>1, <3>2 DEF TimedShowHasTimeout
  <2> QED  BY <2>1, <2>2
<1> QED  BY <1>1, <1>2, <1>3, <1>4 DEF ProgramIInv, ProgramTypeOK

\* The timeout of a show leaves none of its template on air.
LEMMA ShowTimeoutInv ==
  ASSUME ProgramIInv, TypeOK', NEW tm \in showTimers, ShowTimeout(tm)
  PROVE  ProgramIInv'
<1>1. active \in Active /\ tm.templateId \in Templates /\ tm.templateId # NoTemplate
  BY NullsAssumption DEF ProgramIInv, ProgramTypeOK
<1>2. CASE active.templateId = tm.templateId
  <2>1. HideActive(tm.templateId, {AllOuts})
    BY <1>2 DEF ShowTimeout
  <2>2. active' = [active EXCEPT !.visible = FALSE]
    BY <1>1, <1>2, <2>1 DEF HideActive
  <2>3. active' \in Active /\ ~active'.visible
    BY <1>1, <2>2 DEF Active
  <2> QED  BY <2>3 DEF ShowTimeout, ProgramIInv, ProgramTypeOK, TimedShowHasTimeout
<1>3. CASE active.templateId # tm.templateId
  <2>1. active' = active
    BY <1>3 DEF ShowTimeout
  <2> QED  BY <1>3, <2>1 DEF ShowTimeout, ProgramIInv, ProgramTypeOK, TimedShowHasTimeout
<1> QED  BY <1>2, <1>3

\* What keeps the title, its timeouts and the kind of the show keeps the invariant.
LEMMA KeepsManual ==
  ASSUME ProgramIInv, TypeOK', UNCHANGED manual
  PROVE  ProgramIInv'
BY DEF manual, ProgramIInv, ProgramTypeOK, TimedShowHasTimeout

LEMMA HandlerInv ==
  ASSUME ProgramIInv, TypeOK', ProgramNext
  PROVE  ProgramIInv'
<1> USE DEF ProgramIInv, ProgramTypeOK
<1>0. active \in Active /\ timed \in BOOLEAN /\ (active.templateId = NoTemplate => ~active.visible)
  OBVIOUS
<1>1. ASSUME NEW t, NEW where, HideActive(t, where), UNCHANGED <<showTimers, shown, timed>>
      PROVE  ProgramIInv'
  BY <1>0, <1>1, HideLeaves, HidesInv
<1>2. ASSUME NEW t \in Templates, NEW o \in Targets, ManualVerb(t, o)
      PROVE  ProgramIInv'
  <2>1. CASE UntimedShow(t, o)
    BY <2>1, ShowInv DEF UntimedShow
  <2>2. CASE HideTemplate(t, {o})
    BY <1>1, <2>2 DEF HideTemplate
  <2>3. CASE PlayTemplateOnce(t, o)
    BY <2>3, ShowInv, KeepsManual DEF PlayTemplateOnce
  <2> QED  BY <1>2, <2>1, <2>2, <2>3 DEF ManualVerb, Show, WriteShow, Toggle
<1>3. ASSUME NEW t \in Templates, NEW where \in Where, HideTemplate(t, where)
      PROVE  ProgramIInv'
  BY <1>1, <1>3 DEF HideTemplate
<1>4. ASSUME NEW where \in Where, Hide(where) \/ Stop(where)
      PROVE  ProgramIInv'
  BY <1>1, <1>4, KeepsManual DEF Hide, Stop
<1>5. ASSUME NEW o \in Targets, WriteHide(o)
      PROVE  ProgramIInv'
  <2>1. active' = [active EXCEPT !.visible = FALSE, !.outId = o]
    BY <1>5 DEF WriteHide
  <2>2. active' \in Active /\ ~active'.visible
    BY <1>0, <2>1 DEF Active
  <2> QED  BY <1>0, <1>5, <2>2, HidesInv DEF WriteHide
<1>6. DefaultActive \in Active /\ ~DefaultActive.visible
  BY DEF DefaultActive, Active, Targets
<1>7. CASE Reset
  <2>1. active' = DefaultActive /\ timed' = FALSE /\ UNCHANGED <<showTimers, shown>>
    BY <1>7 DEF Reset
  <2> QED  BY <1>6, <2>1, HidesInv
<1>8. ASSUME NEW tm \in showTimers, ShowTimeout(tm)
      PROVE  ProgramIInv'
  BY <1>8, ShowTimeoutInv
<1>9. ASSUME NEW t \in Templates, ProgramRemoveTemplate(t)
      PROVE  ProgramIInv'
  <2>1. active' \in {active, DefaultActive} /\ UNCHANGED <<showTimers, shown, timed>>
    BY <1>9 DEF ProgramRemoveTemplate
  <2> QED  BY <1>0, <1>6, <2>1, HidesInv
<1>10. ASSUME NEW p \in Projects, ProgramOpen(p)
       PROVE  ProgramIInv'
  <2>1. UNCHANGED <<showTimers, shown, timed>>
    BY <1>10 DEF ProgramOpen
  <2>2. CASE active' = [active EXCEPT !.visible = FALSE]
    <3>1. active' \in Active /\ ~active'.visible
      BY <1>0, <2>2 DEF Active
    <3> QED  BY <1>0, <2>1, <3>1, HidesInv
  <2>3. CASE active' \in {active, DefaultActive}
    BY <1>0, <1>6, <2>1, <2>3, HidesInv
  <2> QED  BY <1>10, <2>2, <2>3 DEF ProgramOpen
<1>11. CASE ProgramRestart
  <2>1. showTimers' = {} /\ timed' = FALSE /\ UNCHANGED <<active, shown>>
    BY <1>11 DEF ProgramRestart
  <2> QED  BY <2>1 DEF TimedShowHasTimeout
<1> QED
  BY <1>2, <1>3, <1>4, <1>5, <1>7, <1>8, <1>9, <1>10, <1>11, KeepsManual DEF ProgramNext

LEMMA ProgramInvariant == ProgramSpec => [](IInv /\ ProgramIInv)
<1>1. IInv /\ IInv' /\ ProgramIInv /\ [ProgramNext]_programVars => ProgramIInv'
  <2> SUFFICES ASSUME IInv, IInv', ProgramIInv, [ProgramNext]_programVars PROVE ProgramIInv'
    OBVIOUS
  <2>1. TypeOK'
    BY DEF IInv
  <2> QED  BY <2>1, HandlerInv, KeepsManual DEF programVars
<1> QED  BY <1>1, ProgramInitInv, ProgramPlaybackInv, PTL DEF ProgramSpec

\* The program's state stays well formed; a title without a template is off.
THEOREM ProgramTypeCorrect == ProgramSpec => []ProgramTypeOK
<1>1. ProgramIInv => ProgramTypeOK
  BY DEF ProgramIInv
<1> QED  BY <1>1, ProgramInvariant, PTL

\* A timed show that is on air has a timeout that hides it (trigger.ts:51).
THEOREM TimedShowsEnd == ProgramSpec => []TimedShowHasTimeout
<1>1. ProgramIInv => TimedShowHasTimeout
  BY DEF ProgramIInv
<1> QED  BY <1>1, ProgramInvariant, PTL

\* Both together, through every verb, edit, timeout and restart.
THEOREM ProgramHolds == ProgramSpec => []ProgramInv
BY ProgramTypeCorrect, TimedShowsEnd, PTL DEF ProgramInv

-----------------------------------------------------------------------------
(* Steps *)

\* What stopping some outs and hiding the title there leaves of the others.
LEMMA StopSpares ==
  ASSUME ProgramTypeOK, NEW S \in Reach, StopOut(S),
         active' = active \/ HideActive(NoTemplate, S), NEW r \in Outs \ S
  PROVE  Picture(r)' = Picture(r)
<1>1. UNCHANGED <<outs, items, templates>> /\ Placed' = Placed
  BY DEF StopOut, Placed, PlacedIn
<1>2. \A k \in Placed : k[1] = r => (k \in playing' <=> k \in playing)
  BY DEF StopOut
<1>3. ShownItems(r)' = ShownItems(r)
  BY <1>1, <1>2 DEF ShownItems
<1>4. \/ active' = active
      \/ active' = [active EXCEPT !.visible = FALSE] /\ active.outId \in S
  BY NullsAssumption DEF HideActive, Reach
<1>5. CASE active' = active
  BY <1>1, <1>3, <1>5 DEF Picture, ShowsActive
<1>6. CASE active' = [active EXCEPT !.visible = FALSE] /\ active.outId \in S
  <2>1. active.outId \notin {AllOuts, r} /\ active'.outId = active.outId
    BY <1>6, NullsAssumption DEF ProgramTypeOK, Active, Reach
  <2>2. ~ShowsActive(r) /\ ~ShowsActive(r)'
    BY <2>1 DEF ShowsActive
  <2>3. \A k \in ShownItems(r) : items'[k] = items[k]
    BY <1>1
  <2> QED  BY <1>1, <1>3, <2>2, <2>3 DEF Picture
<1> QED  BY <1>4, <1>5, <1>6

\* A hide, a reset or a stop of some outs is not seen on another (ws.ts:393).
THEOREM ScopedHides == ProgramSpec => ScopedHideSparesOthers
<1>1. ASSUME ProgramIInv
      PROVE  \A S \in Reach : Hide(S) \/ Stop(S)
               => \A r \in Outs \ S : Picture(r)' = Picture(r)
  <2> SUFFICES ASSUME NEW S \in Reach, Hide(S) \/ Stop(S), NEW r \in Outs \ S
               PROVE  Picture(r)' = Picture(r)
    OBVIOUS
  <2>1. OutsOf(S) = S
    BY NullsAssumption DEF OutsOf, Reach
  <2>2. StopOut(S) /\ (active' = active \/ HideActive(NoTemplate, S))
    BY <2>1 DEF Hide, Stop, manual
  <2> QED  BY <1>1, <2>2, StopSpares DEF ProgramIInv
<1> QED  BY <1>1, ProgramInvariant, PTL DEF ScopedHideSparesOthers

\* Once a template is played, the page of an out it was played on shows it
\* (trigger.ts:21).
THEOREM PlaysAreSeen == ProgramSpec => PlayIsShown
<1>1. ASSUME ProgramIInv, NEW t \in Templates, NEW o \in Targets,
             PlayTemplateOnce(t, o), OutsOf({o}) \cap outs # {}
      PROVE  \E r \in OutsOf({o}) \cap outs : t \in Picture(r)'
  <2>1. CASE TriggerTemplate(t, OutsOf({o})) /\ UNCHANGED manual
    <3>1. PICK k \in TriggerTargets(t, OutsOf({o})) : TRUE
      BY <2>1 DEF TriggerTemplate
    <3>2. /\ k \in Placed /\ k[1] \in OutsOf({o}) /\ items[k].templateId = t
          /\ items[k].enabled /\ t \in templates
      BY <2>1, <3>1 DEF TriggerTargets, TriggerTemplate
    <3>3. UNCHANGED <<outs, items, templates>> /\ k \in playing'
      BY <2>1, <3>1 DEF TriggerTemplate, Play, Runtime, config
    <3>4. k[1] \in outs
      BY <1>1, <3>2 DEF Placed, PlacedIn, ProgramIInv, ProgramTypeOK, TypeOK
    <3>5. k \in ShownItems(k[1])' /\ items'[k].templateId = t
      BY <3>2, <3>3 DEF ShownItems, Placed, PlacedIn
    <3>6. t \in Picture(k[1])'
      BY <3>3, <3>4, <3>5 DEF Picture
    <3> QED  BY <3>2, <3>4, <3>6
  <2>2. CASE ShowActive(t, o) /\ UNCHANGED vars /\ t \in templates
    <3>1. PICK r \in OutsOf({o}) \cap outs : TRUE
      BY <1>1
    <3>2. r \in outs' /\ t \in templates' /\ o \in {AllOuts, r}
      BY <2>2, <3>1 DEF vars, OutsOf
    <3>3. active'.visible /\ active'.templateId = t /\ active'.outId = o
      BY <2>2 DEF ShowActive
    <3>4. ShowsActive(r)'
      BY <3>2, <3>3 DEF ShowsActive
    <3>5. t \in Picture(r)'
      BY <3>2, <3>3, <3>4 DEF Picture
    <3> QED  BY <3>1, <3>5
  <2> QED  BY <1>1, <2>1, <2>2 DEF PlayTemplateOnce
<1>2. ProgramIInv =>
        \A t \in Templates, o \in Targets :
          PlayTemplateOnce(t, o) /\ OutsOf({o}) \cap outs # {}
            => \E r \in OutsOf({o}) \cap outs : t \in Picture(r)'
  BY <1>1
<1> QED  BY <1>2, ProgramInvariant, PTL DEF PlayIsShown

\* The program plays back as Playback says: what is proved of Spec, its
\* refinement of OnAir included, holds of the whole program.
THEOREM ProgramPlaysBack == ProgramSpec => Spec
<1>1. ProgramInit => Init
  BY DEF ProgramInit
<1>2. IInv /\ [ProgramNext]_programVars => [Next]_vars
  BY PlaybackStep DEF IInv, programVars
<1> QED  BY <1>1, <1>2, ProgramPlaybackInv, PTL DEF ProgramSpec, Spec
=============================================================================
