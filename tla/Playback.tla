------------------------------ MODULE Playback ------------------------------
(***************************************************************************)
(* What is on air on the outs: extension/scheduler.ts, the part of         *)
(* extension/store.ts it works on (templates, outs, runtime) and the       *)
(* commands of index.ts, api.ts and ws.ts that drive them.                 *)
(*                                                                         *)
(* The extension is one Node.js thread, so a handler is one step.  Every   *)
(* write of `outs` or `templates` ends in Scheduler.sync before another    *)
(* handler or timer runs: the API handlers call it, and the "change"       *)
(* listeners run it on the next tick (server writes) or inside             *)
(* applyOperations (dashboard writes).  Sync is therefore part of the step *)
(* that writes.  Durations are left out: a timer that is set may fire any  *)
(* time later.                                                             *)
(***************************************************************************)
EXTENDS Naturals

CONSTANTS Outs,        \* ids of outs
          ItemIds,     \* ids of placements, unique within an out
          Templates,   \* ids of templates
          NoItem,      \* no placement under this id
          Projects     \* the project files that may be opened

\* A placement (OutItem): what it shows and its two switches.
Item == [templateId : Templates, enabled : BOOLEAN, held : BOOLEAN]

ASSUME NoItemAssumption == NoItem \notin Item

Keys == Outs \X ItemIds    \* Scheduler.key: `${outId}::${itemId}`

\* What a project file brings, once its switches are turned off and the
\* placements without their template are dropped.
ASSUME ProjectsAssumption ==
  \A p \in Projects :
    /\ p.outs \subseteq Outs
    /\ p.templates \subseteq Templates
    /\ p.items \in [Keys -> {i \in Item : i.templateId \in p.templates /\ ~i.held} \cup {NoItem}]
    /\ \A k \in Keys : p.items[k] # NoItem => k[1] \in p.outs

VARIABLES outs,        \* ids of the outs that exist
          items,       \* their placements
          templates,   \* ids of the templates that exist
          playing,     \* runtime.playing: the placements on air
          triggers,    \* runtime.triggers: the play counters
          timers       \* Scheduler.timers: no entry, an entry, or one with
                       \* its hold timeout set

config == <<outs, items, templates>>
runtime == <<playing, triggers, timers>>
vars == <<outs, items, templates, playing, triggers, timers>>

Entries == {"none", "idle", "armed"}

TypeOK ==
  /\ outs \subseteq Outs
  /\ items \in [Keys -> Item \cup {NoItem}]
  /\ \A k \in Keys : items[k] # NoItem => k[1] \in outs
  /\ templates \subseteq Templates
  /\ playing \subseteq Keys
  /\ triggers \in [Keys -> Nat]
  /\ timers \in [Keys -> Entries]

-----------------------------------------------------------------------------
\* The placements listed by the outs (Store.getItem finds these).
PlacedIn(its) == {k \in Keys : its[k] # NoItem}
Placed == PlacedIn(items)

\* What sync wants on air: placements switched on whose template exists.
DesiredIn(its, tpls) ==
  {k \in PlacedIn(its) : its[k].held /\ its[k].templateId \in tpls}
Desired == DesiredIn(items, templates)

Idle == {k \in Keys : timers[k] = "idle"}
Armed == {k \in Keys : timers[k] = "armed"}

\* The runtime a step leaves: what is on air, the plays it counts, the entries.
Runtime(onAir, counted, entries) ==
  /\ playing' = onAir
  /\ triggers' = [k \in Keys |-> IF k \in counted THEN triggers[k] + 1 ELSE triggers[k]]
  /\ timers' = entries

\* The entries once sync held some placements and stopped others.
EntriesAfter(kept, stopped) ==
  [k \in Keys |-> CASE k \in kept    -> "idle"
                    [] k \in stopped -> "none"
                    [] OTHER         -> timers[k]]

(* Slips sync could make.  The mutation runs put each in its place. *)

\* hold leaves the timeout of a play running.
SyncKeepsTimeout(its, tpls, onAir) ==
  LET desired == DesiredIn(its, tpls)
  IN  Runtime((onAir \cup desired) \ (Idle \ desired), desired \ onAir,
              EntriesAfter(desired \ Armed, Idle \ desired))

\* hold returns at once for what is on air already.
SyncForgetsPlaying(its, tpls, onAir) ==
  LET desired == DesiredIn(its, tpls)
  IN  Runtime((onAir \cup desired) \ (Idle \ desired), desired \ onAir,
              EntriesAfter(desired \ onAir, Idle \ desired))

\* A play in flight is stopped like anything else that is not wanted.
SyncStopsPlays(its, tpls, onAir) ==
  LET desired == DesiredIn(its, tpls)
      stopped == (Idle \cup Armed) \ desired
  IN  Runtime((onAir \cup desired) \ stopped, desired \ onAir, EntriesAfter(desired, stopped))

\* stop deletes the entry and leaves the placement on air.
SyncDropsEntry(its, tpls, onAir) ==
  LET desired == DesiredIn(its, tpls)
  IN  Runtime(onAir \cup desired, desired \ onAir, EntriesAfter(desired, Idle \ desired))

\* hold counts a play every time.
SyncReplays(its, tpls, onAir) ==
  LET desired == DesiredIn(its, tpls)
  IN  Runtime((onAir \cup desired) \ (Idle \ desired), desired, EntriesAfter(desired, Idle \ desired))

\* Every timeout is cleared, also that of a play in flight.
SyncClearsTimeouts(its, tpls, onAir) ==
  LET desired == DesiredIn(its, tpls)
  IN  Runtime((onAir \cup desired) \ (Idle \ desired), desired \ onAir,
              EntriesAfter(desired \cup Armed, Idle \ desired))

\* What has an entry is taken to be on air.
SyncTrustsEntries(its, tpls, onAir) ==
  LET desired == DesiredIn(its, tpls)
  IN  Runtime((onAir \cup (desired \ Idle)) \ (Idle \ desired), desired \ (onAir \cup Idle),
              EntriesAfter(desired, Idle \ desired))

\* Scheduler.sync on a configuration, `onAir` being runtime.playing when it
\* runs.  A wanted placement loses its hold timeout and, when it was not on
\* air, comes on and counts a play; an entry that is neither wanted nor
\* armed is stopped.
Sync(its, tpls, onAir) ==
  LET desired == DesiredIn(its, tpls)
      stopped == Idle \ desired
  IN  Runtime((onAir \cup desired) \ stopped, desired \ onAir, EntriesAfter(desired, stopped))

\* A write of the configuration and the sync it ends in.
Configure(os, its, tpls, onAir) ==
  /\ outs' = os
  /\ items' = its
  /\ templates' = tpls
  /\ Sync(its, tpls, onAir)

\* Scheduler.play of a set of placements: all come on air; one that is not
\* held counts a play and gets a fresh hold timeout.
Play(K) ==
  LET timed == {k \in K : ~items[k].held}
  IN  /\ Runtime(playing \cup K, timed,
                 [k \in Keys |-> IF k \in timed THEN "armed" ELSE timers[k]])
      /\ UNCHANGED config

\* A slip: the filter on `enabled` is forgotten.
TriggerTargetsAlsoDisabled(t, S) ==
  {k \in Placed : k[1] \in S /\ items[k].templateId = t}

\* The placements Scheduler.triggerTemplate plays on the outs in S.
TriggerTargets(t, S) ==
  {k \in Placed : k[1] \in S /\ items[k].templateId = t /\ items[k].enabled}

-----------------------------------------------------------------------------
\* The server comes up on whatever configuration the database holds; the
\* runtime replicant is not persisted and the constructor runs sync.
BootTriggers == [k \in Keys |-> IF k \in Desired THEN 1 ELSE 0]
BootTimers == [k \in Keys |-> IF k \in Desired THEN "idle" ELSE "none"]

Init ==
  /\ outs \in SUBSET Outs
  /\ items \in [Keys -> Item \cup {NoItem}]
  /\ \A k \in Keys : items[k] # NoItem => k[1] \in outs
  /\ templates \in SUBSET Templates
  /\ playing = Desired
  /\ triggers = BootTriggers
  /\ timers = BootTimers

\* The process stops (dispose) or dies and comes up again on its database.
Restart ==
  /\ UNCHANGED config
  /\ playing' = Desired
  /\ triggers' = BootTriggers
  /\ timers' = BootTimers

\* An out is created or saved with any list of placements: the out and item
\* handlers of the API, the `hold` command, every edit of the dashboard.
\* A placement's template is not checked to exist.
SaveOut(o, row) ==
  Configure(outs \cup {o},
            [k \in Keys |-> IF k[1] = o THEN row[k[2]] ELSE items[k]],
            templates, playing)

\* The "On air" switch of one placement.
HoldItem(k, held) ==
  /\ k \in Placed
  /\ Configure(outs, [items EXCEPT ![k].held = held], templates, playing)

WithoutOut(o) == [k \in Keys |-> IF k[1] = o THEN NoItem ELSE items[k]]

\* DELETE /outs/:id: what was on air on the out goes with it.
RemoveOut(o) ==
  /\ o \in outs
  /\ Configure(outs \ {o}, WithoutOut(o), templates, {k \in playing : k[1] # o})

\* The dashboard deletes an out by writing the list without it; runtime is
\* left to sync.
DropOut(o) ==
  /\ o \in outs
  /\ Configure(outs \ {o}, WithoutOut(o), templates, playing)

\* A template is created or saved.
UpsertTemplate(t) == Configure(outs, items, templates \cup {t}, playing)

\* DELETE /templates/:id, and the file animation whose file is gone: the
\* placements of the template go too.
RemoveTemplate(t) ==
  /\ t \in templates
  /\ Configure(outs,
               [k \in Keys |-> IF k \in Placed /\ items[k].templateId = t
                                 THEN NoItem ELSE items[k]],
               templates \ {t}, playing)

\* The dashboard deletes a template with two writes, templates first; other
\* handlers run between them (the second write is a SaveOut).
DropTemplate(t) ==
  /\ t \in templates
  /\ Configure(outs, items, templates \ {t}, playing)

\* A project file is opened: everything listed is taken off air, then the
\* configuration is replaced by the file's.
OpenProject(p) == Configure(p.outs, p.items, p.templates, playing \ Placed)

\* One placement is triggered.
Trigger(k) == k \in Placed /\ Play({k})

\* A template is triggered on the outs in S (one, or all), and placed there.
TriggerTemplate(t, S) ==
  /\ t \in templates
  /\ TriggerTargets(t, S) # {}
  /\ Play(TriggerTargets(t, S))

\* The hold timeout of a play fires.
HoldTimeout(k) ==
  /\ timers[k] = "armed"
  /\ playing' = playing \ {k}
  /\ timers' = [timers EXCEPT ![k] = "idle"]
  /\ UNCHANGED <<outs, items, templates, triggers>>

\* stop, hide and reset: what the outs in S list is taken off air.  Timeouts
\* and switches stay as they are.
StopOut(S) ==
  /\ playing' = playing \ {k \in Placed : k[1] \in S}
  /\ UNCHANGED <<outs, items, templates, triggers, timers>>

\* An out page asks for a sync, e.g. after it reconnects.  What the handler
\* then finds changed among the animation files is an UpsertTemplate or a
\* RemoveTemplate each: a sync after every one ends where one sync at the end
\* does, as they concern different templates.
Refresh == Configure(outs, items, templates, playing)

OneOrAll == {Outs} \cup {{o} : o \in Outs}    \* `out` named, or left out
Reach == (SUBSET Outs) \ {{}}                \* ... or all a key reaches, one by one

Edit ==
  \/ \E o \in Outs, row \in [ItemIds -> Item \cup {NoItem}] : SaveOut(o, row)
  \/ \E k \in Keys, held \in BOOLEAN : HoldItem(k, held)
  \/ \E o \in Outs : RemoveOut(o) \/ DropOut(o)
  \/ \E t \in Templates : UpsertTemplate(t) \/ RemoveTemplate(t) \/ DropTemplate(t)
  \/ Refresh

Command ==
  \/ \E k \in Keys : Trigger(k)
  \/ \E t \in Templates, S \in OneOrAll : TriggerTemplate(t, S)
  \/ \E S \in Reach : StopOut(S)

Next ==
  \/ Edit
  \/ \E p \in Projects : OpenProject(p)
  \/ Command
  \/ \E k \in Keys : HoldTimeout(k)
  \/ Restart

\* Node fires every timeout that is not cleared.
Fairness == \A k \in Keys : WF_vars(HoldTimeout(k))

Spec == Init /\ [][Next]_vars
FairSpec == Spec /\ Fairness

-----------------------------------------------------------------------------
(* Safety *)

\* A placement that is switched on never times out: whichever way it came to
\* be switched on during a play, its hold timeout is gone (scheduler.ts,
\* hold and play).
HeldNeverTimesOut == \A k \in Desired : timers[k] # "armed"

\* The scheduler has an entry for everything that is switched on, so that
\* switching it off finds it (the last loop of sync only looks at entries).
HeldIsRemembered == \A k \in Desired : timers[k] # "none"

\* What the scheduler has an entry for and is on air is going to leave: its
\* timeout is set, or it is switched on and waits for the switch (a placement
\* whose template is missing may be switched on too: trigger plays it and
\* sets no timeout).
RememberedOnAirHasEnd ==
  \A k \in playing : timers[k] = "idle" => k \in Placed /\ items[k].held

\* The scheduler's entries, timeouts and runtime fit the configuration, whatever
\* edits, commands and timeouts have come (scheduler.ts, sync, hold and play).
SchedulerInv == TypeOK /\ HeldNeverTimesOut /\ HeldIsRemembered /\ RememberedOnAirHasEnd

\* A play in flight is not cut short by anybody else's edit: while the
\* timeout is set, only the timeout, a stop, the removal of the whole out,
\* the opening of a project or a restart takes the placement off air
\* (the comment in sync, scheduler.ts:56).
EditKeepsPlay ==
  [][\A k \in playing \ playing' :
       timers[k] = "armed" =>
         \/ HoldTimeout(k)
         \/ \E S \in Reach : StopOut(S)
         \/ RemoveOut(k[1])
         \/ \E p \in Projects : OpenProject(p)
         \/ Restart]_vars

\* "Switch it off and it is hidden": a placement that stops being wanted, by
\* its switch, its removal, or the loss of its template or its out, leaves
\* the air in that very step.
SwitchOffHides == [][\A k \in Desired \ Desired' : k \notin playing']_vars

\* Staying switched on never replays the entrance: the play counter of a
\* placement that is wanted and on air before and after a step stands still
\* (scheduler.ts:150), a restart apart.
HeldDoesNotReplay ==
  [][\A k \in Keys : /\ k \in Desired /\ k \in Desired'
                     /\ k \in playing /\ k \in playing'
                     => triggers'[k] = triggers[k] \/ Restart]_vars

(* Liveness *)

\* A play leaves by itself, or the placement is switched on meanwhile.
PlayLeaves ==
  \A k \in Keys :
    (k \in playing /\ timers[k] = "armed") ~> (k \notin playing \/ k \in Desired)

(* Refinement *)

Phase == [k \in Keys |-> IF k \notin playing THEN "off"
                        ELSE IF k \in Desired THEN "held" ELSE "once"]

OnAirOf == INSTANCE OnAir WITH Placements <- Keys, phase <- Phase, wanted <- Desired

\* Playback does what OnAir promises: the configuration decides about the
\* placements it wants and leaves the plays alone.
OnAirSpec == OnAirOf!Spec
=============================================================================
