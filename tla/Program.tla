------------------------------ MODULE Program -------------------------------
(***************************************************************************)
(* The program: playback on the outs together with the title shown by hand *)
(* (the `activeTitle` replicant of store.ts, the timed show of trigger.ts) *)
(* and the picture an out page makes of both (graphics/out.ts).            *)
(*                                                                         *)
(* `activeTitle` is persisted; the timeout of a timed show is not.  Each   *)
(* handler is one step, as in Playback.                                    *)
(***************************************************************************)
EXTENDS Playback

CONSTANTS NoTemplate,   \* activeTitle.templateId is null
          AllOuts       \* an outId that is null or left out: every out

ASSUME NullsAssumption == NoTemplate \notin Templates /\ AllOuts \notin Outs

VARIABLES active,       \* activeTitle
          showTimers,   \* the timeouts of timed shows, each with its template
          shown,        \* history: how many shows there have been; a timeout
                        \* remembers the number of the show it was set for
          timed         \* history: the last show was a timed one of this boot

manual == <<active, showTimers, shown, timed>>
programVars == <<vars, manual>>

Targets == Outs \cup {AllOuts}
Active == [templateId : Templates \cup {NoTemplate}, visible : BOOLEAN, outId : Targets]
DefaultActive == [templateId |-> NoTemplate, visible |-> FALSE, outId |-> AllOuts]

\* What a command that hides or stops names: no out, or those of a key, which
\* it goes through one by one.
Where == {{AllOuts}} \cup Reach
OutsOf(where) == IF AllOuts \in where THEN Outs ELSE where

ProgramTypeOK ==
  /\ TypeOK
  /\ active \in Active
  /\ active.templateId = NoTemplate => ~active.visible
  /\ showTimers \subseteq [templateId : Templates, show : 1..shown]
  /\ timed \in BOOLEAN

-----------------------------------------------------------------------------
(* The picture of an out page: computeInstances. *)

ShownItems(o) ==
  {k \in playing \cap Placed : /\ k[1] = o
                               /\ items[k].enabled
                               /\ items[k].templateId \in templates}

ShowsActive(o) ==
  /\ active.visible
  /\ active.templateId \in templates
  /\ active.outId \in {AllOuts, o}

\* The templates an out page shows.
Picture(o) ==
  IF o \notin outs THEN {}
  ELSE {items[k].templateId : k \in ShownItems(o)}
       \cup (IF ShowsActive(o) THEN {active.templateId} ELSE {})

-----------------------------------------------------------------------------
ProgramInit ==
  /\ Init
  /\ active \in {DefaultActive} \cup
       [templateId : Templates, visible : BOOLEAN, outId : Targets]
  /\ showTimers = {}
  /\ shown = 0
  /\ timed = FALSE

\* store.show
ShowActive(t, o) ==
  /\ active' = [templateId |-> t, visible |-> TRUE, outId |-> o]
  /\ shown' = shown + 1

\* A slip: hide does not look at the out.
HideActiveOnAnyOut(t, where) ==
  active' = IF t \notin {NoTemplate, active.templateId}
              THEN active ELSE [active EXCEPT !.visible = FALSE]

\* store.hide: a template or an out that is named must be the one on air.
HideActive(t, where) ==
  active' = IF t \notin {NoTemplate, active.templateId} \/ where \cap {AllOuts, active.outId} = {}
              THEN active ELSE [active EXCEPT !.visible = FALSE]

UntimedShow(t, o) ==
  /\ ShowActive(t, o)
  /\ timed' = FALSE
  /\ UNCHANGED <<vars, showTimers>>

\* The show verb of both APIs.
Show(t, o) == t \in templates /\ UntimedShow(t, o)

\* The dashboard writes activeTitle itself, from its own list of templates.
WriteShow(t, o) == UntimedShow(t, o)
WriteHide(o) ==
  /\ active' = [active EXCEPT !.visible = FALSE, !.outId = o]
  /\ UNCHANGED <<vars, showTimers, shown, timed>>

HideTemplate(t, where) ==
  /\ HideActive(t, where)
  /\ UNCHANGED <<vars, showTimers, shown, timed>>

\* The hide verb without a template also stops the outs, and so does the
\* reset verb of a key that does not reach every out.
Hide(where) ==
  /\ HideActive(NoTemplate, where)
  /\ StopOut(OutsOf(where))
  /\ UNCHANGED <<showTimers, shown, timed>>

\* The stop verb.
Stop(where) == StopOut(OutsOf(where)) /\ UNCHANGED manual

Toggle(t, o) ==
  IF active.templateId = t /\ active.visible THEN HideTemplate(t, {o}) ELSE Show(t, o)

Reset ==
  /\ StopOut(Outs)
  /\ active' = DefaultActive
  /\ timed' = FALSE
  /\ UNCHANGED <<showTimers, shown>>

\* A slip: a timed show sets no timeout while another one is set.
PlayTemplateOnceOneTimeout(t, o) ==
  /\ t \in templates
  /\ \/ /\ TriggerTemplate(t, OutsOf({o}))
        /\ UNCHANGED manual
     \/ /\ TriggerTargets(t, OutsOf({o})) = {}
        /\ ShowActive(t, o)
        /\ showTimers' = IF showTimers = {} THEN {[templateId |-> t, show |-> shown + 1]}
                                            ELSE showTimers
        /\ timed' = TRUE
        /\ UNCHANGED vars

\* playTemplateOnce: the placements, or a timed show when there are none.
PlayTemplateOnce(t, o) ==
  /\ t \in templates
  /\ \/ /\ TriggerTemplate(t, OutsOf({o}))
        /\ UNCHANGED manual
     \/ /\ TriggerTargets(t, OutsOf({o})) = {}
        /\ ShowActive(t, o)
        /\ showTimers' = showTimers \cup {[templateId |-> t, show |-> shown + 1]}
        /\ timed' = TRUE
        /\ UNCHANGED vars

\* A slip: only a title on every out is hidden.
ShowTimeoutOnAllOuts(tm) ==
  /\ tm \in showTimers
  /\ showTimers' = showTimers \ {tm}
  /\ IF active.templateId = tm.templateId /\ active.outId = AllOuts
       THEN HideActive(tm.templateId, {AllOuts}) ELSE UNCHANGED active
  /\ UNCHANGED <<vars, shown, timed>>

\* The timeout of a timed show fires: it hides its template.
ShowTimeout(tm) ==
  /\ tm \in showTimers
  /\ showTimers' = showTimers \ {tm}
  /\ IF active.templateId = tm.templateId
       THEN HideActive(tm.templateId, {AllOuts}) ELSE UNCHANGED active
  /\ UNCHANGED <<vars, shown, timed>>

\* store.removeTemplate drops the reference from activeTitle.
ProgramRemoveTemplate(t) ==
  /\ RemoveTemplate(t)
  /\ active' = IF active.templateId = t THEN DefaultActive ELSE active
  /\ UNCHANGED <<showTimers, shown, timed>>

\* Opening a project hides the title, and drops one the project has not.
ProgramOpen(p) ==
  /\ OpenProject(p)
  /\ active' = IF active.templateId \in p.templates
                 THEN [active EXCEPT !.visible = FALSE]
                 ELSE IF active.templateId = NoTemplate THEN active ELSE DefaultActive
  /\ UNCHANGED <<showTimers, shown, timed>>

\* The title comes back from the database; the timeouts are gone.
ProgramRestart ==
  /\ Restart
  /\ showTimers' = {}
  /\ timed' = FALSE
  /\ UNCHANGED <<active, shown>>

ManualVerb(t, o) ==
  \/ Show(t, o)
  \/ WriteShow(t, o)
  \/ Toggle(t, o)
  \/ PlayTemplateOnce(t, o)

ProgramNext ==
  \/ \E t \in Templates, o \in Targets : ManualVerb(t, o)
  \/ \E t \in Templates, where \in Where : HideTemplate(t, where)
  \/ \E where \in Where : Hide(where) \/ Stop(where)
  \/ \E o \in Targets : WriteHide(o)
  \/ Reset
  \/ \E tm \in showTimers : ShowTimeout(tm)
  \/ \E t \in Templates : ProgramRemoveTemplate(t)
  \/ \E p \in Projects : ProgramOpen(p)
  \/ ProgramRestart
  \/ /\ \/ \E t \in Templates : UpsertTemplate(t) \/ DropTemplate(t)
        \/ \E o \in Outs, row \in [ItemIds -> Item \cup {NoItem}] : SaveOut(o, row)
        \/ \E o \in Outs : RemoveOut(o) \/ DropOut(o)
        \/ \E k \in Keys : Trigger(k) \/ HoldTimeout(k)
        \/ Refresh
     /\ UNCHANGED manual

ProgramFairness ==
  /\ \A k \in Keys : WF_programVars(HoldTimeout(k) /\ UNCHANGED manual)
  /\ \A t \in Templates : WF_programVars(\E tm \in showTimers : tm.templateId = t /\ ShowTimeout(tm))

ProgramSpec == ProgramInit /\ [][ProgramNext]_programVars

-----------------------------------------------------------------------------
\* A timed show on air has a timeout that will hide it, as long as the
\* process that set it lives (trigger.ts:51).
TimedShowHasTimeout ==
  timed /\ active.visible => \E tm \in showTimers : tm.templateId = active.templateId

\* The program's state is well formed, and no timed show is without its end.
ProgramInv == ProgramTypeOK /\ TimedShowHasTimeout

\* "Preview always does something visible" (trigger.ts:21): after a play of a
\* template on outs that exist, one of their pages shows it, whatever the
\* placements' switches and wherever else the template is placed.
PlayIsShown ==
  [][\A t \in Templates, o \in Targets :
       PlayTemplateOnce(t, o) /\ OutsOf({o}) \cap outs # {}
         => \E r \in OutsOf({o}) \cap outs : t \in Picture(r)']_programVars

\* A hide, a reset or a stop of some outs leaves the picture of every other
\* out alone (ws.ts:393: "Within reach only: the rest of the show is somebody
\* else's").
ScopedHideSparesOthers ==
  [][\A S \in Reach : Hide(S) \/ Stop(S)
       => \A r \in Outs \ S : Picture(r)' = Picture(r)]_programVars

\* A timed show leaves by itself, unless something else takes its place.
TimedShowLeaves == (timed /\ active.visible) ~> ~(timed /\ active.visible)

\* "Only hide if nothing else has taken over the program output meanwhile"
\* (trigger.ts:52): the timeout of a show takes only that show off air.
TimeoutHidesItsOwnShow ==
  [][\A tm \in showTimers :
       ShowTimeout(tm) /\ active.visible /\ ~active'.visible => tm.show = shown]_programVars

\* "`held` wins over `enabled`" (types.ts:383): a placement whose switch is
\* turned on while its template exists is shown by the page of its out.
SwitchOnShows ==
  [][\A k \in Keys : k \in Desired' \ Desired => (k \in ShownItems(k[1]))']_programVars
=============================================================================
