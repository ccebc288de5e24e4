-------------------------------- MODULE Stage --------------------------------
(***************************************************************************)
(* An out page's stage (graphics/out.ts): the slot of every instance that  *)
(* is on screen, the sandboxed frame of a code animation with the runtime  *)
(* inside it (code-runtime.ts), and the exits that are still playing.      *)
(*                                                                         *)
(* What the page shows comes in replicants; every change of one asks for   *)
(* a render in the next animation frame.  Of a code animation's entrance   *)
(* only onShow is left: enterSlot's timer and finishEnter animate nothing  *)
(* there, so neither is here.                                              *)
(***************************************************************************)
EXTENDS Naturals, FiniteSets

CONSTANTS Keys,        \* the instances: "item:..." and "active"
          Templates,
          Forms,       \* what a template may be: its kind and what it animates itself
          Data,        \* the variables
          None,        \* no slot, no template, nothing to show, nothing posted
          MaxEvents    \* bound on what the server changes

Phases == {"show", "hide"}
Kinds == {"layers", "inline", "file"}

\* own: the phases that code takes with onShow and onHide; for layers, whether
\* the entrance and the exit take any time.  rev tells edits apart.
ASSUME StageAssumption ==
  /\ Forms \subseteq [kind : Kinds, own : SUBSET Phases, rev : Nat]
  /\ None \notin Templates /\ None \notin Data /\ None \notin Forms
  /\ IsFiniteSet(Keys) /\ MaxEvents \in Nat

VARIABLES
  def,         \* templatesRep
  shown,       \* what computeInstances gives a key, were its template there
  trigger,     \* the instances' triggers
  data,        \* titleDataRep
  slots,       \* the page's slots
  leaving,     \* the exits under way
  scheduled,   \* a render is asked for
  events

asked == <<def, shown, trigger, data>>
page == <<slots, leaving, scheduled>>
vars == <<asked, page, events>>

\* The document of a slot: its layers, or its frame's.  A frame that will be
\* filled from a file is blank until the file is there; one that is opened
\* runs its script and is then loaded.
Documents == {"layers", "blank", "opening", "running", "loaded", "failed"}
Exits == {"time", "frame"}         \* an exit ends in its time, or when its frame says so
Live == {"running", "loaded"}      \* the runtime listens

Slot == [templateId : Templates, signature : Forms, lastTrigger : Nat,
         document : Documents,
         shows : Data,             \* the variables its document has
         posted : Data \cup {None}, iframeReady : BOOLEAN,
         hooks : SUBSET Phases,    \* as reported
         reported : BOOLEAN,       \* the runtime has nothing more to report
         since : Nat,              \* trigger when its document was made (history)
         entrances : Nat]          \* played in its document (history)

ASSUME NoneIsNoSlot == None \notin Slot

\* A document is of the kind of its template, and what was reported came from a
\* runtime that took it.
WellFormed(s) ==
  /\ s.document = "layers" <=> s.signature.kind = "layers"
  /\ s.document \in {"blank", "failed"} => s.signature.kind = "file"
  /\ s.hooks # {} => s.document \in Live /\ s.hooks \subseteq s.signature.own
  /\ s.document = "loaded" => s.iframeReady

TypeOK ==
  /\ def \in [Templates -> Forms \cup {None}]
  /\ shown \in [Keys -> Templates \cup {None}]
  /\ trigger \in [Keys -> Nat] /\ data \in Data
  /\ slots \in [Keys -> Slot \cup {None}]
  /\ leaving \in [Exits -> Nat]
  /\ scheduled \in BOOLEAN /\ events \in 0..MaxEvents
  /\ \A k \in Keys : slots[k] # None => WellFormed(slots[k])

\* The page has its replicants and renders for the first time.
Init ==
  /\ def \in [Templates -> Forms]
  /\ shown = [k \in Keys |-> None]
  /\ trigger = [k \in Keys |-> 0] /\ data \in Data
  /\ slots = [k \in Keys |-> None] /\ leaving = [e \in Exits |-> 0] /\ scheduled = FALSE
  /\ events = 0

-----------------------------------------------------------------------------
(* The replicants *)

Event == events < MaxEvents /\ events' = events + 1

Changed == Event /\ scheduled' = TRUE /\ UNCHANGED <<slots, leaving>>

\* A placement is switched on, with a trigger; the title is switched to
\* another template.
Show(k, t) ==
  /\ Changed
  /\ shown' = [shown EXCEPT ![k] = t]
  /\ trigger' = [trigger EXCEPT ![k] = @ + 1]
  /\ UNCHANGED <<def, data>>

Hide(k) ==
  /\ Changed /\ shown[k] # None
  /\ shown' = [shown EXCEPT ![k] = None]
  /\ UNCHANGED <<def, trigger, data>>

EditTemplate(t, f) ==
  /\ Changed /\ def[t] # f
  /\ def' = [def EXCEPT ![t] = f]
  /\ UNCHANGED <<shown, trigger, data>>

EditData(d) ==
  /\ Changed /\ data # d
  /\ data' = d
  /\ UNCHANGED <<def, shown, trigger>>

-----------------------------------------------------------------------------
(* render *)

Desired(k) == shown[k] # None /\ def[shown[k]] # None

\* createSlot and rebuildSlot.  A frame that has no source loads about:blank as
\* soon as it is inserted; one with a srcdoc loads that only.
Made(t, n) ==
  LET kind == def[t].kind
  IN [templateId |-> t, signature |-> def[t], lastTrigger |-> n,
      document |-> CASE kind = "layers" -> "layers"
                     [] kind = "inline" -> "opening"
                     [] kind = "file"   -> "blank",
      shows |-> data,
      posted |-> IF kind = "inline" THEN data ELSE None,
      iframeReady |-> kind = "file",
      hooks |-> {}, reported |-> FALSE,
      since |-> n, entrances |-> IF kind = "layers" THEN 1 ELSE 0]

ReplayEnter(s, n) ==
  [s EXCEPT !.lastTrigger = n,
            !.entrances = IF s.document = "layers" \/ "show" \in s.hooks THEN @ + 1 ELSE @]

\* What is posted to a frame before its runtime listens is lost.
UpdateSlotData(s) ==
  IF s.document = "layers" THEN [s EXCEPT !.shows = data]
  ELSE IF ~s.iframeReady \/ s.posted = data THEN s
  ELSE [s EXCEPT !.posted = data,
                 !.shows = IF s.document \in Live THEN data ELSE @]

\* A slip: an edit of the template is not looked for.
FreshById(k) == slots[k] = None \/ slots[k].templateId # shown[k]

\* A slot is made, or made anew when its template was edited.
Fresh(k) ==
  \/ slots[k] = None
  \/ slots[k].templateId # shown[k]
  \/ slots[k].signature # def[shown[k]]

Drawn(k) ==
  UpdateSlotData(IF Fresh(k) THEN Made(shown[k], trigger[k])
                 ELSE IF slots[k].lastTrigger # trigger[k] THEN ReplayEnter(slots[k], trigger[k])
                 ELSE slots[k])

\* A slot leaves at once, or when its exit is over: the layers' in their time,
\* a frame's when it says so, within the time it has.  The template is the one of
\* this moment, and may be gone.
Leaves(k) == slots[k] # None /\ (~Desired(k) \/ slots[k].templateId # shown[k])

ExitSlot(k) ==
  LET template == def[slots[k].templateId]
  IN CASE template = None                                         -> None
       [] template # None /\ template.kind = "layers"             ->
            IF "hide" \in template.own THEN "time" ELSE None
       [] template # None /\ template.kind # "layers"             ->
            IF "hide" \in slots[k].hooks THEN "frame" ELSE None

\* The load of about:blank asks for another render.
Render ==
  /\ scheduled
  /\ slots' = [k \in Keys |-> IF Desired(k) THEN Drawn(k) ELSE None]
  /\ leaving' = [e \in Exits |-> leaving[e] + Cardinality({k \in Keys : Leaves(k) /\ ExitSlot(k) = e})]
  /\ scheduled' = \E k \in Keys : Desired(k) /\ Fresh(k) /\ def[shown[k]].kind = "file"
  /\ UNCHANGED <<asked, events>>

-----------------------------------------------------------------------------
(* Frames and exits *)

Frame(k) == slots[k] # None /\ slots[k].document # "layers"

\* The file of a sourced document is there; its document is made of the
\* variables of the time the frame was made.
FileFetched(k) ==
  /\ Frame(k) /\ slots[k].document = "blank"
  /\ slots' = [slots EXCEPT ![k].document = "opening"]
  /\ UNCHANGED <<asked, leaving, scheduled, events>>

\* It cannot be fetched: the frame says so instead, and is loaded as well.
FetchFails(k) ==
  /\ Event
  /\ Frame(k) /\ slots[k].document = "blank"
  /\ slots' = [slots EXCEPT ![k].document = "failed"]
  /\ scheduled' = TRUE
  /\ UNCHANGED <<asked, leaving>>

\* The runtime and the animation's script run: a fresh document is "in".
FrameRuns(k) ==
  /\ Frame(k) /\ slots[k].document = "opening"
  /\ slots' = [slots EXCEPT ![k].document = "running",
                            ![k].entrances = IF "show" \in slots[k].signature.own THEN 1 ELSE 0]
  /\ UNCHANGED <<asked, leaving, scheduled, events>>

\* A slip: the load does not ask for a render.
FrameLoadsQuietly(k) ==
  /\ Frame(k) /\ slots[k].document = "running"
  /\ slots' = [slots EXCEPT ![k].document = "loaded", ![k].iframeReady = TRUE]
  /\ UNCHANGED <<asked, leaving, scheduled, events>>

FrameLoads(k) ==
  /\ Frame(k) /\ slots[k].document = "running"
  /\ slots' = [slots EXCEPT ![k].document = "loaded", ![k].iframeReady = TRUE]
  /\ scheduled' = TRUE
  /\ UNCHANGED <<asked, leaving, events>>

\* A slip: finishEnter sends "in" to an animation that has reported its onShow.
HooksPlayEntrance(k, hooks) ==
  /\ Frame(k) /\ slots[k].document \in Live /\ ~slots[k].reported
  /\ hooks \subseteq slots[k].signature.own /\ slots[k].hooks \subseteq hooks
  /\ slots' = [slots EXCEPT
       ![k].hooks = hooks,
       ![k].entrances = IF "show" \in hooks THEN @ + 1 ELSE @,
       ![k].reported = hooks = slots[k].signature.own]
  /\ UNCHANGED <<asked, leaving, scheduled, events>>

\* postHooks, at each onHide and at last when the document is parsed; the page
\* takes no notice while the template is gone.
HooksReported(k, hooks) ==
  /\ Frame(k) /\ slots[k].document \in Live /\ ~slots[k].reported
  /\ hooks \subseteq slots[k].signature.own /\ slots[k].hooks \subseteq hooks
  /\ slots' = [slots EXCEPT
       ![k].hooks = IF def[slots[k].templateId] = None THEN @ ELSE hooks,
       ![k].reported = hooks = slots[k].signature.own]
  /\ UNCHANGED <<asked, leaving, scheduled, events>>

\* hideDone of a frame that is leaving.
PhaseDone ==
  /\ leaving["frame"] > 0
  /\ leaving' = [leaving EXCEPT !["frame"] = @ - 1]
  /\ UNCHANGED <<asked, slots, scheduled, events>>

\* A slip: an exit that a frame took waits for its word alone.
ExitTimeoutOfLayers(e) ==
  /\ e = "time" /\ leaving[e] > 0
  /\ leaving' = [leaving EXCEPT ![e] = @ - 1]
  /\ UNCHANGED <<asked, slots, scheduled, events>>

\* The time of an exit is over.
ExitTimeout(e) ==
  /\ leaving[e] > 0
  /\ leaving' = [leaving EXCEPT ![e] = @ - 1]
  /\ UNCHANGED <<asked, slots, scheduled, events>>

-----------------------------------------------------------------------------

FrameStep(k) ==
  FileFetched(k) \/ FrameRuns(k) \/ FrameLoads(k) \/ \E hooks \in SUBSET Phases : HooksReported(k, hooks)

Next ==
  \/ \E k \in Keys, t \in Templates : Show(k, t)
  \/ \E k \in Keys : Hide(k)
  \/ \E t \in Templates, f \in Forms \cup {None} : EditTemplate(t, f)
  \/ \E d \in Data : EditData(d)
  \/ Render
  \/ \E k \in Keys : FrameStep(k) \/ FetchFails(k)
  \/ PhaseDone
  \/ \E e \in Exits : ExitTimeout(e)

\* Animation frames and timeouts come, fetches end and frames load.
Fairness ==
  /\ WF_vars(Render)
  /\ \A k \in Keys : WF_vars(FileFetched(k)) /\ WF_vars(FrameRuns(k)) /\ WF_vars(FrameLoads(k))
  /\ \A e \in Exits : WF_vars(ExitTimeout(e))

Spec == Init /\ [][Next]_vars /\ Fairness

-----------------------------------------------------------------------------

\* render, scheduleRender: when no render is asked for, every instance of the
\* replicants has a slot of its template as it is now, and nothing else has one.
QuietStageIsAsked ==
  ~scheduled => \A k \in Keys :
    /\ slots[k] # None <=> Desired(k)
    /\ Desired(k) => /\ slots[k].templateId = shown[k] /\ slots[k].signature = def[shown[k]]
                     /\ slots[k].lastTrigger = trigger[k]

\* out.ts:434: the variables that changed while a frame was loading reach it
\* when it is loaded.
Current(k) == ~scheduled /\ slots[k] # None /\ slots[k].document \in {"layers", "loaded"} => slots[k].shows = data

LoadedFrameIsCurrent == \A k \in Keys : Current(k)

\* The same of the layers and of the frames that are made of their template alone.
InlineIsCurrent == \A k \in Keys : slots[k] # None /\ slots[k].signature.kind # "file" => Current(k)

\* notGT/README.md:1616: onShow is called once per show.  A document's entrance is played
\* no more often than the instance was triggered since it was made; neither an
\* edit of the variables nor a late report of the hooks plays it.
OneEntrancePerShow ==
  \A k \in Keys : slots[k] # None => slots[k].entrances <= 1 + trigger[k] - slots[k].since

\* Once nothing changes any more, the exits end, the frames load and the stage is
\* and stays what is asked for, whatever was in between.
StageSettles ==
  <>[](/\ ~scheduled /\ leaving = [e \in Exits |-> 0]
       /\ \A k \in Keys : Frame(k) => slots[k].document \in {"loaded", "failed"})

=============================================================================
