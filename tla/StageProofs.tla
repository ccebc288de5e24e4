----------------------------- MODULE StageProofs -----------------------------
(***************************************************************************)
(* Proofs about Stage, for any instances, templates, forms and variables.  *)
(*                                                                         *)
(* The properties speak of the slots, and a slot is only ever made by      *)
(* Drawn, which may make it anew, replay its entrance and post variables   *)
(* to it, or changed by its frame.  So the inductive invariant is one      *)
(* about slots, SlotInv, which each of these operators keeps, and the      *)
(* agreement of slots and replicants when no render is asked for.          *)
(***************************************************************************)
EXTENDS Stage, FiniteSetTheorems, TLAPS

\* Entrances are counted against the trigger the page has drawn, which is never
\* ahead of the replicants'.
Counts(s, n) ==
  /\ s.since <= s.lastTrigger /\ s.lastTrigger <= n
  /\ s.entrances <= 1 + s.lastTrigger - s.since

\* The document of an inline animation shows what was posted, and is posted to
\* only once it is loaded.
Inline(s) ==
  s.signature.kind = "inline" => /\ s.shows = s.posted
                                 /\ s.iframeReady => s.document = "loaded"

SlotInv(s, n) == s \in Slot /\ WellFormed(s) /\ Counts(s, n) /\ Inline(s)

\* What a render leaves: the layers and whatever has been loaded know the data.
Told(s) ==
  /\ s.document = "layers" => s.shows = data
  /\ s.document # "layers" /\ s.iframeReady => s.posted = data

IInv ==
  /\ TypeOK
  /\ \A k \in Keys : slots[k] # None => SlotInv(slots[k], trigger[k])
  /\ ~scheduled => \A k \in Keys : slots[k] # None => Told(slots[k])
  /\ QuietStageIsAsked

-----------------------------------------------------------------------------
(* The operators of a render *)

\* createSlot, rebuildSlot.
LEMMA MadeInv ==
  ASSUME TypeOK, NEW t \in Templates, def[t] # None, NEW n \in Nat
  PROVE  /\ SlotInv(Made(t, n), n)
         /\ Made(t, n).templateId = t /\ Made(t, n).signature = def[t] /\ Made(t, n).lastTrigger = n
<1>1. def[t] \in Forms /\ data \in Data
  BY DEF TypeOK
<1>2. def[t].kind \in Kinds
  BY <1>1, StageAssumption
<1>3. Made(t, n) \in Slot
  BY <1>1, <1>2 DEF Made, Slot, Documents, Kinds
<1>4. /\ Made(t, n).templateId = t /\ Made(t, n).signature = def[t]
      /\ Made(t, n).lastTrigger = n /\ Made(t, n).since = n
      /\ Made(t, n).entrances \in {0, 1} /\ Made(t, n).hooks = {}
      /\ Made(t, n).shows = data
  BY DEF Made
<1>5. Counts(Made(t, n), n)
  BY <1>4 DEF Counts
<1>6. CASE def[t].kind = "layers"
  <2>1. Made(t, n).document = "layers"
    BY <1>6 DEF Made
  <2> QED  BY <1>3, <1>4, <1>5, <1>6, <2>1 DEF WellFormed, Inline, SlotInv
<1>7. CASE def[t].kind = "inline"
  <2>1. Made(t, n).document = "opening" /\ Made(t, n).posted = data /\ ~Made(t, n).iframeReady
    BY <1>7 DEF Made
  <2> QED  BY <1>3, <1>4, <1>5, <1>7, <2>1 DEF WellFormed, Inline, SlotInv
<1>8. CASE def[t].kind = "file"
  <2>1. Made(t, n).document = "blank"
    BY <1>8 DEF Made
  <2> QED  BY <1>3, <1>4, <1>5, <1>8, <2>1 DEF WellFormed, Inline, SlotInv
<1> QED  BY <1>2, <1>4, <1>6, <1>7, <1>8 DEF Kinds

\* replayEnter: one more entrance at most, for a trigger the slot has not seen.
LEMMA ReplayInv ==
  ASSUME NEW s, NEW n \in Nat, SlotInv(s, n), s.lastTrigger # n
  PROVE  /\ SlotInv(ReplayEnter(s, n), n)
         /\ ReplayEnter(s, n).templateId = s.templateId
         /\ ReplayEnter(s, n).signature = s.signature
         /\ ReplayEnter(s, n).lastTrigger = n
<1> DEFINE r == ReplayEnter(s, n)
<1>1. s \in Slot /\ s.lastTrigger \in Nat /\ s.since \in Nat /\ s.entrances \in Nat
  BY DEF SlotInv, Slot
<1>2. r \in Slot
  <2> DEFINE e == IF s.document = "layers" \/ "show" \in s.hooks THEN s.entrances + 1 ELSE s.entrances
  <2>1. e \in Nat
    BY <1>1
  <2>2. r = [s EXCEPT !.lastTrigger = n, !.entrances = e]
    BY <1>1 DEF ReplayEnter, Slot
  <2> HIDE DEF e
  <2> QED  BY <1>1, <2>1, <2>2 DEF Slot
<1>3. /\ r.templateId = s.templateId /\ r.signature = s.signature /\ r.lastTrigger = n
      /\ r.document = s.document /\ r.shows = s.shows /\ r.posted = s.posted
      /\ r.iframeReady = s.iframeReady /\ r.hooks = s.hooks /\ r.since = s.since
      /\ r.entrances \in {s.entrances, s.entrances + 1}
  BY <1>1 DEF ReplayEnter, Slot
<1>4. WellFormed(r) /\ Inline(r)
  BY <1>3 DEF SlotInv, WellFormed, Inline
<1>5. Counts(r, n)
  BY <1>1, <1>3 DEF SlotInv, Counts
<1> QED  BY <1>2, <1>3, <1>4, <1>5 DEF SlotInv

\* updateSlotData.
LEMMA UpdateInv ==
  ASSUME TypeOK, NEW s, NEW n \in Nat, SlotInv(s, n)
  PROVE  /\ SlotInv(UpdateSlotData(s), n)
         /\ Told(UpdateSlotData(s))
         /\ UpdateSlotData(s).templateId = s.templateId
         /\ UpdateSlotData(s).signature = s.signature
         /\ UpdateSlotData(s).lastTrigger = s.lastTrigger
<1> DEFINE u == UpdateSlotData(s)
<1>1. s \in Slot /\ data \in Data
  BY DEF SlotInv, TypeOK
<1>2. u \in Slot
  BY <1>1 DEF UpdateSlotData, Slot
<1>3. /\ u.templateId = s.templateId /\ u.signature = s.signature /\ u.lastTrigger = s.lastTrigger
      /\ u.document = s.document /\ u.iframeReady = s.iframeReady /\ u.hooks = s.hooks
      /\ u.since = s.since /\ u.entrances = s.entrances
  BY <1>1 DEF UpdateSlotData, Slot
<1>4. WellFormed(u) /\ Counts(u, n)
  BY <1>3 DEF SlotInv, WellFormed, Counts
<1>5. Inline(u)
  BY <1>1 DEF SlotInv, WellFormed, Inline, UpdateSlotData, Slot, Live
<1>6. Told(u)
  <2>1. CASE s.document = "layers"
    <3>1. u.shows = data
      BY <1>1, <2>1 DEF UpdateSlotData, Slot
    <3> QED  BY <1>3, <2>1, <3>1 DEF Told
  <2>2. CASE s.document # "layers"
    <3>1. s.iframeReady => u.posted = data
      BY <1>1, <2>2 DEF UpdateSlotData, Slot
    <3> QED  BY <1>3, <2>2, <3>1 DEF Told
  <2> QED  BY <2>1, <2>2
<1> QED  BY <1>2, <1>3, <1>4, <1>5, <1>6 DEF SlotInv

\* What a render makes of an instance that is asked for, from nothing, from a
\* slot of another template or form, or from its slot.
LEMMA DrawnInv ==
  ASSUME TypeOK, NEW k \in Keys, Desired(k), slots[k] # None => SlotInv(slots[k], trigger[k])
  PROVE  /\ SlotInv(Drawn(k), trigger[k]) /\ Told(Drawn(k))
         /\ Drawn(k).templateId = shown[k] /\ Drawn(k).signature = def[shown[k]]
         /\ Drawn(k).lastTrigger = trigger[k]
<1>1. trigger[k] \in Nat /\ shown[k] \in Templates /\ def[shown[k]] # None
  BY DEF TypeOK, Desired
<1>2. CASE Fresh(k)
  <2>1. Drawn(k) = UpdateSlotData(Made(shown[k], trigger[k]))
    BY <1>2 DEF Drawn
  <2> QED  BY <1>1, <2>1, MadeInv, UpdateInv
<1>3. CASE ~Fresh(k) /\ slots[k].lastTrigger # trigger[k]
  <2>1. Drawn(k) = UpdateSlotData(ReplayEnter(slots[k], trigger[k]))
    BY <1>3 DEF Drawn
  <2>2. SlotInv(slots[k], trigger[k]) /\ slots[k].templateId = shown[k] /\ slots[k].signature = def[shown[k]]
    BY <1>3 DEF Fresh
  <2> QED  BY <1>1, <1>3, <2>1, <2>2, ReplayInv, UpdateInv
<1>4. CASE ~Fresh(k) /\ slots[k].lastTrigger = trigger[k]
  <2>1. Drawn(k) = UpdateSlotData(slots[k])
    BY <1>4 DEF Drawn
  <2>2. SlotInv(slots[k], trigger[k]) /\ slots[k].templateId = shown[k] /\ slots[k].signature = def[shown[k]]
    BY <1>4 DEF Fresh
  <2> QED  BY <1>1, <1>4, <2>1, <2>2, UpdateInv
<1> QED  BY <1>2, <1>3, <1>4

-----------------------------------------------------------------------------
(* The steps *)

LEMMA InitInv == Init => IInv
<1> SUFFICES ASSUME Init PROVE IInv
  OBVIOUS
<1>1. TypeOK
  <2>1. def \in [Templates -> Forms \cup {None}] /\ events \in 0..MaxEvents
    BY StageAssumption DEF Init
  <2> QED  BY <2>1 DEF Init, TypeOK, Exits
<1>2. QuietStageIsAsked
  BY DEF Init, QuietStageIsAsked, Desired
<1> QED  BY <1>1, <1>2 DEF Init, IInv

\* A change of the replicants leaves the slots and asks for a render.
LEMMA ChangedInv ==
  ASSUME IInv, Changed,
         def' \in [Templates -> Forms \cup {None}], shown' \in [Keys -> Templates \cup {None}],
         trigger' \in [Keys -> Nat], data' \in Data,
         \A k \in Keys : trigger[k] <= trigger'[k]
  PROVE  IInv'
<1>1. TypeOK'
  BY StageAssumption DEF IInv, TypeOK, Changed, Event
<1>2. ASSUME NEW k \in Keys, slots'[k] # None
      PROVE  SlotInv(slots'[k], trigger'[k])
  <2>1. slots'[k] = slots[k] /\ SlotInv(slots[k], trigger[k])
    BY <1>2 DEF Changed, IInv
  <2>2. slots[k].lastTrigger \in Nat /\ trigger[k] \in Nat /\ trigger'[k] \in Nat
    BY <2>1 DEF SlotInv, Slot, IInv, TypeOK
  <2>3. Counts(slots[k], trigger'[k])
    BY <2>1, <2>2 DEF SlotInv, Counts
  <2> QED  BY <2>1, <2>3 DEF SlotInv
<1> QED  BY <1>1, <1>2 DEF IInv, Changed, QuietStageIsAsked

LEMMA RenderInv ==
  ASSUME IInv, Render
  PROVE  IInv'
<1>1. \A k \in Keys : Desired(k) => /\ SlotInv(Drawn(k), trigger[k]) /\ Told(Drawn(k))
                                    /\ Drawn(k).templateId = shown[k] /\ Drawn(k).signature = def[shown[k]]
                                    /\ Drawn(k).lastTrigger = trigger[k]
  BY DrawnInv DEF IInv
<1>2. \A k \in Keys : slots'[k] = IF Desired(k) THEN Drawn(k) ELSE None
  BY DEF Render
<1>3. \A k \in Keys : Drawn(k) # None \/ ~Desired(k)
  BY <1>1, NoneIsNoSlot DEF SlotInv
<1>4. slots' \in [Keys -> Slot \cup {None}]
  BY <1>1 DEF Render, SlotInv
<1>5. \A k \in Keys : slots'[k] # None => SlotInv(slots'[k], trigger'[k]) /\ Told(slots[k])'
  BY <1>1, <1>2 DEF Told, Render, asked
<1>6. leaving' \in [Exits -> Nat]
  <2>1. \A e \in Exits : Cardinality({k \in Keys : Leaves(k) /\ ExitSlot(k) = e}) \in Nat
    BY StageAssumption, FS_Subset, FS_CardinalityType
  <2> QED  BY <2>1 DEF Render, IInv, TypeOK
<1>7. TypeOK'
  BY <1>4, <1>5, <1>6 DEF IInv, TypeOK, Render, asked, SlotInv
<1>8. QuietStageIsAsked'
  BY <1>1, <1>2, <1>3 DEF QuietStageIsAsked, Desired, Render, asked
<1> QED  BY <1>5, <1>7, <1>8 DEF IInv

\* One frame changes its slot, and asks for a render or tells its variables no
\* less than before.
LEMMA SlotChanged ==
  ASSUME IInv, NEW k \in Keys, slots[k] # None, NEW s,
         slots' = [slots EXCEPT ![k] = s],
         SlotInv(s, trigger[k]),
         s.templateId = slots[k].templateId, s.signature = slots[k].signature,
         s.lastTrigger = slots[k].lastTrigger,
         UNCHANGED <<asked, leaving>>, events' \in 0..MaxEvents,
         scheduled' \/ (~scheduled /\ ~scheduled' /\ (Told(slots[k]) => Told(s))),
         scheduled' \in BOOLEAN
  PROVE  IInv'
<1>1. s \in Slot /\ s # None
  BY NoneIsNoSlot DEF SlotInv
<1>2. slots' \in [Keys -> Slot \cup {None}] /\ slots'[k] = s
  BY <1>1 DEF IInv, TypeOK
<1>3. \A j \in Keys \ {k} : slots'[j] = slots[j]
  BY DEF IInv, TypeOK
<1>4. TypeOK'
  BY <1>2, <1>3 DEF IInv, TypeOK, SlotInv, asked
<1>5. \A j \in Keys : slots'[j] # None => SlotInv(slots'[j], trigger'[j])
  BY <1>2, <1>3 DEF IInv, asked
<1>6. ASSUME ~scheduled', NEW j \in Keys, slots'[j] # None
      PROVE  Told(slots[j])'
  BY <1>2, <1>3, <1>6 DEF IInv, Told, asked
<1>7. QuietStageIsAsked'
  BY <1>1, <1>2, <1>3 DEF IInv, QuietStageIsAsked, Desired, asked
<1> QED  BY <1>4, <1>5, <1>6, <1>7 DEF IInv

LEMMA FrameInv ==
  ASSUME IInv, NEW k \in Keys, FrameStep(k) \/ FetchFails(k)
  PROVE  IInv'
<1>1. /\ slots[k] # None /\ SlotInv(slots[k], trigger[k]) /\ slots[k] \in Slot
      /\ events \in 0..MaxEvents /\ MaxEvents \in Nat /\ scheduled \in BOOLEAN
  BY StageAssumption
     DEF IInv, TypeOK, SlotInv, FrameStep, FetchFails, FileFetched, FrameRuns, FrameLoads, HooksReported, Frame
<1>2. CASE FileFetched(k)
  <2> DEFINE s == [slots[k] EXCEPT !.document = "opening"]
  <2>1. s \in Slot
    BY <1>1 DEF Slot, Documents
  <2>2. SlotInv(s, trigger[k]) /\ (Told(slots[k]) => Told(s))
    BY <1>1, <1>2, <2>1 DEF FileFetched, SlotInv, WellFormed, Counts, Inline, Told, Slot, Live
  <2> QED  BY <1>1, <1>2, <2>1, <2>2, SlotChanged DEF FileFetched, Slot
<1>3. CASE FetchFails(k)
  <2> DEFINE s == [slots[k] EXCEPT !.document = "failed"]
  <2>1. s \in Slot
    BY <1>1 DEF Slot, Documents
  <2>2. SlotInv(s, trigger[k])
    BY <1>1, <1>3, <2>1 DEF FetchFails, SlotInv, WellFormed, Counts, Inline, Slot, Live
  <2>3. slots' = [slots EXCEPT ![k] = s] /\ scheduled' /\ events' \in 0..MaxEvents
    BY <1>1, <1>3 DEF FetchFails, Event
  <2> QED  BY <1>1, <1>3, <2>1, <2>2, <2>3, SlotChanged DEF FetchFails, Slot
<1>4. CASE FrameRuns(k)
  <2> DEFINE n == IF "show" \in slots[k].signature.own THEN 1 ELSE 0
             s == [slots[k] EXCEPT !.document = "running", !.entrances = n]
  <2>1. s \in Slot
    BY <1>1 DEF Slot, Documents
  <2>2. SlotInv(s, trigger[k]) /\ (Told(slots[k]) => Told(s))
    BY <1>1, <1>4, <2>1 DEF FrameRuns, SlotInv, WellFormed, Counts, Inline, Told, Slot, Live
  <2>3. slots' = [slots EXCEPT ![k] = s]
    BY <1>4 DEF FrameRuns
  <2> QED  BY <1>1, <1>4, <2>1, <2>2, <2>3, SlotChanged DEF FrameRuns, Slot
<1>5. CASE FrameLoads(k)
  <2> DEFINE s == [slots[k] EXCEPT !.document = "loaded", !.iframeReady = TRUE]
  <2>1. s \in Slot
    BY <1>1 DEF Slot, Documents
  <2>2. SlotInv(s, trigger[k])
    BY <1>1, <1>5, <2>1 DEF FrameLoads, SlotInv, WellFormed, Counts, Inline, Slot, Live
  <2>3. slots' = [slots EXCEPT ![k] = s]
    BY <1>5 DEF FrameLoads
  <2> QED  BY <1>1, <1>5, <2>1, <2>2, <2>3, SlotChanged DEF FrameLoads, Slot
<1>6. ASSUME NEW hooks \in SUBSET Phases, HooksReported(k, hooks)
      PROVE  IInv'
  <2> DEFINE h == IF def[slots[k].templateId] = None THEN slots[k].hooks ELSE hooks
             s == [slots[k] EXCEPT !.hooks = h, !.reported = (hooks = slots[k].signature.own)]
  <2>1. h \in SUBSET Phases /\ s \in Slot
    BY <1>1 DEF Slot
  <2>2. SlotInv(s, trigger[k]) /\ (Told(slots[k]) => Told(s))
    BY <1>1, <1>6, <2>1 DEF HooksReported, SlotInv, WellFormed, Counts, Inline, Told, Slot
  <2>3. slots' = [slots EXCEPT ![k] = s]
    BY <1>6 DEF HooksReported
  <2> QED  BY <1>1, <1>6, <2>1, <2>2, <2>3, SlotChanged DEF HooksReported, Slot
<1> QED  BY <1>2, <1>3, <1>4, <1>5, <1>6 DEF FrameStep

\* The steps that change neither the replicants nor the slots.
LEMMA ExitInv ==
  ASSUME IInv, PhaseDone \/ (\E e \in Exits : ExitTimeout(e)) \/ UNCHANGED vars
  PROVE  IInv'
<1>1. leaving' \in [Exits -> Nat]
  BY DEF IInv, TypeOK, PhaseDone, ExitTimeout, vars, page, Exits
<1>2. UNCHANGED <<asked, slots, scheduled, events>>
  BY DEF PhaseDone, ExitTimeout, vars, page
<1> QED  BY <1>1, <1>2 DEF IInv, TypeOK, QuietStageIsAsked, Desired, Told, asked

LEMMA NextInv == IInv /\ [Next]_vars => IInv'
<1> SUFFICES ASSUME IInv, [Next]_vars PROVE IInv'
  OBVIOUS
<1> USE DEF IInv, TypeOK
<1>1. ASSUME NEW k \in Keys, NEW t \in Templates, Show(k, t)
      PROVE  IInv'
  <2>1. Changed /\ shown' \in [Keys -> Templates \cup {None}] /\ trigger' \in [Keys -> Nat]
    BY <1>1 DEF Show
  <2>2. \A j \in Keys : trigger[j] <= trigger'[j]
    BY <1>1 DEF Show
  <2> QED  BY <1>1, <2>1, <2>2, ChangedInv DEF Show
<1>2. ASSUME NEW k \in Keys, Hide(k)
      PROVE  IInv'
  BY <1>2, ChangedInv DEF Hide
<1>3. ASSUME NEW t \in Templates, NEW f \in Forms \cup {None}, EditTemplate(t, f)
      PROVE  IInv'
  BY <1>3, ChangedInv DEF EditTemplate
<1>4. ASSUME NEW d \in Data, EditData(d)
      PROVE  IInv'
  BY <1>4, ChangedInv DEF EditData
<1> QED
  BY <1>1, <1>2, <1>3, <1>4, RenderInv, FrameInv, ExitInv DEF Next

-----------------------------------------------------------------------------
(* The properties *)

LEMMA Invariant == Spec => []IInv
BY InitInv, NextInv, PTL DEF Spec

\* TypeOK: a slot's document is of the kind of its template, and what it reported
\* came from a runtime that took it (render, setupCodeIframe, postHooks).
THEOREM StageTypeCorrect == Spec => []TypeOK
BY Invariant, PTL DEF IInv

\* When no render is asked for, the slots are those of the instances that are
\* asked for, of their templates as they are now (scheduleRender, render).
THEOREM QuietStage == Spec => []QuietStageIsAsked
BY Invariant, PTL DEF IInv

\* The layers and every loaded inline animation show the variables of now
\* (setupCodeIframe, updateSlotData).
THEOREM InlineShowsData == Spec => []InlineIsCurrent
<1>1. IInv => InlineIsCurrent
  <2> SUFFICES ASSUME IInv, NEW k \in Keys, slots[k] # None, slots[k].signature.kind # "file",
                      ~scheduled, slots[k].document \in {"layers", "loaded"}
               PROVE  slots[k].shows = data
    BY DEF InlineIsCurrent, Current
  <2>1. SlotInv(slots[k], trigger[k]) /\ Told(slots[k])
    BY DEF IInv
  <2>2. slots[k].signature.kind \in Kinds
    BY <2>1, StageAssumption DEF SlotInv, Slot
  <2> QED  BY <2>1, <2>2 DEF SlotInv, WellFormed, Inline, Told, Kinds
<1> QED  BY <1>1, Invariant, PTL

\* A document's entrance is played no more often than its instance was triggered
\* since it was made (enterSlot, finishEnter, replayEnter, onShow).
THEOREM EntrancesCount == Spec => []OneEntrancePerShow
<1>1. IInv => OneEntrancePerShow
  BY DEF IInv, TypeOK, SlotInv, Slot, Counts, OneEntrancePerShow
<1> QED  BY <1>1, Invariant, PTL

=============================================================================
