------------------------------- MODULE Editor -------------------------------
(***************************************************************************)
(* What the editor page works on (dashboard/editor.tsx, EditorApp, one     *)
(* out).  The animation that is edited follows from the active placement   *)
(* or from the library; an effect loads a working copy of it, the draft,   *)
(* whenever it is another one, and Save writes the draft back.  Helpers    *)
(* read what the page has just written, but the lists that are shown are   *)
(* those of the last echoes (useOuts), so an effect may run between a      *)
(* write and its echo.  An animation is the set of the edits made to it, a *)
(* placement is named by its animation.                                    *)
(***************************************************************************)
EXTENDS Naturals, Sequences, SequencesExt, FiniteSets

CONSTANTS Existing,   \* the animations there are, each placed once at most
          Fresh,      \* ids for those made in the editor
          Code,       \* the code animations, which have no layers
          Edits,      \* names for edits, each made once
          None, Absent

Templates == Existing \cup Fresh

\* The size that a clip gave its layer is an edit as well.
Size(e) == <<e>>
Changes == Edits \cup {Size(e) : e \in Edits}
Drafts == [id : Templates, edits : SUBSET Changes]

ASSUME EditorAssumption ==
  /\ Existing \cap Fresh = {} /\ Code \subseteq Existing /\ None \notin Templates \cup Drafts
  /\ IsFiniteSet(Existing)
  /\ \A d, e \in Edits : d # Size(e)

VARIABLES
  templates,   \* the animations' contents, as the page reads them (getTemplate)
  placed,      \* the out's placements, as the page reads them (getOut)
  items,       \* those that are shown
  shown,       \* the animations that are shown in the library
  active,      \* activeItemId
  library,     \* libraryId
  cleared,     \* userCleared
  edited,      \* editingTemplateId when the effects ran last
  draft,       \* the working copy: the animation and its edits
  dirty,
  probes,      \* clips whose size is being asked for
  born,        \* fresh ids that have been used
  made,        \* the animation each edit was made for
  added        \* the edit of "+ Layer", if that was done last

store == <<templates, placed>>
seen == <<items, shown>>
choice == <<active, library, cleared>>
work == <<draft, dirty>>
vars == <<store, seen, choice, edited, work, probes, born, made, added>>

Draft(t, edits) == [id |-> t, edits |-> edits]
Stored(t) == IF t # None /\ templates[t] # Absent THEN Draft(t, templates[t]) ELSE None

Init ==
  /\ shown \in SUBSET Existing
  /\ templates = [t \in Templates |-> IF t \in shown THEN {} ELSE Absent]
  /\ placed \in SetToAllKPermutations(shown) /\ items = placed
  /\ active = None /\ library = None /\ cleared = FALSE
  /\ edited = None /\ draft = None /\ dirty = FALSE
  /\ probes = {} /\ born = {}
  /\ made = [e \in Edits |-> None] /\ added = None

\* The filter of the placements, each of another animation.
Unplaced(t) ==
  IF t \notin ToSet(placed) THEN placed
  ELSE RemoveAt(placed, CHOOSE i \in DOMAIN placed : placed[i] = t)

-----------------------------------------------------------------------------
(* Effects *)

\* editingTemplateId
Editing == IF active \in ToSet(items) THEN active ELSE library

DefaultDue ==
  /\ active = None /\ library = None /\ ~cleared
  /\ items # <<>> \/ shown # {}

\* A slip: a draft with unsaved edits is kept.
LoadUnlessDirty ==
  IF Editing = edited \/ dirty
    THEN edited' = Editing /\ UNCHANGED work
    ELSE edited' = Editing /\ draft' = Stored(Editing) /\ dirty' = FALSE

\* The effect that loads a fresh working copy.
Load ==
  IF Editing = edited
    THEN UNCHANGED <<edited, work>>
    ELSE edited' = Editing /\ draft' = Stored(Editing) /\ dirty' = FALSE

\* The effects of a render run before anything else happens.
Effects ==
  /\ Editing # edited \/ DefaultDue
  /\ IF ~DefaultDue THEN UNCHANGED <<active, library>>
     ELSE IF items # <<>> THEN active' = Head(items) /\ UNCHANGED library
     ELSE UNCHANGED active /\ \E t \in shown : library' = t
  /\ Load
  /\ UNCHANGED <<store, seen, cleared, probes, born, made, added>>

Settled == Editing = edited /\ ~DefaultDue

\* confirmDiscard: the operator is asked when there are unsaved changes.
MayDiscard(ok) == dirty => ok

Choose(a, l) == active' = a /\ library' = l

-----------------------------------------------------------------------------
(* Edits of the draft *)

Make(e, t) == made[e] = None /\ made' = [made EXCEPT ![e] = t]

\* mutate
Mutate(e) ==
  /\ Settled /\ draft # None
  /\ Make(e, draft.id)
  /\ draft' = [draft EXCEPT !.edits = @ \cup {e}]
  /\ dirty' = TRUE
  /\ added' = None
  /\ UNCHANGED <<store, seen, choice, edited, probes, born>>

\* pickLayerMedia, up to the await of the clip's size.
PickLayerMedia(e) ==
  /\ Settled /\ draft # None /\ draft.id \notin Code
  /\ Make(e, draft.id)
  /\ draft' = [draft EXCEPT !.edits = @ \cup {e}]
  /\ dirty' = TRUE
  /\ probes' = probes \cup {e}
  /\ added' = None
  /\ UNCHANGED <<store, seen, choice, edited, born>>

\* A slip: the size goes to whatever is being edited.
ProbedUnchecked(e) ==
  /\ Settled /\ e \in probes
  /\ probes' = probes \ {e}
  /\ draft' = IF draft # None THEN [draft EXCEPT !.edits = @ \cup {Size(e)}] ELSE draft
  /\ dirty' = TRUE
  /\ UNCHANGED <<store, seen, choice, edited, born, made, added>>

\* The size is known: only the layer it was asked for takes it, though any draft
\* counts as changed.
Probed(e) ==
  /\ Settled /\ e \in probes
  /\ probes' = probes \ {e}
  /\ draft' = IF draft # None /\ e \in draft.edits THEN [draft EXCEPT !.edits = @ \cup {Size(e)}]
                                                  ELSE draft
  /\ dirty' = TRUE
  /\ UNCHANGED <<store, seen, choice, edited, born, made, added>>

ProbeFails(e) ==
  /\ e \in probes /\ probes' = probes \ {e}
  /\ UNCHANGED <<store, seen, choice, edited, work, born, made, added>>

\* persist: an animation that was deleted meanwhile is written again.
Persist ==
  /\ Settled /\ draft # None
  /\ templates' = [templates EXCEPT ![draft.id] = draft.edits]
  /\ dirty' = FALSE
  /\ added' = None
  /\ UNCHANGED <<placed, seen, choice, edited, draft, probes, born, made>>

\* renameTemplate: of the edited one in the draft, of another one at once.
RenameTemplate(t, e) ==
  /\ Settled /\ t \in shown /\ (t # Editing => templates[t] # Absent)
  /\ Make(e, t)
  /\ IF t = Editing
       THEN /\ draft' = IF draft # None THEN [draft EXCEPT !.edits = @ \cup {e}] ELSE draft
            /\ dirty' = TRUE
            /\ UNCHANGED templates
       ELSE /\ templates' = [templates EXCEPT ![t] = @ \cup {e}]
            /\ UNCHANGED work
  /\ added' = None
  /\ UNCHANGED <<placed, seen, choice, edited, probes, born>>

\* sizeItemToOut: only the size is saved, the rest stays a draft.
SizeItemToOut(t, e) ==
  /\ Settled /\ t \in ToSet(items) /\ templates[t] # Absent
  /\ Make(e, t)
  /\ templates' = [templates EXCEPT ![t] = @ \cup {e}]
  /\ draft' = IF draft # None /\ draft.id = t THEN [draft EXCEPT !.edits = @ \cup {e}] ELSE draft
  /\ added' = None
  /\ UNCHANGED <<placed, seen, choice, edited, dirty, probes, born>>

-----------------------------------------------------------------------------
(* The choice of what is edited *)

\* handleSelectItem(null), a click on the empty stage: nobody is asked.
Deselect ==
  /\ Settled
  /\ Choose(None, library) /\ cleared' = TRUE
  /\ added' = None
  /\ UNCHANGED <<store, seen, edited, work, probes, born, made>>

\* handleSelectItem
SelectItem(i, ok) ==
  /\ Settled /\ i \in ToSet(items) \ {active}
  /\ MayDiscard(ok)
  /\ Choose(i, None) /\ cleared' = FALSE
  /\ added' = None
  /\ UNCHANGED <<store, seen, edited, work, probes, born, made>>

\* selectLibrary, of an animation that is not placed.
SelectLibrary(t, ok) ==
  /\ Settled /\ t \in shown \ ToSet(items)
  /\ MayDiscard(ok)
  /\ Choose(None, t) /\ cleared' = FALSE
  /\ added' = None
  /\ UNCHANGED <<store, seen, edited, work, probes, born, made>>

\* placeTemplate: the animation that is edited is placed without asking.
PlaceTemplate(t, ok) ==
  /\ Settled /\ t \in shown \ ToSet(placed) /\ templates[t] # Absent
  /\ (Editing # None /\ Editing # t) => MayDiscard(ok)
  /\ placed' = Append(placed, t)
  /\ Choose(t, None) /\ cleared' = FALSE
  /\ added' = None
  /\ UNCHANGED <<templates, seen, edited, work, probes, born, made>>

\* addItem of what saveTemplate has just written.
Place(t) ==
  /\ born' = born \cup {t}
  /\ templates' = [templates EXCEPT ![t] = {}]
  /\ placed' = Append(placed, t)
  /\ Choose(t, None)

\* createTemplate, createFromExample, duplicate
Create(t, ok) ==
  /\ Settled /\ t \in Fresh \ born
  /\ MayDiscard(ok)
  /\ Place(t)
  /\ added' = None
  /\ UNCHANGED <<seen, cleared, edited, work, probes, made>>

\* addLayer, into the draft, or with startNewAnimation into a new one.
AddLayer(e, t, ok) ==
  /\ Settled
  /\ IF draft # None /\ draft.id \notin Code
       THEN /\ Make(e, draft.id)
            /\ draft' = [draft EXCEPT !.edits = @ \cup {e}]
            /\ UNCHANGED <<store, choice, born>>
       ELSE /\ Editing # None => MayDiscard(ok)
            /\ t \in Fresh \ born
            /\ Place(t) /\ cleared' = FALSE
            /\ Make(e, t)
            /\ draft' = Draft(t, {e})
  /\ dirty' = TRUE
  /\ added' = e
  /\ UNCHANGED <<seen, edited, probes>>

\* removeItemFromOut, once the operator has agreed.
RemoveItemFromOut(i) ==
  /\ Settled /\ i \in ToSet(items)
  /\ placed' = Unplaced(i)
  /\ IF i = active THEN active' = None /\ draft' = None /\ dirty' = FALSE
                   ELSE UNCHANGED <<active, work>>
  /\ added' = None
  /\ UNCHANGED <<templates, seen, library, cleared, edited, probes, born, made>>

\* removeTemplate, once the operator has agreed.
RemoveTemplate(t) ==
  /\ Settled /\ t \in shown /\ templates[t] # Absent
  /\ templates' = [templates EXCEPT ![t] = Absent]
  /\ placed' = Unplaced(t)
  /\ IF t = Editing THEN Choose(None, None) /\ draft' = None /\ dirty' = FALSE
                    ELSE UNCHANGED <<active, library, work>>
  /\ added' = None
  /\ UNCHANGED <<seen, cleared, edited, probes, born, made>>

-----------------------------------------------------------------------------
(* The server and other clients *)

\* The echoes of the two lists, which come one right after the other.
Echo ==
  /\ Settled
  /\ items' = placed /\ shown' = {t \in Templates : templates[t] # Absent}
  /\ seen' # seen
  /\ UNCHANGED <<store, choice, edited, work, probes, born, made, added>>

OtherEdits(t, e) ==
  /\ templates[t] # Absent
  /\ Make(e, t)
  /\ templates' = [templates EXCEPT ![t] = @ \cup {e}]
  /\ UNCHANGED <<placed, seen, choice, edited, work, probes, born, added>>

\* Another client deletes an animation, with its placement; the echo of what this
\* page wrote comes first.
OtherDeletes(t) ==
  /\ t \in shown /\ templates[t] # Absent
  /\ t \in ToSet(placed) => t \in ToSet(items)
  /\ templates' = [templates EXCEPT ![t] = Absent]
  /\ placed' = Unplaced(t)
  /\ added' = None
  /\ UNCHANGED <<seen, choice, edited, work, probes, born, made>>

Next ==
  \/ Effects \/ Persist \/ Deselect \/ Echo
  \/ \E e \in Edits :
       \/ Mutate(e) \/ PickLayerMedia(e) \/ Probed(e) \/ ProbeFails(e)
       \/ \E t \in Templates :
            RenameTemplate(t, e) \/ SizeItemToOut(t, e) \/ OtherEdits(t, e)
            \/ \E ok \in BOOLEAN : AddLayer(e, t, ok)
  \/ \E t \in Templates :
       \/ RemoveItemFromOut(t) \/ RemoveTemplate(t) \/ OtherDeletes(t)
       \/ \E ok \in BOOLEAN : SelectItem(t, ok) \/ SelectLibrary(t, ok) \/ PlaceTemplate(t, ok) \/ Create(t, ok)

Spec == Init /\ [][Next]_vars

-----------------------------------------------------------------------------
(* Properties *)

TypeOK ==
  /\ templates \in [Templates -> (SUBSET Changes) \cup {Absent}]
  /\ placed \in Seq(Templates) /\ items \in Seq(Templates) /\ shown \subseteq Templates
  /\ active \in Templates \cup {None} /\ library \in Templates \cup {None} /\ cleared \in BOOLEAN
  /\ edited \in Templates \cup {None}
  /\ draft \in Drafts \cup {None} /\ dirty \in BOOLEAN
  /\ probes \subseteq Edits /\ born \subseteq Fresh
  /\ made \in [Edits -> Templates \cup {None}]
  /\ added \in Edits \cup {None}

\* An edit is only ever in the animation it was made for (pickLayerMedia's late
\* answer, persist, sizeItemToOut), however the edited animation changes meanwhile.
Owned(t, edits) == \A e \in Edits : (e \in edits \/ Size(e) \in edits) => made[e] = t

EditsLandWhereMade ==
  /\ \A t \in Templates : templates[t] # Absent => Owned(t, templates[t])
  /\ draft # None => Owned(draft.id, draft.edits)

\* Once the effects have run, the draft is of the animation that is chosen, if it
\* exists, whatever lists are shown: Save writes to what the operator sees selected
\* (the load effect, after any choice, removal and echo).
DraftIsEdited == Settled /\ Stored(Editing) # None => draft # None /\ draft.id = Editing

\* bundles/notGT/README.md:416: "+ Layer" puts a layer into the active animation, or
\* into a new one that is made active (addLayer).  Broken for a new one: its echo
\* loads the animation as it was saved, before the layer.
AddedLayerStays == added # None => draft # None /\ added \in draft.edits
=============================================================================
