--------------------------- MODULE DashboardProofs ---------------------------
(***************************************************************************)
(* Proofs about the pages that people work with: Editor, for any           *)
(* animations and edits, and PageStore, for any pages, fields, edits and   *)
(* drops.                                                                  *)
(*                                                                         *)
(* Editor.  Only what there is can be chosen (Used), and where the effects *)
(* have run the draft is of what is edited (Loaded), so an edit lands in   *)
(* its own draft and is saved from there (Landed).                         *)
(*                                                                         *)
(* PageStore.  Every value in the system, on a page, in a write or in an   *)
(* echo, was built on some revision, and has of each field the server's    *)
(* edit or a younger one unless the server's is of a later revision        *)
(* (Fits).  The inductive invariant is that all of them do.                *)
(***************************************************************************)
EXTENDS Editor, PageStore, FiniteSetTheorems, SequenceTheorems, TLAPS

\* Only what exists or was made can be placed, shown or chosen, so a fresh id is
\* none of these; and one of the two choices is empty.
Known == Existing \cup born

Used ==
  /\ \A t \in Templates : templates[t] # Absent => t \in Known
  /\ ToSet(placed) \subseteq Known /\ ToSet(items) \subseteq Known /\ shown \subseteq Known
  /\ {active, library, edited} \subseteq Known \cup {None}
  /\ active # None => library = None
  /\ draft # None => draft.id \in Known

\* When the effects have run for what is edited, the draft is of it, or it has gone.
Loaded ==
  edited = Editing /\ edited # None =>
    IF draft = None THEN templates[edited] = Absent ELSE draft.id = edited

-----------------------------------------------------------------------------
(* Lists *)

LEMMA AppendedTo ==
  ASSUME NEW S, NEW s \in Seq(S), NEW x \in S
  PROVE  Append(s, x) \in Seq(S) /\ ToSet(Append(s, x)) = ToSet(s) \cup {x}
<1>1. Append(s, x) \in Seq(S) /\ Len(s) \in Nat /\ DOMAIN s = 1..Len(s) /\ DOMAIN Append(s, x) = 1..Len(s) + 1
      /\ Append(s, x)[Len(s) + 1] = x /\ \A i \in 1..Len(s) : Append(s, x)[i] = s[i]
  OBVIOUS
<1>2. \A i \in 1..Len(s) + 1 : i \in 1..Len(s) \/ i = Len(s) + 1
  BY <1>1
<1> QED  BY <1>1, <1>2 DEF ToSet

LEMMA UnplacedFrom ==
  ASSUME TypeOK, NEW t
  PROVE  Unplaced(t) \in Seq(Templates) /\ ToSet(Unplaced(t)) \subseteq ToSet(placed)
<1>1. placed \in Seq(Templates)
  BY DEF TypeOK
<1>2. CASE t \notin ToSet(placed)
  BY <1>1, <1>2 DEF Unplaced
<1>3. CASE t \in ToSet(placed)
  <2>1. PICK k \in DOMAIN placed : Unplaced(t) = SubSeq(placed, 1, k - 1) \o SubSeq(placed, k + 1, Len(placed))
    BY <1>3 DEF Unplaced, RemoveAt, ToSet
  <2> DEFINE a == SubSeq(placed, 1, k - 1)
             b == SubSeq(placed, k + 1, Len(placed))
  <2>2. k \in 1..Len(placed) /\ Len(placed) \in Nat
    BY <1>1
  <2>3. /\ a \in Seq(Templates) /\ Len(a) = k - 1 /\ \A i \in 1..k - 1 : a[i] = placed[i]
        /\ b \in Seq(Templates) /\ Len(b) = Len(placed) - k
        /\ \A i \in 1..Len(placed) - k : b[i] = placed[k + i]
    BY <1>1, <2>2
  <2> HIDE DEF a, b
  <2>4. a \o b \in Seq(Templates) /\ Len(a \o b) = Len(placed) - 1
        /\ \A i \in 1..Len(placed) - 1 : (a \o b)[i] = IF i <= k - 1 THEN a[i] ELSE b[i - (k - 1)]
    BY <2>2, <2>3
  <2>5. ASSUME NEW i \in 1..Len(placed) - 1 PROVE (a \o b)[i] \in ToSet(placed)
    <3>1. CASE i <= k - 1
      <4>1. (a \o b)[i] = placed[i] /\ i \in DOMAIN placed
        BY <1>1, <2>2, <2>3, <2>4, <3>1
      <4> QED  BY <4>1 DEF ToSet
    <3>2. CASE ~(i <= k - 1)
      <4>1. (a \o b)[i] = b[i - (k - 1)] /\ i - (k - 1) \in 1..Len(placed) - k
        BY <2>2, <2>4, <3>2
      <4>2. b[i - (k - 1)] = placed[k + (i - (k - 1))]
        BY <2>3, <4>1
      <4>3. k + (i - (k - 1)) = i + 1 /\ i + 1 \in DOMAIN placed
        BY <1>1, <2>2
      <4> QED  BY <4>1, <4>2, <4>3 DEF ToSet
    <3> QED  BY <3>1, <3>2
  <2>6. ToSet(a \o b) \subseteq ToSet(placed)
    <3>1. DOMAIN (a \o b) = 1..Len(placed) - 1
      BY <2>4
    <3> QED  BY <2>5, <3>1 DEF ToSet
  <2>7. Unplaced(t) = a \o b
    BY <2>1 DEF a, b
  <2> QED  BY <2>4, <2>6, <2>7
<1> QED  BY <1>2, <1>3

LEMMA InitiallyPlaced ==
  ASSUME Init PROVE placed \in Seq(Templates) /\ ToSet(placed) \subseteq Existing
<1>1. PICK s \in SUBSET shown : placed \in SetToSeqs(s)
  BY DEF Init, SetToAllKPermutations
<1>2. s \subseteq Existing /\ Cardinality(s) \in Nat
  BY <1>1, EditorAssumption, FS_Subset, FS_CardinalityType DEF Init
<1>3. placed \in [1..Cardinality(s) -> s]
  BY <1>1 DEF SetToSeqs
<1> QED  BY <1>2, <1>3 DEF ToSet, Templates

-----------------------------------------------------------------------------
(* Types *)

LEMMA TypeInit == Init => TypeOK
<1> SUFFICES ASSUME Init PROVE TypeOK
  OBVIOUS
<1>1. placed \in Seq(Templates) /\ items = placed
  BY InitiallyPlaced DEF Init
<1>2. shown \subseteq Templates
  BY DEF Init, Templates
<1>3. templates \in [Templates -> (SUBSET Changes) \cup {Absent}]
  BY DEF Init
<1> QED  BY <1>1, <1>2, <1>3 DEF Init, TypeOK

LEMMA EditingTyped == TypeOK => Editing \in Templates \cup {None}
BY DEF TypeOK, Editing

LEMMA StoredTyped == ASSUME TypeOK, NEW t \in Templates \cup {None} PROVE Stored(t) \in Drafts \cup {None}
<1>1. CASE t # None /\ templates[t] # Absent
  <2>1. t \in Templates /\ templates[t] \in SUBSET Changes
    BY <1>1 DEF TypeOK
  <2> QED  BY <1>1, <2>1 DEF Stored, Draft, Drafts
<1> QED  BY <1>1 DEF Stored

LEMMA PlaceTyped ==
  ASSUME TypeOK, NEW t \in Templates, t \in Fresh, Place(t)
  PROVE  /\ born' \subseteq Fresh /\ templates' \in [Templates -> (SUBSET Changes) \cup {Absent}]
         /\ placed' \in Seq(Templates) /\ ToSet(placed') = ToSet(placed) \cup {t}
         /\ active' = t /\ library' = None
<1>1. placed \in Seq(Templates)
  BY DEF TypeOK
<1>2. placed' \in Seq(Templates) /\ ToSet(placed') = ToSet(placed) \cup {t}
  BY <1>1, AppendedTo DEF Place
<1> QED  BY <1>2 DEF Place, Choose, TypeOK

LEMMA EditTyped ==
  ASSUME TypeOK, draft # None, NEW e \in Changes
  PROVE  [draft EXCEPT !.edits = @ \cup {e}] \in Drafts
BY DEF TypeOK, Drafts

LEMMA TypeStep == TypeOK /\ [Next]_vars => TypeOK'
<1> SUFFICES ASSUME TypeOK, [Next]_vars PROVE TypeOK'
  OBVIOUS
<1> USE DEF TypeOK, store, seen, choice, work
<1>1. CASE Effects
  <2>1. edited' \in Templates \cup {None} /\ draft' \in Drafts \cup {None} /\ dirty' \in BOOLEAN
    BY <1>1, EditingTyped, StoredTyped DEF Effects, Load
  <2>2. active' \in Templates \cup {None} /\ library' \in Templates \cup {None}
    BY <1>1 DEF Effects
  <2> QED  BY <1>1, <2>1, <2>2 DEF Effects
<1>2. CASE Persist
  BY <1>2 DEF Persist, Drafts
<1>3. CASE Deselect
  BY <1>3 DEF Deselect, Choose
<1>4. CASE Echo
  BY <1>4 DEF Echo
<1>5. ASSUME NEW e \in Edits, Mutate(e) \/ PickLayerMedia(e) PROVE TypeOK'
  <2>1. draft # None /\ e \in Changes
    BY <1>5 DEF Mutate, PickLayerMedia, Changes
  <2>2. draft.id \in Templates /\ [draft EXCEPT !.edits = @ \cup {e}] \in Drafts
    BY <2>1, EditTyped DEF Drafts
  <2> QED  BY <1>5, <2>2 DEF Mutate, PickLayerMedia, Make
<1>6. ASSUME NEW e \in Edits, Probed(e) PROVE TypeOK'
  <2>1. Size(e) \in Changes
    BY DEF Changes
  <2>2. draft' \in Drafts \cup {None}
    BY <1>6, <2>1, EditTyped DEF Probed
  <2> QED  BY <1>6, <2>2 DEF Probed
<1>7. ASSUME NEW e \in Edits, ProbeFails(e) PROVE TypeOK'
  BY <1>7 DEF ProbeFails
<1>8. ASSUME NEW e \in Edits, NEW t \in Templates,
             RenameTemplate(t, e) \/ SizeItemToOut(t, e) \/ OtherEdits(t, e)
      PROVE  TypeOK'
  <2>1. e \in Changes
    BY DEF Changes
  <2>2. templates[t] # Absent =>
          [templates EXCEPT ![t] = @ \cup {e}] \in [Templates -> (SUBSET Changes) \cup {Absent}]
    BY <2>1
  <2>3. draft # None => [draft EXCEPT !.edits = @ \cup {e}] \in Drafts
    BY <2>1, EditTyped
  <2>4. draft' \in Drafts \cup {None}
    BY <1>8, <2>3 DEF RenameTemplate, SizeItemToOut, OtherEdits
  <2>5. templates' \in [Templates -> (SUBSET Changes) \cup {Absent}]
    BY <1>8, <2>2 DEF RenameTemplate, SizeItemToOut, OtherEdits
  <2> QED  BY <1>8, <2>4, <2>5 DEF RenameTemplate, SizeItemToOut, OtherEdits, Make
<1>9. ASSUME NEW e \in Edits, NEW t \in Templates, NEW ok \in BOOLEAN, AddLayer(e, t, ok) PROVE TypeOK'
  <2>1. e \in Changes
    BY DEF Changes
  <2>2. CASE draft # None /\ draft.id \notin Code
    <3>1. draft.id \in Templates /\ [draft EXCEPT !.edits = @ \cup {e}] \in Drafts
      BY <2>1, <2>2, EditTyped DEF Drafts
    <3> QED  BY <1>9, <2>2, <3>1 DEF AddLayer, Make
  <2>3. CASE ~(draft # None /\ draft.id \notin Code)
    <3>1. Draft(t, {e}) \in Drafts
      BY <2>1 DEF Draft, Drafts
    <3>2. Place(t) /\ t \in Fresh
      BY <1>9, <2>3 DEF AddLayer
    <3>3. /\ born' \subseteq Fresh /\ templates' \in [Templates -> (SUBSET Changes) \cup {Absent}]
          /\ placed' \in Seq(Templates) /\ active' = t /\ library' = None
      BY <3>2, PlaceTyped
    <3> QED  BY <1>9, <2>3, <3>1, <3>3 DEF AddLayer, Make
  <2> QED  BY <2>2, <2>3
<1>10. ASSUME NEW t \in Templates, RemoveItemFromOut(t) \/ RemoveTemplate(t) \/ OtherDeletes(t) PROVE TypeOK'
  <2>1. Unplaced(t) \in Seq(Templates)
    BY UnplacedFrom
  <2>2. CASE RemoveItemFromOut(t)
    BY <2>1, <2>2 DEF RemoveItemFromOut
  <2>3. CASE RemoveTemplate(t)
    BY <2>1, <2>3 DEF RemoveTemplate, Choose
  <2>4. CASE OtherDeletes(t)
    BY <2>1, <2>4 DEF OtherDeletes
  <2> QED  BY <1>10, <2>2, <2>3, <2>4
<1>11. ASSUME NEW t \in Templates, NEW ok \in BOOLEAN,
              SelectItem(t, ok) \/ SelectLibrary(t, ok) \/ PlaceTemplate(t, ok) \/ Create(t, ok)
       PROVE  TypeOK'
  <2>1. CASE SelectItem(t, ok) \/ SelectLibrary(t, ok)
    BY <2>1 DEF SelectItem, SelectLibrary, Choose
  <2>2. CASE PlaceTemplate(t, ok)
    <3>1. Append(placed, t) \in Seq(Templates)
      OBVIOUS
    <3> QED  BY <2>2, <3>1 DEF PlaceTemplate, Choose
  <2>3. CASE Create(t, ok)
    <3>1. /\ born' \subseteq Fresh /\ templates' \in [Templates -> (SUBSET Changes) \cup {Absent}]
          /\ placed' \in Seq(Templates) /\ active' = t /\ library' = None
      BY <2>3, PlaceTyped DEF Create
    <3> QED  BY <2>3, <3>1 DEF Create
  <2> QED  BY <1>11, <2>1, <2>2, <2>3
<1>12. CASE UNCHANGED vars
  BY <1>12 DEF vars
<1> QED  BY <1>1, <1>2, <1>3, <1>4, <1>5, <1>6, <1>7, <1>8, <1>9, <1>10, <1>11, <1>12 DEF Next

\* In every behaviour the variables have their types: the draft is of an animation, or
\* there is none.
THEOREM EditorTypeCorrect == Spec => []TypeOK
BY TypeInit, TypeStep, PTL DEF Spec

-----------------------------------------------------------------------------
(* A fresh id is nowhere before it is used *)

LEMMA UsedInit == Init => Used
<1> SUFFICES ASSUME Init PROVE Used
  OBVIOUS
<1>1. ToSet(placed) \subseteq Known /\ items = placed /\ shown \subseteq Known
  BY InitiallyPlaced DEF Init, Known
<1>2. \A t \in Templates : templates[t] # Absent => t \in Known
  BY <1>1 DEF Init
<1> QED  BY <1>1, <1>2 DEF Init, Used

LEMMA EditingKnown == Used => Editing \in Known \cup {None}
BY DEF Used, Editing

LEMMA PlaceUsed ==
  ASSUME TypeOK, Used, NEW t \in Templates, t \in Fresh, Place(t)
  PROVE  /\ Known' = Known \cup {t}
         /\ \A u \in Templates : templates'[u] # Absent => u \in Known'
         /\ ToSet(placed') \subseteq Known' /\ active' = t /\ library' = None
<1>1. Known' = Known \cup {t}
  BY DEF Known, Place
<1>2. ToSet(placed') = ToSet(placed) \cup {t} /\ active' = t /\ library' = None
  BY PlaceTyped
<1>3. \A u \in Templates : templates'[u] = IF u = t THEN {} ELSE templates[u]
  BY DEF Place, TypeOK
<1> QED  BY <1>1, <1>2, <1>3 DEF Used

LEMMA UsedStep == TypeOK /\ Used /\ [Next]_vars => Used'
<1> SUFFICES ASSUME TypeOK, Used, [Next]_vars PROVE Used'
  OBVIOUS
<1> USE DEF store, seen, choice, work
<1>1. CASE Effects
  <2>1. UNCHANGED <<templates, placed, items, shown, born>> /\ edited' \in Known \cup {None}
    BY <1>1, EditingKnown DEF Effects, Load, Used
  <2>2. /\ active' \in Known \cup {None} /\ library' \in Known \cup {None}
        /\ active' # None => library' = None
    <3>1. CASE DefaultDue /\ items # <<>>
      <4>1. Head(items) \in ToSet(items)
        BY <3>1 DEF TypeOK, ToSet
      <4> QED  BY <1>1, <3>1, <4>1 DEF Effects, DefaultDue, Used
    <3>2. CASE ~(DefaultDue /\ items # <<>>)
      BY <1>1, <3>2 DEF Effects, DefaultDue, Used
    <3> QED  BY <3>1, <3>2
  <2>3. draft' # None => draft'.id \in Known
    BY <1>1, EditingKnown DEF Effects, Load, Used, Stored, Draft
  <2> QED  BY <2>1, <2>2, <2>3 DEF Used, Known
<1>2. CASE Persist
  <2>1. draft # None /\ \A t \in Templates : t # draft.id => templates'[t] = templates[t]
    BY <1>2 DEF Persist, TypeOK
  <2>2. UNCHANGED <<placed, items, shown, active, library, edited, draft, born>>
    BY <1>2 DEF Persist
  <2> QED  BY <2>1, <2>2 DEF Used, Known
<1>3. CASE Deselect
  BY <1>3 DEF Deselect, Choose, Used, Known
<1>4. CASE Echo
  BY <1>4 DEF Echo, Used, Known
<1>5. ASSUME NEW e \in Edits, Mutate(e) \/ PickLayerMedia(e) \/ Probed(e) \/ ProbeFails(e) PROVE Used'
  <2>1. UNCHANGED <<templates, placed, items, shown, active, library, edited, born>>
        /\ (draft' # None => draft # None /\ draft'.id = draft.id)
    BY <1>5 DEF Mutate, PickLayerMedia, Probed, ProbeFails, TypeOK, Drafts
  <2> QED  BY <2>1 DEF Used, Known
<1>6. ASSUME NEW e \in Edits, NEW t \in Templates,
             RenameTemplate(t, e) \/ SizeItemToOut(t, e) \/ OtherEdits(t, e)
      PROVE  Used'
  <2>1. UNCHANGED <<placed, items, shown, active, library, edited, born>>
    BY <1>6 DEF RenameTemplate, SizeItemToOut, OtherEdits
  <2>2. draft' # None => draft # None /\ draft'.id = draft.id
    BY <1>6 DEF RenameTemplate, SizeItemToOut, OtherEdits, TypeOK, Drafts
  <2>3. UNCHANGED templates \/ (templates[t] # Absent /\ templates' = [templates EXCEPT ![t] = @ \cup {e}])
    BY <1>6 DEF RenameTemplate, SizeItemToOut, OtherEdits
  <2>4. \A u \in Templates : templates'[u] # Absent => templates[u] # Absent
    BY <2>3 DEF TypeOK
  <2> QED  BY <2>1, <2>2, <2>4 DEF Used, Known
<1>7. ASSUME NEW e \in Edits, NEW t \in Templates, NEW ok \in BOOLEAN, AddLayer(e, t, ok) PROVE Used'
  <2>1. CASE draft # None /\ draft.id \notin Code
    <3>1. UNCHANGED <<templates, placed, items, shown, active, library, edited, born>> /\ draft'.id = draft.id
      BY <1>7, <2>1 DEF AddLayer, TypeOK, Drafts
    <3> QED  BY <2>1, <3>1 DEF Used, Known
  <2>2. CASE ~(draft # None /\ draft.id \notin Code)
    <3>1. Place(t) /\ t \in Fresh /\ draft'.id = t /\ UNCHANGED <<items, shown, edited>>
      BY <1>7, <2>2 DEF AddLayer, Draft
    <3> QED  BY <3>1, PlaceUsed DEF Used
  <2> QED  BY <2>1, <2>2
<1>8. ASSUME NEW t \in Templates, RemoveItemFromOut(t) \/ RemoveTemplate(t) \/ OtherDeletes(t) PROVE Used'
  <2>1. ToSet(placed') \subseteq ToSet(placed) /\ UNCHANGED <<items, shown, edited, born>>
    BY <1>8, UnplacedFrom DEF RemoveItemFromOut, RemoveTemplate, OtherDeletes
  <2>2. \A u \in Templates : templates'[u] # Absent => templates[u] # Absent
    BY <1>8 DEF RemoveItemFromOut, RemoveTemplate, OtherDeletes, TypeOK
  <2>3. /\ active' = None \/ UNCHANGED active
        /\ library' = None \/ UNCHANGED library
        /\ draft' = None \/ UNCHANGED draft
    BY <1>8 DEF RemoveItemFromOut, RemoveTemplate, OtherDeletes, Choose
  <2> QED  BY <2>1, <2>2, <2>3 DEF Used, Known
<1>9. ASSUME NEW t \in Templates, NEW ok \in BOOLEAN, SelectItem(t, ok) \/ SelectLibrary(t, ok) PROVE Used'
  BY <1>9 DEF SelectItem, SelectLibrary, Choose, Used, Known
<1>10. ASSUME NEW t \in Templates, NEW ok \in BOOLEAN, PlaceTemplate(t, ok) PROVE Used'
  <2>1. ToSet(placed') = ToSet(placed) \cup {t}
    BY <1>10, AppendedTo DEF PlaceTemplate, TypeOK
  <2> QED  BY <1>10, <2>1 DEF PlaceTemplate, Choose, Used, Known
<1>11. ASSUME NEW t \in Templates, NEW ok \in BOOLEAN, Create(t, ok) PROVE Used'
  <2>1. Place(t) /\ t \in Fresh /\ UNCHANGED <<items, shown, edited, draft>>
    BY <1>11 DEF Create
  <2> QED  BY <2>1, PlaceUsed DEF Used
<1>12. CASE UNCHANGED vars
  BY <1>12 DEF vars, Used, Known
<1> QED  BY <1>1, <1>2, <1>3, <1>4, <1>5, <1>6, <1>7, <1>8, <1>9, <1>10, <1>11, <1>12 DEF Next

-----------------------------------------------------------------------------
(* The draft is of what is edited *)

\* A step that leaves the choice, the shown placements and the draft's name alone.
LEMMA LoadedStays ==
  ASSUME Loaded, UNCHANGED <<active, library, items, edited>>,
         draft = None <=> draft' = None, draft # None => draft'.id = draft.id,
         edited # None /\ draft = None /\ templates[edited] = Absent => templates'[edited] = Absent
  PROVE  Loaded'
BY DEF Loaded, Editing

LEMMA LoadedStep == TypeOK /\ Used /\ Loaded /\ [Next]_vars => Loaded'
<1> SUFFICES ASSUME TypeOK, Used, Loaded, [Next]_vars PROVE Loaded'
  OBVIOUS
<1> USE DEF store, seen, choice, work
<1>0. None \notin Drafts /\ None \notin Templates /\ Existing \cap Fresh = {}
  BY EditorAssumption
<1>1. CASE Effects
  <2>1. edited' = Editing /\ UNCHANGED templates
    BY <1>1 DEF Effects, Load
  <2>2. SUFFICES ASSUME Editing # None
                 PROVE  IF draft' = None THEN templates[Editing] = Absent ELSE draft'.id = Editing
    BY <2>1 DEF Loaded
  <2>3. CASE Editing = edited
    BY <1>1, <2>2, <2>3 DEF Effects, Load, Loaded
  <2>4. CASE Editing # edited
    <3>1. draft' = Stored(Editing)
      BY <1>1, <2>4 DEF Effects, Load
    <3>2. CASE templates[Editing] = Absent
      BY <3>1, <3>2 DEF Stored
    <3>3. CASE templates[Editing] # Absent
      <4>1. draft' = Draft(Editing, templates[Editing])
        BY <2>2, <3>1, <3>3 DEF Stored
      <4>2. draft' \in Drafts
        BY <2>2, <3>3, <4>1, EditingTyped DEF Draft, Drafts, TypeOK
      <4> QED  BY <1>0, <4>1, <4>2 DEF Draft
    <3> QED  BY <3>2, <3>3
  <2> QED  BY <2>3, <2>4
<1>2. CASE Persist
  <2>1. draft # None /\ UNCHANGED <<active, library, items, edited, draft>>
    BY <1>2 DEF Persist
  <2> QED  BY <2>1, LoadedStays
<1>3. CASE Deselect
  <2>1. Settled /\ UNCHANGED <<library, items, edited, draft, templates>> /\ active' = None
    BY <1>3 DEF Deselect, Choose
  <2>2. Editing' = edited => Editing = edited
    BY <2>1 DEF Settled
  <2> QED  BY <2>1, <2>2 DEF Loaded
<1>4. CASE Echo
  <2>1. Settled /\ UNCHANGED <<edited, draft, templates>>
    BY <1>4 DEF Echo
  <2> QED  BY <2>1 DEF Settled, Loaded
<1>5. ASSUME NEW e \in Edits, Mutate(e) \/ PickLayerMedia(e) \/ Probed(e) \/ ProbeFails(e) PROVE Loaded'
  <2>1. UNCHANGED <<templates, items, active, library, edited>>
        /\ (draft = None <=> draft' = None) /\ (draft # None => draft'.id = draft.id)
    <3>1. UNCHANGED <<templates, items, active, library, edited>>
          /\ (UNCHANGED draft \/ (draft # None /\ \E d \in Changes : draft' = [draft EXCEPT !.edits = @ \cup {d}]))
      BY <1>5 DEF Mutate, PickLayerMedia, Probed, ProbeFails, Changes
    <3> QED  BY <1>0, <3>1, EditTyped DEF TypeOK, Drafts
  <2> QED  BY <2>1, LoadedStays
<1>6. ASSUME NEW e \in Edits, NEW t \in Templates,
             RenameTemplate(t, e) \/ SizeItemToOut(t, e) \/ OtherEdits(t, e)
      PROVE  Loaded'
  <2>1. UNCHANGED <<items, active, library, edited>>
        /\ (UNCHANGED draft \/ (draft # None /\ \E d \in Changes : draft' = [draft EXCEPT !.edits = @ \cup {d}]))
    BY <1>6 DEF RenameTemplate, SizeItemToOut, OtherEdits, Changes
  <2>2. (draft = None <=> draft' = None) /\ (draft # None => draft'.id = draft.id)
    BY <1>0, <2>1, EditTyped DEF TypeOK, Drafts
  <2>3. UNCHANGED templates \/ (templates[t] # Absent /\ templates' = [templates EXCEPT ![t] = @ \cup {e}])
    BY <1>6 DEF RenameTemplate, SizeItemToOut, OtherEdits
  <2>4. edited # None /\ templates[edited] = Absent => templates'[edited] = Absent
    BY <2>3 DEF TypeOK
  <2> QED  BY <2>1, <2>2, <2>4, LoadedStays
<1>7. ASSUME NEW e \in Edits, NEW t \in Templates, NEW ok \in BOOLEAN, AddLayer(e, t, ok) PROVE Loaded'
  <2>1. CASE draft # None /\ draft.id \notin Code
    <3>1. UNCHANGED <<templates, items, active, library, edited>>
          /\ draft' = [draft EXCEPT !.edits = @ \cup {e}] /\ e \in Changes
      BY <1>7, <2>1 DEF AddLayer, Changes
    <3>2. draft' # None /\ draft'.id = draft.id
      BY <1>0, <2>1, <3>1, EditTyped DEF TypeOK, Drafts
    <3> QED  BY <2>1, <3>1, <3>2, LoadedStays
  <2>2. CASE ~(draft # None /\ draft.id \notin Code)
    <3>1. Place(t) /\ t \in Fresh \ born /\ UNCHANGED <<items, edited>>
      BY <1>7, <2>2 DEF AddLayer
    <3>2. t \notin ToSet(items) /\ edited # t
      BY <1>0, <3>1 DEF Used, Known
    <3>3. active' = t /\ library' = None
      BY <3>1 DEF Place, Choose
    <3>4. Editing' = None
      BY <3>1, <3>2, <3>3 DEF Editing
    <3> QED  BY <3>4 DEF Loaded
  <2> QED  BY <2>1, <2>2
<1>8. ASSUME NEW t \in Templates, RemoveItemFromOut(t) PROVE Loaded'
  <2>1. CASE t = active
    <3>1. active' = None /\ UNCHANGED <<library, items>> /\ active # None /\ t \in ToSet(items)
      BY <1>0, <1>8, <2>1 DEF RemoveItemFromOut
    <3>2. library = None
      BY <3>1 DEF Used
    <3> QED  BY <3>1, <3>2 DEF Loaded, Editing
  <2>2. CASE t # active
    BY <1>8, <2>2, LoadedStays DEF RemoveItemFromOut
  <2> QED  BY <2>1, <2>2
<1>9. ASSUME NEW t \in Templates, RemoveTemplate(t) \/ OtherDeletes(t) PROVE Loaded'
  <2>1. UNCHANGED <<items, edited>> /\ templates' = [templates EXCEPT ![t] = Absent]
    BY <1>9 DEF RemoveTemplate, OtherDeletes
  <2>2. \A u \in Templates : templates[u] = Absent => templates'[u] = Absent
    BY <2>1 DEF TypeOK
  <2>3. CASE RemoveTemplate(t) /\ t = Editing
    <3>1. active' = None /\ library' = None
      BY <2>3 DEF RemoveTemplate, Choose
    <3> QED  BY <3>1 DEF Loaded, Editing
  <2>4. CASE ~(RemoveTemplate(t) /\ t = Editing)
    <3>1. UNCHANGED <<active, library, draft>>
      BY <1>9, <2>4 DEF RemoveTemplate, OtherDeletes
    <3>2. edited \in Templates \cup {None}
      BY DEF TypeOK
    <3> QED  BY <2>1, <2>2, <3>1, <3>2, LoadedStays
  <2> QED  BY <2>3, <2>4
<1>10. ASSUME NEW t \in Templates, NEW ok \in BOOLEAN,
              SelectItem(t, ok) \/ SelectLibrary(t, ok) \/ PlaceTemplate(t, ok)
       PROVE  Loaded'
  <2>1. Settled /\ UNCHANGED <<edited, draft, templates>>
    BY <1>10 DEF SelectItem, SelectLibrary, PlaceTemplate
  <2> QED  BY <2>1 DEF Settled, Loaded
<1>11. ASSUME NEW t \in Templates, NEW ok \in BOOLEAN, Create(t, ok) PROVE Loaded'
  <2>1. Settled /\ Place(t) /\ t \in Fresh \ born /\ UNCHANGED <<edited, draft>>
    BY <1>11 DEF Create
  <2>2. edited # t
    BY <1>0, <2>1 DEF Used, Known
  <2>3. edited # None => templates'[edited] = templates[edited]
    BY <2>1, <2>2 DEF Place, TypeOK
  <2> QED  BY <2>1, <2>3 DEF Settled, Loaded
<1>12. CASE UNCHANGED vars
  BY <1>12, LoadedStays DEF vars
<1> QED  BY <1>1, <1>2, <1>3, <1>4, <1>5, <1>6, <1>7, <1>8, <1>9, <1>10, <1>11, <1>12 DEF Next

\* In every behaviour, whatever the operator and other clients do: once the effects
\* have run, the draft is of the animation that is chosen, so Save writes to that one.
THEOREM DraftFollowsChoice == Spec => []DraftIsEdited
<1>1. Init => TypeOK /\ Used /\ Loaded
  BY TypeInit, UsedInit DEF Init, Loaded
<1>2. TypeOK /\ Used /\ Loaded /\ [Next]_vars => TypeOK' /\ Used' /\ Loaded'
  BY TypeStep, UsedStep, LoadedStep
<1>3. TypeOK /\ Loaded => DraftIsEdited
  BY DEF Loaded, DraftIsEdited, Settled, Stored
<1> QED  BY <1>1, <1>2, <1>3, PTL DEF Spec

-----------------------------------------------------------------------------
(* Edits land where they were made *)

\* Owned, by the makers m.
OwnedBy(m, t, es) == \A e \in Edits : (e \in es \/ Size(e) \in es) => m[e] = t

LEMMA OwnedIsBy == \A t, es : Owned(t, es) <=> OwnedBy(made, t, es)
BY DEF Owned, OwnedBy

\* An edit that is made now is nowhere yet.
LEMMA OwnedStays ==
  ASSUME TypeOK, NEW e \in Edits, NEW u, Make(e, u), NEW t, t # None, NEW es, OwnedBy(made, t, es)
  PROVE  OwnedBy(made', t, es)
BY DEF OwnedBy, Make, TypeOK

LEMMA OwnedAdds ==
  ASSUME NEW m, NEW e \in Edits, NEW t, NEW es, OwnedBy(m, t, es), m[e] = t
  PROVE  OwnedBy(m, t, es \cup {e})
BY EditorAssumption DEF OwnedBy

LEMMA OwnedSizes ==
  ASSUME NEW m, NEW e \in Edits, NEW t, NEW es, OwnedBy(m, t, es), e \in es
  PROVE  OwnedBy(m, t, es \cup {Size(e)})
<1> SUFFICES ASSUME NEW d \in Edits, d \in es \cup {Size(e)} \/ Size(d) \in es \cup {Size(e)}
             PROVE  m[d] = t
  BY DEF OwnedBy
<1>1. Size(d) = Size(e) => d = e
  BY DEF Size
<1>2. d # Size(e)
  BY EditorAssumption
<1> QED  BY <1>1, <1>2 DEF OwnedBy

Landed(m, contents, copy) ==
  /\ \A t \in Templates : contents[t] # Absent => OwnedBy(m, t, contents[t])
  /\ copy # None => OwnedBy(m, copy.id, copy.edits)

LEMMA LandedIs == EditsLandWhereMade <=> Landed(made, templates, draft)
BY OwnedIsBy DEF EditsLandWhereMade, Landed

\* A new edit leaves what there is as it was.
LEMMA LandedStays ==
  ASSUME TypeOK, EditsLandWhereMade, NEW e \in Edits, NEW u, Make(e, u)
  PROVE  Landed(made', templates, draft) /\ (u \in Templates \cup {None} => made'[e] = u)
<1>1. None \notin Templates
  BY EditorAssumption
<1>2. Landed(made, templates, draft)
  BY LandedIs
<1>3. draft # None => draft.id # None
  BY <1>1 DEF TypeOK, Drafts
<1>4. made'[e] = u
  BY DEF Make, TypeOK
<1> QED  BY <1>1, <1>2, <1>3, <1>4, OwnedStays DEF Landed

LEMMA LandedInDraft ==
  ASSUME NEW m, NEW contents, NEW copy, copy \in Drafts, Landed(m, contents, copy), copy # None,
         NEW e \in Edits, m[e] = copy.id
  PROVE  Landed(m, contents, [copy EXCEPT !.edits = @ \cup {e}])
<1>1. [copy EXCEPT !.edits = @ \cup {e}].id = copy.id
      /\ [copy EXCEPT !.edits = @ \cup {e}].edits = copy.edits \cup {e}
  BY DEF Drafts
<1> QED  BY <1>1, OwnedAdds DEF Landed

LEMMA LandStep == TypeOK /\ Loaded /\ EditsLandWhereMade /\ [Next]_vars => EditsLandWhereMade'
<1> SUFFICES ASSUME TypeOK, Loaded, EditsLandWhereMade, [Next]_vars
             PROVE  Landed(made', templates', draft')
  BY LandedIs DEF Landed, EditsLandWhereMade, Owned, OwnedBy
<1> USE DEF store, seen, choice, work
<1>0. None \notin Templates /\ Landed(made, templates, draft)
  BY EditorAssumption, LandedIs
<1>1. CASE Effects
  <2>1. UNCHANGED <<made, templates>> /\ (UNCHANGED draft \/ draft' = Stored(Editing))
    BY <1>1 DEF Effects, Load
  <2>2. draft' = Stored(Editing) /\ draft' # None => OwnedBy(made, draft'.id, draft'.edits)
    BY <1>0, EditingTyped DEF Stored, Draft, Landed
  <2> QED  BY <1>0, <2>1, <2>2 DEF Landed
<1>2. CASE Persist
  <2>1. draft # None /\ draft.id \in Templates /\ UNCHANGED <<made, draft>>
        /\ templates' = [templates EXCEPT ![draft.id] = draft.edits]
    BY <1>2 DEF Persist, TypeOK, Drafts
  <2>2. \A t \in Templates : templates'[t] = IF t = draft.id THEN draft.edits ELSE templates[t]
    BY <2>1 DEF TypeOK
  <2> QED  BY <1>0, <2>1, <2>2 DEF Landed
<1>3. CASE Deselect \/ Echo
  BY <1>0, <1>3 DEF Deselect, Echo
<1>4. ASSUME NEW e \in Edits, Mutate(e) \/ PickLayerMedia(e) PROVE Landed(made', templates', draft')
  <2>1. draft # None /\ Make(e, draft.id) /\ draft' = [draft EXCEPT !.edits = @ \cup {e}] /\ UNCHANGED templates
    BY <1>4 DEF Mutate, PickLayerMedia
  <2>2. draft \in Drafts /\ draft.id \in Templates
    BY <2>1 DEF TypeOK, Drafts
  <2> QED  BY <2>1, <2>2, LandedStays, LandedInDraft
<1>5. ASSUME NEW e \in Edits, Probed(e) \/ ProbeFails(e) PROVE Landed(made', templates', draft')
  <2>1. UNCHANGED <<made, templates>>
        /\ \/ UNCHANGED draft
           \/ draft # None /\ e \in draft.edits /\ draft' = [draft EXCEPT !.edits = @ \cup {Size(e)}]
    BY <1>5 DEF Probed, ProbeFails
  <2>2. draft # None /\ draft' = [draft EXCEPT !.edits = @ \cup {Size(e)}]
          => draft'.id = draft.id /\ draft'.edits = draft.edits \cup {Size(e)}
    BY DEF TypeOK, Drafts
  <2> QED  BY <1>0, <2>1, <2>2, OwnedSizes DEF Landed
<1>6. ASSUME NEW e \in Edits, NEW t \in Templates,
             RenameTemplate(t, e) \/ SizeItemToOut(t, e) \/ OtherEdits(t, e)
      PROVE  Landed(made', templates', draft')
  <2>1. Make(e, t)
        /\ (UNCHANGED templates \/ (templates[t] # Absent /\ templates' = [templates EXCEPT ![t] = @ \cup {e}]))
    BY <1>6 DEF RenameTemplate, SizeItemToOut, OtherEdits
  <2>2. UNCHANGED draft \/ (draft # None /\ draft.id = t /\ draft' = [draft EXCEPT !.edits = @ \cup {e}])
    BY <1>0, <1>6 DEF RenameTemplate, SizeItemToOut, OtherEdits, Settled, Loaded
  <2>3. Landed(made', templates, draft) /\ made'[e] = t
    BY <2>1, LandedStays
  <2>4. Landed(made', templates', draft)
    <3>1. \A u \in Templates : templates'[u] = templates[u]
                               \/ (u = t /\ templates[u] # Absent /\ templates'[u] = templates[u] \cup {e})
      BY <2>1 DEF TypeOK
    <3> QED  BY <2>3, <3>1, OwnedAdds DEF Landed
  <2>5. draft # None => draft \in Drafts
    BY DEF TypeOK
  <2> QED  BY <2>2, <2>3, <2>4, <2>5, LandedInDraft
<1>7. ASSUME NEW e \in Edits, NEW t \in Templates, NEW ok \in BOOLEAN, AddLayer(e, t, ok)
      PROVE  Landed(made', templates', draft')
  <2>1. CASE draft # None /\ draft.id \notin Code
    <3>1. Make(e, draft.id) /\ draft' = [draft EXCEPT !.edits = @ \cup {e}] /\ UNCHANGED templates
      BY <1>7, <2>1 DEF AddLayer
    <3>2. draft \in Drafts /\ draft.id \in Templates
      BY <2>1 DEF TypeOK, Drafts
    <3> QED  BY <2>1, <3>1, <3>2, LandedStays, LandedInDraft
  <2>2. CASE ~(draft # None /\ draft.id \notin Code)
    <3>1. Make(e, t) /\ draft' = Draft(t, {e}) /\ templates' = [templates EXCEPT ![t] = {}]
      BY <1>7, <2>2 DEF AddLayer, Place
    <3>2. Landed(made', templates, draft) /\ made'[e] = t
      BY <3>1, LandedStays
    <3>3. OwnedBy(made', t, {}) /\ \A u \in Templates : templates'[u] = IF u = t THEN {} ELSE templates[u]
      BY <3>1 DEF OwnedBy, TypeOK
    <3>4. OwnedBy(made', t, {} \cup {e})
      BY <3>2, <3>3, OwnedAdds
    <3> QED  BY <3>1, <3>2, <3>3, <3>4 DEF Landed, Draft
  <2> QED  BY <2>1, <2>2
<1>8. ASSUME NEW t \in Templates, RemoveItemFromOut(t) \/ RemoveTemplate(t) \/ OtherDeletes(t)
      PROVE  Landed(made', templates', draft')
  <2>1. UNCHANGED made /\ (draft' = None \/ UNCHANGED draft)
        /\ (UNCHANGED templates \/ templates' = [templates EXCEPT ![t] = Absent])
    BY <1>8 DEF RemoveItemFromOut, RemoveTemplate, OtherDeletes
  <2>2. \A u \in Templates : templates'[u] # Absent => templates'[u] = templates[u]
    BY <2>1 DEF TypeOK
  <2> QED  BY <1>0, <2>1, <2>2 DEF Landed
<1>9. ASSUME NEW t \in Templates, NEW ok \in BOOLEAN,
             SelectItem(t, ok) \/ SelectLibrary(t, ok) \/ PlaceTemplate(t, ok)
      PROVE  Landed(made', templates', draft')
  <2>1. UNCHANGED <<made, templates, draft>>
    BY <1>9 DEF SelectItem, SelectLibrary, PlaceTemplate
  <2> QED  BY <1>0, <2>1
<1>10. ASSUME NEW t \in Templates, NEW ok \in BOOLEAN, Create(t, ok) PROVE Landed(made', templates', draft')
  <2>1. UNCHANGED <<made, draft>> /\ \A u \in Templates : templates'[u] = IF u = t THEN {} ELSE templates[u]
    BY <1>10 DEF Create, Place, TypeOK
  <2>2. OwnedBy(made, t, {})
    BY DEF OwnedBy
  <2> QED  BY <1>0, <2>1, <2>2 DEF Landed
<1>11. CASE UNCHANGED vars
  BY <1>0, <1>11 DEF vars
<1> QED  BY <1>1, <1>2, <1>3, <1>4, <1>5, <1>6, <1>7, <1>8, <1>9, <1>10, <1>11 DEF Next

\* In every behaviour an edit is only ever in the animation it was made for, also
\* the size of a clip that is known long after another animation was chosen.
THEOREM EditsStayWithTheirs == Spec => []EditsLandWhereMade
<1>1. Init => TypeOK /\ Used /\ Loaded /\ EditsLandWhereMade
  BY TypeInit, UsedInit DEF Init, Loaded, EditsLandWhereMade, Owned
<1>2. TypeOK /\ Used /\ Loaded /\ EditsLandWhereMade /\ [Next]_vars
        => TypeOK' /\ Used' /\ Loaded' /\ EditsLandWhereMade'
  BY TypeStep, UsedStep, LoadedStep, LandStep
<1> QED  BY <1>1, <1>2, PTL DEF Spec

-----------------------------------------------------------------------------
(* The page store *)

\* A value that was built on revision k, when the server's is srv of revision rev,
\* last changed at snc, and n edits have been made.
Fits(x, k, srv, snc, rev, n) ==
  /\ k <= rev
  /\ \A f \in Fields : x[f] <= n /\ (snc[f] <= k => srv[f] <= x[f])

WritesFit(writes, srv, snc, rev, n) ==
  \A i \in 1..Len(writes) :
    /\ Fits(writes[i].value, writes[i].base, srv, snc, rev, n)
    /\ writes[i].own # NoWrite => \A f \in Fields : writes[i].own[f] <= writes[i].value[f]

BoxFits(box, srv, snc, rev, n) ==
  \A i \in 1..Len(box) : WritesFit(box[i], srv, snc, rev, n)

EchoesFit(box, srv, snc, rev, n) ==
  \A i \in 1..Len(box) : Fits(box[i].value, box[i].revision, srv, snc, rev, n)

AllFit ==
  /\ Fits(server, revision, server, since, revision, edits)
  /\ \A p \in Pages :
       /\ Fits(value[p], known[p], server, since, revision, edits)
       /\ pending[p] # NoWrite => Fits(pending[p], base[p], server, since, revision, edits)
       /\ WritesFit(queue[p], server, since, revision, edits)
       /\ BoxFits(toServer[p], server, since, revision, edits)
       /\ EchoesFit(toPage[p], server, since, revision, edits)

-----------------------------------------------------------------------------
(* Types *)

LEMMA StoreTypeInit == PageInit => PageTypeOK
<1> SUFFICES ASSUME PageInit PROVE PageTypeOK
  OBVIOUS
<1>1. 0 \in 0..MaxEdits /\ 0 \in 0..MaxDrops
  BY PageStoreAssumption
<1>2. (CHOOSE c \in Contents : TRUE) \in Contents
  BY PageStoreAssumption
<1> QED  BY <1>1, <1>2 DEF PageInit, PageTypeOK, Content

LEMMA ReadTyped == ASSUME PageTypeOK, NEW p \in Pages PROVE Read(p) \in Content
BY DEF PageTypeOK, Read

LEMMA EntryTyped ==
  ASSUME PageTypeOK, NEW p \in Pages, NEW next \in Content
  PROVE  Entry(p, next) \in Entries
BY DEF PageTypeOK, Entry, Entries

LEMMA ChangedTyped ==
  ASSUME PageTypeOK, NEW p \in Pages, NEW next \in Content, Changed(p, next)
  PROVE  /\ value' \in [Pages -> Content]
         /\ pending' \in [Pages -> Content \cup {NoWrite}] /\ mine' \in [Pages -> Content \cup {NoWrite}]
BY DEF PageTypeOK, Changed

LEMMA StoreTypeStep == PageTypeOK /\ [PageNext]_pageStoreVars => PageTypeOK'
<1> SUFFICES ASSUME PageTypeOK, [PageNext]_pageStoreVars PROVE PageTypeOK'
  OBVIOUS
<1> USE PageStoreAssumption DEF PageTypeOK, serverVars, pageVars
<1>1. ASSUME NEW p \in Pages, NEW f \in Fields, NEW c \in Contents, Edit(p, f, c) PROVE PageTypeOK'
  <2> DEFINE next == [Read(p) EXCEPT ![f] = edits + 1]
  <2>0. edits + 1 \in 0..MaxEdits
    BY <1>1 DEF Edit
  <2>1. next \in Content
    <3>1. Read(p) \in [Fields -> 0..MaxEdits]
      BY ReadTyped DEF Content
    <3> QED  BY <3>1, <2>0 DEF Content
  <2>2. Entry(p, next) \in Entries /\ Entry(p, next).base \in Nat
    BY <2>1, EntryTyped DEF Entries
  <2>3. Written(p, next) /\ edits' = edits + 1 /\ says' = [says EXCEPT ![edits + 1] = c]
        /\ UNCHANGED <<serverVars, value, known, toServer, toPage, connected, drops>>
    BY <1>1 DEF Edit
  <2> HIDE DEF next
  <2>4. /\ pending' \in [Pages -> Content \cup {NoWrite}] /\ mine' \in [Pages -> Content \cup {NoWrite}]
        /\ base' \in [Pages -> Nat]
    BY <2>1, <2>2, <2>3 DEF Written
  <2>5. queue' \in [Pages -> Seq(Entries)]
    BY <2>2, <2>3 DEF Written
  <2>6. edits' \in 0..MaxEdits /\ says' \in [0..MaxEdits -> Contents]
    BY <2>0, <2>3
  <2> QED  BY <2>3, <2>4, <2>5, <2>6
<1>2. ASSUME NEW p \in Pages, Flush(p) PROVE PageTypeOK'
  BY <1>2 DEF Flush
<1>3. ASSUME NEW p \in Pages, Propose(p) PROVE PageTypeOK'
  <2>1. Head(toServer[p]) \in Seq(Entries) \ {<<>>} /\ Tail(toServer[p]) \in Seq(Seq(Entries) \ {<<>>})
    BY <1>3 DEF Propose
  <2>2. Last(Head(toServer[p])) \in Entries
    BY <2>1 DEF Last
  <2>3. server' \in Content /\ revision' \in Nat
    BY <1>3, <2>2 DEF Propose, Entries
  <2>4. since' \in [Fields -> Nat]
    BY <1>3, <2>3 DEF Propose
  <2>5. [value |-> server', revision |-> revision'] \in Echoes
    BY <2>3 DEF Echoes
  <2>6. toPage' \in [Pages -> Seq(Echoes)]
    BY <1>3, <2>5 DEF Propose
  <2> QED  BY <1>3, <2>1, <2>3, <2>4, <2>6 DEF Propose
<1>4. ASSUME NEW p \in Pages, EchoArrives(p) PROVE PageTypeOK'
  <2>1. Head(toPage[p]) \in Echoes /\ Tail(toPage[p]) \in Seq(Echoes)
    BY <1>4 DEF EchoArrives
  <2>2. Head(toPage[p]).value \in Content /\ Head(toPage[p]).revision \in Nat
    BY <2>1 DEF Echoes
  <2> QED  BY <1>4, <2>1, <2>2, ChangedTyped DEF EchoArrives
<1>5. ASSUME NEW p \in Pages, Expire(p) PROVE PageTypeOK'
  BY <1>5 DEF Expire
<1>6. ASSUME NEW p \in Pages, Disconnect(p) PROVE PageTypeOK'
  BY <1>6 DEF Disconnect
<1>7. ASSUME NEW p \in Pages, Reconnect(p) PROVE PageTypeOK'
  BY <1>7, ChangedTyped DEF Reconnect
<1>8. CASE UNCHANGED pageStoreVars
  BY <1>8 DEF pageStoreVars
<1> QED  BY <1>1, <1>2, <1>3, <1>4, <1>5, <1>6, <1>7, <1>8 DEF PageNext

\* In every behaviour the variables have their types: what a page or the server takes
\* from a connection is a write or an echo.
THEOREM PageStoreTypeCorrect == PageSpec => []PageTypeOK
<1>1. PageInit /\ [][PageNext]_pageStoreVars => []PageTypeOK
  BY StoreTypeInit, StoreTypeStep, PTL
<1> QED  BY <1>1, PTL DEF PageSpec

-----------------------------------------------------------------------------
(* A page reads its own writes *)

Held == \A p \in Pages : mine[p] # NoWrite => pending[p] = mine[p]

LEMMA ChangedHolds ==
  ASSUME PageTypeOK, Held, Stamped, NEW p \in Pages, NEW next \in Content, Changed(p, next)
  PROVE  Held'
<1> SUFFICES ASSUME NEW q \in Pages, mine'[q] # NoWrite PROVE pending'[q] = mine'[q]
  BY DEF Held
<1> USE DEF PageTypeOK, Changed, Held, Json
<1>1. CASE q # p
  BY <1>1
<1>2. CASE q = p
  <2>1. mine[p] # next /\ mine'[p] = mine[p] /\ mine[p] # NoWrite
    BY <1>2
  <2>2. pending[p] = mine[p]
    BY <2>1
  <2> QED  BY <1>2, <2>1, <2>2
<1> QED  BY <1>1, <1>2

LEMMA HeldStep == Stamped /\ PageTypeOK /\ Held /\ [PageNext]_pageStoreVars => Held'
<1> SUFFICES ASSUME Stamped, PageTypeOK, Held, [PageNext]_pageStoreVars PROVE Held'
  OBVIOUS
<1> USE DEF serverVars, pageVars
<1>1. ASSUME NEW p \in Pages, NEW f \in Fields, NEW c \in Contents, Edit(p, f, c) PROVE Held'
  <2> DEFINE next == [Read(p) EXCEPT ![f] = edits + 1]
  <2>1. pending' = [pending EXCEPT ![p] = next] /\ mine' = [mine EXCEPT ![p] = next]
    BY <1>1 DEF Edit, Written
  <2> HIDE DEF next
  <2> QED  BY <2>1 DEF Held, PageTypeOK
<1>2. ASSUME NEW p \in Pages, Flush(p) \/ Propose(p) PROVE Held'
  BY <1>2 DEF Flush, Propose, Held
<1>3. ASSUME NEW p \in Pages, EchoArrives(p) PROVE Held'
  <2>1. Head(toPage[p]) \in Echoes
    BY <1>3 DEF EchoArrives, PageTypeOK
  <2> QED  BY <1>3, <2>1, ChangedHolds DEF EchoArrives, Echoes
<1>4. ASSUME NEW p \in Pages, Expire(p) PROVE Held'
  BY <1>4 DEF Expire, Held, PageTypeOK
<1>5. ASSUME NEW p \in Pages, Disconnect(p) PROVE Held'
  BY <1>5 DEF Disconnect, Held, PageTypeOK
<1>6. ASSUME NEW p \in Pages, Reconnect(p) PROVE Held'
  <2>1. CASE value[p] = server
    BY <1>6, <2>1 DEF Reconnect, Held
  <2>2. CASE value[p] # server
    BY <1>6, <2>2, ChangedHolds DEF Reconnect, PageTypeOK
  <2> QED  BY <2>1, <2>2
<1>7. CASE UNCHANGED pageStoreVars
  BY <1>7 DEF pageStoreVars, Held
<1> QED  BY <1>1, <1>2, <1>3, <1>4, <1>5, <1>6, <1>7 DEF PageNext

\* Where writes are stamped, a page reads its last write until the echo of it, its
\* expiry or its loss, whatever other pages write and whatever echoes come between.
THEOREM StampedReadsOwnWrites == ASSUME Stamped PROVE PageSpec => []ReadsOwnWrites
<1>1. PageInit => PageTypeOK /\ Held
  BY StoreTypeInit DEF PageInit, Held
<1>2. PageTypeOK /\ Held /\ [PageNext]_pageStoreVars => PageTypeOK' /\ Held'
  BY StoreTypeStep, HeldStep
<1>3. Held => ReadsOwnWrites
  BY DEF Held, ReadsOwnWrites, Read
<1> QED  BY <1>1, <1>2, <1>3, PTL DEF PageSpec

-----------------------------------------------------------------------------
(* A write takes back no edit that its page had read *)

\* What was built on a revision stays so: a field that the server changes is of a
\* later revision.
LEMMA FitsStays ==
  ASSUME PageTypeOK, [PageNext]_pageStoreVars, NEW x \in Content, NEW k \in Nat,
         Fits(x, k, server, since, revision, edits)
  PROVE  Fits(x, k, server', since', revision', edits')
<1> USE DEF serverVars, pageVars, Content
<1>1. ASSUME NEW p \in Pages, NEW f \in Fields, NEW c \in Contents, Edit(p, f, c)
      PROVE  Fits(x, k, server', since', revision', edits')
  <2>1. edits' = edits + 1 /\ edits \in Nat /\ UNCHANGED serverVars /\ \A g \in Fields : x[g] \in Nat
    BY <1>1, PageStoreAssumption DEF Edit, PageTypeOK
  <2> QED  BY <2>1 DEF Fits
<1>2. ASSUME NEW p \in Pages, Propose(p) PROVE Fits(x, k, server', since', revision', edits')
  <2>1. /\ revision' = revision + 1 /\ edits' = edits /\ revision \in Nat
        /\ \A g \in Fields : since'[g] = IF server'[g] = server[g] THEN since[g] ELSE revision'
    BY <1>2 DEF Propose, PageTypeOK
  <2> QED  BY <2>1 DEF Fits
<1>3. CASE UNCHANGED <<serverVars, edits>>
  BY <1>3
<1> QED  BY <1>1, <1>2, <1>3 DEF PageNext, Flush, EchoArrives, Expire, Disconnect, Reconnect, pageStoreVars

LEMMA WritesFitStays ==
  ASSUME PageTypeOK, [PageNext]_pageStoreVars, NEW writes \in Seq(Entries),
         WritesFit(writes, server, since, revision, edits)
  PROVE  WritesFit(writes, server', since', revision', edits')
<1> SUFFICES ASSUME NEW i \in 1..Len(writes)
             PROVE  Fits(writes[i].value, writes[i].base, server', since', revision', edits')
  BY DEF WritesFit
<1>1. writes[i] \in Entries
  OBVIOUS
<1>2. writes[i].value \in Content /\ writes[i].base \in Nat
  BY <1>1 DEF Entries
<1> QED  BY <1>2, FitsStays DEF WritesFit

LEMMA BoxFitsStays ==
  ASSUME PageTypeOK, [PageNext]_pageStoreVars, NEW box \in Seq(Seq(Entries)),
         BoxFits(box, server, since, revision, edits)
  PROVE  BoxFits(box, server', since', revision', edits')
BY WritesFitStays DEF BoxFits

LEMMA EchoesFitStays ==
  ASSUME PageTypeOK, [PageNext]_pageStoreVars, NEW box \in Seq(Echoes),
         EchoesFit(box, server, since, revision, edits)
  PROVE  EchoesFit(box, server', since', revision', edits')
<1> SUFFICES ASSUME NEW i \in 1..Len(box)
             PROVE  Fits(box[i].value, box[i].revision, server', since', revision', edits')
  BY DEF EchoesFit
<1>1. box[i] \in Echoes
  OBVIOUS
<1>2. box[i].value \in Content /\ box[i].revision \in Nat
  BY <1>1 DEF Echoes
<1> QED  BY <1>2, FitsStays DEF EchoesFit

\* So only what a step writes has to be looked at.
LEMMA StillFits ==
  ASSUME PageTypeOK, AllFit, [PageNext]_pageStoreVars, NEW p \in Pages
  PROVE  /\ Fits(value[p], known[p], server', since', revision', edits')
         /\ pending[p] # NoWrite => Fits(pending[p], base[p], server', since', revision', edits')
         /\ WritesFit(queue[p], server', since', revision', edits')
         /\ BoxFits(toServer[p], server', since', revision', edits')
         /\ EchoesFit(toPage[p], server', since', revision', edits')
<1>1. /\ value[p] \in Content /\ known[p] \in Nat /\ base[p] \in Nat
      /\ pending[p] # NoWrite => pending[p] \in Content
      /\ queue[p] \in Seq(Entries) /\ toServer[p] \in Seq(Seq(Entries)) /\ toPage[p] \in Seq(Echoes)
  BY DEF PageTypeOK
<1>2. Fits(value[p], known[p], server', since', revision', edits')
  BY <1>1, FitsStays DEF AllFit
<1>3. pending[p] # NoWrite => Fits(pending[p], base[p], server', since', revision', edits')
  BY <1>1, FitsStays DEF AllFit
<1>4. WritesFit(queue[p], server', since', revision', edits')
  BY <1>1, WritesFitStays DEF AllFit
<1>5. BoxFits(toServer[p], server', since', revision', edits')
  BY <1>1, BoxFitsStays DEF AllFit
<1>6. EchoesFit(toPage[p], server', since', revision', edits')
  BY <1>1, EchoesFitStays DEF AllFit
<1> QED  BY <1>2, <1>3, <1>4, <1>5, <1>6

\* A write is built on what its page reads, and the field that is edited has the
\* youngest edit of all.
LEMMA WrittenFits ==
  ASSUME PageTypeOK, AllFit, NEW p \in Pages, NEW f \in Fields, NEW next, NEW m,
         m = edits + 1, next = [Read(p) EXCEPT ![f] = m]
  PROVE  /\ Fits(next, Entry(p, next).base, server, since, revision, m)
         /\ pending[p] # NoWrite => \A g \in Fields : pending[p][g] <= next[g]
<1>1. edits \in Nat /\ m \in Nat
  BY PageStoreAssumption DEF PageTypeOK
<1>2. Fits(Read(p), Entry(p, next).base, server, since, revision, edits)
  BY DEF AllFit, Read, Entry
<1>3. ASSUME NEW g \in Fields
      PROVE  /\ next[g] <= m /\ Read(p)[g] <= next[g]
             /\ since[g] <= Entry(p, next).base => server[g] <= next[g]
  <2>1. server[g] <= edits
    BY DEF AllFit, Fits
  <2>2. Read(p)[g] <= edits /\ (since[g] <= Entry(p, next).base => server[g] <= Read(p)[g])
    BY <1>2 DEF Fits
  <2>3. Read(p) \in Content /\ server \in Content
    BY ReadTyped DEF PageTypeOK
  <2>4. Read(p)[g] \in Nat /\ server[g] \in Nat /\ next[g] = IF g = f THEN m ELSE Read(p)[g]
    BY <2>3 DEF Content
  <2>5. CASE g = f
    <3>1. next[g] = m
      BY <2>4, <2>5
    <3> QED  BY <1>1, <2>1, <2>2, <2>4, <3>1
  <2>6. CASE g # f
    <3>1. next[g] = Read(p)[g]
      BY <2>4, <2>6
    <3> QED  BY <1>1, <2>1, <2>2, <2>4, <3>1
  <2> QED  BY <2>5, <2>6
<1>4. Fits(next, Entry(p, next).base, server, since, revision, m)
  BY <1>2, <1>3 DEF Fits
<1>5. pending[p] # NoWrite => pending[p] = Read(p)
  BY DEF Read
<1> QED  BY <1>3, <1>4, <1>5

LEMMA ChangedFits ==
  ASSUME PageTypeOK, AllFit, [PageNext]_pageStoreVars, NEW p \in Pages, NEW next \in Content, NEW k \in Nat,
         Changed(p, next), known' = [known EXCEPT ![p] = k], UNCHANGED base,
         Fits(next, k, server', since', revision', edits'), NEW q \in Pages
  PROVE  /\ Fits(value'[q], known'[q], server', since', revision', edits')
         /\ pending'[q] # NoWrite => Fits(pending'[q], base'[q], server', since', revision', edits')
<1>1. /\ Fits(value[q], known[q], server', since', revision', edits')
      /\ pending[q] # NoWrite => Fits(pending[q], base[q], server', since', revision', edits')
  BY StillFits
<1>2. /\ value'[q] = IF q = p THEN next ELSE value[q]
      /\ known'[q] = IF q = p THEN k ELSE known[q]
      /\ pending'[q] = NoWrite \/ pending'[q] = pending[q]
  BY DEF PageTypeOK, Changed
<1> QED  BY <1>1, <1>2

LEMMA FitInit == PageInit => AllFit
BY PageStoreAssumption DEF PageInit, AllFit, Fits, WritesFit, BoxFits, EchoesFit

\* The last write of a proposal becomes the server's value, at a new revision.
LEMMA ProposedFits ==
  ASSUME PageTypeOK, AllFit, NEW p \in Pages, Propose(p)
  PROVE  /\ server' \in Content /\ revision' \in Nat
         /\ Fits(server', revision', server', since', revision', edits')
<1>1. Head(toServer[p]) \in Seq(Entries) \ {<<>>} /\ Head(toServer[p]) = toServer[p][1] /\ 1 \in 1..Len(toServer[p])
  BY DEF PageTypeOK, Propose
<1> DEFINE writes == Head(toServer[p])
<1>2. Len(writes) \in 1..Len(writes) /\ server' = writes[Len(writes)].value /\ writes[Len(writes)] \in Entries
  BY <1>1 DEF Propose, Last
<1>3. WritesFit(writes, server, since, revision, edits)
  BY <1>1 DEF AllFit, BoxFits
<1>4. \A f \in Fields : server'[f] <= edits
  BY <1>2, <1>3 DEF WritesFit, Fits
<1>5. server' \in Content
  BY <1>2 DEF Entries
<1>6. revision' = revision + 1 /\ edits' = edits /\ revision \in Nat /\ \A f \in Fields : server'[f] \in Nat
  BY <1>5 DEF Propose, PageTypeOK, Content
<1> QED  BY <1>4, <1>5, <1>6 DEF Fits

LEMMA FitStep == PageTypeOK /\ AllFit /\ [PageNext]_pageStoreVars => AllFit'
<1> SUFFICES ASSUME PageTypeOK, AllFit, [PageNext]_pageStoreVars PROVE AllFit'
  OBVIOUS
<1> DEFINE PageFits(q) ==
             /\ Fits(value[q], known[q], server, since, revision, edits)
             /\ pending[q] # NoWrite => Fits(pending[q], base[q], server, since, revision, edits)
             /\ WritesFit(queue[q], server, since, revision, edits)
             /\ BoxFits(toServer[q], server, since, revision, edits)
             /\ EchoesFit(toPage[q], server, since, revision, edits)
<1>0. CASE UNCHANGED pageStoreVars
  <2>1. UNCHANGED <<server, revision, since, edits, value, known, pending, base, queue, toServer, toPage>>
    BY <1>0 DEF pageStoreVars, serverVars, pageVars
  <2> QED  BY <2>1 DEF AllFit
<1>1. ASSUME NEW p \in Pages, NEW f \in Fields, NEW c \in Contents, Edit(p, f, c) PROVE AllFit'
  <2> DEFINE m == edits + 1
             next == [Read(p) EXCEPT ![f] = m]
  <2>1. UNCHANGED <<server, since, revision, value, known, toServer, toPage>> /\ edits' = m
        /\ pending' = [pending EXCEPT ![p] = next]
        /\ base' = [base EXCEPT ![p] = Entry(p, next).base]
        /\ queue' = [queue EXCEPT ![p] = Append(@, Entry(p, next))]
    BY <1>1 DEF Edit, Written, serverVars
  <2>2. /\ Fits(next, Entry(p, next).base, server', since', revision', edits')
        /\ pending[p] # NoWrite => \A g \in Fields : pending[p][g] <= next[g]
    BY <2>1, WrittenFits
  <2>3. Entry(p, next).value = next /\ Entry(p, next).own = pending[p]
    BY DEF Entry
  <2> HIDE DEF next, m
  <2>4. Fits(server', revision', server', since', revision', edits')
    <3>1. server \in Content /\ revision \in Nat
      BY DEF PageTypeOK
    <3> QED  BY <2>1, <3>1, FitsStays DEF AllFit
  <2>5. ASSUME NEW q \in Pages PROVE PageFits(q)'
    <3>1. /\ Fits(value'[q], known'[q], server', since', revision', edits')
          /\ BoxFits(toServer'[q], server', since', revision', edits')
          /\ EchoesFit(toPage'[q], server', since', revision', edits')
      BY <2>1, StillFits
    <3>2. pending'[q] # NoWrite => Fits(pending'[q], base'[q], server', since', revision', edits')
      BY <2>1, <2>2, StillFits DEF PageTypeOK
    <3>3. WritesFit(queue'[q], server', since', revision', edits')
      <4>1. WritesFit(queue[q], server', since', revision', edits') /\ queue[q] \in Seq(Entries)
        BY StillFits DEF PageTypeOK
      <4>2. CASE q # p
        BY <2>1, <4>1, <4>2 DEF PageTypeOK
      <4>3. CASE q = p
        <5>1. queue'[q] = Append(queue[q], Entry(p, next))
          BY <2>1, <4>3 DEF PageTypeOK
        <5>2. /\ Len(queue'[q]) = Len(queue[q]) + 1 /\ Len(queue[q]) \in Nat
              /\ queue'[q][Len(queue[q]) + 1] = Entry(p, next)
              /\ \A i \in 1..Len(queue[q]) : queue'[q][i] = queue[q][i]
          BY <4>1, <5>1
        <5>3. ASSUME NEW i \in 1..Len(queue'[q])
              PROVE  /\ Fits(queue'[q][i].value, queue'[q][i].base, server', since', revision', edits')
                     /\ queue'[q][i].own # NoWrite
                          => \A g \in Fields : queue'[q][i].own[g] <= queue'[q][i].value[g]
          <6>1. CASE i \in 1..Len(queue[q])
            BY <4>1, <5>2, <6>1 DEF WritesFit
          <6>2. CASE i = Len(queue[q]) + 1
            BY <2>2, <2>3, <5>2, <6>2
          <6> QED  BY <5>2, <6>1, <6>2
        <5> QED  BY <5>3 DEF WritesFit
      <4> QED  BY <4>2, <4>3
    <3> QED  BY <3>1, <3>2, <3>3
  <2> QED  BY <2>4, <2>5 DEF AllFit
<1>2. ASSUME NEW p \in Pages, Flush(p) PROVE AllFit'
  <2>1. UNCHANGED <<server, since, revision, edits, value, known, pending, base, toPage>>
        /\ toServer' = [toServer EXCEPT ![p] = Append(@, queue[p])] /\ queue' = [queue EXCEPT ![p] = <<>>]
    BY <1>2 DEF Flush, serverVars, pageVars
  <2>2. ASSUME NEW q \in Pages PROVE PageFits(q)'
    <3>1. /\ Fits(value'[q], known'[q], server', since', revision', edits')
          /\ pending'[q] # NoWrite => Fits(pending'[q], base'[q], server', since', revision', edits')
          /\ EchoesFit(toPage'[q], server', since', revision', edits')
      BY <2>1, StillFits
    <3>2. WritesFit(queue'[q], server', since', revision', edits')
      <4>1. WritesFit(queue[q], server', since', revision', edits')
        BY StillFits
      <4>2. queue'[q] = queue[q] \/ queue'[q] = <<>>
        BY <2>1 DEF PageTypeOK
      <4>3. WritesFit(<<>>, server', since', revision', edits')
        BY DEF WritesFit
      <4> QED  BY <4>1, <4>2, <4>3
    <3>3. BoxFits(toServer'[q], server', since', revision', edits')
      <4>0. toServer[q] \in Seq(Seq(Entries))
        BY DEF PageTypeOK
      <4>1. /\ BoxFits(toServer[q], server', since', revision', edits')
            /\ WritesFit(queue[p], server', since', revision', edits')
        BY StillFits
      <4>2. CASE q = p
        <5>1. toServer'[q] = Append(toServer[q], queue[p])
          BY <2>1, <4>2 DEF PageTypeOK
        <5>2. /\ Len(toServer'[q]) = Len(toServer[q]) + 1 /\ Len(toServer[q]) \in Nat
              /\ toServer'[q][Len(toServer[q]) + 1] = queue[p]
              /\ \A i \in 1..Len(toServer[q]) : toServer'[q][i] = toServer[q][i]
          BY <4>0, <5>1
        <5>3. ASSUME NEW i \in 1..Len(toServer'[q])
              PROVE  WritesFit(toServer'[q][i], server', since', revision', edits')
          <6>1. CASE i \in 1..Len(toServer[q])
            BY <4>1, <5>2, <6>1 DEF BoxFits
          <6>2. CASE i = Len(toServer[q]) + 1
            BY <4>1, <5>2, <6>2
          <6> QED  BY <5>2, <6>1, <6>2
        <5> QED  BY <5>3 DEF BoxFits
      <4>3. CASE q # p
        BY <2>1, <4>1, <4>3 DEF PageTypeOK
      <4> QED  BY <4>2, <4>3
    <3> QED  BY <3>1, <3>2, <3>3
  <2> QED  BY <2>1, <2>2 DEF AllFit
<1>3. ASSUME NEW p \in Pages, Propose(p) PROVE AllFit'
  <2> DEFINE echo == [value |-> server', revision |-> revision']
  <2>1. UNCHANGED <<edits, value, known, pending, base, queue>>
        /\ toServer' = [toServer EXCEPT ![p] = Tail(@)]
        /\ \A q \in Pages : toPage'[q] = toPage[q] \/ toPage'[q] = Append(toPage[q], echo)
    BY <1>3 DEF Propose, pageVars
  <2>2. /\ Fits(server', revision', server', since', revision', edits')
        /\ echo.value = server' /\ echo.revision = revision'
    BY <1>3, ProposedFits
  <2> HIDE DEF echo
  <2>3. ASSUME NEW q \in Pages PROVE PageFits(q)'
    <3>1. /\ Fits(value'[q], known'[q], server', since', revision', edits')
          /\ pending'[q] # NoWrite => Fits(pending'[q], base'[q], server', since', revision', edits')
          /\ WritesFit(queue'[q], server', since', revision', edits')
      BY <2>1, StillFits
    <3>2. BoxFits(toServer'[q], server', since', revision', edits')
      <4>0. toServer[q] \in Seq(Seq(Entries)) /\ toServer[p] # <<>>
        BY <1>3 DEF PageTypeOK, Propose
      <4>1. BoxFits(toServer[q], server', since', revision', edits')
        BY StillFits
      <4>2. CASE q = p
        <5>1. toServer'[q] = Tail(toServer[q]) /\ toServer[q] # <<>>
          BY <2>1, <4>0, <4>2 DEF PageTypeOK
        <5>2. /\ Len(toServer'[q]) = Len(toServer[q]) - 1 /\ Len(toServer[q]) \in Nat
              /\ \A i \in 1..Len(toServer'[q]) : toServer'[q][i] = toServer[q][i + 1]
          BY <4>0, <5>1
        <5> QED  BY <4>1, <5>2 DEF BoxFits
      <4>3. CASE q # p
        BY <2>1, <4>1, <4>3 DEF PageTypeOK
      <4> QED  BY <4>2, <4>3
    <3>3. EchoesFit(toPage'[q], server', since', revision', edits')
      <4>1. EchoesFit(toPage[q], server', since', revision', edits') /\ toPage[q] \in Seq(Echoes)
        BY StillFits DEF PageTypeOK
      <4>2. CASE toPage'[q] = Append(toPage[q], echo)
        <5>1. /\ Len(toPage'[q]) = Len(toPage[q]) + 1 /\ Len(toPage[q]) \in Nat
              /\ toPage'[q][Len(toPage[q]) + 1] = echo
              /\ \A i \in 1..Len(toPage[q]) : toPage'[q][i] = toPage[q][i]
          BY <4>1, <4>2
        <5>2. ASSUME NEW i \in 1..Len(toPage'[q])
              PROVE  Fits(toPage'[q][i].value, toPage'[q][i].revision, server', since', revision', edits')
          <6>1. CASE i \in 1..Len(toPage[q])
            BY <4>1, <5>1, <6>1 DEF EchoesFit
          <6>2. CASE i = Len(toPage[q]) + 1
            BY <2>2, <5>1, <6>2
          <6> QED  BY <5>1, <6>1, <6>2
        <5> QED  BY <5>2 DEF EchoesFit
      <4> QED  BY <2>1, <4>1, <4>2
    <3> QED  BY <3>1, <3>2, <3>3
  <2> QED  BY <2>2, <2>3 DEF AllFit
<1>4. ASSUME NEW p \in Pages, EchoArrives(p) PROVE AllFit'
  <2>1. UNCHANGED <<server, since, revision, edits, base, queue, toServer>>
        /\ Changed(p, Head(toPage[p]).value) /\ toPage' = [toPage EXCEPT ![p] = Tail(@)]
        /\ known' = [known EXCEPT ![p] = Head(toPage[p]).revision]
    BY <1>4 DEF EchoArrives, serverVars
  <2>2. Head(toPage[p]) \in Echoes /\ Head(toPage[p]) = toPage[p][1] /\ 1 \in 1..Len(toPage[p])
    BY <1>4 DEF EchoArrives, PageTypeOK
  <2>3. Head(toPage[p]).value \in Content /\ Head(toPage[p]).revision \in Nat
    BY <2>2 DEF Echoes
  <2>4. Fits(Head(toPage[p]).value, Head(toPage[p]).revision, server', since', revision', edits')
    BY <2>1, <2>2 DEF AllFit, EchoesFit
  <2>5. ASSUME NEW q \in Pages PROVE PageFits(q)'
    <3>1. /\ Fits(value'[q], known'[q], server', since', revision', edits')
          /\ pending'[q] # NoWrite => Fits(pending'[q], base'[q], server', since', revision', edits')
      BY <2>1, <2>3, <2>4, ChangedFits
    <3>2. /\ WritesFit(queue'[q], server', since', revision', edits')
          /\ BoxFits(toServer'[q], server', since', revision', edits')
      BY <2>1, StillFits
    <3>3. EchoesFit(toPage'[q], server', since', revision', edits')
      <4>1. /\ EchoesFit(toPage[q], server', since', revision', edits') /\ toPage[q] \in Seq(Echoes)
            /\ toPage[p] # <<>>
        BY <1>4, StillFits DEF PageTypeOK, EchoArrives
      <4>2. CASE q = p
        <5>1. toPage'[q] = Tail(toPage[q]) /\ toPage[q] # <<>>
          BY <2>1, <4>1, <4>2 DEF PageTypeOK
        <5>2. /\ Len(toPage'[q]) = Len(toPage[q]) - 1 /\ Len(toPage[q]) \in Nat
              /\ \A i \in 1..Len(toPage'[q]) : toPage'[q][i] = toPage[q][i + 1]
          BY <4>1, <5>1
        <5>3. ASSUME NEW i \in 1..Len(toPage'[q])
              PROVE  Fits(toPage'[q][i].value, toPage'[q][i].revision, server', since', revision', edits')
          <6>1. i + 1 \in 1..Len(toPage[q]) /\ toPage'[q][i] = toPage[q][i + 1]
            BY <5>2
          <6> QED  BY <4>1, <6>1 DEF EchoesFit
        <5> QED  BY <5>3 DEF EchoesFit
      <4>3. CASE q # p
        BY <2>1, <4>1, <4>3 DEF PageTypeOK
      <4> QED  BY <4>2, <4>3
    <3> QED  BY <3>1, <3>2, <3>3
  <2> QED  BY <2>1, <2>5 DEF AllFit
<1>5. ASSUME NEW p \in Pages, Expire(p) PROVE AllFit'
  <2>1. UNCHANGED <<server, since, revision, edits, value, known, base, queue, toServer, toPage>>
        /\ pending' = [pending EXCEPT ![p] = NoWrite]
    BY <1>5 DEF Expire, serverVars
  <2> QED  BY <2>1 DEF AllFit, PageTypeOK
<1>6. ASSUME NEW p \in Pages, Disconnect(p) PROVE AllFit'
  <2>1. UNCHANGED <<server, since, revision, edits, value, known, pending, base>>
        /\ \A q \in Pages : /\ queue'[q] = queue[q] \/ queue'[q] = <<>>
                            /\ toServer'[q] = toServer[q] \/ toServer'[q] = <<>>
                            /\ toPage'[q] = toPage[q] \/ toPage'[q] = <<>>
    BY <1>6 DEF Disconnect, serverVars, PageTypeOK
  <2>2. ASSUME NEW srv, NEW snc, NEW rev, NEW n
        PROVE  /\ WritesFit(<<>>, srv, snc, rev, n) /\ BoxFits(<<>>, srv, snc, rev, n)
               /\ EchoesFit(<<>>, srv, snc, rev, n)
    BY DEF WritesFit, BoxFits, EchoesFit
  <2>3. ASSUME NEW q \in Pages PROVE PageFits(q)'
    BY <2>1, <2>2 DEF AllFit
  <2> QED  BY <2>1, <2>3 DEF AllFit
<1>7. ASSUME NEW p \in Pages, Reconnect(p) PROVE AllFit'
  <2>1. UNCHANGED <<server, since, revision, edits, base, queue, toServer, toPage>>
        /\ known' = [known EXCEPT ![p] = revision]
    BY <1>7 DEF Reconnect, serverVars
  <2>2. Fits(server, revision, server', since', revision', edits') /\ server \in Content /\ revision \in Nat
    BY <2>1 DEF AllFit, PageTypeOK
  <2>3. ASSUME NEW q \in Pages
        PROVE  /\ Fits(value'[q], known'[q], server', since', revision', edits')
               /\ pending'[q] # NoWrite => Fits(pending'[q], base'[q], server', since', revision', edits')
    <3>1. CASE value[p] # server
      BY <1>7, <2>1, <2>2, <3>1, ChangedFits DEF Reconnect
    <3>2. CASE value[p] = server
      <4>1. UNCHANGED <<value, pending>> /\ known'[q] = IF q = p THEN revision ELSE known[q]
        BY <1>7, <2>1, <3>2 DEF Reconnect, PageTypeOK
      <4> QED  BY <2>1, <2>2, <3>2, <4>1, StillFits
    <3> QED  BY <3>1, <3>2
  <2>4. ASSUME NEW q \in Pages PROVE PageFits(q)'
    BY <2>1, <2>3, StillFits
  <2> QED  BY <2>1, <2>4 DEF AllFit
<1> QED  BY <1>0, <1>1, <1>2, <1>3, <1>4, <1>5, <1>6, <1>7 DEF PageNext

\* A write that the server takes undoes none of the page's own earlier edits, and of
\* other pages' edits none that is older than the revision it was built on.
THEOREM EditsThatWereReadStay == PageSpec => SeenEditsStay
<1> DEFINE Undoes ==
      \A p \in Pages : Propose(p) =>
        \A i \in DOMAIN Head(toServer[p]), f \in Fields :
          LET w == Head(toServer[p])[i]
              before == IF i = 1 THEN server[f] ELSE Head(toServer[p])[i - 1].value[f]
          IN  w.value[f] < before => /\ w.own # NoWrite => before # w.own[f]
                                     /\ i = 1 => since[f] > w.base
<1>1. ASSUME PageTypeOK, AllFit, NEW p \in Pages, Propose(p),
             NEW i \in DOMAIN Head(toServer[p]), NEW f \in Fields, NEW w, NEW before,
             w = Head(toServer[p])[i], w.value[f] < before,
             before = IF i = 1 THEN server[f] ELSE Head(toServer[p])[i - 1].value[f]
      PROVE  /\ w.own # NoWrite => before # w.own[f]
             /\ i = 1 => since[f] > w.base
  <2>1. Head(toServer[p]) \in Seq(Entries) /\ Head(toServer[p]) = toServer[p][1] /\ 1 \in 1..Len(toServer[p])
    BY <1>1 DEF PageTypeOK, Propose
  <2>2. i \in 1..Len(Head(toServer[p])) /\ w \in Entries
    BY <1>1, <2>1
  <2>3. before \in Nat
    <3>1. CASE i = 1
      BY <1>1, <3>1 DEF PageTypeOK, Content
    <3>2. CASE i # 1
      <4>1. Head(toServer[p])[i - 1] \in Entries
        BY <2>1, <2>2, <3>2
      <4>2. Head(toServer[p])[i - 1].value \in Content
        BY <4>1 DEF Entries
      <4> QED  BY <1>1, <3>2, <4>2 DEF Content
    <3> QED  BY <3>1, <3>2
  <2>4. /\ Fits(w.value, w.base, server, since, revision, edits)
        /\ w.own # NoWrite => w.own[f] <= w.value[f]
    BY <1>1, <2>1, <2>2 DEF AllFit, BoxFits, WritesFit
  <2>5. w.value \in Content /\ w.base \in Nat /\ w.own \in Content \cup {NoWrite}
    BY <2>2 DEF Entries
  <2>6. w.value[f] \in Nat /\ since[f] \in Nat /\ (w.own # NoWrite => w.own[f] \in Nat)
    <3>1. since[f] \in Nat
      BY <1>1 DEF PageTypeOK
    <3>2. \A x \in Content : x[f] \in Nat
      BY DEF Content
    <3> QED  BY <2>5, <3>1, <3>2
  <2>7. w.own # NoWrite => before # w.own[f]
    BY <1>1, <2>3, <2>4, <2>6
  <2>8. i = 1 => since[f] > w.base
    BY <1>1, <2>3, <2>4, <2>5, <2>6 DEF Fits
  <2> QED  BY <2>7, <2>8
<1>2. PageTypeOK /\ AllFit => Undoes
  <2> SUFFICES ASSUME PageTypeOK, AllFit, NEW p \in Pages, Propose(p),
                      NEW i \in DOMAIN Head(toServer[p]), NEW f \in Fields
               PROVE  LET w == Head(toServer[p])[i]
                          before == IF i = 1 THEN server[f] ELSE Head(toServer[p])[i - 1].value[f]
                      IN  w.value[f] < before => /\ w.own # NoWrite => before # w.own[f]
                                                 /\ i = 1 => since[f] > w.base
    OBVIOUS
  <2> QED  BY <1>1
<1>3. PageInit => PageTypeOK /\ AllFit
  BY StoreTypeInit, FitInit
<1>4. PageTypeOK /\ AllFit /\ [PageNext]_pageStoreVars => PageTypeOK' /\ AllFit'
  BY StoreTypeStep, FitStep
<1>5. SeenEditsStay <=> [][Undoes]_pageStoreVars
  BY DEF SeenEditsStay
<1> HIDE DEF Undoes
<1> QED  BY <1>2, <1>3, <1>4, <1>5, PTL DEF PageSpec
=============================================================================
