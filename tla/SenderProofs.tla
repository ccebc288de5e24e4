---------------------------- MODULE SenderProofs -----------------------------
(***************************************************************************)
(* Proofs about Sender, for any outs, configurations and workers.          *)
(*                                                                         *)
(* What the controller holds and what the workers are agree after every    *)
(* step (Agree): a worker that is told to end is not the controller's,     *)
(* unless the supervisor shuts down, and one that is not told is.          *)
(***************************************************************************)
EXTENDS Sender, FiniteSetTheorems, FunctionTheorems, TLAPS

\* What the phase of a worker says of its being told to end.
ToldToEnd(w) ==
  /\ worker[w].phase \in {"running", "dud"} => ~worker[w].stopped
  /\ worker[w].phase \in {"ending", "done"} => worker[w].stopped
  /\ worker[w].stopped /\ ~stopping => \A o \in Outs : outputs[o] # w

Typed ==
  /\ outputs \in [Outs -> Workers \cup {NoWorker}]
  /\ worker \in [Workers -> Record \cup {Free}]
  /\ stopping \in BOOLEAN /\ awaited \subseteq InUse

Agree ==
  /\ Typed
  /\ OneWorkerPerOut
  /\ \A w \in InUse : ToldToEnd(w)
  /\ \A w \in awaited : worker[w].phase = "ending"

IInv == TypeOK /\ Agree

-----------------------------------------------------------------------------
(* Records *)

LEMMA FreeIsNoRecord == Free \notin Record /\ Free.phase = "none"
BY DEF Free, Record, Phase

\* stop tells a process to end, leaves one that starts or ends, and forgets the rest.
LEMMA StoppedRecord ==
  ASSUME NEW r \in Record
  PROVE  \/ r.phase \notin {"running", "spawning", "ending"} /\ Stopped(r) = Free
         \/ /\ Stopped(r) \in Record /\ Stopped(r) # Free
            /\ Stopped(r).stopped /\ Stopped(r).out = r.out
            /\ Stopped(r).phase = (IF r.phase = "running" THEN "ending" ELSE r.phase)
            /\ Stopped(r).phase \in {"spawning", "ending"}
            /\ r.stopped /\ r.phase # "running" => Stopped(r) = r
<1>1. CASE r.phase = "running"
  <2> DEFINE s == [r EXCEPT !.stopped = TRUE]
             e == [s EXCEPT !.phase = "ending"]
  <2>1. Stopped(r) = e
    BY <1>1 DEF Stopped
  <2>2. s \in Record /\ s.stopped /\ s.out = r.out
    BY DEF Record
  <2> HIDE DEF s
  <2>3. e \in Record /\ e.stopped /\ e.out = s.out /\ e.phase = "ending"
    BY <2>2 DEF Record, Phase
  <2> QED  BY <1>1, <2>1, <2>2, <2>3, FreeIsNoRecord
<1>2. CASE r.phase \in {"spawning", "ending"}
  <2> DEFINE s == [r EXCEPT !.stopped = TRUE]
  <2>1. Stopped(r) = s
    BY <1>2 DEF Stopped
  <2>2. s \in Record /\ s.stopped /\ s.out = r.out /\ s.phase = r.phase /\ (r.stopped => s = r)
    BY DEF Record
  <2> QED  BY <1>2, <2>1, <2>2, FreeIsNoRecord
<1>3. CASE r.phase \notin {"running", "spawning", "ending"}
  BY <1>3 DEF Stopped
<1> QED  BY <1>1, <1>2, <1>3

LEMMA LaunchRecord ==
  ASSUME NEW o \in Outs, NEW c \in Configs
  PROVE  /\ Launch(o, c) \in Record /\ Launch(o, c) # Free
         /\ Launch(o, c).out = o /\ Launch(o, c).config = c
         /\ ~Launch(o, c).stopped /\ Launch(o, c).phase = "spawning"
<1>1. Launch(o, c) \in Record
  BY DEF Launch, Record, Phase, Told
<1> QED  BY <1>1, FreeIsNoRecord DEF Launch

\* There is a worker for every new out.
LEMMA NamesExist ==
  ASSUME NEW new \in SUBSET Outs, NEW room \in SUBSET Workers,
         Cardinality(new) <= Cardinality(room)
  PROVE  (CHOOSE f \in Injection(new, room) : TRUE) \in Injection(new, room)
<1>1. IsFiniteSet(new) /\ IsFiniteSet(room)
  BY SenderAssumption, FS_Subset
<1>2. /\ Cardinality(new) \in Nat /\ Cardinality(room) \in Nat
      /\ ExistsBijection(1..Cardinality(new), new)
      /\ ExistsBijection(1..Cardinality(room), room)
  BY <1>1, FS_CardinalityType
<1>3. ExistsInjection(1..Cardinality(new), 1..Cardinality(room))
  BY <1>2, Fun_NatInjLeq
<1>4. ExistsInjection(new, 1..Cardinality(new)) /\ ExistsInjection(1..Cardinality(room), room)
  BY <1>2, Fun_ExistsBijEquiv
<1>5. ExistsInjection(new, room)
  BY <1>3, <1>4, Fun_ExistsInjTransitive
<1> QED  BY <1>5 DEF ExistsInjection

-----------------------------------------------------------------------------
(* Controller.apply *)

New(a) == {o \in Outs : a[o] # Off /\ (outputs[o] = NoWorker \/ o \in Unlike(a))}
Dropped(a) == {outputs[o] : o \in Unlike(a)}

\* What apply makes of the outputs and of each worker, `name` naming the new ones.
Applied(a, name) ==
  /\ \A o \in Outs : outputs'[o] = IF o \in New(a) THEN name[o]
                                   ELSE IF o \in Unlike(a) THEN NoWorker ELSE outputs[o]
  /\ \A o \in New(a) : worker'[name[o]] = Launch(o, a[o])
  /\ \A w \in Dropped(a) : worker'[w] = Stopped(worker[w])
  /\ \A w \in Workers : w \in Dropped(a) \/ (\E o \in New(a) : w = name[o]) \/ worker'[w] = worker[w]

LEMMA Held ==
  ASSUME Agree, NEW o \in Outs, outputs[o] # NoWorker
  PROVE  outputs[o] \in InUse /\ outputs[o] \in Workers /\ worker[outputs[o]].out = o
BY DEF Agree, OneWorkerPerOut, InUse

LEMMA ApplyEffect ==
  ASSUME Agree, NEW a, Apply(a)
  PROVE  /\ outputs' \in [Outs -> Workers \cup {NoWorker}] /\ DOMAIN worker' = Workers
         /\ worker' = [w \in Workers |-> worker'[w]]
         /\ \E name \in Injection(New(a), Workers \ InUse) : Applied(a, name)
<1> DEFINE room == Workers \ InUse
           name == CHOOSE f \in Injection(New(a), room) : TRUE
<1>1. Cardinality(New(a)) <= Cardinality(room)
  BY DEF Apply, New
<1>2. name \in Injection(New(a), room)
  BY <1>1, NamesExist DEF New
<1>3. /\ outputs' = [o \in Outs |-> IF o \in New(a) THEN name[o]
                                    ELSE IF o \in Unlike(a) THEN NoWorker ELSE outputs[o]]
      /\ worker' = [w \in Workers |->
           IF w \in Dropped(a) THEN Stopped(worker[w])
           ELSE IF \E o \in New(a) : name[o] = w
           THEN LET o == CHOOSE o \in New(a) : name[o] = w IN Launch(o, a[o])
           ELSE worker[w]]
  BY DEF Apply, New, Dropped
<1> HIDE DEF name
<1>4. /\ name \in [New(a) -> room]
      /\ \A o1, o2 \in New(a) : name[o1] = name[o2] => o1 = o2
  BY <1>2 DEF Injection, IsInjective
<1>5. Dropped(a) \subseteq InUse
  BY Held DEF Dropped, Unlike
<1>6. \A o \in New(a) : worker'[name[o]] = Launch(o, a[o])
  <2> TAKE o \in New(a)
  <2>1. name[o] \in Workers /\ name[o] \notin Dropped(a)
    BY <1>4, <1>5
  <2>2. (CHOOSE u \in New(a) : name[u] = name[o]) = o
    BY <1>4
  <2> QED  BY <1>3, <2>1, <2>2
<1>7. outputs' \in [Outs -> Workers \cup {NoWorker}]
  BY <1>3, <1>4 DEF Agree, Typed
<1>8. Dropped(a) \subseteq Workers
  BY <1>5 DEF InUse
<1>9. Applied(a, name)
  BY <1>3, <1>6, <1>8 DEF Applied
<1> QED  BY <1>2, <1>3, <1>7, <1>9

LEMMA ApplyAgree ==
  ASSUME Agree, NEW a \in Answer, Apply(a), UNCHANGED <<stopping, awaited>>
  PROVE  Agree'
<1>1. PICK name \in Injection(New(a), Workers \ InUse) : Applied(a, name)
  BY ApplyEffect
<1>2. /\ name \in [New(a) -> Workers \ InUse]
      /\ \A o1, o2 \in New(a) : name[o1] = name[o2] => o1 = o2
  BY <1>1 DEF Injection, IsInjective
<1>3. Dropped(a) \subseteq InUse
  BY Held DEF Dropped, Unlike
<1>4. New(a) \subseteq Outs /\ Unlike(a) \subseteq Outs
  BY DEF New, Unlike
<1>5. \A o \in New(a) : LET r == worker'[name[o]] IN
        /\ r \in Record /\ r # Free /\ r.out = o /\ ~r.stopped /\ r.phase = "spawning"
  <2> TAKE o \in New(a)
  <2>1. a[o] \in Configs /\ o \in Outs
    BY DEF New, Answer
  <2> QED  BY <1>1, <2>1, LaunchRecord DEF Applied
<1>6. \A w \in InUse : w \in Workers /\ worker[w] \in Record /\ worker[w] # Free
  BY DEF Agree, Typed, InUse
<1>7. \A w \in Dropped(a) : LET r == worker'[w] IN
        \/ r = Free /\ w \notin awaited
        \/ /\ r \in Record /\ r # Free /\ r.stopped
           /\ r.phase = (IF worker[w].phase = "running" THEN "ending" ELSE worker[w].phase)
           /\ r.phase \in {"spawning", "ending"}
  <2> TAKE w \in Dropped(a)
  <2>1. worker'[w] = Stopped(worker[w]) /\ worker[w] \in Record
    BY <1>1, <1>3, <1>6 DEF Applied
  <2>2. w \in awaited => worker[w].phase = "ending"
    BY DEF Agree
  <2> QED  BY <2>1, <2>2, StoppedRecord
<1>8. \A w \in Workers : \/ w \in Dropped(a)
                         \/ \E o \in New(a) : w = name[o]
                         \/ worker'[w] = worker[w]
  BY <1>1 DEF Applied
<1>9. \A o \in Outs : outputs'[o] = IF o \in New(a) THEN name[o]
                                    ELSE IF o \in Unlike(a) THEN NoWorker ELSE outputs[o]
  BY <1>1 DEF Applied
<1>10. Typed'
  <2>1. worker' \in [Workers -> Record \cup {Free}]
    <3>1. \A w \in Workers : worker'[w] \in Record \cup {Free}
      BY <1>5, <1>7, <1>8 DEF Agree, Typed
    <3> QED  BY <3>1, ApplyEffect
  <2>2. awaited' \subseteq InUse'
    <3> SUFFICES ASSUME NEW w \in awaited PROVE w \in Workers /\ worker'[w] # Free
      BY DEF InUse
    <3>1. w \in InUse /\ w \in Workers /\ worker[w] # Free
      BY <1>6 DEF Agree, Typed
    <3> QED  BY <1>2, <1>7, <1>8, <3>1
  <2> QED  BY <2>1, <2>2, ApplyEffect DEF Agree, Typed
\* What the controller keeps, and nobody else has.
<1>11. \A o \in Outs \ (New(a) \cup Unlike(a)) : outputs[o] # NoWorker =>
         /\ outputs'[o] = outputs[o] /\ outputs[o] \in InUse /\ worker[outputs[o]].out = o
         /\ outputs[o] \notin Dropped(a) /\ worker'[outputs[o]] = worker[outputs[o]]
  <2> TAKE o \in Outs \ (New(a) \cup Unlike(a))
  <2> HAVE outputs[o] # NoWorker
  <2>1. outputs'[o] = outputs[o] /\ outputs[o] \in InUse /\ outputs[o] \in Workers /\ worker[outputs[o]].out = o
    BY <1>9, Held
  <2>2. outputs[o] \notin Dropped(a)
    <3> SUFFICES ASSUME NEW u \in Unlike(a), outputs[u] = outputs[o] PROVE FALSE
      BY DEF Dropped
    <3> QED  BY <1>4, <2>1, Held
  <2> QED  BY <1>2, <1>8, <2>1, <2>2
<1>12. OneWorkerPerOut'
  <2>1. ASSUME NEW w \in InUse', ~worker'[w].stopped
        PROVE  outputs'[worker'[w].out] = w
    <3>1. w \in Workers /\ worker'[w] # Free
      BY DEF InUse
    <3>2. CASE w \in Dropped(a)
      BY <1>7, <2>1, <3>1, <3>2
    <3>3. ASSUME NEW o \in New(a), w = name[o] PROVE outputs'[worker'[w].out] = w
      BY <1>4, <1>5, <1>9, <3>3
    <3>4. CASE w \notin Dropped(a) /\ worker'[w] = worker[w]
      <4> DEFINE o == worker[w].out
      <4>1. w \in InUse /\ outputs[o] = w /\ o \in Outs
        BY <2>1, <3>1, <3>4, <1>6 DEF InUse, Agree, OneWorkerPerOut, Record
      <4>2. outputs[o] # NoWorker
        BY <3>1, <4>1, SenderAssumption
      <4>3. o \notin Unlike(a) /\ o \notin New(a)
        BY <3>4, <4>1, <4>2 DEF New, Dropped
      <4> QED  BY <1>9, <3>4, <4>1, <4>3
    <3> QED  BY <1>8, <3>1, <3>2, <3>3, <3>4
  <2>2. ASSUME NEW o \in Outs, outputs'[o] # NoWorker
        PROVE  outputs'[o] \in InUse' /\ worker'[outputs'[o]].out = o
    <3>1. CASE o \in New(a)
      <4>1. outputs'[o] = name[o] /\ name[o] \in Workers
        BY <1>2, <1>9, <3>1
      <4>2. worker'[name[o]] # Free /\ worker'[name[o]].out = o
        BY <1>5, <3>1
      <4> QED  BY <4>1, <4>2 DEF InUse
    <3>2. CASE o \notin New(a)
      <4>1. o \notin Unlike(a) /\ outputs[o] # NoWorker
        BY <1>9, <2>2, <3>2
      <4>2. /\ outputs'[o] = outputs[o] /\ outputs[o] \in InUse /\ worker[outputs[o]].out = o
            /\ worker'[outputs[o]] = worker[outputs[o]]
        BY <1>11, <3>2, <4>1
      <4> QED  BY <4>2 DEF InUse
    <3> QED  BY <3>1, <3>2
  <2> QED  BY <2>1, <2>2 DEF OneWorkerPerOut
<1>13. ASSUME NEW w \in InUse'
       PROVE  ToldToEnd(w)'
  <2>1. w \in Workers /\ worker'[w] # Free
    BY DEF InUse
  <2>2. CASE w \in Dropped(a)
    <3>1. worker'[w].stopped /\ worker'[w].phase \in {"spawning", "ending"} /\ w \in InUse
      BY <1>3, <1>7, <2>1, <2>2
    <3>2. \A o \in Outs : outputs'[o] # w
      <4> TAKE o \in Outs
      <4>1. CASE o \in New(a)
        BY <1>2, <1>9, <3>1, <4>1
      <4>2. CASE o \notin New(a)
        BY <1>6, <1>9, <1>11, <2>1, <2>2, <4>2, SenderAssumption
      <4> QED  BY <4>1, <4>2
    <3> QED  BY <3>1, <3>2 DEF ToldToEnd
  <2>3. ASSUME NEW o \in New(a), w = name[o] PROVE ToldToEnd(w)'
    BY <1>5, <2>3 DEF ToldToEnd
  <2>4. CASE worker'[w] = worker[w]
    <3>1. w \in InUse /\ ToldToEnd(w)
      BY <2>1, <2>4 DEF InUse, Agree
    <3>2. ASSUME worker[w].stopped, ~stopping, NEW o \in Outs PROVE outputs'[o] # w
      <4>1. outputs[o] # w
        BY <3>1, <3>2 DEF ToldToEnd
      <4> QED  BY <1>2, <1>9, <2>1, <3>1, <4>1, SenderAssumption
    <3> QED  BY <2>4, <3>1, <3>2 DEF ToldToEnd
  <2> QED  BY <1>8, <2>1, <2>2, <2>3, <2>4
<1>14. ASSUME NEW w \in awaited'
       PROVE  worker'[w].phase = "ending"
  <2>1. w \in InUse /\ w \in Workers /\ worker[w].phase = "ending" /\ w \in awaited
    BY <1>6 DEF Agree, Typed
  <2>2. CASE w \in Dropped(a)
    BY <1>7, <2>1, <2>2
  <2>3. CASE w \notin Dropped(a)
    BY <1>2, <1>8, <2>1, <2>3
  <2> QED  BY <2>2, <2>3
<1> QED  BY <1>10, <1>12, <1>13, <1>14 DEF Agree

-----------------------------------------------------------------------------
(* One worker's step *)

\* The worker's process goes on, or the worker is forgotten once it was told to
\* end and the controller has it no more.
Continues(w) ==
  /\ worker'[w] \in Record /\ worker'[w].out = worker[w].out
  /\ worker'[w].stopped = worker[w].stopped
  /\ worker'[w].phase \in {"running", "dud"} => ~worker[w].stopped
  /\ worker'[w].phase \in {"ending", "done"} => worker[w].stopped
Forgotten(w) == worker'[w] = Free /\ worker[w].stopped /\ \A o \in Outs : outputs[o] # w

LEMMA OneStep ==
  ASSUME Agree, NEW w \in InUse, NEW r, worker' = [worker EXCEPT ![w] = r],
         UNCHANGED <<outputs, stopping>>, Continues(w) \/ Forgotten(w),
         awaited' = awaited \ {w} \/ (awaited' = awaited /\ worker[w].phase # "ending")
  PROVE  Agree'
<1> USE DEF Agree
<1>1. /\ w \in Workers /\ worker[w] \in Record /\ worker[w] # Free
      /\ \A v \in Workers \ {w} : worker'[v] = worker[v]
  BY DEF Typed, InUse
<1>2. /\ w \notin awaited' /\ awaited' \subseteq awaited
      /\ \A v \in awaited' : v \in Workers /\ worker[v] # Free
  BY DEF Typed, InUse
<1>3. worker'[w] \in Record \cup {Free} /\ (worker'[w] = Free => Forgotten(w))
  BY FreeIsNoRecord DEF Continues, Forgotten
<1>4. Typed'
  <2>1. worker' \in [Workers -> Record \cup {Free}]
    BY <1>1, <1>3 DEF Typed
  <2>2. awaited' \subseteq InUse'
    BY <1>1, <1>2 DEF InUse
  <2> QED  BY <2>1, <2>2 DEF Typed
<1>5. OneWorkerPerOut'
  <2>1. ASSUME NEW v \in InUse', ~worker'[v].stopped
        PROVE  outputs'[worker'[v].out] = v
    <3>1. CASE v = w
      BY <1>3, <2>1, <3>1 DEF InUse, OneWorkerPerOut, Continues, Forgotten
    <3>2. CASE v # w
      BY <1>1, <2>1, <3>2 DEF InUse, OneWorkerPerOut
    <3> QED  BY <3>1, <3>2
  <2>2. ASSUME NEW o \in Outs, outputs'[o] # NoWorker
        PROVE  outputs'[o] \in InUse' /\ worker'[outputs'[o]].out = o
    <3>1. outputs[o] \in InUse /\ outputs[o] \in Workers /\ worker[outputs[o]].out = o
      BY <2>2, Held
    <3>2. CASE outputs[o] = w
      BY <1>1, <1>3, <3>1, <3>2, FreeIsNoRecord DEF InUse, Continues, Forgotten
    <3>3. CASE outputs[o] # w
      BY <1>1, <3>1, <3>3 DEF InUse
    <3> QED  BY <3>2, <3>3
  <2> QED  BY <2>1, <2>2 DEF OneWorkerPerOut
<1>6. ASSUME NEW v \in InUse'
      PROVE  ToldToEnd(v)'
  <2>1. v \in Workers /\ worker'[v] # Free
    BY DEF InUse
  <2>2. CASE v = w
    BY <2>1, <2>2 DEF ToldToEnd, Continues, Forgotten
  <2>3. CASE v # w
    BY <1>1, <2>1, <2>3 DEF ToldToEnd, InUse
  <2> QED  BY <2>2, <2>3
<1>7. \A v \in awaited' : worker'[v].phase = "ending"
  BY <1>1, <1>2
<1> QED  BY <1>4, <1>5, <1>6, <1>7

LEMMA BecomeRecord ==
  ASSUME Agree, NEW w \in InUse, NEW p \in Phase, NEW t \in Told, Become(w, p, t)
  PROVE  /\ worker' = [worker EXCEPT ![w] = worker'[w]]
         /\ worker'[w] \in Record /\ worker'[w].phase = p
         /\ worker'[w].out = worker[w].out /\ worker'[w].stopped = worker[w].stopped
<1> DEFINE r == [worker[w] EXCEPT !.phase = p]
           s == [r EXCEPT !.told = t]
<1>1. w \in Workers /\ worker[w] \in Record /\ worker \in [Workers -> Record \cup {Free}]
  BY DEF Agree, Typed, InUse
<1>2. r \in Record /\ r.phase = p /\ r.out = worker[w].out /\ r.stopped = worker[w].stopped
  BY <1>1 DEF Record
<1>3. worker' = [worker EXCEPT ![w] = s]
  BY <1>1 DEF Become
<1> HIDE DEF r
<1>4. s \in Record /\ s.phase = r.phase /\ s.out = r.out /\ s.stopped = r.stopped
  BY <1>2 DEF Record
<1> HIDE DEF s
<1>5. worker'[w] = s
  BY <1>1, <1>3
<1> QED  BY <1>2, <1>3, <1>4, <1>5

LEMMA RetireRecord ==
  ASSUME Agree, NEW w \in InUse, worker[w].stopped, Retire(w)
  PROVE  /\ worker' = [worker EXCEPT ![w] = worker'[w]]
         /\ Continues(w) \/ Forgotten(w)
         /\ worker'[w].phase \in {"done", "none"}
<1>1. w \in Workers /\ worker[w] \in Record /\ worker \in [Workers -> Record \cup {Free}]
  BY DEF Agree, Typed, InUse
<1> DEFINE r == [worker[w] EXCEPT !.phase = "done"]
<1>2. r \in Record /\ r.phase = "done" /\ r.out = worker[w].out /\ r.stopped = worker[w].stopped
  BY <1>1 DEF Record, Phase
<1>3. worker' = [worker EXCEPT ![w] = IF \E o \in Outs : outputs[o] = w THEN r ELSE Free]
  BY DEF Retire
<1> HIDE DEF r
<1>4. worker'[w] = IF \E o \in Outs : outputs[o] = w THEN r ELSE Free
  BY <1>1, <1>3
<1> QED  BY <1>2, <1>3, <1>4, FreeIsNoRecord DEF Continues, Forgotten

\* The steps of a worker are steps of this kind, and none of them starts what was stopped.
WorkerStep(w) ==
  \/ Spawned(w) \/ SpawnRejected(w) \/ SpawnErrs(w)
  \/ Tells(w) \/ Crashes(w) \/ Ends(w) \/ Relaunch(w)

LEMMA WorkerStepKind ==
  ASSUME Agree, NEW w \in Workers, WorkerStep(w)
  PROVE  /\ w \in InUse /\ worker' = [worker EXCEPT ![w] = worker'[w]]
         /\ UNCHANGED <<outputs, stopping>>
         /\ Continues(w) \/ Forgotten(w)
         /\ awaited' = awaited \ {w} \/ (awaited' = awaited /\ worker[w].phase # "ending")
         /\ worker[w].stopped => worker'[w].phase \in {"ending", "resting", "done", "none"}
<1>1. w \in InUse
  <2>1. worker[w].phase # "none"
    BY DEF WorkerStep, Spawned, SpawnRejected, SpawnErrs, Tells, Crashes, Ends, Relaunch
  <2> QED  BY <2>1, FreeIsNoRecord DEF InUse
<1>2. worker[w] \in Record /\ worker[w].told \in Told /\ ToldToEnd(w)
  BY <1>1 DEF Agree, Typed, InUse, Record
<1>3. UNCHANGED <<outputs, stopping>>
  BY DEF WorkerStep, Spawned, SpawnRejected, SpawnErrs, Tells, Crashes, Ends, Relaunch, supervisor
<1> USE DEF Phase, Told, Continues, supervisor
<1>4. CASE Spawned(w)
  <2> DEFINE p == IF worker[w].stopped THEN "ending" ELSE "running"
  <2>1. Become(w, p, worker[w].told) /\ p \in Phase /\ awaited' = awaited /\ worker[w].phase = "spawning"
    BY <1>4 DEF Spawned
  <2> HIDE DEF p
  <2>2. /\ worker' = [worker EXCEPT ![w] = worker'[w]]
        /\ worker'[w] \in Record /\ worker'[w].phase = p
        /\ worker'[w].out = worker[w].out /\ worker'[w].stopped = worker[w].stopped
    BY <1>1, <1>2, <2>1, BecomeRecord
  <2>3. worker[w].stopped \in BOOLEAN
    BY <1>2 DEF Record
  <2> QED  BY <1>1, <1>3, <2>1, <2>2, <2>3 DEF p
<1>5. CASE SpawnRejected(w)
  <2>1. Become(w, "resting", "error") /\ awaited' = awaited /\ worker[w].phase = "spawning"
    BY <1>5 DEF SpawnRejected
  <2> QED  BY <1>1, <1>3, <2>1, BecomeRecord
<1>6. CASE SpawnErrs(w)
  <2>1. awaited' = awaited /\ worker[w].phase = "spawning"
    BY <1>6 DEF SpawnErrs
  <2>2. CASE worker[w].stopped
    BY <1>1, <1>3, <1>6, <2>1, <2>2, RetireRecord DEF SpawnErrs
  <2>3. CASE ~worker[w].stopped
    <3>1. Become(w, "dud", worker[w].told)
      BY <1>6, <2>3 DEF SpawnErrs
    <3> QED  BY <1>1, <1>2, <1>3, <2>1, <2>3, <3>1, BecomeRecord
  <2> QED  BY <2>2, <2>3
<1>7. CASE Tells(w)
  <2>1. Become(w, "running", "sending") /\ awaited' = awaited /\ worker[w].phase = "running"
    BY <1>7 DEF Tells
  <2> QED  BY <1>1, <1>2, <1>3, <2>1, BecomeRecord DEF ToldToEnd
<1>8. CASE Crashes(w)
  <2>1. awaited' = awaited /\ worker[w].phase = "running" /\ ~worker[w].stopped
    BY <1>2, <1>8 DEF Crashes, ToldToEnd
  <2>2. CASE Become(w, "resting", "error")
    BY <1>1, <1>3, <2>1, <2>2, BecomeRecord
  <2>3. CASE worker' = [worker EXCEPT ![w].phase = "spawning", ![w].cpu = TRUE]
    <3> DEFINE r == [worker[w] EXCEPT !.phase = "spawning"]
               s == [r EXCEPT !.cpu = TRUE]
    <3>1. r \in Record /\ r.phase = "spawning" /\ r.out = worker[w].out /\ r.stopped = worker[w].stopped
      BY <1>2 DEF Record
    <3>2. worker' = [worker EXCEPT ![w] = s]
      BY <2>3 DEF Agree, Typed
    <3> HIDE DEF r
    <3>3. s \in Record /\ s.phase = r.phase /\ s.out = r.out /\ s.stopped = r.stopped
      BY <3>1 DEF Record
    <3> HIDE DEF s
    <3>4. worker'[w] = s
      BY <3>2 DEF Agree, Typed
    <3> QED  BY <1>1, <1>3, <2>1, <3>1, <3>2, <3>3, <3>4
  <2> QED  BY <1>8, <2>2, <2>3 DEF Crashes
<1>9. CASE Ends(w)
  <2>1. Retire(w) /\ awaited' = awaited \ {w} /\ worker[w].stopped
    BY <1>2, <1>9 DEF Ends, ToldToEnd
  <2> QED  BY <1>1, <1>3, <2>1, RetireRecord
<1>10. CASE Relaunch(w)
  <2>1. awaited' = awaited /\ worker[w].phase = "resting"
    BY <1>10 DEF Relaunch
  <2>2. CASE worker[w].stopped
    BY <1>1, <1>3, <1>10, <2>1, <2>2, RetireRecord DEF Relaunch
  <2>3. CASE ~worker[w].stopped
    <3>1. Become(w, "spawning", worker[w].told)
      BY <1>10, <2>3 DEF Relaunch
    <3> QED  BY <1>1, <1>2, <1>3, <2>1, <2>3, <3>1, BecomeRecord
  <2> QED  BY <2>2, <2>3
<1> QED  BY <1>4, <1>5, <1>6, <1>7, <1>8, <1>9, <1>10 DEF WorkerStep

-----------------------------------------------------------------------------
(* The supervisor's end *)

LEMMA ShutdownAgree ==
  ASSUME Agree, Shutdown
  PROVE  /\ Agree'
         /\ \A w \in InUse : worker[w].stopped => worker'[w] = worker[w]
<1> USE DEF Agree
<1> DEFINE told == {outputs[o] : o \in Outs} \ {NoWorker}
<1>1. /\ ~stopping /\ stopping' = TRUE /\ outputs' = outputs
      /\ awaited' = {w \in told : HasProcess(w)}
      /\ worker' = [w \in Workers |->
           IF w \notin told THEN worker[w]
           ELSE IF worker[w].phase \in {"resting", "dud"}
           THEN [worker[w] EXCEPT !.stopped = TRUE, !.phase = "done"] ELSE Stopped(worker[w])]
  BY DEF Shutdown
<1>2. told \subseteq InUse /\ told \subseteq Workers
  BY Held
<1>3. \A w \in InUse : w \in Workers /\ worker[w] \in Record /\ ToldToEnd(w)
  BY DEF Typed, InUse
<1>4. \A w \in told : ~worker[w].stopped /\ worker[w].phase \in {"spawning", "running", "resting", "dud"}
  <2> TAKE w \in told
  <2>1. PICK o \in Outs : outputs[o] = w
    OBVIOUS
  <2>2. worker[w].phase \in Phase /\ ToldToEnd(w)
    BY <1>2, <1>3 DEF Record
  <2>3. ~worker[w].stopped
    BY <1>1, <2>1, <2>2 DEF ToldToEnd
  <2> QED  BY <2>2, <2>3 DEF ToldToEnd, Phase
<1>5. \A w \in told :
        /\ worker'[w] \in Record /\ worker'[w] # Free
        /\ worker'[w].out = worker[w].out /\ worker'[w].stopped
        /\ worker'[w].phase \in {"spawning", "ending", "done"}
        /\ HasProcess(w) => worker'[w].phase = "ending"
  <2> TAKE w \in told
  <2> DEFINE s == [worker[w] EXCEPT !.stopped = TRUE]
             d == [s EXCEPT !.phase = "done"]
  <2>1. w \in Workers /\ worker[w] \in Record
    BY <1>2, <1>3
  <2>2. CASE worker[w].phase \in {"resting", "dud"}
    <3>1. worker'[w] = d
      BY <1>1, <2>1, <2>2
    <3>2. s \in Record /\ s.out = worker[w].out /\ s.stopped
      BY <2>1 DEF Record
    <3> HIDE DEF s
    <3>3. d \in Record /\ d.out = s.out /\ d.stopped /\ d.phase = "done"
      BY <3>2 DEF Record, Phase
    <3> QED  BY <2>2, <3>1, <3>2, <3>3, FreeIsNoRecord DEF HasProcess
  <2>3. CASE worker[w].phase \in {"spawning", "running"}
    <3>1. worker'[w] = Stopped(worker[w])
      BY <1>1, <2>1, <2>3
    <3> QED  BY <2>1, <2>3, <3>1, StoppedRecord DEF HasProcess
  <2> QED  BY <1>4, <2>2, <2>3
<1>6. \A w \in Workers \ told : worker'[w] = worker[w]
  BY <1>1
<1> HIDE DEF told
<1>7. Typed'
  <2>1. \A w \in Workers : worker'[w] \in Record \cup {Free}
    BY <1>5, <1>6 DEF Typed
  <2>2. worker' \in [Workers -> Record \cup {Free}]
    BY <1>1, <2>1
  <2>3. awaited' \subseteq InUse'
    BY <1>1, <1>2, <1>5 DEF InUse
  <2> QED  BY <1>1, <2>2, <2>3 DEF Typed
<1>8. OneWorkerPerOut'
  <2>1. ASSUME NEW w \in InUse', ~worker'[w].stopped
        PROVE  outputs'[worker'[w].out] = w
    BY <1>1, <1>5, <1>6, <2>1 DEF InUse, OneWorkerPerOut
  <2>2. ASSUME NEW o \in Outs, outputs'[o] # NoWorker
        PROVE  outputs'[o] \in InUse' /\ worker'[outputs'[o]].out = o
    <3>1. outputs[o] \in told
      BY <1>1, <2>2 DEF told
    <3>2. outputs[o] \in Workers /\ worker[outputs[o]].out = o
      BY <1>1, <2>2, Held
    <3>3. worker'[outputs[o]] # Free /\ worker'[outputs[o]].out = o
      BY <1>5, <3>1, <3>2
    <3> QED  BY <1>1, <3>2, <3>3 DEF InUse
  <2> QED  BY <2>1, <2>2 DEF OneWorkerPerOut
<1>9. ASSUME NEW w \in InUse'
      PROVE  ToldToEnd(w)'
  <2>1. w \in Workers /\ worker'[w] # Free
    BY DEF InUse
  <2>2. CASE w \in told
    BY <1>1, <1>5, <2>2 DEF ToldToEnd
  <2>3. CASE w \notin told
    BY <1>1, <1>3, <1>6, <2>1, <2>3 DEF ToldToEnd, InUse
  <2> QED  BY <2>2, <2>3
<1>10. \A w \in awaited' : worker'[w].phase = "ending"
  BY <1>1, <1>5
<1>11. \A w \in InUse : worker[w].stopped => worker'[w] = worker[w]
  BY <1>3, <1>4, <1>6
<1> QED  BY <1>7, <1>8, <1>9, <1>10, <1>11

LEMMA ExitAgree ==
  ASSUME Agree, Exit
  PROVE  /\ Agree'
         /\ \A w \in InUse : worker'[w].phase \in {"ending", "none"}
<1> USE DEF Agree
<1>1. /\ stopping' = stopping /\ awaited' = {}
      /\ outputs' = [o \in Outs |-> NoWorker]
      /\ worker' = [w \in Workers |->
           IF HasProcess(w) THEN [worker[w] EXCEPT !.stopped = TRUE, !.phase = "ending"] ELSE Free]
  BY DEF Exit
<1>2. \A w \in Workers :
        \/ worker'[w] = Free
        \/ worker'[w] \in Record /\ worker'[w] # Free /\ worker'[w].stopped /\ worker'[w].phase = "ending"
  <2> TAKE w \in Workers
  <2> DEFINE s == [worker[w] EXCEPT !.stopped = TRUE]
             e == [s EXCEPT !.phase = "ending"]
  <2>1. CASE HasProcess(w)
    <3>1. worker[w] \in Record
      BY <2>1, FreeIsNoRecord DEF HasProcess, Typed
    <3>2. worker'[w] = e
      BY <1>1, <2>1
    <3>3. s \in Record /\ s.stopped
      BY <3>1 DEF Record
    <3> HIDE DEF s
    <3>4. e \in Record /\ e.stopped /\ e.phase = "ending"
      BY <3>3 DEF Record, Phase
    <3> QED  BY <3>2, <3>4, FreeIsNoRecord
  <2>2. CASE ~HasProcess(w)
    BY <1>1, <2>2
  <2> QED  BY <2>1, <2>2
<1>3. Typed'
  <2>1. worker' \in [Workers -> Record \cup {Free}]
    BY <1>1, <1>2
  <2> QED  BY <1>1, <2>1 DEF Typed
<1>4. OneWorkerPerOut'
  BY <1>1, <1>2 DEF OneWorkerPerOut, InUse
<1>5. ASSUME NEW w \in InUse'
      PROVE  ToldToEnd(w)'
  <2>1. \A o \in Outs : outputs'[o] # w
    BY <1>1, SenderAssumption DEF InUse
  <2> QED  BY <1>2, <2>1 DEF ToldToEnd, InUse
<1>6. \A w \in InUse : worker'[w].phase \in {"ending", "none"}
  BY <1>2, FreeIsNoRecord DEF InUse
<1> QED  BY <1>1, <1>3, <1>4, <1>5, <1>6

-----------------------------------------------------------------------------
(* The invariant *)

\* Every step applies an answer, moves one worker, ends the supervisor or leaves
\* the workers alone.
Applies == \E a \in {answer, Nothing} :
  /\ Apply(a) /\ UNCHANGED <<stopping, awaited>>
  /\ sent # key \/ (tick = "answered" /\ a = answer)
Leaves == UNCHANGED <<outputs, worker, stopping, awaited>>

LEMMA StepKinds ==
  ASSUME [Next]_vars
  PROVE  Applies \/ Leaves \/ Shutdown \/ Exit \/ \E w \in Workers : WorkerStep(w)
<1>1. CASE Follow \/ Refused
  BY <1>1 DEF Follow, Refused, Applies, supervisor
<1>2. CASE \/ \E o \in Outs, c \in Configs \cup {Off} : SetOut(o, c)
           \/ \E written \in BOOLEAN : ReplaceKey(written)
           \/ ServerRestart \/ Age \/ Prune
           \/ Ask \/ Answers \/ Reports \/ Unreachable
  BY <1>2 DEF SetOut, ReplaceKey, ServerRestart, Age, Prune, Ask, Answers, Reports,
              Unreachable, Leaves, supervisor
<1>3. CASE \E w \in Workers : \/ Spawned(w) \/ SpawnRejected(w) \/ SpawnErrs(w)
                              \/ Tells(w) \/ Crashes(w) \/ Ends(w) \/ Relaunch(w)
  BY <1>3 DEF WorkerStep
<1>4. CASE UNCHANGED vars
  BY <1>4 DEF vars, supervisor, Leaves
<1> QED  BY <1>1, <1>2, <1>3, <1>4 DEF Next, Round

LEMMA Answered ==
  ASSUME TypeOK
  PROVE  answer \in Answer /\ Nothing \in Answer
BY DEF TypeOK, Answer, Nothing

LEMMA NextAgree ==
  ASSUME TypeOK, Agree, [Next]_vars
  PROVE  Agree'
<1>1. CASE Applies
  BY <1>1, Answered, ApplyAgree DEF Applies
<1>2. CASE Leaves
  BY <1>2 DEF Leaves, Agree, Typed, OneWorkerPerOut, ToldToEnd, InUse
<1>3. ASSUME NEW w \in Workers, WorkerStep(w)
      PROVE  Agree'
  <2>1. w \in InUse /\ worker' = [worker EXCEPT ![w] = worker'[w]]
    BY <1>3, WorkerStepKind
  <2> QED  BY <1>3, <2>1, WorkerStepKind, OneStep
<1> QED  BY <1>1, <1>2, <1>3, StepKinds, ShutdownAgree, ExitAgree

LEMMA InitInv == Init => IInv
<1> SUFFICES ASSUME Init PROVE IInv
  OBVIOUS
<1>1. InUse = {}
  BY DEF Init, InUse
<1>2. Typed
  BY <1>1 DEF Init, Typed
<1>3. Agree
  BY <1>1, <1>2 DEF Init, Agree, OneWorkerPerOut
<1>4. TypeOK
  <2>1. Nothing \in Answer /\ Nothing \in Status
    BY DEF Nothing, Answer, Status
  <2>2. events \in 0..MaxEvents /\ key \in Nat /\ keyFile \in 0..key /\ sent \in 0..key
    BY SenderAssumption DEF Init
  <2> QED  BY <1>2, <2>1, <2>2 DEF Init, TypeOK, Typed
<1> QED  BY <1>3, <1>4 DEF IInv

\* The server, the follower and the bound on events.
Rounds ==
  /\ wanted \in Answer /\ key \in Nat /\ keyFile \in 0..key
  /\ hub \in Status \cup {NotKnown} /\ seen \in BOOLEAN
  /\ tick \in {"waiting", "asking", "answered", "reporting", "halted"}
  /\ sent \in 0..key /\ answer \in Answer /\ report \in Status
  /\ over \in BOOLEAN /\ events \in 0..MaxEvents

LEMMA NextRounds ==
  ASSUME Rounds, Agree, Agree', [Next]_vars
  PROVE  Rounds'
<1>0. Event => events' \in 0..MaxEvents
  BY SenderAssumption DEF Event, Rounds
<1> USE <1>0 DEF Rounds, server, follower, supervisor
<1>1. Nothing \in Answer /\ Nothing \in Status /\ Rest \in {"waiting", "halted"}
  BY DEF Nothing, Answer, Status, Rest
<1>2. StatusOf(outputs', worker') \in Status
  <2>1. \A o \in Outs : outputs'[o] # NoWorker => worker'[outputs'[o]] \in Record
    BY DEF Agree, OneWorkerPerOut, Typed, InUse
  <2>2. \A o \in Outs : outputs'[o] # NoWorker => worker'[outputs'[o]].told \in Told
    BY <2>1 DEF Record
  <2> QED  BY <2>2 DEF StatusOf, Status
<1>3. ASSUME NEW o \in Outs, NEW c \in Configs \cup {Off}, SetOut(o, c)
      PROVE  Rounds'
  <2>1. wanted' \in Answer
    BY <1>3 DEF SetOut, Answer
  <2> QED  BY <1>3, <2>1 DEF SetOut
<1>4. ASSUME NEW written \in BOOLEAN, ReplaceKey(written)
      PROVE  Rounds'
  BY <1>4 DEF ReplaceKey
<1>5. CASE ServerRestart \/ Age \/ Prune
  <2>1. CASE ServerRestart
    <3>1. hub' = NotKnown /\ seen' = FALSE /\ keyFile' = key /\ Event
      BY <2>1 DEF ServerRestart
    <3>2. keyFile' \in 0..key
      BY <3>1
    <3> QED  BY <2>1, <3>1, <3>2 DEF ServerRestart
  <2>2. CASE Age
    <3>1. seen' = FALSE /\ events' \in 0..MaxEvents
      BY <2>2 DEF Age
    <3> QED  BY <2>2, <3>1 DEF Age
  <2>3. CASE Prune
    BY <2>3 DEF Prune
  <2> QED  BY <1>5, <2>1, <2>2, <2>3
<1>6. CASE Ask \/ Answers
  BY <1>6 DEF Ask, Answers
<1>7. CASE Follow
  BY <1>1, <1>2, <1>7 DEF Follow
<1>8. CASE Reports \/ Refused \/ Unreachable
  <2>1. 0 \in 0..key
    OBVIOUS
  <2>2. CASE Reports
    BY <1>1, <2>1, <2>2 DEF Reports
  <2>3. CASE Refused
    BY <1>1, <2>1, <2>3 DEF Refused
  <2>4. CASE Unreachable
    <3>1. /\ hub' \in Status \cup {NotKnown} /\ seen' \in BOOLEAN
          /\ tick' = Rest /\ report' = Nothing /\ sent' = 0 /\ Event
      BY <2>4 DEF Unreachable
    <3> QED  BY <1>1, <2>1, <2>4, <3>1 DEF Unreachable
  <2> QED  BY <1>8, <2>2, <2>3, <2>4
<1>9. ASSUME NEW w \in Workers, WorkerStep(w)
      PROVE  Rounds'
  BY <1>9 DEF WorkerStep, Spawned, SpawnRejected, SpawnErrs, Tells, Crashes, Ends, Relaunch
<1>10. CASE Shutdown \/ Exit
  <2>1. 0 \in 0..key
    OBVIOUS
  <2>2. CASE Shutdown
    BY <2>2 DEF Shutdown
  <2>3. CASE Exit
    BY <1>1, <2>1, <2>3 DEF Exit
  <2> QED  BY <1>10, <2>2, <2>3
<1>11. CASE UNCHANGED vars
  BY <1>11 DEF vars
<1> QED
  BY <1>3, <1>4, <1>5, <1>6, <1>7, <1>8, <1>9, <1>10, <1>11 DEF Next, Round, WorkerStep

LEMMA NextInv == IInv /\ [Next]_vars => IInv'
<1> SUFFICES ASSUME IInv, [Next]_vars PROVE IInv'
  OBVIOUS
<1>1. Agree /\ Agree'
  BY NextAgree DEF IInv
<1>2. Rounds'
  BY <1>1, NextRounds DEF IInv, TypeOK, Rounds
<1> QED  BY <1>1, <1>2 DEF IInv, TypeOK, Rounds, Agree, Typed

LEMMA Invariant == Spec => []IInv
BY InitInv, NextInv, PTL DEF Spec

-----------------------------------------------------------------------------
(* The properties *)

\* The server's and the follower's state stay well formed, and the supervisor
\* only awaits workers there are (supervisor.mjs, ndi.ts).
THEOREM SenderTypeCorrect == Spec => []TypeOK
BY Invariant, PTL DEF IInv

\* An out never has two workers that are not told to end, and the controller
\* forgets none (Controller.apply, WorkerOutput.stop).
THEOREM OneWorker == Spec => []OneWorkerPerOut
<1>1. IInv => OneWorkerPerOut
  BY DEF IInv, Agree
<1> QED  BY <1>1, Invariant, PTL

\* A stop is not followed by a restart, in whichever phase it finds the process
\* (workers.mjs, launch and ended).
THEOREM StoppedStays == Spec => StoppedNeverRuns
<1>1. ASSUME IInv, [Next]_vars, NEW w \in InUse, worker[w].stopped
      PROVE  \/ worker'[w].phase \in {"ending", "resting", "done", "none"}
             \/ worker[w].phase = "spawning" /\ worker'[w] = worker[w]
  <2>1. w \in Workers /\ worker[w] \in Record /\ ToldToEnd(w) /\ Agree /\ TypeOK
    BY <1>1 DEF IInv, Agree, Typed, InUse
  <2>2. worker[w].phase \in {"spawning", "ending", "resting", "done"}
    <3>1. worker[w].phase \in Phase
      BY <2>1 DEF Record
    <3> QED  BY <1>1, <2>1, <3>1 DEF ToldToEnd, Phase
  <2>3. CASE worker'[w] = worker[w]
    BY <2>2, <2>3
  <2>4. ASSUME Applies, worker'[w] # worker[w]
        PROVE  worker'[w] = Stopped(worker[w])
    <3>1. PICK a \in {answer, Nothing} : Apply(a)
      BY <2>4 DEF Applies
    <3>2. PICK name \in Injection(New(a), Workers \ InUse) : Applied(a, name)
      BY <2>1, <3>1, ApplyEffect
    <3>3. name \in [New(a) -> Workers \ InUse]
      BY DEF Injection
    <3>4. w \in Dropped(a)
      BY <2>1, <2>4, <3>2, <3>3 DEF Applied
    <3> QED  BY <3>2, <3>4 DEF Applied
  <2>5. CASE worker'[w] = Stopped(worker[w])
    BY <1>1, <2>1, <2>2, <2>5, StoppedRecord, FreeIsNoRecord
  <2>6. ASSUME NEW v \in Workers, WorkerStep(v)
        PROVE  worker'[w].phase \in {"ending", "resting", "done", "none"} \/ worker'[w] = worker[w]
    <3>1. CASE v = w
      BY <1>1, <2>1, <2>6, <3>1, WorkerStepKind
    <3>2. CASE v # w
      <4>1. worker' = [worker EXCEPT ![v] = worker'[v]]
        BY <2>1, <2>6, WorkerStepKind
      <4>2. worker \in [Workers -> Record \cup {Free}]
        BY <2>1 DEF Agree, Typed
      <4> QED  BY <2>1, <3>2, <4>1, <4>2
    <3> QED  BY <3>1, <3>2
  <2>7. CASE Exit
    BY <2>1, <2>7, ExitAgree
  <2>8. CASE Shutdown
    BY <1>1, <2>1, <2>3, <2>8, ShutdownAgree
  <2>9. CASE Leaves
    BY <2>3, <2>9 DEF Leaves
  <2> QED  BY <1>1, <2>3, <2>4, <2>5, <2>6, <2>7, <2>8, <2>9, StepKinds
<1>2. IInv /\ [Next]_vars => \A w \in InUse : worker[w].stopped =>
        \/ worker'[w].phase \in {"ending", "resting", "done", "none"}
        \/ worker[w].phase = "spawning" /\ worker'[w] = worker[w]
  BY <1>1
<1> QED  BY <1>2, Invariant, PTL DEF Spec, StoppedNeverRuns

\* A worker is stopped for an answer that asks for something else, a key that is
\* refused, or a shutdown, and never because the server is away
\* (controller.mjs:171-173).
THEOREM AwaySources == Spec => AwayKeepsSources
<1>1. ASSUME IInv, [Next]_vars, NEW w \in InUse, ~worker[w].stopped,
             worker'[w] = Free \/ worker'[w].stopped
      PROVE  \/ stopping' \/ sent # key
             \/ tick = "answered" /\ answer[worker[w].out] # worker[w].config
  <2>1. w \in Workers /\ worker[w] # Free /\ Agree /\ worker \in [Workers -> Record \cup {Free}]
    BY <1>1 DEF IInv, Agree, Typed, InUse
  <2>2. worker'[w] # worker[w]
    BY <1>1, <2>1
  <2>3. ASSUME Applies
        PROVE  sent # key \/ (tick = "answered" /\ answer[worker[w].out] # worker[w].config)
    <3>1. PICK a \in {answer, Nothing} : Apply(a) /\ (sent # key \/ (tick = "answered" /\ a = answer))
      BY <2>3 DEF Applies
    <3>2. PICK name \in Injection(New(a), Workers \ InUse) : Applied(a, name)
      BY <2>1, <3>1, ApplyEffect
    <3>3. name \in [New(a) -> Workers \ InUse]
      BY DEF Injection
    <3>4. w \in Dropped(a)
      BY <2>1, <2>2, <3>2, <3>3 DEF Applied
    <3>5. PICK o \in Unlike(a) : outputs[o] = w
      BY <3>4 DEF Dropped
    <3>6. o \in Outs /\ outputs[o] # NoWorker /\ worker[w].config # a[o]
      BY <3>5 DEF Unlike
    <3>7. worker[w].out = o
      BY <2>1, <3>5, <3>6, Held
    <3> QED  BY <3>1, <3>6, <3>7
  <2>4. ASSUME NEW v \in Workers, WorkerStep(v)
        PROVE  FALSE
    <3>1. CASE v = w
      BY <1>1, <2>1, <2>4, <3>1, WorkerStepKind, FreeIsNoRecord DEF Continues, Forgotten
    <3>2. CASE v # w
      <4>1. worker' = [worker EXCEPT ![v] = worker'[v]]
        BY <2>1, <2>4, WorkerStepKind
      <4> QED  BY <2>1, <2>2, <3>2, <4>1
    <3> QED  BY <3>1, <3>2
  <2>5. CASE Shutdown \/ Exit
    <3>1. stopping'
      <4>1. CASE Shutdown
        BY <4>1 DEF Shutdown
      <4>2. CASE Exit
        BY <4>2 DEF Exit
      <4> QED  BY <2>5, <4>1, <4>2
    <3> QED  BY <3>1
  <2>6. CASE Leaves
    BY <2>2, <2>6 DEF Leaves
  <2> QED  BY <1>1, <2>3, <2>4, <2>5, <2>6, StepKinds
<1>2. IInv /\ [Next]_vars =>
        \A w \in InUse : ~worker[w].stopped /\ (worker'[w] = Free \/ worker'[w].stopped) =>
          \/ stopping' \/ sent # key
          \/ tick = "answered" /\ answer[worker[w].out] # worker[w].config
  BY <1>1
<1> QED  BY <1>2, Invariant, PTL DEF Spec, AwayKeepsSources

=============================================================================
