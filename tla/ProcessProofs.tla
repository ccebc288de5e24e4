---------------------------- MODULE ProcessProofs ----------------------------
(***************************************************************************)
(* Proofs about the parts that run processes of their own: Render, for any *)
(* jobs, workers, numbers of frames and crashes, and Launcher, for any     *)
(* requests and processes.                                                 *)
(*                                                                         *)
(* Render.  A frame is in one of two places between its capture and the    *)
(* end of the job: written to the dot-file, or on its way there in the     *)
(* order of the captures, in the queue of a DXV job or in ffmpeg's stdin.  *)
(* The inductive invariant says so for every await of the run (Sound), and *)
(* what the run of a job may leave behind (Clean).                         *)
(*                                                                         *)
(* Launcher.  That a stop is answered when its server has ended needs two  *)
(* things: a server that has ended does not come back, since only a start  *)
(* that has not had one yet spawns it (NotYet), and a handler that awaits  *)
(* the end of a server has one (Awaiting).                                 *)
(***************************************************************************)
EXTENDS Render, Launcher, SequenceTheorems, TLAPS

Before == {"browser", "page", "open"}
During == {"frames", "full", "drain", "finish"}
After == {"closing", "settling"}

\* The frames n + 1, n + 2, ...
Runs(seq, n) == \A i \in 1..Len(seq) : seq[i] = n + i

\* The first frames are written and the others are on their way.
Splits(rest) ==
  /\ Runs(written, 0) /\ Runs(rest, Len(written))
  /\ Len(written) + Len(rest) = frames[current]

\* Where the frames of the job that runs are.
Sound ==
  /\ at \in Before \cup During => outcome = "done"
  /\ at = "aborting" => outcome # "done"
  /\ at \in Before => /\ frames[current] = 0
                      /\ written = <<>> /\ queue = <<>> /\ pipe = <<>> /\ ffmpeg = "off"
  /\ at \in During => Splits(IF Dxv THEN queue ELSE pipe)
  /\ at \in After /\ outcome = "done" => Runs(written, 0) /\ Len(written) = frames[current]
  /\ at \in After => ffmpeg # "alive"
  /\ Dxv => ffmpeg = "off"
  /\ at = "full" => Dxv
  /\ ffmpeg = "ended" => pipe = <<>>

\* What is left of jobs, those before this one included.
Clean ==
  /\ \A j \in Jobs : job[j] = "none" => frames[j] = 0
  /\ \A j \in Jobs : job[j] # "done" => files[j] = <<>>
  /\ current = None => at = "idle" /\ outcome = "done"
  /\ current # None => at # "idle" /\ job[current] = "running"
  /\ current # None /\ at \in {"browser", "page"} => partial = {}
  /\ current # None /\ at \in After /\ outcome # "done" => current \notin partial

IInv ==
  /\ TypeOK /\ Clean /\ (current # None => Sound)
  /\ DoneIsWhole /\ NothingIsLeft

-----------------------------------------------------------------------------
(* Sequences of frames *)

\* A captured frame comes after those that are on their way.
LEMMA CaptureRuns ==
  ASSUME NEW s \in Seq(Numbers), NEW n \in Nat, NEW f, f = n + Len(s) + 1, Runs(s, n)
  PROVE  Runs(Append(s, f), n) /\ Len(Append(s, f)) = Len(s) + 1
BY DEF Runs

\* The frame that is written next is the one after those that are written.
LEMMA WriteRuns ==
  ASSUME NEW s \in Seq(Numbers), NEW t \in Seq(Numbers), t # <<>>, Runs(s, 0), Runs(t, Len(s))
  PROVE  LET s2 == Append(s, Head(t))
         IN  /\ Runs(s2, 0) /\ Runs(Tail(t), Len(s2))
             /\ Len(s2) + Len(Tail(t)) = Len(s) + Len(t)
<1>1. Len(t) \in Nat \ {0} /\ Head(t) = t[1] /\ t[1] = Len(s) + 1
  BY DEF Runs
<1>2. /\ Tail(t) \in Seq(Numbers) /\ Len(Tail(t)) = Len(t) - 1
      /\ \A i \in 1..Len(Tail(t)) : Tail(t)[i] = t[i + 1]
  OBVIOUS
<1>3. Len(Append(s, t[1])) = Len(s) + 1 /\ Runs(Append(s, t[1]), 0)
  BY <1>1 DEF Runs
<1>4. Runs(Tail(t), Len(s) + 1)
  BY <1>1, <1>2 DEF Runs
<1> QED  BY <1>1, <1>2, <1>3, <1>4

LEMMA RunsIsWhole ==
  ASSUME NEW s \in Seq(Numbers), Runs(s, 0)
  PROVE  s = [n \in 1..Len(s) |-> n]
BY DEF Runs

LEMMA EmptyRuns == \A n : Runs(<<>>, n) /\ Len(<<>>) = 0
BY DEF Runs

-----------------------------------------------------------------------------
(* Types *)

LEMMA TypeInit == Init => TypeOK
BY RenderAssumption DEF Init, SinkInit, TypeOK, Indices, Numbers

LEMMA Numbering == ASSUME NEW n \in 0..MaxFrames, n < MaxFrames PROVE n + 1 \in Numbers /\ n + 1 \in 0..MaxFrames
BY RenderAssumption DEF Numbers

LEMMA HeadMoves ==
  ASSUME NEW s \in Seq(Numbers), NEW t \in Seq(Numbers), t # <<>>
  PROVE  Append(s, Head(t)) \in Seq(Numbers) /\ Tail(t) \in Seq(Numbers)
<1>1. Head(t) \in Numbers
  OBVIOUS
<1> QED  BY <1>1

LEMMA PostTyped ==
  ASSUME NEW f \in [Indices -> Seq(Numbers)], NEW w, NEW n \in Numbers
  PROVE  [f EXCEPT ![w] = Append(@, n)] \in [Indices -> Seq(Numbers)]
<1>1. ASSUME w \in Indices PROVE Append(f[w], n) \in Seq(Numbers)
  BY <1>1
<1> QED  BY <1>1

LEMMA TypeStep == TypeOK /\ [Next]_vars => TypeOK'
<1> SUFFICES ASSUME TypeOK, [Next]_vars PROVE TypeOK'
  OBVIOUS
<1> USE RenderAssumption DEF TypeOK, record, pool, Is, Goto, Throw
<1>1. ASSUME NEW j \in Jobs, NEW old \in SUBSET Jobs, Post(j, old) PROVE TypeOK'
  BY <1>1 DEF Post, SinkReset
<1>2. ASSUME NEW j \in Jobs, Delete(j) PROVE TypeOK'
  BY <1>2 DEF Delete
<1>3. ASSUME NEW ok \in BOOLEAN, BrowserStarts(ok) \/ PageOpens(ok) PROVE TypeOK'
  BY <1>3 DEF BrowserStarts, PageOpens
<1>4. ASSUME NEW ok \in BOOLEAN, SinkOpens(ok) PROVE TypeOK'
  BY <1>4 DEF SinkOpens
<1>5. CASE StopSeen \/ PageFails \/ AnimationLeaves
  BY <1>5 DEF StopSeen, PageFails, AnimationLeaves
<1>6. CASE Captured
  <2>1. frames[current] + 1 \in Numbers /\ frames[current] + 1 \in 0..MaxFrames /\ current \in Jobs
    BY <1>6, Numbering DEF Captured
  <2>2. CASE Dxv
    <3> DEFINE n == frames[current] + 1
               w == (n - 1) % Pool
    <3>1. Append(queue, n) \in Seq(Numbers) /\ waiting \cup {n} \subseteq Numbers /\ lost \cup {n} \subseteq Numbers
      BY <2>1
    <3>2. [frames EXCEPT ![current] = n] \in [Jobs -> 0..MaxFrames]
      BY <2>1
    <3>3. [inbox EXCEPT ![w] = Append(@, n)] \in [Indices -> Seq(Numbers)]
      BY <2>1, PostTyped
    <3>4. DxvAdd(n) /\ UNCHANGED <<record, partial, written, crashes>>
      BY <1>6, <2>2 DEF Captured
    <3> HIDE DEF n, w
    <3>5. /\ waiting' = waiting \cup {n} /\ queue' = Append(queue, n)
          /\ inbox' \in {inbox, [inbox EXCEPT ![w] = Append(@, n)]} /\ lost' \in {lost, lost \cup {n}}
          /\ frames' = [frames EXCEPT ![current] = n]
          /\ at' \in {"full", "frames"}
          /\ UNCHANGED <<outcome, worker, encoded, failed, ffmpeg, pipe>>
      BY <3>4 DEF DxvAdd, w
    <3>6. inbox' \in [Indices -> Seq(Numbers)] /\ lost' \subseteq Numbers
      BY <3>1, <3>3, <3>5
    <3> QED  BY <3>1, <3>2, <3>4, <3>5, <3>6
  <2>3. CASE ~Dxv
    <3>1. Append(pipe, frames[current] + 1) \in Seq(Numbers)
      BY <2>1
    <3>2. [frames EXCEPT ![current] = frames[current] + 1] \in [Jobs -> 0..MaxFrames]
      BY <2>1
    <3> QED  BY <1>6, <2>3, <3>1, <3>2 DEF Captured, FfmpegAdd
  <2> QED  BY <2>2, <2>3
<1>7. CASE Drained \/ BrowserCloses
  BY <1>7 DEF Drained, BrowserCloses
<1>8. ASSUME NEW ok \in BOOLEAN, WriteOldest(ok) PROVE TypeOK'
  <2>1. Append(written, Head(queue)) \in Seq(Numbers) /\ Tail(queue) \in Seq(Numbers)
    BY <1>8, HeadMoves DEF WriteOldest
  <2>2. written' \in Seq(Numbers) /\ queue' \in Seq(Numbers)
    BY <1>8, <2>1 DEF WriteOldest
  <2> QED  BY <1>8, <2>2 DEF WriteOldest
<1>9. ASSUME NEW ok \in BOOLEAN, Finished(ok) PROVE TypeOK'
  BY <1>9 DEF Finished
<1>10. CASE Abort
  BY <1>10 DEF Abort, SinkReset
<1>11. ASSUME NEW ok \in BOOLEAN, Settle(ok) PROVE TypeOK'
  BY <1>11 DEF Settle, SinkReset
<1>12. ASSUME NEW w \in Indices, NEW ok \in BOOLEAN, Encodes(w, ok) PROVE TypeOK'
  BY <1>12 DEF Encodes
<1>13. ASSUME NEW w \in Indices, WorkerDies(w) PROVE TypeOK'
  BY <1>13 DEF WorkerDies
<1>14. CASE FfmpegEncodes \/ FfmpegEnds \/ FfmpegFails
  <2>1. ASSUME FfmpegEncodes PROVE TypeOK'
    <3>1. written' \in Seq(Numbers) /\ pipe' \in Seq(Numbers)
      BY <2>1, HeadMoves DEF FfmpegEncodes
    <3> QED  BY <2>1, <3>1 DEF FfmpegEncodes
  <2> QED  BY <1>14, <2>1 DEF FfmpegEnds, FfmpegFails
<1>15. CASE Crash
  BY <1>15 DEF Crash, SinkReset
<1>16. CASE UNCHANGED vars
  BY <1>16 DEF vars
<1> QED  BY <1>1, <1>2, <1>3, <1>4, <1>5, <1>6, <1>7, <1>8, <1>9, <1>10, <1>11, <1>12, <1>13,
            <1>14, <1>15, <1>16 DEF Next, Proceed

-----------------------------------------------------------------------------
(* What jobs leave behind *)

\* The steps of the encoders and of the sink change nothing that stays.
Inside ==
  /\ UNCHANGED <<record, partial>>
  /\ \A j \in Jobs \ {current} : frames'[j] = frames[j]
  /\ current = None => UNCHANGED <<at, outcome, frames>>
  /\ current # None => at' # "idle"
  /\ at' \in {"browser", "page"} => at \in {"browser", "page"}
  /\ at' \in After /\ outcome' # "done" =>
       \/ at \in After /\ outcome # "done"
       \/ at = "browser"

LEMMA InsideStep ==
  ASSUME TypeOK, Clean, NothingIsLeft, Inside
  PROVE  Clean' /\ NothingIsLeft'
BY DEF TypeOK, Clean, NothingIsLeft, Inside, record, KeyDiesWithJob, StoppedLeavesNothing, LeftoversAreCleared

LEMMA InsideActions ==
  ASSUME TypeOK, Clean, current # None => Sound,
         \/ \E ok \in BOOLEAN : BrowserStarts(ok) \/ PageOpens(ok) \/ WriteOldest(ok) \/ Finished(ok)
         \/ StopSeen \/ PageFails \/ AnimationLeaves \/ Captured \/ Drained \/ BrowserCloses
         \/ \E w \in Indices : (\E ok \in BOOLEAN : Encodes(w, ok)) \/ WorkerDies(w)
         \/ FfmpegEncodes \/ FfmpegEnds \/ FfmpegFails
         \/ UNCHANGED vars
  PROVE  Inside
<1> USE DEF TypeOK, Clean, Inside, Is, Goto, Throw, After
<1>1. ASSUME NEW ok \in BOOLEAN, BrowserStarts(ok) \/ PageOpens(ok) PROVE Inside
  BY <1>1 DEF BrowserStarts, PageOpens
<1>2. ASSUME NEW ok \in BOOLEAN, WriteOldest(ok) \/ Finished(ok) PROVE Inside
  BY <1>2 DEF WriteOldest, Finished
<1>3. CASE StopSeen \/ PageFails \/ AnimationLeaves \/ Drained \/ BrowserCloses
  BY <1>3 DEF StopSeen, PageFails, AnimationLeaves, Drained, BrowserCloses, Sound
<1>4. CASE Captured
  <2>1. \A j \in Jobs \ {current} : frames'[j] = frames[j]
    BY <1>4 DEF Captured, DxvAdd, FfmpegAdd
  <2> QED  BY <1>4, <2>1 DEF Captured, DxvAdd, FfmpegAdd
<1>5. ASSUME NEW w \in Indices, NEW ok \in BOOLEAN, Encodes(w, ok) \/ WorkerDies(w) PROVE Inside
  BY <1>5 DEF Encodes, WorkerDies
<1>6. CASE FfmpegEncodes \/ FfmpegEnds \/ FfmpegFails \/ UNCHANGED vars
  BY <1>6 DEF FfmpegEncodes, FfmpegEnds, FfmpegFails, vars
<1> QED  BY <1>1, <1>2, <1>3, <1>4, <1>5, <1>6

LEMMA CleanStep ==
  ASSUME TypeOK, Clean, current # None => Sound, NothingIsLeft, [Next]_vars
  PROVE  Clean' /\ NothingIsLeft'
<1>0. ASSUME Inside PROVE Clean' /\ NothingIsLeft'
  BY <1>0, InsideStep
<1> USE RenderAssumption DEF TypeOK, Clean, NothingIsLeft, record, Is, Goto, Throw, After,
        KeyDiesWithJob, StoppedLeavesNothing, LeftoversAreCleared
<1>1. ASSUME NEW j \in Jobs, NEW old \in SUBSET Jobs, Post(j, old) PROVE Clean' /\ NothingIsLeft'
  BY <1>1 DEF Post
<1>2. ASSUME NEW j \in Jobs, Delete(j) PROVE Clean' /\ NothingIsLeft'
  BY <1>2 DEF Delete
<1>3. ASSUME NEW ok \in BOOLEAN, SinkOpens(ok) PROVE Clean' /\ NothingIsLeft'
  BY <1>3 DEF SinkOpens
<1>4. CASE Abort
  BY <1>4 DEF Abort
<1>5. ASSUME NEW ok \in BOOLEAN, Settle(ok) PROVE Clean' /\ NothingIsLeft'
  BY <1>5 DEF Settle
<1>6. CASE Crash
  BY <1>6 DEF Crash
<1> QED  BY <1>0, <1>1, <1>2, <1>3, <1>4, <1>5, <1>6, InsideActions DEF Next, Proceed

-----------------------------------------------------------------------------
(* Where the frames are *)

LEMMA SoundStep ==
  ASSUME TypeOK, Clean, current # None => Sound, [Next]_vars, current' # None
  PROVE  Sound'
<1> USE RenderAssumption DEF Sound, Is, Goto, Throw, Before, During, After, Splits, Dxv, record, pool
<1>1. ASSUME NEW j \in Jobs, NEW old \in SUBSET Jobs, Post(j, old) PROVE Sound'
  BY <1>1, EmptyRuns DEF Post, SinkReset, Clean
<1>2. ASSUME NEW j \in Jobs, Delete(j) PROVE Sound'
  BY <1>2 DEF Delete
<1>3. ASSUME NEW ok \in BOOLEAN, BrowserStarts(ok) \/ PageOpens(ok) PROVE Sound'
  BY <1>3 DEF BrowserStarts, PageOpens
<1>4. ASSUME NEW ok \in BOOLEAN, SinkOpens(ok) PROVE Sound'
  BY <1>4, EmptyRuns DEF SinkOpens
<1>5. CASE StopSeen \/ PageFails \/ AnimationLeaves
  BY <1>5 DEF StopSeen, PageFails, AnimationLeaves
<1>6. CASE Captured
  <2>1. /\ frames' = [frames EXCEPT ![current] = frames[current] + 1] \/ at' = "aborting"
        /\ current \in Jobs /\ current' = current /\ written' = written /\ ffmpeg' = ffmpeg
        /\ frames[current] + 1 \in Numbers /\ Splits(IF Dxv THEN queue ELSE pipe)
    BY <1>6, Numbering DEF Captured, DxvAdd, FfmpegAdd, TypeOK
  <2>2. CASE Dxv
    <3>1. queue' = Append(queue, frames[current] + 1) /\ at' \in {"full", "frames"} /\ pipe' = pipe
      BY <1>6, <2>2 DEF Captured, DxvAdd
    <3>2. Runs(queue', Len(written)) /\ Len(queue') = Len(queue) + 1
      BY <2>1, <2>2, <3>1, CaptureRuns DEF TypeOK
    <3>3. frames'[current] = frames[current] + 1
      BY <2>1, <3>1 DEF TypeOK
    <3> QED  BY <1>6, <2>1, <2>2, <3>1, <3>2, <3>3 DEF Captured, DxvAdd, TypeOK
  <2>3. CASE ~Dxv
    <3>1. CASE ffmpeg = "alive"
      <4>1. /\ pipe' = Append(pipe, frames[current] + 1) /\ at' \in {"drain", "frames"}
            /\ UNCHANGED outcome
        BY <1>6, <2>3, <3>1 DEF Captured, FfmpegAdd
      <4>2. Runs(pipe', Len(written)) /\ Len(pipe') = Len(pipe) + 1
        BY <2>1, <2>3, <4>1, CaptureRuns DEF TypeOK
      <4>3. frames'[current] = frames[current] + 1
        BY <2>1, <4>1 DEF TypeOK
      <4> QED  BY <1>6, <2>1, <2>3, <3>1, <4>1, <4>2, <4>3 DEF Captured, TypeOK
    <3>2. CASE ffmpeg # "alive"
      BY <1>6, <2>1, <2>3, <3>2 DEF Captured, FfmpegAdd
    <3> QED  BY <3>1, <3>2
  <2> QED  BY <2>2, <2>3
<1>7. CASE Drained \/ BrowserCloses
  BY <1>7 DEF Drained, BrowserCloses
<1>8. ASSUME NEW ok \in BOOLEAN, WriteOldest(ok) PROVE Sound'
  <2>1. Dxv /\ at \in {"full", "finish"} /\ Splits(queue)
    BY <1>8 DEF WriteOldest
  <2>2. CASE at' = "aborting"
    BY <1>8, <2>2 DEF WriteOldest
  <2>3. CASE at' # "aborting"
    <3>1. written' = Append(written, Head(queue)) /\ queue' = Tail(queue) /\ queue # <<>>
      BY <1>8, <2>3 DEF WriteOldest
    <3>2. Runs(written', 0) /\ Runs(queue', Len(written')) /\ Len(written') + Len(queue') = frames[current]
      BY <2>1, <3>1, WriteRuns DEF TypeOK
    <3> QED  BY <1>8, <2>1, <2>3, <3>2 DEF WriteOldest
  <2> QED  BY <2>2, <2>3
<1>9. ASSUME NEW ok \in BOOLEAN, Finished(ok) PROVE Sound'
  BY <1>9, EmptyRuns DEF Finished, TypeOK
<1>10. CASE Abort
  BY <1>10 DEF Abort, SinkReset
<1>11. ASSUME NEW ok \in BOOLEAN, Settle(ok) PROVE Sound'
  BY <1>11 DEF Settle
<1>12. ASSUME NEW w \in Indices, NEW ok \in BOOLEAN, Encodes(w, ok) \/ WorkerDies(w) PROVE Sound'
  BY <1>12 DEF Encodes, WorkerDies
<1>13. CASE FfmpegEncodes
  <2>1. ~Dxv /\ current' = current /\ current # None
    BY <1>13 DEF FfmpegEncodes
  <2>2. CASE at \in During
    <3>1. Runs(written', 0) /\ Runs(pipe', Len(written')) /\ Len(written') + Len(pipe') = frames[current]
      BY <1>13, <2>1, <2>2, WriteRuns DEF FfmpegEncodes, TypeOK
    <3> QED  BY <1>13, <2>1, <2>2, <3>1 DEF FfmpegEncodes
  <2>3. CASE at \notin During
    BY <1>13, <2>1, <2>3 DEF FfmpegEncodes
  <2> QED  BY <2>2, <2>3
<1>14. CASE FfmpegEnds \/ FfmpegFails
  BY <1>14 DEF FfmpegEnds, FfmpegFails
<1>15. CASE Crash
  BY <1>15 DEF Crash
<1>16. CASE UNCHANGED vars
  BY <1>16 DEF vars
<1> QED  BY <1>1, <1>2, <1>3, <1>4, <1>5, <1>6, <1>7, <1>8, <1>9, <1>10, <1>11, <1>12, <1>13,
            <1>14, <1>15, <1>16 DEF Next, Proceed

-----------------------------------------------------------------------------
(* The files *)

\* Files change when a job is accepted, which deletes some, and when one settles.
LEMMA FilesStep ==
  ASSUME TypeOK, Clean, [Next]_vars
  PROVE  \/ \A j \in Jobs : files'[j] \in {files[j], <<>>} /\ (files[j] # <<>> => frames'[j] = frames[j])
         \/ \E ok \in BOOLEAN : Settle(ok)
<1> USE DEF TypeOK, Clean, record
<1>1. CASE Captured
  <2>1. current \in Jobs /\ files[current] = <<>> /\ files' = files
    BY <1>1 DEF Captured, Is
  <2>2. \A j \in Jobs \ {current} : frames'[j] = frames[j]
    BY <1>1 DEF Captured, DxvAdd, FfmpegAdd, Is
  <2> QED  BY <2>1, <2>2
<1>2. ASSUME NEW j \in Jobs, NEW old \in SUBSET Jobs, Post(j, old)
      PROVE \A i \in Jobs : files'[i] \in {files[i], <<>>} /\ frames'[i] = frames[i]
  BY <1>2 DEF Post
<1>3. CASE UNCHANGED <<files, frames>>
  BY <1>3
<1>4. ASSUME NEW ok \in BOOLEAN,
             BrowserStarts(ok) \/ PageOpens(ok) \/ SinkOpens(ok) \/ WriteOldest(ok) \/ Finished(ok)
      PROVE UNCHANGED <<files, frames>>
  BY <1>4 DEF BrowserStarts, PageOpens, SinkOpens, WriteOldest, Finished
<1>5. ASSUME NEW w \in Indices, NEW ok \in BOOLEAN, Encodes(w, ok) \/ WorkerDies(w)
      PROVE UNCHANGED <<files, frames>>
  BY <1>5 DEF Encodes, WorkerDies
<1>6. ASSUME \/ StopSeen \/ PageFails \/ AnimationLeaves \/ Drained \/ Abort \/ BrowserCloses
             \/ FfmpegEncodes \/ FfmpegEnds \/ FfmpegFails \/ Crash \/ UNCHANGED vars
             \/ \E j \in Jobs : Delete(j)
      PROVE UNCHANGED <<files, frames>>
  BY <1>6 DEF StopSeen, PageFails, AnimationLeaves, Drained, Abort, BrowserCloses,
              FfmpegEncodes, FfmpegEnds, FfmpegFails, Crash, vars, Delete
<1> QED  BY <1>1, <1>2, <1>3, <1>4, <1>5, <1>6 DEF Next, Proceed

LEMMA WholeStep ==
  ASSUME TypeOK, Clean, current # None => Sound, DoneIsWhole, [Next]_vars
  PROVE  DoneIsWhole'
<1>1. ASSUME NEW ok \in BOOLEAN, Settle(ok) PROVE DoneIsWhole'
  <2>1. /\ current \in Jobs /\ frames' = frames
        /\ files' = files \/ (outcome = "done" /\ files' = [files EXCEPT ![current] = written])
    BY <1>1 DEF Settle, TypeOK, Is
  <2>2. outcome = "done" => written = [n \in 1..frames[current] |-> n]
    BY <1>1, RunsIsWhole DEF Settle, Sound, Is, TypeOK, After
  <2> QED  BY <2>1, <2>2 DEF DoneIsWhole, TypeOK
<1> QED  BY <1>1, FilesStep DEF DoneIsWhole

-----------------------------------------------------------------------------
LEMMA InvHolds == Spec => []IInv
<1>1. Init => IInv
  <2>1. Init => TypeOK
    BY TypeInit
  <2> QED  BY <2>1, RenderAssumption DEF Init, SinkInit, IInv, Clean, DoneIsWhole, NothingIsLeft, KeyDiesWithJob,
              StoppedLeavesNothing, LeftoversAreCleared
<1>2. IInv /\ [Next]_vars => IInv'
  BY TypeStep, CleanStep, SoundStep, WholeStep DEF IInv
<1> QED  BY <1>1, <1>2, PTL DEF Spec

THEOREM RenderTypeCorrect == Spec => []TypeOK
<1>1. IInv => TypeOK
  BY DEF IInv
<1> QED  BY <1>1, InvHolds, PTL

\* A named file holds every frame of its job, once and in order, for any number of
\* workers, however their answers come, and of frames.
THEOREM FilesAreWhole == Spec => []DoneIsWhole
<1>1. IInv => DoneIsWhole
  BY DEF IInv
<1> QED  BY <1>1, InvHolds, PTL

\* Whatever fails, is stopped or crashes: a key does not outlive its job, a stopped
\* job leaves no file, and the leftovers of a crash go with the next job.
THEOREM JobsLeaveNothing == Spec => []NothingIsLeft
<1>1. IInv => NothingIsLeft
  BY DEF IInv
<1> QED  BY <1>1, InvHolds, PTL

-----------------------------------------------------------------------------
(* The launcher *)

\* A start whose server does not run yet.
NotYet == \A s \in Starts : pc[s] \in {"idle", "checking", "writing"} => server[s] = "none"

\* A request that is new awaits nothing, one that stops a server has its name.
Awaiting ==
  /\ \A h \in Requests : pc[h] = "idle" => target[h] = NoProcess
  /\ \A h \in Requests : pc[h] \in {"child", "killing"} => target[h] \in Starts
  /\ \A h \in Requests \ Toggles : pc[h] = "sender" => target[h] \in Starts
  /\ \A t \in Toggles : pc[t] \in {"idle", "sender", "done"}

LauncherIInv == LauncherInv /\ NotYet /\ Awaiting

-----------------------------------------------------------------------------
LEMMA LauncherIInvInit == LauncherInit => LauncherIInv
<1> SUFFICES ASSUME LauncherInit PROVE LauncherIInv
  OBVIOUS
<1>1. 0 \in 0..MaxFailures
  BY LauncherAssumption
<1>2. LauncherTypeOK
  BY <1>1 DEF LauncherInit, LauncherTypeOK
<1> QED  BY <1>2 DEF LauncherInit, LauncherIInv, LauncherInv, OneSender, StopStops, NotYet, Awaiting, Requests

\* The sender is started, or there is one.
LEMMA SenderStarts ==
  ASSUME LauncherTypeOK, OneSender, StartSender
  PROVE  /\ sender' \in Senders \cup {NoProcess} /\ process' \in [Senders -> {"gone", "alive", "told", "killed"}]
         /\ OneSender'
<1> USE LauncherAssumption DEF LauncherTypeOK, OneSender
<1>1. CASE sender # NoProcess
  BY <1>1 DEF StartSender
<1>2. CASE sender = NoProcess
  <2>1. PICK x \in Senders : sender' = x /\ process' = [process EXCEPT ![x] = "alive"]
    BY <1>2 DEF StartSender
  <2> QED  BY <1>2, <2>1
<1> QED  BY <1>1, <1>2

LEMMA SenderStops ==
  ASSUME LauncherTypeOK, OneSender, StopSender
  PROVE  /\ sender' \in Senders \cup {NoProcess} /\ process' \in [Senders -> {"gone", "alive", "told", "killed"}]
         /\ OneSender'
BY LauncherAssumption DEF LauncherTypeOK, OneSender, StopSender

LEMMA LauncherTypeStep == LauncherIInv /\ [LauncherNext]_launcherVars => LauncherTypeOK'
<1> SUFFICES ASSUME LauncherIInv, [LauncherNext]_launcherVars PROVE LauncherTypeOK'
  OBVIOUS
<1>0. LauncherTypeOK /\ OneSender /\ Awaiting
  BY DEF LauncherIInv, LauncherInv
<1>r. Starts \subseteq Requests /\ Stops \cup {Quit} \subseteq Requests /\ Toggles \subseteq Requests
  BY DEF Requests
<1> USE <1>0, <1>r, LauncherAssumption DEF LauncherTypeOK, state, procs, locals, GoesTo, Done
<1>1. ASSUME NEW s \in Starts, StartAsked(s) PROVE LauncherTypeOK'
  BY <1>1 DEF StartAsked
<1>2. ASSUME NEW s \in Starts, ServerListens(s) PROVE LauncherTypeOK'
  BY <1>2 DEF ServerListens
<1>3. ASSUME NEW s \in Starts, NEW ok \in BOOLEAN, PortChecked(s, ok) PROVE LauncherTypeOK'
  BY <1>3 DEF PortChecked, StartFails
<1>4. ASSUME NEW s \in Starts, NEW ok \in BOOLEAN, Spawned(s, ok) PROVE LauncherTypeOK'
  BY <1>4 DEF Spawned, StartFails
<1>5. ASSUME NEW s \in Starts, NEW ok \in BOOLEAN, ServerExits(s, ok) PROVE LauncherTypeOK'
  <2>1. sender' \in Senders \cup {NoProcess} /\ process' \in [Senders -> {"gone", "alive", "told", "killed"}]
    BY <1>5, SenderStops DEF ServerExits
  <2>2. failures' \in 0..MaxFailures
    BY <1>5 DEF ServerExits
  <2>3. status' \in {"stopped", "starting", "running", "stopping", "error"} /\ child' \in Starts \cup {NoProcess}
    BY <1>5 DEF ServerExits
  <2> QED  BY <1>5, <2>1, <2>2, <2>3 DEF ServerExits
<1>6. ASSUME NEW s \in Starts, NEW ok \in BOOLEAN, ChosenProbed(s, ok) \/ LoopbackProbed(s, ok) PROVE LauncherTypeOK'
  <2>1. /\ status' \in {"stopped", "starting", "running", "stopping", "error"}
        /\ sender' \in Senders \cup {NoProcess} /\ process' \in [Senders -> {"gone", "alive", "told", "killed"}]
        /\ told' \subseteq Starts /\ target' \in [Requests -> Starts \cup {NoProcess}]
        /\ \E l \in {"loopback", "done", "child", "waiting"} : GoesTo(s, l)
    BY <1>6, SenderStarts DEF ChosenProbed, LoopbackProbed, Measured, BecomeReady, GiveUp
  <2>2. pc' \in [Requests -> {"idle", "checking", "writing", "probing", "loopback", "waiting",
                             "sender", "child", "killing", "done"}]
    BY <2>1
  <2>3. chosenOk' \in [Starts -> BOOLEAN]
    BY <1>6 DEF ChosenProbed, LoopbackProbed
  <2> QED  BY <1>6, <2>1, <2>2, <2>3 DEF ChosenProbed, LoopbackProbed
<1>7. ASSUME NEW s \in Starts, NEW ok \in BOOLEAN, LoopAgain(s, ok) PROVE LauncherTypeOK'
  BY <1>7 DEF LoopAgain, GiveUp
<1>8. ASSUME NEW p \in Stops \cup {Quit}, StopAsked(p) PROVE LauncherTypeOK'
  <2>1. sender' \in Senders \cup {NoProcess} /\ process' \in [Senders -> {"gone", "alive", "told", "killed"}]
    BY <1>8, SenderStops DEF StopAsked
  <2>2. /\ told' \subseteq Starts /\ \E l \in {"done", "child", "sender"} : GoesTo(p, l)
        /\ status' \in {"stopped", "stopping"}
        /\ target' \in [Requests -> Starts \cup {NoProcess}] /\ awaited' \in [Requests -> Senders \cup {NoProcess}]
    BY <1>8 DEF StopAsked, StopChild, Alive
  <2>3. pc' \in [Requests -> {"idle", "checking", "writing", "probing", "loopback", "waiting",
                             "sender", "child", "killing", "done"}]
    BY <2>2
  <2> QED  BY <1>8, <2>1, <2>2, <2>3 DEF StopAsked
<1>9. ASSUME NEW t \in Toggles, ToggleAsked(t) PROVE LauncherTypeOK'
  <2>1. sender' \in Senders \cup {NoProcess} /\ process' \in [Senders -> {"gone", "alive", "told", "killed"}]
    BY <1>9, SenderStops DEF ToggleAsked
  <2> QED  BY <1>9, <2>1 DEF ToggleAsked
<1>10. ASSUME NEW h \in Requests, SenderStopped(h) PROVE LauncherTypeOK'
  <2>1. sender' \in Senders \cup {NoProcess} /\ process' \in [Senders -> {"gone", "alive", "told", "killed"}]
    BY <1>10, SenderStarts DEF SenderStopped
  <2>2. told' \subseteq Starts /\ \E l \in {"done", "child"} : GoesTo(h, l)
    BY <1>10 DEF SenderStopped, StopChild, Alive
  <2> QED  BY <1>10, <2>1, <2>2 DEF SenderStopped
<1>11. ASSUME NEW h \in Requests, ChildGrace(h) \/ ChildStopped(h) PROVE LauncherTypeOK'
  BY <1>11 DEF ChildGrace, ChildStopped, Awaiting
<1>12. ASSUME NEW x \in Senders, SenderGrace(x) PROVE LauncherTypeOK'
  BY <1>12 DEF SenderGrace
<1>13. ASSUME NEW x \in Senders, SenderExits(x) PROVE LauncherTypeOK'
  <2>1. failures' \in 0..MaxFailures /\ restarts' \in Nat
    BY <1>13 DEF SenderExits
  <2> QED  BY <1>13, <2>1 DEF SenderExits
<1>14. CASE RestartSender
  <2>1. sender' \in Senders \cup {NoProcess} /\ process' \in [Senders -> {"gone", "alive", "told", "killed"}]
    BY <1>14, SenderStarts DEF RestartSender
  <2>2. restarts' \in Nat
    BY <1>14 DEF RestartSender
  <2> QED  BY <1>14, <2>1, <2>2 DEF RestartSender
<1>15. CASE QuitExits \/ LauncherFails
  BY <1>15 DEF QuitExits, LauncherFails, Exit
<1>16. CASE UNCHANGED launcherVars
  BY <1>16 DEF launcherVars
<1> QED
  BY <1>1, <1>2, <1>3, <1>4, <1>5, <1>6, <1>7, <1>8, <1>9, <1>10, <1>11, <1>12, <1>13, <1>14, <1>15, <1>16
  DEF LauncherNext

LEMMA SenderStep == LauncherIInv /\ [LauncherNext]_launcherVars => OneSender'
<1> SUFFICES ASSUME LauncherIInv, [LauncherNext]_launcherVars PROVE OneSender'
  OBVIOUS
<1>0. LauncherTypeOK /\ OneSender
  BY DEF LauncherIInv, LauncherInv
<1> USE <1>0 DEF state, procs, locals
<1>1. CASE UNCHANGED <<sender, process>>
  BY <1>1 DEF OneSender
<1>2. CASE StartSender
  BY <1>2, SenderStarts
<1>3. CASE StopSender
  BY <1>3, SenderStops
<1>4. ASSUME NEW x \in Senders, SenderGrace(x) \/ SenderExits(x) PROVE OneSender'
  BY <1>4 DEF SenderGrace, SenderExits, OneSender, LauncherTypeOK
<1>5. CASE Exit
  BY <1>5 DEF Exit, OneSender, LauncherTypeOK
<1> QED
  BY <1>1, <1>2, <1>3, <1>4, <1>5
  DEF LauncherNext, StartAsked, ServerListens, PortChecked, Spawned, ServerExits, ChosenProbed, LoopbackProbed,
      Measured, BecomeReady, LoopAgain, StopAsked, ToggleAsked, SenderStopped, ChildGrace, ChildStopped,
      RestartSender, QuitExits, LauncherFails, launcherVars

\* A step of one handler h that leaves the servers alone: it goes to l and awaits
\* the end of s, or of what it awaited.
LEMMA HandlerGoes ==
  ASSUME LauncherTypeOK, NotYet, Awaiting, StopStops, NEW h \in Requests, NEW l, NEW s,
         GoesTo(h, l), target' = [target EXCEPT ![h] = s], server' = server,
         pc[h] # "done", l # "idle",
         l \in {"checking", "writing"} => h \in Starts /\ pc[h] \in {"idle", "checking"},
         l \in {"child", "killing"} => s \in Starts /\ h \notin Toggles,
         l = "sender" => s \in Starts \/ h \in Toggles,
         h \in Toggles => l \in {"sender", "done"},
         l = "done" /\ h \in Stops \cup {Quit} => s = NoProcess \/ server[s] = "gone"
  PROVE  NotYet' /\ Awaiting' /\ StopStops'
<1>1. \A g \in Requests : /\ pc'[g] = IF g = h THEN l ELSE pc[g]
                          /\ target'[g] = IF g = h THEN s ELSE target[g]
  BY DEF LauncherTypeOK, GoesTo
<1>2. Starts \subseteq Requests /\ Stops \cup {Quit} \subseteq Requests /\ Toggles \subseteq Requests
  BY DEF Requests
<1>3. NotYet'
  BY <1>1, <1>2 DEF NotYet
<1>4. Awaiting'
  BY <1>1, <1>2 DEF Awaiting
<1>5. StopStops'
  BY <1>1, <1>2 DEF StopStops
<1> QED  BY <1>3, <1>4, <1>5

LEMMA ControlStep == LauncherIInv /\ [LauncherNext]_launcherVars => NotYet' /\ Awaiting' /\ StopStops'
<1> SUFFICES ASSUME LauncherIInv, [LauncherNext]_launcherVars PROVE NotYet' /\ Awaiting' /\ StopStops'
  OBVIOUS
<1>0. LauncherTypeOK /\ NotYet /\ Awaiting /\ StopStops
  BY DEF LauncherIInv, LauncherInv
<1>r. /\ Starts \subseteq Requests /\ Stops \cup {Quit} \subseteq Requests /\ Toggles \subseteq Requests
      /\ \A s \in Starts : s \notin Stops \cup {Quit} \cup Toggles
      /\ \A p \in Stops \cup {Quit} : p \notin Toggles
      /\ NoProcess \notin Starts
  BY LauncherAssumption DEF Requests
<1>k. \A h \in Requests : target = [target EXCEPT ![h] = target[h]]
  BY <1>0 DEF LauncherTypeOK
<1> USE DEF state, procs, locals
<1>1. ASSUME NEW s \in Starts, StartAsked(s) PROVE NotYet' /\ Awaiting' /\ StopStops'
  <2>1. /\ target' = [target EXCEPT ![s] = target[s]] /\ server' = server /\ pc[s] = "idle"
        /\ GoesTo(s, "checking") \/ GoesTo(s, "done")
    BY <1>1, <1>r, <1>k DEF StartAsked, Done
  <2> QED  BY <1>0, <1>r, <2>1, HandlerGoes
<1>2. ASSUME NEW s \in Starts, ServerListens(s) PROVE NotYet' /\ Awaiting' /\ StopStops'
  <2>1. server[s] = "booting" /\ server' = [server EXCEPT ![s] = "serving"] /\ UNCHANGED <<pc, target>>
    BY <1>2 DEF ServerListens
  <2> QED  BY <1>0, <1>r, <2>1 DEF NotYet, Awaiting, StopStops, LauncherTypeOK
<1>3. ASSUME NEW s \in Starts, NEW ok \in BOOLEAN, PortChecked(s, ok) PROVE NotYet' /\ Awaiting' /\ StopStops'
  <2>1. /\ target' = [target EXCEPT ![s] = target[s]] /\ server' = server /\ pc[s] = "checking"
        /\ GoesTo(s, "writing") \/ GoesTo(s, "done")
    BY <1>3, <1>r, <1>k DEF PortChecked, StartFails, Done
  <2> QED  BY <1>0, <1>r, <2>1, HandlerGoes
<1>4. ASSUME NEW s \in Starts, NEW ok \in BOOLEAN, Spawned(s, ok) PROVE NotYet' /\ Awaiting' /\ StopStops'
  <2>1. CASE ok
    <3>1. pc[s] = "writing" /\ server' = [server EXCEPT ![s] = "booting"]
          /\ pc' = [pc EXCEPT ![s] = "probing"] /\ UNCHANGED target
      BY <1>4, <2>1 DEF Spawned, GoesTo
    <3>2. server[s] = "none"
      BY <1>0, <3>1 DEF NotYet
    <3>3. /\ \A h \in Requests : pc'[h] = IF h = s THEN "probing" ELSE pc[h]
          /\ \A t \in Starts : server'[t] = IF t = s THEN "booting" ELSE server[t]
      BY <1>0, <1>r, <3>1 DEF LauncherTypeOK
    <3>4. NotYet' /\ Awaiting'
      BY <1>0, <1>r, <3>1, <3>3 DEF NotYet, Awaiting
    <3>5. StopStops'
      <4>1. \A p \in Stops \cup {Quit} : target[p] \in Starts \cup {NoProcess}
        BY <1>0, <1>r DEF LauncherTypeOK
      <4> QED  BY <1>0, <1>r, <3>1, <3>2, <3>3, <4>1 DEF StopStops
    <3> QED  BY <3>4, <3>5
  <2>2. CASE ~ok
    <3>1. /\ target' = [target EXCEPT ![s] = target[s]] /\ server' = server /\ pc[s] = "writing"
          /\ GoesTo(s, "done")
      BY <1>4, <1>r, <1>k, <2>2 DEF Spawned, StartFails, Done
    <3> QED  BY <1>0, <1>r, <3>1, HandlerGoes
  <2> QED  BY <2>1, <2>2
<1>5. ASSUME NEW s \in Starts, NEW ok \in BOOLEAN, ServerExits(s, ok) PROVE NotYet' /\ Awaiting' /\ StopStops'
  <2>1. s \in Alive /\ server' = [server EXCEPT ![s] = "gone"] /\ UNCHANGED <<pc, target>>
    BY <1>5 DEF ServerExits
  <2>2. server[s] # "none" /\ \A t \in Starts : server'[t] = IF t = s THEN "gone" ELSE server[t]
    BY <1>0, <2>1 DEF Alive, LauncherTypeOK
  <2>3. \A p \in Stops \cup {Quit} : target[p] \in Starts \cup {NoProcess}
    BY <1>0, <1>r DEF LauncherTypeOK
  <2> QED  BY <1>0, <1>r, <2>1, <2>2, <2>3 DEF NotYet, Awaiting, StopStops
<1>6. ASSUME NEW s \in Starts, NEW ok \in BOOLEAN,
             ChosenProbed(s, ok) \/ LoopbackProbed(s, ok) \/ LoopAgain(s, ok)
      PROVE  NotYet' /\ Awaiting' /\ StopStops'
  <2>1. /\ server' = server /\ pc[s] \in {"probing", "loopback", "waiting"}
        /\ \/ target' = [target EXCEPT ![s] = target[s]]
              /\ \E l \in {"probing", "loopback", "waiting", "done"} : GoesTo(s, l)
           \/ target' = [target EXCEPT ![s] = s] /\ GoesTo(s, "child")
    BY <1>6, <1>r, <1>k DEF ChosenProbed, LoopbackProbed, LoopAgain, Measured, BecomeReady, GiveUp, Done
  <2> QED  BY <1>0, <1>r, <2>1, HandlerGoes
<1>7. ASSUME NEW p \in Stops \cup {Quit}, StopAsked(p) PROVE NotYet' /\ Awaiting' /\ StopStops'
  <2>1. /\ server' = server /\ pc[p] = "idle"
        /\ \/ target' = [target EXCEPT ![p] = target[p]] /\ GoesTo(p, "done")
           \/ /\ child # NoProcess /\ target' = [target EXCEPT ![p] = child]
              /\ GoesTo(p, "child") \/ GoesTo(p, "sender")
    BY <1>7, <1>r, <1>k DEF StopAsked, StopChild, Done
  <2>2. target[p] = NoProcess /\ child \in Starts \cup {NoProcess}
    BY <1>0, <1>r, <2>1 DEF Awaiting, LauncherTypeOK
  <2> QED  BY <1>0, <1>r, <2>1, <2>2, HandlerGoes
<1>8. ASSUME NEW t \in Toggles, ToggleAsked(t) PROVE NotYet' /\ Awaiting' /\ StopStops'
  <2>1. /\ target' = [target EXCEPT ![t] = target[t]] /\ server' = server /\ pc[t] = "idle"
        /\ GoesTo(t, "sender") \/ GoesTo(t, "done")
    BY <1>8, <1>r, <1>k DEF ToggleAsked, Done
  <2> QED  BY <1>0, <1>r, <2>1, HandlerGoes
<1>9. ASSUME NEW h \in Requests, SenderStopped(h) PROVE NotYet' /\ Awaiting' /\ StopStops'
  <2>1. /\ target' = [target EXCEPT ![h] = target[h]] /\ server' = server /\ pc[h] = "sender"
        /\ IF h \in Toggles THEN GoesTo(h, "done") ELSE GoesTo(h, "child")
    BY <1>9, <1>k DEF SenderStopped, StopChild, Done
  <2>2. h \notin Toggles => target[h] \in Starts
    BY <1>0, <2>1 DEF Awaiting
  <2> QED  BY <1>0, <1>r, <2>1, <2>2, HandlerGoes
<1>10. ASSUME NEW h \in Requests, ChildGrace(h) PROVE NotYet' /\ Awaiting' /\ StopStops'
  <2>1. /\ target' = [target EXCEPT ![h] = target[h]] /\ server' = server /\ pc[h] = "child"
        /\ GoesTo(h, "killing")
    BY <1>10, <1>k DEF ChildGrace
  <2>2. h \notin Toggles /\ target[h] \in Starts
    BY <1>0, <2>1 DEF Awaiting
  <2> QED  BY <1>0, <1>r, <2>1, <2>2, HandlerGoes
<1>11. ASSUME NEW h \in Requests, ChildStopped(h) PROVE NotYet' /\ Awaiting' /\ StopStops'
  <2>1. /\ target' = [target EXCEPT ![h] = target[h]] /\ server' = server /\ pc[h] \in {"child", "killing"}
        /\ GoesTo(h, "done") /\ server[target[h]] = "gone"
    BY <1>11, <1>k DEF ChildStopped, Ready, Done
  <2> QED  BY <1>0, <1>r, <2>1, HandlerGoes
<1>12. CASE UNCHANGED <<server, pc, target>>
  BY <1>0, <1>12 DEF NotYet, Awaiting, StopStops
<1> QED
  BY <1>1, <1>2, <1>3, <1>4, <1>5, <1>6, <1>7, <1>8, <1>9, <1>10, <1>11, <1>12
  DEF LauncherNext, SenderGrace, SenderExits, RestartSender, QuitExits, LauncherFails, Exit, launcherVars

\* In every behaviour, however many requests overlap: at most one sender has not been
\* told to end, and the launcher knows it; and a stop that is answered has ended its
\* server.
THEOREM LauncherKnows == LauncherSpec => []LauncherInv
<1>1. LauncherIInv /\ [LauncherNext]_launcherVars => LauncherIInv'
  BY LauncherTypeStep, SenderStep, ControlStep DEF LauncherIInv, LauncherInv
<1>2. LauncherIInv => LauncherInv
  BY DEF LauncherIInv
<1> QED  BY <1>1, <1>2, LauncherIInvInit, PTL DEF LauncherSpec
=============================================================================
