------------------------------- MODULE Render -------------------------------
(***************************************************************************)
(* Rendering an animation to a file (extension/render.ts, render-job.ts,   *)
(* dxv.ts, render-worker.ts).  One job runs at a time: it opens a key for  *)
(* its browser, captures the frames of the page, hands them to ffmpeg or   *)
(* to a pool of workers that encode them as they come and whose packets    *)
(* are written in order, and renames the dot-file when it is whole.  A     *)
(* frame is its number; what it shows and how it is encoded are left out.  *)
(***************************************************************************)
EXTENDS Naturals, Sequences, FiniteSets, SequencesExt

CONSTANTS Jobs,        \* POST /jobs that are accepted, each once
          DxvJobs,     \* those of format dxv, the others go through ffmpeg
          Pool,        \* the number of workers
          MaxFrames,   \* an animation leaves after so many frames at the latest
          Room,        \* frames that fit into ffmpeg's stdin
          MaxCrashes,  \* bound on crashes of the server
          None

ASSUME RenderAssumption ==
  /\ DxvJobs \subseteq Jobs /\ None \notin Jobs
  /\ Pool \in Nat \ {0} /\ MaxFrames \in Nat \ {0} /\ Room \in Nat
  /\ MaxCrashes \in Nat

VARIABLES
  current,   \* the job that runs
  job,       \* RenderJob.state
  frames,    \* RenderJob.frames
  stopped,   \* the jobs whose control is cancelled
  keys,      \* the jobs whose key opens the graphics pages
  partial,   \* the jobs that have a dot-file
  files,     \* the finished files, each the frames in it
  at,        \* where the run of the current job awaits
  outcome,   \* how it ends: done, cancelled or error
  written,   \* the frames in its dot-file
  worker,    \* the pool: off, alive or dead
  inbox,     \* the frames posted to each worker
  waiting,   \* DxvSink.waiting
  encoded,   \* frames whose promise is resolved
  failed,    \* frames whose promise is rejected
  queue,     \* DxvSink.queue
  lost,      \* history: the frames posted to a worker that had ended
  ffmpeg,    \* off, alive, ended or failed
  pipe,      \* the frames in its stdin
  crashes

record == <<current, job, stopped, keys, files>>
pool == <<worker, inbox, waiting, encoded, failed, queue, lost>>
vars == <<record, frames, partial, at, outcome, written, pool, ffmpeg, pipe, crashes>>

Indices == 0..(Pool - 1)
Numbers == 1..MaxFrames

SinkInit ==
  /\ written = <<>>
  /\ worker = [w \in Indices |-> "off"] /\ inbox = [w \in Indices |-> <<>>]
  /\ waiting = {} /\ encoded = {} /\ failed = {} /\ queue = <<>> /\ lost = {}
  /\ ffmpeg = "off" /\ pipe = <<>>

Init ==
  /\ current = None /\ at = "idle" /\ outcome = "done"
  /\ job = [j \in Jobs |-> "none"] /\ frames = [j \in Jobs |-> 0]
  /\ stopped = {} /\ keys = {} /\ partial = {}
  /\ files = [j \in Jobs |-> <<>>]
  /\ SinkInit /\ crashes = 0

SinkReset ==
  /\ written' = <<>>
  /\ worker' = [w \in Indices |-> "off"] /\ inbox' = [w \in Indices |-> <<>>]
  /\ waiting' = {} /\ encoded' = {} /\ failed' = {} /\ queue' = <<>> /\ lost' = {}
  /\ ffmpeg' = "off" /\ pipe' = <<>>

Dxv == current \in DxvJobs
Is(l) == current # None /\ at = l

\* The run goes on, or throws: from where the sink is, it is aborted first.
Goto(l) == at' = l /\ UNCHANGED outcome
Throw(how) == at' = "aborting" /\ outcome' = how

-----------------------------------------------------------------------------
(* The routes *)

\* POST /jobs, when none runs: it clears what crashes left and what is a day old.
Post(j, old) ==
  /\ current = None /\ job[j] = "none"
  /\ current' = j
  /\ job' = [job EXCEPT ![j] = "running"]
  /\ files' = [i \in Jobs |-> IF i \in old THEN <<>> ELSE files[i]]
  /\ partial' = {}
  /\ keys' = keys \cup {j}
  /\ at' = "browser"
  /\ SinkReset
  /\ UNCHANGED <<frames, stopped, outcome, crashes>>

\* DELETE /jobs/:id
Delete(j) ==
  /\ current = j
  /\ stopped' = stopped \cup {j}
  /\ UNCHANGED <<current, job, keys, files, frames, partial, at, outcome, written, pool, ffmpeg, pipe, crashes>>

-----------------------------------------------------------------------------
(* renderToFile *)

\* No browser that starts: there is no sink to abort yet.
BrowserStarts(ok) ==
  /\ Is("browser")
  /\ IF ok THEN Goto("page") ELSE at' = "settling" /\ outcome' = "error"
  /\ UNCHANGED <<record, frames, partial, written, pool, ffmpeg, pipe, crashes>>

\* The page is opened, its clock is frozen and the animation shown.
PageOpens(ok) ==
  /\ Is("page")
  /\ IF ok THEN Goto("open") ELSE Throw("error")
  /\ UNCHANGED <<record, frames, partial, written, pool, ffmpeg, pipe, crashes>>

\* sink.open: the workers are started, not awaited.
SinkOpens(ok) ==
  /\ Is("open")
  /\ IF Dxv
       THEN /\ IF ok THEN Goto("frames") /\ worker' = [w \in Indices |-> "alive"]
                     ELSE Throw("error") /\ UNCHANGED worker
            /\ UNCHANGED ffmpeg
       ELSE Goto("frames") /\ ffmpeg' = "alive" /\ UNCHANGED worker
  /\ partial' = IF ok \/ ~Dxv THEN partial \cup {current} ELSE partial
  /\ UNCHANGED <<record, frames, written, inbox, waiting, encoded, failed, queue, lost, pipe, crashes>>

\* Before each frame the job looks whether it was stopped.
StopSeen ==
  /\ Is("frames") /\ current \in stopped
  /\ Throw("cancelled")
  /\ UNCHANGED <<record, frames, partial, written, pool, ffmpeg, pipe, crashes>>

\* An answer of the page that is an error, or nothing that loops.
PageFails ==
  /\ Is("frames") /\ current \notin stopped
  /\ Throw("error")
  /\ UNCHANGED <<record, frames, partial, written, pool, ffmpeg, pipe, crashes>>

\* The animation has left, or the cycle is over.
AnimationLeaves ==
  /\ Is("frames") /\ current \notin stopped
  /\ IF frames[current] = 0 THEN Throw("error") ELSE Goto("finish")
  /\ UNCHANGED <<record, frames, partial, written, pool, ffmpeg, pipe, crashes>>

\* DxvSink.add: what is posted to a dead worker is lost, and nobody is told.
DxvAdd(n) ==
  LET w == (n - 1) % Pool
  IN  /\ waiting' = waiting \cup {n}
      /\ IF worker[w] = "alive" THEN inbox' = [inbox EXCEPT ![w] = Append(@, n)] /\ UNCHANGED lost
                                ELSE lost' = lost \cup {n} /\ UNCHANGED inbox
      /\ queue' = Append(queue, n)
      /\ IF Len(queue') >= Pool * 2 THEN Goto("full") ELSE Goto("frames")
      /\ frames' = [frames EXCEPT ![current] = n]
      /\ UNCHANGED <<worker, encoded, failed, ffmpeg, pipe>>

\* FfmpegSink.add
FfmpegAdd(n) ==
  /\ IF ffmpeg = "alive"
       THEN /\ pipe' = Append(pipe, n)
            /\ IF Len(pipe) >= Room THEN Goto("drain") ELSE Goto("frames")
            /\ frames' = [frames EXCEPT ![current] = n]
       ELSE Throw("error") /\ UNCHANGED <<frames, pipe>>
  /\ UNCHANGED <<pool, ffmpeg>>

\* A frame is captured and added, and the page steps on.
Captured ==
  /\ Is("frames") /\ current \notin stopped /\ frames[current] < MaxFrames
  /\ IF Dxv THEN DxvAdd(frames[current] + 1) ELSE FfmpegAdd(frames[current] + 1)
  /\ UNCHANGED <<record, partial, written, crashes>>

\* The await of a full stdin is over.
Drained ==
  /\ Is("drain")
  /\ ffmpeg # "alive" \/ pipe = <<>>
  /\ IF ffmpeg = "alive" THEN Goto("frames") ELSE Throw("error")
  /\ UNCHANGED <<record, frames, partial, written, pool, ffmpeg, pipe, crashes>>

\* A slip: the first packet that is ready is written.
WriteReady(ok) ==
  /\ Is("full") \/ (Is("finish") /\ Dxv)
  /\ queue # <<>>
  /\ \E i \in DOMAIN queue :
       /\ queue[i] \in encoded \cup failed
       /\ queue' = RemoveAt(queue, i)
       /\ IF queue[i] \in failed \/ ~ok THEN Throw("error") /\ UNCHANGED written
          ELSE /\ written' = Append(written, queue[i])
               /\ IF at = "full" /\ Len(queue') < Pool * 2 THEN Goto("frames") ELSE Goto(at)
  /\ UNCHANGED <<record, frames, partial, worker, inbox, waiting, encoded, failed, lost, ffmpeg, pipe, crashes>>

\* writeOldest, when the promise of the oldest frame is settled; the disk may refuse.
WriteOldest(ok) ==
  /\ Is("full") \/ (Is("finish") /\ Dxv)
  /\ queue # <<>> /\ Head(queue) \in encoded \cup failed
  /\ queue' = Tail(queue)
  /\ IF Head(queue) \in failed \/ ~ok THEN Throw("error") /\ UNCHANGED written
     ELSE /\ written' = Append(written, Head(queue))
          /\ IF at = "full" /\ Len(queue') < Pool * 2 THEN Goto("frames") ELSE Goto(at)
  /\ UNCHANGED <<record, frames, partial, worker, inbox, waiting, encoded, failed, lost, ffmpeg, pipe, crashes>>

\* sink.finish: what is queued is written, or ffmpeg has ended.
Finished(ok) ==
  /\ Is("finish")
  /\ IF Dxv THEN queue = <<>> ELSE ffmpeg # "alive"
  /\ IF ok /\ (Dxv \/ ffmpeg = "ended")
       THEN at' = "closing" /\ outcome' = "done" ELSE Throw("error")
  /\ worker' = IF Dxv /\ ok THEN [w \in Indices |-> "off"] ELSE worker
  /\ UNCHANGED <<record, frames, partial, written, inbox, waiting, encoded, failed, queue, lost, ffmpeg, pipe, crashes>>

\* A slip: the dot-file is left to the next job.
AbortKeeping ==
  /\ Is("aborting")
  /\ at' = "closing"
  /\ SinkReset
  /\ UNCHANGED <<record, frames, partial, outcome, crashes>>

\* sink.abort: the workers are terminated or ffmpeg killed, and the dot-file removed.
Abort ==
  /\ Is("aborting")
  /\ at' = "closing"
  /\ SinkReset
  /\ partial' = partial \ {current}
  /\ UNCHANGED <<record, frames, outcome, crashes>>

\* The browser has ended, or been killed.
BrowserCloses ==
  /\ Is("closing")
  /\ Goto("settling")
  /\ UNCHANGED <<record, frames, partial, written, pool, ffmpeg, pipe, crashes>>

\* The end of run: the file gets its name, which the disk may refuse, the state is
\* set, the key taken back, and the next job may start.
Settle(ok) ==
  /\ Is("settling")
  /\ LET done == outcome = "done" /\ ok
         how == IF outcome = "done" /\ ~ok THEN "error" ELSE outcome
     IN  /\ job' = [job EXCEPT ![current] = how]
         /\ files' = IF done THEN [files EXCEPT ![current] = written] ELSE files
         /\ partial' = IF done THEN partial \ {current} ELSE partial
  /\ keys' = keys \ {current}
  /\ current' = None /\ at' = "idle" /\ outcome' = "done"
  /\ SinkReset
  /\ UNCHANGED <<frames, stopped, crashes>>

-----------------------------------------------------------------------------
(* The encoders *)

\* A worker answers its next frame with a packet or an error.
Encodes(w, ok) ==
  /\ worker[w] = "alive" /\ inbox[w] # <<>>
  /\ LET n == Head(inbox[w])
     IN  /\ inbox' = [inbox EXCEPT ![w] = Tail(@)]
         /\ waiting' = waiting \ {n}
         /\ encoded' = IF n \in waiting /\ ok THEN encoded \cup {n} ELSE encoded
         /\ failed' = IF n \in waiting /\ ~ok THEN failed \cup {n} ELSE failed
  /\ UNCHANGED <<record, frames, partial, at, outcome, written, worker, queue, lost, ffmpeg, pipe, crashes>>

\* A slip: the frames that wait are not told.
WorkerDiesUnheard(w) ==
  /\ worker[w] = "alive"
  /\ worker' = [worker EXCEPT ![w] = "dead"]
  /\ inbox' = [inbox EXCEPT ![w] = <<>>]
  /\ UNCHANGED <<record, frames, partial, at, outcome, written, waiting, encoded, failed, queue, lost, ffmpeg, pipe, crashes>>

\* A worker ends, at its work or without any, as one that cannot load: its error
\* event rejects every frame that waits then.
WorkerDies(w) ==
  /\ worker[w] = "alive"
  /\ worker' = [worker EXCEPT ![w] = "dead"]
  /\ inbox' = [inbox EXCEPT ![w] = <<>>]
  /\ failed' = failed \cup waiting
  /\ waiting' = {}
  /\ UNCHANGED <<record, frames, partial, at, outcome, written, encoded, queue, lost, ffmpeg, pipe, crashes>>

\* ffmpeg encodes the next frame of its stdin, ends with it, or fails.
FfmpegEncodes ==
  /\ ffmpeg = "alive" /\ pipe # <<>>
  /\ written' = Append(written, Head(pipe))
  /\ pipe' = Tail(pipe)
  /\ UNCHANGED <<record, frames, partial, at, outcome, pool, ffmpeg, crashes>>

FfmpegEnds ==
  /\ ffmpeg = "alive" /\ Is("finish") /\ pipe = <<>>
  /\ ffmpeg' = "ended"
  /\ UNCHANGED <<record, frames, partial, at, outcome, written, pool, pipe, crashes>>

FfmpegFails ==
  /\ ffmpeg = "alive"
  /\ ffmpeg' = "failed"
  /\ UNCHANGED <<record, frames, partial, at, outcome, written, pool, pipe, crashes>>

\* The server ends without a word and is started again.
Crash ==
  /\ crashes < MaxCrashes /\ crashes' = crashes + 1
  /\ current' = None /\ at' = "idle" /\ outcome' = "done"
  /\ job' = [j \in Jobs |-> IF job[j] = "running" THEN "lost" ELSE job[j]]
  /\ stopped' = {} /\ keys' = {}
  /\ SinkReset
  /\ UNCHANGED <<files, frames, partial>>

-----------------------------------------------------------------------------
\* The steps that are awaited of somebody who answers.
Proceed ==
  \/ \E ok \in BOOLEAN : BrowserStarts(ok) \/ PageOpens(ok) \/ SinkOpens(ok)
                         \/ WriteOldest(ok) \/ Finished(ok) \/ Settle(ok)
  \/ StopSeen \/ PageFails \/ AnimationLeaves \/ Captured \/ Drained \/ Abort \/ BrowserCloses

Next ==
  \/ \E j \in Jobs : (\E old \in SUBSET Jobs : Post(j, old)) \/ Delete(j)
  \/ Proceed
  \/ \E w \in Indices : (\E ok \in BOOLEAN : Encodes(w, ok)) \/ WorkerDies(w)
  \/ FfmpegEncodes \/ FfmpegEnds \/ FfmpegFails \/ Crash

\* Disk and browser answer, or time out; a worker and ffmpeg that live go on.
Fairness ==
  /\ WF_vars(Proceed)
  /\ \A w \in Indices : WF_vars(\E ok \in BOOLEAN : Encodes(w, ok))
  /\ WF_vars(FfmpegEncodes) /\ WF_vars(FfmpegEnds)

Spec == Init /\ [][Next]_vars /\ Fairness

-----------------------------------------------------------------------------
(* Properties *)

TypeOK ==
  /\ current \in Jobs \cup {None}
  /\ job \in [Jobs -> {"none", "running", "done", "cancelled", "error", "lost"}]
  /\ frames \in [Jobs -> 0..MaxFrames]
  /\ stopped \subseteq Jobs /\ keys \subseteq Jobs /\ partial \subseteq Jobs
  /\ files \in [Jobs -> Seq(Numbers)]
  /\ at \in {"idle", "browser", "page", "open", "frames", "full", "drain", "finish",
             "aborting", "closing", "settling"}
  /\ outcome \in {"done", "cancelled", "error"}
  /\ written \in Seq(Numbers) /\ queue \in Seq(Numbers) /\ pipe \in Seq(Numbers)
  /\ worker \in [Indices -> {"off", "alive", "dead"}] /\ inbox \in [Indices -> Seq(Numbers)]
  /\ waiting \subseteq Numbers /\ encoded \subseteq Numbers /\ failed \subseteq Numbers
  /\ lost \subseteq Numbers
  /\ ffmpeg \in {"off", "alive", "ended", "failed"}
  /\ crashes \in 0..MaxCrashes

\* A file that is named holds every frame of its job, in order and once (Settle,
\* writeOldest), however the workers' answers come.
DoneIsWhole ==
  \A j \in Jobs : files[j] # <<>> => files[j] = [n \in 1..frames[j] |-> n]

\* A key opens the pages only while its job runs (run's finally).
KeyDiesWithJob == keys \subseteq {current}

\* A stopped job leaves no file behind, named or not (abort).
StoppedLeavesNothing ==
  \A j \in Jobs : job[j] = "cancelled" => j \notin partial /\ files[j] = <<>>

\* While a job runs, what crashes and refused renames left is gone (clearOld).
LeftoversAreCleared == current # None => partial \subseteq {current}

\* What a job leaves behind: its file when it is done, and nothing else.
NothingIsLeft == KeyDiesWithJob /\ StoppedLeavesNothing /\ LeftoversAreCleared

\* The job awaits a frame that was posted to a worker after that had ended, and that
\* no worker's end has rejected since.
AwaitsLost(j) ==
  current = j /\ at \in {"full", "finish"} /\ queue # <<>> /\ Head(queue) \in lost \ failed

\* A job that was accepted ends, however workers and ffmpeg fail, or it stays at a
\* frame that it gave to a worker which had ended before (render-job.ts:365); it
\* awaits nothing else for good.
JobEnds == \A j \in Jobs : job[j] = "running" ~> (job[j] # "running" \/ []AwaitsLost(j))

\* render.ts:50: "DELETE /jobs/:id" to "stop it".  Broken by a worker that ends while
\* it encodes nothing: the frames it is given later are awaited for good.
DeletedEnds == \A j \in Jobs : j \in stopped ~> job[j] # "running"
=============================================================================
