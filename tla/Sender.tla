------------------------------- MODULE Sender -------------------------------
(***************************************************************************)
(* The NDI sender and the server's side of it.  The supervisor             *)
(* (supervisor.mjs) follows the server (followServer), keeps one worker    *)
(* per out that is asked for (Controller) and each worker a process        *)
(* (WorkerOutput); the hub (extension/ndi.ts) says what is wanted, keeps   *)
(* the key in a file and what the sender reports.                          *)
(***************************************************************************)
EXTENDS Naturals, FiniteSets, Functions

CONSTANTS Outs,
          Configs,     \* what an out is sent as
          Off,         \* the out is not sent
          Workers,     \* names for WorkerOutputs: as many as may be alive at once
          NoWorker,
          NotKnown,    \* the hub has no report
          MaxEvents    \* bound on what people do and what goes wrong

ASSUME SenderAssumption ==
  /\ Off \notin Configs /\ NoWorker \notin Workers
  /\ IsFiniteSet(Outs) /\ IsFiniteSet(Workers)
  /\ Cardinality(Workers) >= 2 * Cardinality(Outs)   \* room to replace every worker
  /\ MaxEvents \in Nat

VARIABLES
  wanted,      \* server: GET /api/ndi
  key,         \* server: the senders' key, numbered
  keyFile,     \* the key in the file that the sender reads
  hub,         \* server: what the sender reported last, or that it is not known
  seen,        \* server: the report is younger than NDI_SENDER_TTL_MS
  tick,        \* followServer: where its round is
  sent,        \* followServer: the key of the request under way
  answer,      \* followServer: the configurations of the answer
  report,      \* followServer: the status under way
  outputs,     \* Controller.outputs
  worker,      \* the WorkerOutputs
  stopping,    \* the supervisor: shutdown has begun
  awaited,     \* the supervisor: the workers shutdown waits for
  over,        \* the supervisor: its process has ended
  events

server == <<wanted, key, keyFile, hub, seen>>
follower == <<tick, sent, answer, report>>
supervisor == <<stopping, awaited, over>>
vars == <<server, follower, outputs, worker, supervisor, events>>

Answer == [Outs -> Configs \cup {Off}]
Nothing == [o \in Outs |-> Off]
Told == {"loading", "sending", "error"}
Status == [Outs -> Told \cup {Off}]

\* Where a worker's process is: being started, running, told to end, ended and
\* to be started again, not to be started and nobody heard of it, ended for good.
Phase == {"spawning", "running", "ending", "resting", "dud", "done"}
Record == [out : Outs, config : Configs, phase : Phase, stopped : BOOLEAN, cpu : BOOLEAN, told : Told]
Free == [phase |-> "none"]
Launch(o, c) ==
  [out |-> o, config |-> c, phase |-> "spawning", stopped |-> FALSE, cpu |-> FALSE, told |-> "loading"]

InUse == {w \in Workers : worker[w] # Free}
HasProcess(w) == worker[w].phase \in {"running", "ending"}

TypeOK ==
  /\ wanted \in Answer /\ key \in Nat /\ keyFile \in 0..key
  /\ hub \in Status \cup {NotKnown} /\ seen \in BOOLEAN
  /\ tick \in {"waiting", "asking", "answered", "reporting", "halted"}
  /\ sent \in 0..key /\ answer \in Answer /\ report \in Status
  /\ outputs \in [Outs -> Workers \cup {NoWorker}]
  /\ worker \in [Workers -> Record \cup {Free}]
  /\ stopping \in BOOLEAN /\ awaited \subseteq InUse /\ over \in BOOLEAN
  /\ events \in 0..MaxEvents

Init ==
  /\ wanted \in Answer /\ key = 0 /\ keyFile = 0
  /\ hub = NotKnown /\ seen = FALSE
  /\ tick = "waiting" /\ sent = 0 /\ answer = Nothing /\ report = Nothing
  /\ outputs = [o \in Outs |-> NoWorker]
  /\ worker = [w \in Workers |-> Free]
  /\ stopping = FALSE /\ awaited = {} /\ over = FALSE
  /\ events = 0

Event == events < MaxEvents /\ events' = events + 1

\* The supervisor can handle something else: once shutdown has nothing left to
\* wait for, the end of its process comes next.
Turn == ~(stopping /\ awaited = {})

-----------------------------------------------------------------------------
(* The server *)

SetOut(o, c) ==
  /\ Event /\ wanted[o] # c
  /\ wanted' = [wanted EXCEPT ![o] = c]
  /\ UNCHANGED <<key, keyFile, hub, seen, follower, outputs, worker, supervisor>>

\* The key is replaced in the dashboard; keepNdiKeyFile writes it at once, or
\* cannot.
ReplaceKey(written) ==
  /\ Event
  /\ key' = key + 1
  /\ keyFile' = IF written THEN key + 1 ELSE keyFile
  /\ UNCHANGED <<wanted, hub, seen, follower, outputs, worker, supervisor>>

\* The server starts again: the hub is empty, the key is written anew.
ServerRestart ==
  /\ Event
  /\ hub' = NotKnown /\ seen' = FALSE
  /\ keyFile' = key
  /\ UNCHANGED <<wanted, key, follower, outputs, worker, supervisor>>

\* The report grows old: the sender is gone or refused, or a round took too long.
Silent == over \/ keyFile # key

Age ==
  /\ seen
  /\ IF Silent THEN UNCHANGED events ELSE Event
  /\ seen' = FALSE
  /\ UNCHANGED <<wanted, key, keyFile, hub, follower, outputs, worker, supervisor>>

\* The hub's interval.
Prune ==
  /\ hub # NotKnown /\ ~seen
  /\ hub' = NotKnown
  /\ UNCHANGED <<wanted, key, keyFile, seen, follower, outputs, worker, supervisor, events>>

-----------------------------------------------------------------------------
(* Controller *)

\* WorkerOutput.stop: a running process is told to end, a timeout is cleared; a
\* worker whose process is being started is only marked.
Stopped(r) ==
  CASE r.phase = "running" -> [r EXCEPT !.stopped = TRUE, !.phase = "ending"]
    [] r.phase \in {"spawning", "ending"} -> [r EXCEPT !.stopped = TRUE]
    [] OTHER -> Free

\* The outs whose worker is not the one that a asks for.
Unlike(a) == {o \in Outs : outputs[o] # NoWorker /\ worker[outputs[o]].config # a[o]}

\* A slip: a worker whose settings changed is replaced and not stopped.
ApplyKeepsOld(a) ==
  LET gone == Unlike(a)
      new == {o \in Outs : a[o] # Off /\ (outputs[o] = NoWorker \/ o \in gone)}
      stop == {outputs[o] : o \in gone \ new}
      room == Workers \ InUse
  IN /\ Cardinality(new) <= Cardinality(room)
     /\ LET name == CHOOSE f \in Injection(new, room) : TRUE
        IN /\ outputs' = [o \in Outs |-> IF o \in new THEN name[o]
                                       ELSE IF o \in gone THEN NoWorker ELSE outputs[o]]
           /\ worker' = [w \in Workers |->
                IF w \in stop THEN Stopped(worker[w])
                ELSE IF \E o \in new : name[o] = w
                THEN LET o == CHOOSE o \in new : name[o] = w IN Launch(o, a[o])
                ELSE worker[w]]

\* Controller.apply: stops what is gone or changed, starts what is new or
\* changed.  It waits for no worker to end.
Apply(a) ==
  LET gone == Unlike(a)
      new == {o \in Outs : a[o] # Off /\ (outputs[o] = NoWorker \/ o \in gone)}
      stop == {outputs[o] : o \in gone}
      room == Workers \ InUse
  IN /\ Cardinality(new) <= Cardinality(room)
     /\ LET name == CHOOSE f \in Injection(new, room) : TRUE
        IN /\ outputs' = [o \in Outs |-> IF o \in new THEN name[o]
                                       ELSE IF o \in gone THEN NoWorker ELSE outputs[o]]
           /\ worker' = [w \in Workers |->
                IF w \in stop THEN Stopped(worker[w])
                ELSE IF \E o \in new : name[o] = w
                THEN LET o == CHOOSE o \in new : name[o] = w IN Launch(o, a[o])
                ELSE worker[w]]

\* Controller.status, with the outputs and workers there are then.
StatusOf(outs, workers) ==
  [o \in Outs |-> IF outs[o] = NoWorker THEN Off ELSE workers[outs[o]].told]

-----------------------------------------------------------------------------
(* followServer: rounds of a question and a report *)

\* Where a round leads when it ends: no timeout is set once it was stopped.
Rest == IF stopping THEN "halted" ELSE "waiting"

\* The timeout of the next round: the question goes out, with the key of now.
Ask ==
  /\ Turn /\ tick = "waiting"
  /\ tick' = "asking" /\ sent' = keyFile
  /\ UNCHANGED <<server, answer, report, outputs, worker, supervisor, events>>

\* The server answers, if the key is right.
Answers ==
  /\ tick = "asking" /\ sent = key
  /\ tick' = "answered" /\ answer' = wanted
  /\ UNCHANGED <<server, sent, report, outputs, worker, supervisor, events>>

\* The answer is applied and the report goes out.
Follow ==
  /\ Turn /\ tick = "answered"
  /\ Apply(answer)
  /\ tick' = "reporting" /\ sent' = keyFile
  /\ answer' = Nothing /\ report' = StatusOf(outputs', worker')
  /\ UNCHANGED <<server, supervisor, events>>

Reports ==
  /\ tick = "reporting" /\ sent = key
  /\ hub' = report /\ seen' = TRUE
  /\ tick' = Rest /\ report' = Nothing /\ sent' = 0
  /\ UNCHANGED <<wanted, key, keyFile, answer, outputs, worker, supervisor, events>>

\* The server refuses the key: the sources are taken down.
Refused ==
  /\ Turn /\ tick \in {"asking", "reporting"} /\ sent # key
  /\ Apply(Nothing)
  /\ tick' = Rest /\ report' = Nothing /\ sent' = 0
  /\ UNCHANGED <<server, answer, supervisor, events>>

\* A slip: any failure takes the sources down.
UnreachableStops ==
  /\ Event /\ Turn
  /\ tick \in {"asking", "reporting"}
  /\ Apply(Nothing)
  /\ tick' = Rest /\ report' = Nothing /\ sent' = 0
  /\ UNCHANGED <<server, answer, supervisor>>

\* A slip: the next round is asked for at the end of one that went well only.
UnreachableHalts ==
  /\ Event /\ Turn
  /\ tick \in {"asking", "reporting"}
  /\ tick' = "halted" /\ report' = Nothing /\ sent' = 0
  /\ UNCHANGED <<server, answer, outputs, worker, supervisor>>

\* The server is away, slow or broken, or its answer is lost: the sources stay.
Unreachable ==
  /\ Event /\ Turn
  /\ tick \in {"asking", "reporting"}
  /\ \/ UNCHANGED <<hub, seen>>
     \/ tick = "reporting" /\ sent = key /\ hub' = report /\ seen' = TRUE
  /\ tick' = Rest /\ report' = Nothing /\ sent' = 0
  /\ UNCHANGED <<wanted, key, keyFile, answer, outputs, worker, supervisor>>

-----------------------------------------------------------------------------
(* WorkerOutput *)

Become(w, phase, told) == worker' = [worker EXCEPT ![w].phase = phase, ![w].told = told]

\* The process of a stopped worker is gone, or was never there.
Retire(w) ==
  worker' = [worker EXCEPT ![w] = IF \E o \in Outs : outputs[o] = w
                                  THEN [@ EXCEPT !.phase = "done"] ELSE Free]

\* launch, after its await: a worker that was stopped meanwhile kills the process.
Spawned(w) ==
  /\ Turn /\ worker[w].phase = "spawning"
  /\ Become(w, IF worker[w].stopped THEN "ending" ELSE "running", worker[w].told)
  /\ UNCHANGED <<server, follower, outputs, supervisor, events>>

\* There is no display to start it on: ended, stopped or not.
SpawnRejected(w) ==
  /\ Event /\ Turn
  /\ worker[w].phase = "spawning"
  /\ Become(w, "resting", "error")
  /\ UNCHANGED <<server, follower, outputs, supervisor>>

\* The program cannot be executed: an error, which is logged, and no exit.
SpawnErrs(w) ==
  /\ Event /\ Turn
  /\ worker[w].phase = "spawning"
  /\ IF worker[w].stopped THEN Retire(w) ELSE Become(w, "dud", worker[w].told)
  /\ UNCHANGED <<server, follower, outputs, supervisor>>

\* The worker's message, every second.
Tells(w) ==
  /\ Turn /\ worker[w].phase = "running" /\ worker[w].told # "sending"
  /\ Become(w, "running", "sending")
  /\ UNCHANGED <<server, follower, outputs, supervisor, events>>

\* The process ends unasked, or asks to be started again on the CPU.
Crashes(w) ==
  /\ Event /\ Turn
  /\ worker[w].phase = "running"
  /\ \/ Become(w, "resting", "error")
     \/ /\ ~worker[w].cpu
        /\ worker' = [worker EXCEPT ![w].phase = "spawning", ![w].cpu = TRUE]
  /\ UNCHANGED <<server, follower, outputs, supervisor>>

\* The process ends as it was told to, or is killed after STOP_MS.
Ends(w) ==
  /\ worker[w].phase = "ending"
  /\ Retire(w)
  /\ awaited' = awaited \ {w}
  /\ UNCHANGED <<server, follower, outputs, stopping, over, events>>

\* A slip: a worker that was stopped is started again all the same.
RelaunchStopped(w) ==
  /\ Turn /\ worker[w].phase = "resting"
  /\ Become(w, "spawning", worker[w].told)
  /\ UNCHANGED <<server, follower, outputs, supervisor, events>>

\* ended's timeout, and launch up to its await.
Relaunch(w) ==
  /\ Turn /\ worker[w].phase = "resting"
  /\ IF worker[w].stopped THEN Retire(w) ELSE Become(w, "spawning", worker[w].told)
  /\ UNCHANGED <<server, follower, outputs, supervisor, events>>

-----------------------------------------------------------------------------
(* The supervisor *)

\* A signal: the rounds end and the workers there are told to.
Shutdown ==
  LET told == {outputs[o] : o \in Outs} \ {NoWorker} IN
  /\ ~stopping
  /\ stopping' = TRUE
  /\ tick' = IF tick = "waiting" THEN "halted" ELSE tick
  /\ awaited' = {w \in told : HasProcess(w)}
  /\ worker' = [w \in Workers |->
       IF w \notin told THEN worker[w]
       ELSE IF worker[w].phase \in {"resting", "dud"}
       THEN [worker[w] EXCEPT !.stopped = TRUE, !.phase = "done"] ELSE Stopped(worker[w])]
  /\ UNCHANGED <<server, sent, answer, report, outputs, over, events>>

\* Every worker that was awaited has ended: onStop, and the end of the process.
\* A worker that loses its supervisor ends by itself.
Exit ==
  /\ stopping /\ ~over /\ awaited = {}
  /\ over' = TRUE
  /\ tick' = "halted" /\ answer' = Nothing /\ report' = Nothing /\ sent' = 0
  /\ outputs' = [o \in Outs |-> NoWorker]
  /\ worker' = [w \in Workers |->
       IF HasProcess(w) THEN [worker[w] EXCEPT !.stopped = TRUE, !.phase = "ending"] ELSE Free]
  /\ UNCHANGED <<server, stopping, awaited, events>>

-----------------------------------------------------------------------------

Round == Ask \/ Answers \/ Follow \/ Reports \/ Refused

Next ==
  \/ \E o \in Outs, c \in Configs \cup {Off} : SetOut(o, c)
  \/ \E written \in BOOLEAN : ReplaceKey(written)
  \/ ServerRestart \/ Age \/ Prune
  \/ Round \/ Unreachable
  \/ \E w \in Workers : \/ Spawned(w) \/ SpawnRejected(w) \/ SpawnErrs(w)
                        \/ Tells(w) \/ Crashes(w) \/ Ends(w) \/ Relaunch(w)
  \/ Shutdown \/ Exit

\* Timeouts come, requests end (they time out after 5 s), processes start, tell
\* and end (they are killed after 5 s).
Fairness ==
  /\ WF_vars(Round) /\ WF_vars(Exit)
  /\ WF_vars(Silent /\ Age) /\ WF_vars(Prune)
  /\ \A w \in Workers : WF_vars(Spawned(w) \/ Tells(w) \/ Ends(w) \/ Relaunch(w))

Spec == Init /\ [][Next]_vars /\ Fairness

-----------------------------------------------------------------------------

\* supervisor.mjs, workers.mjs: an out has one worker that is not told to end,
\* the controller's; what the controller dropped is told to end.
OneWorkerPerOut ==
  /\ \A w \in InUse : ~worker[w].stopped => outputs[worker[w].out] = w
  /\ \A o \in Outs : outputs[o] # NoWorker =>
       outputs[o] \in InUse /\ worker[outputs[o]].out = o

\* workers.test.mjs:70: a stop is not followed by a restart, whether it comes
\* while the process starts, runs, ends or waits to be started again.
StoppedNeverRuns ==
  [][\A w \in InUse : worker[w].stopped =>
       \/ worker'[w].phase \in {"ending", "resting", "done", "none"}
       \/ worker[w].phase = "spawning" /\ worker'[w] = worker[w]]_vars

\* controller.mjs:171-173: the sources stay as they are while the server is
\* away.  A worker is stopped for an answer that asks for something else, a key
\* that is refused, or a shutdown.
AwayKeepsSources ==
  [][\A w \in InUse : ~worker[w].stopped /\ (worker'[w] = Free \/ worker'[w].stopped) =>
       \/ stopping' \/ sent # key
       \/ tick = "answered" /\ answer[worker[w].out] # worker[w].config]_vars

\* What runs and what the dashboard shows come to be what is asked for, once
\* people and faults leave the sender alone; a shutdown ends, and leaves no
\* process and no sender in the dashboard.  An out whose program could not be
\* executed is not started again.
AsAsked(o) ==
  LET c == IF keyFile = key THEN wanted[o] ELSE Off
      w == outputs[o]
  IN /\ c = Off => w = NoWorker
     /\ c # Off => /\ w # NoWorker /\ worker[w].config = c
                   /\ \/ worker[w].phase = "running" /\ worker[w].told = "sending"
                      \/ worker[w].phase = "dud"
                   /\ hub[o] = worker[w].told

SettlesAsAsked ==
  <>[](\/ over /\ InUse = {} /\ hub = NotKnown
       \/ /\ ~stopping
          /\ InUse = {outputs[o] : o \in Outs} \ {NoWorker}
          /\ hub = NotKnown <=> keyFile # key
          /\ \A o \in Outs : AsAsked(o))

\* supervisor.mjs:68: onStop is called after every worker has ended.
StopsAfterWorkers == [][Exit => \A w \in Workers : ~HasProcess(w)]_vars

=============================================================================
