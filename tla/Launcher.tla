------------------------------ MODULE Launcher ------------------------------
(***************************************************************************)
(* The launcher (launcher/index.mjs): it starts and stops the server and   *)
(* the NDI sender as processes of its own, at the request of its windows,  *)
(* and ends both when it ends itself.  Every request is a handler of its   *)
(* own that awaits the port, the configuration, the probes of the server   *)
(* and the ends of processes, and all of them share state.status,          *)
(* state.child and state.sender.  A handler whose await is over goes on    *)
(* before anything else happens (Turn), since promises come before events. *)
(***************************************************************************)
EXTENDS Naturals, FiniteSets

CONSTANTS Starts,       \* POST /api/start, each made once; it names its server
          Stops,        \* POST /api/stop, each made once
          Toggles,      \* POST /api/debug, each made once
          Quit,         \* the stopServer of gracefulShutdown
          Senders,      \* names for sender processes
          NoProcess,
          Direct,       \* the address of the server is the loopback
          MaxChecking,  \* bound on the starts that look at the port at once
          MaxFailures   \* bound on processes that end by themselves

Requests == Starts \cup Stops \cup Toggles \cup {Quit}

ASSUME LauncherAssumption ==
  /\ Starts \cap Stops = {} /\ Toggles \cap (Starts \cup Stops) = {}
  /\ Quit \notin Starts \cup Stops \cup Toggles
  /\ NoProcess \notin Starts \cup Senders
  /\ Direct \in BOOLEAN /\ MaxChecking \in Nat /\ MaxFailures \in Nat

VARIABLES
  status,    \* state.status
  child,     \* state.child
  sender,    \* state.sender
  server,    \* the servers' processes
  killed,    \* the servers that were sent SIGKILL
  told,      \* the servers that were told to end (killTree)
  process,   \* the senders' processes
  pc,        \* the handlers
  target,    \* the server that a handler awaits the end of
  awaited,   \* the sender that a handler awaits the end of
  chosenOk,  \* measureReach: what the first probe said
  restarts,  \* timeouts that start the sender again
  failures,
  over       \* the launcher has ended, and with it the model

state == <<status, child, sender>>
procs == <<server, killed, told, process>>
locals == <<target, awaited, chosenOk>>
launcherVars == <<state, procs, pc, locals, restarts, failures, over>>

Alive == {s \in Starts : server[s] \in {"booting", "serving"}}
Serving == {s \in Starts : server[s] = "serving"}

LauncherTypeOK ==
  /\ status \in {"stopped", "starting", "running", "stopping", "error"}
  /\ child \in Starts \cup {NoProcess} /\ sender \in Senders \cup {NoProcess}
  /\ server \in [Starts -> {"none", "booting", "serving", "gone"}]
  /\ killed \subseteq Starts /\ told \subseteq Starts
  /\ process \in [Senders -> {"gone", "alive", "told", "killed"}]
  /\ pc \in [Requests -> {"idle", "checking", "writing", "probing", "loopback", "waiting",
                          "sender", "child", "killing", "done"}]
  /\ target \in [Requests -> Starts \cup {NoProcess}]
  /\ awaited \in [Requests -> Senders \cup {NoProcess}]
  /\ chosenOk \in [Starts -> BOOLEAN]
  /\ restarts \in Nat /\ failures \in 0..MaxFailures /\ over \in BOOLEAN

LauncherInit ==
  /\ status = "stopped" /\ child = NoProcess /\ sender = NoProcess
  /\ server = [s \in Starts |-> "none"] /\ killed = {} /\ told = {}
  /\ process = [x \in Senders |-> "gone"]
  /\ pc = [h \in Requests |-> "idle"]
  /\ target = [h \in Requests |-> NoProcess] /\ awaited = [h \in Requests |-> NoProcess]
  /\ chosenOk = [s \in Starts |-> FALSE]
  /\ restarts = 0 /\ failures = 0 /\ over = FALSE

\* What a handler awaits has come.
Ready(h) ==
  \/ pc[h] = "sender" /\ process[awaited[h]] \in {"killed", "gone"}
  \/ pc[h] \in {"child", "killing"} /\ server[target[h]] = "gone"
  \/ h = Quit /\ pc[h] = "done"

Turn == ~over /\ \A h \in Requests : ~Ready(h)

GoesTo(h, l) == pc' = [pc EXCEPT ![h] = l]
Done(h) == GoesTo(h, "done")

-----------------------------------------------------------------------------
(* The sender *)

\* A slip: the sender is started whether there is one or not.
StartSenderAlways ==
  LET x == CHOOSE y \in Senders : process[y] = "gone"
  IN  /\ \E y \in Senders : process[y] = "gone"
      /\ sender' = x
      /\ process' = [process EXCEPT ![x] = "alive"]

\* startSender: none is started while there is one.
StartSender ==
  IF sender # NoProcess
    THEN UNCHANGED <<sender, process>>
    ELSE LET x == CHOOSE y \in Senders : process[y] = "gone"
         IN  /\ \E y \in Senders : process[y] = "gone"
             /\ sender' = x
             /\ process' = [process EXCEPT ![x] = "alive"]

\* stopSender up to its await: the launcher forgets the sender and tells it to end.
StopSender ==
  /\ sender' = NoProcess
  /\ process' = IF sender = NoProcess THEN process ELSE [process EXCEPT ![sender] = "told"]

\* stopSender, its time of grace is over.
SenderGrace(x) ==
  /\ Turn /\ process[x] = "told"
  /\ process' = [process EXCEPT ![x] = "killed"]
  /\ UNCHANGED <<state, server, killed, told, pc, locals, restarts, failures, over>>

\* The exit event of a sender: one the launcher has not forgotten is started
\* again after a while.
SenderExits(x) ==
  /\ Turn
  /\ process[x] # "gone"
  /\ IF process[x] = "alive" THEN failures < MaxFailures /\ failures' = failures + 1
                             ELSE UNCHANGED failures
  /\ process' = [process EXCEPT ![x] = "gone"]
  /\ IF sender = x
       THEN /\ sender' = NoProcess
            /\ restarts' = IF status = "running" THEN restarts + 1 ELSE restarts
       ELSE UNCHANGED <<sender, restarts>>
  /\ UNCHANGED <<status, child, server, killed, told, pc, locals, over>>

RestartSender ==
  /\ Turn /\ restarts > 0
  /\ restarts' = restarts - 1
  /\ IF status = "running" THEN StartSender ELSE UNCHANGED <<sender, process>>
  /\ UNCHANGED <<status, child, server, killed, told, pc, locals, failures, over>>

-----------------------------------------------------------------------------
(* The server's process *)

\* It listens, unless another holds the port.
ServerListens(s) ==
  /\ Turn
  /\ server[s] = "booting" /\ Serving = {}
  /\ server' = [server EXCEPT ![s] = "serving"]
  /\ UNCHANGED <<state, killed, told, process, pc, locals, restarts, failures, over>>

\* Why a server may end: it was told or killed, the port is taken, or it fails.
Ends(s) == s \in told \cup killed \/ (server[s] = "booting" /\ Serving # {})

\* Its exit event, with code 0 or another one.
ServerExits(s, zero) ==
  /\ Turn
  /\ s \in Alive
  /\ IF Ends(s) THEN UNCHANGED failures
                ELSE failures < MaxFailures /\ failures' = failures + 1
  /\ server' = [server EXCEPT ![s] = "gone"]
  /\ IF child = s
       THEN /\ child' = NoProcess
            /\ StopSender
            /\ status' = CASE status = "stopping" -> "stopped"
                           [] status \in {"running", "starting"} -> IF zero THEN "stopped" ELSE "error"
                           [] OTHER -> status
       ELSE UNCHANGED <<state, process>>
  /\ UNCHANGED <<killed, told, pc, locals, restarts, over>>

-----------------------------------------------------------------------------
(* startServer *)

\* The check of the status comes before two awaits, which the status does not show.
StartAsked(s) ==
  /\ Turn /\ pc[s] = "idle"
  /\ IF status \in {"starting", "running", "stopping"}
       THEN Done(s)
       ELSE /\ Cardinality({t \in Starts : pc[t] \in {"checking", "writing"}}) < MaxChecking
            /\ GoesTo(s, "checking")
  /\ UNCHANGED <<state, procs, locals, restarts, failures, over>>

StartFails(s) ==
  /\ status' = "error"
  /\ Done(s)
  /\ UNCHANGED <<child, server>>

\* checkPortFree: another program may hold the port as well.
PortChecked(s, free) ==
  /\ Turn /\ pc[s] = "checking"
  /\ free => Serving = {}
  /\ IF free THEN GoesTo(s, "writing") /\ UNCHANGED <<status, child, server>>
             ELSE StartFails(s)
  /\ UNCHANGED <<sender, killed, told, process, locals, restarts, failures, over>>

\* writeNodecgConfig and spawn, which may both fail.
Spawned(s, ok) ==
  /\ Turn /\ pc[s] = "writing"
  /\ IF ok THEN /\ status' = "starting" /\ child' = s
                /\ server' = [server EXCEPT ![s] = "booting"]
                /\ GoesTo(s, "probing")
           ELSE StartFails(s)
  /\ UNCHANGED <<sender, killed, told, process, locals, restarts, failures, over>>

\* A slip: a start whose time is up only answers.
GiveUpAnswers(s) == Done(s) /\ UNCHANGED <<status, told, target>>

\* The end of startServer: a start that has not become ready takes its server away.
GiveUp(s) ==
  IF status # "starting" THEN Done(s) /\ UNCHANGED <<status, told, target>>
  ELSE IF child = s THEN /\ told' = told \cup {s}
                         /\ target' = [target EXCEPT ![s] = s]
                         /\ GoesTo(s, "child")
                         /\ UNCHANGED status
  ELSE status' = "error" /\ Done(s) /\ UNCHANGED <<told, target>>

\* The server counts as ready, whatever has become of it since the probe.
BecomeReady(s) ==
  /\ status' = "running"
  /\ StartSender
  /\ Done(s)
  /\ UNCHANGED <<told, target>>

\* The loop has measured: the chosen address answers, or only the loopback has
\* for a while, or it tries again.
Measured(s, chosen, loopback) ==
  \/ /\ chosen \/ loopback
     /\ BecomeReady(s)
  \/ /\ ~chosen
     /\ UNCHANGED <<sender, process>>
     /\ IF server[s] = "gone" THEN GiveUp(s)
                              ELSE GoesTo(s, "waiting") /\ UNCHANGED <<status, told, target>>

\* measureReach, the probe of the chosen address.
ChosenProbed(s, ok) ==
  /\ Turn /\ pc[s] = "probing"
  /\ ok => server[s] = "serving"
  /\ IF Direct
       THEN Measured(s, ok, FALSE) /\ UNCHANGED chosenOk
       ELSE /\ chosenOk' = [chosenOk EXCEPT ![s] = ok]
            /\ GoesTo(s, "loopback")
            /\ UNCHANGED <<status, sender, told, process, target>>
  /\ UNCHANGED <<child, server, killed, awaited, restarts, failures, over>>

\* measureReach, the probe of the loopback.
LoopbackProbed(s, ok) ==
  /\ Turn /\ pc[s] = "loopback"
  /\ ok => Serving # {}
  /\ Measured(s, chosenOk[s], ok)
  /\ chosenOk' = [chosenOk EXCEPT ![s] = FALSE]
  /\ UNCHANGED <<child, server, killed, awaited, restarts, failures, over>>

\* The loop goes on after its delay, unless time is up or the server another.
LoopAgain(s, late) ==
  /\ Turn /\ pc[s] = "waiting"
  /\ IF late \/ child # s THEN GiveUp(s)
                          ELSE GoesTo(s, "probing") /\ UNCHANGED <<status, told, target>>
  /\ UNCHANGED <<child, sender, server, killed, process, awaited, chosenOk, restarts, failures, over>>

-----------------------------------------------------------------------------
(* stopServer, /api/debug and gracefulShutdown *)

\* stopChild up to its first await.
StopChild(h, s) ==
  /\ told' = IF s \in Alive THEN told \cup {s} ELSE told
  /\ GoesTo(h, "child")

StopAsked(p) ==
  /\ Turn /\ pc[p] = "idle"
  /\ IF child = NoProcess
       THEN /\ status' = "stopped"
            /\ Done(p)
            /\ UNCHANGED <<sender, process, told, target, awaited>>
       ELSE /\ status' = "stopping"
            /\ target' = [target EXCEPT ![p] = child]
            /\ awaited' = [awaited EXCEPT ![p] = sender]
            /\ StopSender
            /\ IF sender = NoProcess THEN StopChild(p, child)
                                ELSE GoesTo(p, "sender") /\ UNCHANGED told
  /\ UNCHANGED <<child, server, killed, chosenOk, restarts, failures, over>>

\* The detailed log of the sender is switched: one that runs is started again.
ToggleAsked(t) ==
  /\ Turn /\ pc[t] = "idle"
  /\ IF sender # NoProcess /\ status = "running"
       THEN /\ awaited' = [awaited EXCEPT ![t] = sender]
            /\ StopSender
            /\ GoesTo(t, "sender")
       ELSE Done(t) /\ UNCHANGED <<sender, process, awaited>>
  /\ UNCHANGED <<status, child, server, killed, told, target, chosenOk, restarts, failures, over>>

\* stopSender is over.
SenderStopped(h) ==
  /\ ~over /\ pc[h] = "sender" /\ Ready(h)
  /\ IF h \in Toggles
       THEN /\ IF status = "running" THEN StartSender ELSE UNCHANGED <<sender, process>>
            /\ Done(h)
            /\ UNCHANGED told
       ELSE StopChild(h, target[h]) /\ UNCHANGED <<sender, process>>
  /\ UNCHANGED <<status, child, server, killed, locals, restarts, failures, over>>

\* stopChild, the time of grace is over.  (A process that is sent SIGKILL ends
\* within the two seconds it is then waited for.)
ChildGrace(h) ==
  /\ Turn /\ pc[h] = "child"
  /\ killed' = killed \cup {target[h]}
  /\ GoesTo(h, "killing")
  /\ UNCHANGED <<state, server, told, process, locals, restarts, failures, over>>

\* stopChild is over, and with it the stop, or the start that had not become ready.
ChildStopped(h) ==
  /\ ~over /\ pc[h] \in {"child", "killing"} /\ Ready(h)
  /\ child' = IF child = target[h] THEN NoProcess ELSE child
  /\ status' = IF h \in Starts THEN "error" ELSE "stopped"
  /\ Done(h)
  /\ UNCHANGED <<sender, procs, locals, restarts, failures, over>>

\* The exit handler: what the launcher knows of is killed.
Exit ==
  /\ over' = TRUE
  /\ killed' = IF child = NoProcess THEN killed ELSE killed \cup {child}
  /\ process' = IF sender = NoProcess THEN process ELSE [process EXCEPT ![sender] = "killed"]
  /\ UNCHANGED <<state, server, told, pc, locals, restarts, failures>>

\* gracefulShutdown has stopped the server.
QuitExits == ~over /\ pc[Quit] = "done" /\ Exit

\* An exception nobody catches ends the launcher as well.
LauncherFails == Turn /\ Exit

-----------------------------------------------------------------------------
LauncherNext ==
  \/ \E s \in Starts :
       \/ StartAsked(s) \/ ServerListens(s)
       \/ \E ok \in BOOLEAN : PortChecked(s, ok) \/ Spawned(s, ok) \/ ServerExits(s, ok)
       \/ \E ok \in BOOLEAN : ChosenProbed(s, ok) \/ LoopbackProbed(s, ok) \/ LoopAgain(s, ok)
  \/ \E p \in Stops \cup {Quit} : StopAsked(p)
  \/ \E t \in Toggles : ToggleAsked(t)
  \/ \E h \in Requests : SenderStopped(h) \/ ChildGrace(h) \/ ChildStopped(h)
  \/ \E x \in Senders : SenderGrace(x) \/ SenderExits(x)
  \/ RestartSender \/ QuitExits \/ LauncherFails

\* The handlers go on, timeouts fire, and a killed process ends.  A process that
\* is only told may take its time, and the deadline of a start comes at last.
LauncherFairness ==
  /\ \A s \in Starts :
       /\ WF_launcherVars(\E ok \in BOOLEAN : PortChecked(s, ok))
       /\ WF_launcherVars(\E ok \in BOOLEAN : Spawned(s, ok))
       /\ WF_launcherVars(\E ok \in BOOLEAN : ChosenProbed(s, ok))
       /\ WF_launcherVars(\E ok \in BOOLEAN : LoopbackProbed(s, ok))
       /\ WF_launcherVars(\E late \in BOOLEAN : LoopAgain(s, late)) /\ SF_launcherVars(LoopAgain(s, TRUE))
       /\ WF_launcherVars(s \in killed /\ \E zero \in BOOLEAN : ServerExits(s, zero))
  /\ \A h \in Requests : /\ WF_launcherVars(SenderStopped(h))
                         /\ WF_launcherVars(ChildGrace(h))
                         /\ WF_launcherVars(ChildStopped(h))
  /\ \A x \in Senders : /\ WF_launcherVars(SenderGrace(x))
                        /\ WF_launcherVars(process[x] = "killed" /\ SenderExits(x))
  /\ WF_launcherVars(RestartSender) /\ WF_launcherVars(QuitExits)

LauncherSpec == LauncherInit /\ [][LauncherNext]_launcherVars /\ LauncherFairness

-----------------------------------------------------------------------------
(* Properties *)

\* At most one sender has not been told to end, and the launcher knows it, so it
\* can be stopped, though starts, restarts after a crash and the switch of the log
\* overlap: with two, every NDI source would be on the network twice.
OneSender == \A x \in Senders : process[x] = "alive" => sender = x

\* When a stop is answered (stopServer), the server it stopped has ended, even one
\* that ignores SIGTERM: its port and its database are free for the next start.
StopStops ==
  \A p \in Stops \cup {Quit} : pc[p] = "done" /\ target[p] # NoProcess => server[target[p]] = "gone"

\* The launcher's picture of its processes is true between any two steps.
LauncherInv == LauncherTypeOK /\ OneSender /\ StopStops

\* Every request is answered, and the launcher does not stay between two states:
\* each wait of startServer, stopServer and stopChild has its end.
RequestsEnd ==
  <>[](\/ over
       \/ /\ status \notin {"starting", "stopping"}
          /\ \A h \in Requests : pc[h] \in {"idle", "done"})

\* launcher/README.md: the child is always stopped when the launcher exits (the
\* exit handler).  Broken by two starts at once: the first server is forgotten.
ChildIsStopped == over => Alive \subseteq told \cup killed
=============================================================================
