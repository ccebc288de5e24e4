--------------------------- MODULE ReplicantSync ---------------------------
(***************************************************************************)
(* One replicant shared by the server and the pages: ServerReplicant and   *)
(* Replicator on one side (server/replicant), ClientReplicant on the other *)
(* (client/api/replicant.ts), over Socket.IO.                              *)
(*                                                                         *)
(* A value is the sequence of the operations applied to it, so a lost, a   *)
(* repeated and a reordered operation all show.  The packets of one        *)
(* connection arrive in order; a lost connection loses the packets on it,  *)
(* and what a page emits while it has none waits for the next.  Packets    *)
(* that arrive together are handed out in one turn of the server's event   *)
(* loop, each by process.nextTick: the flush that the handler of one asks  *)
(* for, by process.nextTick too, comes after the handlers of the others.   *)
(* Batches says whether a connection delivers packets together.            *)
(***************************************************************************)
EXTENDS Naturals, Sequences, SequencesExt

CONSTANTS Clients,
          NoClient,   \* no page
          Batches,    \* packets may arrive together
          MaxOps,     \* bound on the operations made
          MaxDrops    \* bound on lost connections and server restarts

ASSUME SyncAssumption ==
  NoClient \notin Clients /\ Batches \in BOOLEAN /\ MaxOps \in Nat /\ MaxDrops \in Nat

VARIABLES
  sValue, sRev, sQueue,    \* server: value, revision, _operationQueue
  turn,                    \* server: whose packets, and how many more of them, the
                           \* turn that asked for the pending flush hands out
  room,                    \* server: the pages that joined the replicant's room
  status, cValue, cRev,    \* page: status, value, revision
  cQueue,                  \* page: _operationQueue
  pendingFlush,            \* page: _pendingOperationFlush
  flushTimer,              \* page: the setTimeout of _addOperation is set
  flushQueued,             \* page: _flushOperations is in _actionQueue
  connected, toServer, toClient,
  ops,                     \* operations made so far
  drops,
  rejected                 \* history: the operations a page was told are rejected

server == <<sValue, sRev, sQueue, turn, room>>
page == <<status, cValue, cRev, cQueue, pendingFlush, flushTimer, flushQueued>>
net == <<connected, toServer, toClient>>
vars == <<server, page, net, ops, drops, rejected>>

Op == 1..MaxOps

TypeOK ==
  /\ sValue \in Seq(Op) /\ sRev \in 0..MaxOps /\ sQueue \in Seq(Op)
  /\ turn.page \in Clients \cup {NoClient} /\ turn.left \in Nat
  /\ room \subseteq Clients /\ connected \subseteq Clients
  /\ status \in [Clients -> {"undeclared", "declaring", "declared"}]
  /\ cValue \in [Clients -> Seq(Op)] /\ cRev \in [Clients -> 0..MaxOps]
  /\ cQueue \in [Clients -> Seq(Op)]
  /\ pendingFlush \in [Clients -> BOOLEAN]
  /\ flushTimer \in [Clients -> BOOLEAN] /\ flushQueued \in [Clients -> BOOLEAN]
  /\ ops \in 0..MaxOps /\ drops \in 0..MaxDrops /\ rejected \subseteq Op
  /\ \A c \in Clients : room \cap {c} \subseteq connected

\* Messages
Join == [type |-> "join"]
Declare == [type |-> "declare"]
Propose(queue, rev) == [type |-> "propose", operations |-> queue, revision |-> rev]
Joined == [type |-> "joined"]
HeadRevision(type, value, rev) == [type |-> type, value |-> value, revision |-> rev]
Operations(queue, rev) == [type |-> "operations", operations |-> queue, revision |-> rev]

NoTurn == [page |-> NoClient, left |-> 0]

Init ==
  /\ sValue = <<>> /\ sRev = 0 /\ sQueue = <<>> /\ turn = NoTurn /\ room = {}
  /\ status = [c \in Clients |-> "declaring"]
  /\ cValue = [c \in Clients |-> <<>>] /\ cRev = [c \in Clients |-> 0]
  /\ cQueue = [c \in Clients |-> <<>>]
  /\ pendingFlush = [c \in Clients |-> FALSE]
  /\ flushTimer = [c \in Clients |-> FALSE] /\ flushQueued = [c \in Clients |-> FALSE]
  /\ connected = Clients
  /\ toServer = [c \in Clients |-> <<Join>>] /\ toClient = [c \in Clients |-> <<>>]
  /\ ops = 0 /\ drops = 0 /\ rejected = {}

-----------------------------------------------------------------------------
(* Server *)

Broadcast(box, msg) == [c \in Clients |-> IF c \in room THEN Append(box[c], msg) ELSE box[c]]

\* The extension sets the value, in the handler of a packet of page w or for
\* a reason of its own: the operation is queued and flushed on the next tick.
ServerSet(w) ==
  /\ w = NoClient \/ (Batches /\ w \in connected)
  /\ turn' = IF sQueue # <<>> THEN turn
             ELSE IF w = NoClient THEN NoTurn
             ELSE [page |-> w, left |-> Len(toServer[w])]
  /\ ops < MaxOps
  /\ ops' = ops + 1
  /\ sValue' = Append(sValue, ops + 1)
  /\ sQueue' = Append(sQueue, ops + 1)
  /\ UNCHANGED <<sRev, room, page, net, drops, rejected>>

ServerFlush ==
  /\ sQueue # <<>>
  /\ sRev' = sRev + 1
  /\ sQueue' = <<>>
  /\ turn' = NoTurn
  /\ toClient' = Broadcast(toClient, Operations(sQueue, sRev + 1))
  /\ UNCHANGED <<sValue, room, page, connected, toServer, ops, drops, rejected>>

\* The next packet of a page is one of this type.  A flush that is pending
\* comes first, unless the packet is handed out in the turn that asked for it.
Packet(c, type) ==
  /\ c \in connected
  /\ toServer[c] # <<>> /\ Head(toServer[c]).type = type
  /\ sQueue = <<>> \/ (turn.page = c /\ turn.left > 0)
  /\ turn' = IF sQueue = <<>> THEN turn ELSE [turn EXCEPT !.left = @ - 1]
  /\ toServer' = [toServer EXCEPT ![c] = Tail(@)]

\* A slip: the page is answered without being put into the room.
HandleJoinLeavesOut(c) ==
  /\ Packet(c, "join")
  /\ toClient' = [toClient EXCEPT ![c] = Append(@, Joined)]
  /\ UNCHANGED <<sValue, sRev, sQueue, room, page, connected, ops, drops, rejected>>

HandleJoin(c) ==
  /\ Packet(c, "join")
  /\ room' = room \cup {c}
  /\ toClient' = [toClient EXCEPT ![c] = Append(@, Joined)]
  /\ UNCHANGED <<sValue, sRev, sQueue, page, connected, ops, drops, rejected>>

HandleDeclare(c) ==
  /\ Packet(c, "declare")
  /\ toClient' = [toClient EXCEPT ![c] = Append(@, HeadRevision("declared", sValue, sRev))]
  /\ UNCHANGED <<sValue, sRev, sQueue, room, page, connected, ops, drops, rejected>>

\* replicant:proposeOperations: another revision is answered with a rejection
\* and the head, and the operations are applied all the same.
HandlePropose(c) ==
  LET msg == Head(toServer[c])
      refused == msg.revision # sRev
      answered == IF refused THEN [toClient EXCEPT ![c] = Append(@, HeadRevision("ack", sValue, sRev))]
                             ELSE toClient
  IN  /\ Packet(c, "propose")
      /\ sValue' = sValue \o msg.operations
      /\ sRev' = sRev + 1
      /\ toClient' = Broadcast(answered, Operations(msg.operations, sRev + 1))
      /\ rejected' = IF refused THEN rejected \cup ToSet(msg.operations) ELSE rejected
      /\ UNCHANGED <<sQueue, room, page, connected, ops, drops>>

-----------------------------------------------------------------------------
(* Page *)

Received(c, type) ==
  /\ toClient[c] # <<>> /\ Head(toClient[c]).type = type
  /\ toClient' = [toClient EXCEPT ![c] = Tail(@)]

\* _flushOperations proposes what is queued, at the page's revision.
Flush(c, rev) ==
  /\ pendingFlush' = [pendingFlush EXCEPT ![c] = FALSE]
  /\ cQueue' = [cQueue EXCEPT ![c] = <<>>]
  /\ toServer' = IF cQueue[c] = <<>> THEN toServer
                 ELSE [toServer EXCEPT ![c] = Append(@, Propose(cQueue[c], rev))]

\* _addOperation: the first of a tick schedules the flush, by a timeout or,
\* before the replicant is declared, as an action for then.
PageSet(c) ==
  /\ ops < MaxOps
  /\ ops' = ops + 1
  /\ cQueue' = [cQueue EXCEPT ![c] = Append(@, ops + 1)]
  /\ pendingFlush' = [pendingFlush EXCEPT ![c] = TRUE]
  /\ flushTimer' = [flushTimer EXCEPT ![c] = @ \/ (~pendingFlush[c] /\ status[c] = "declared")]
  /\ flushQueued' = [flushQueued EXCEPT ![c] = @ \/ (~pendingFlush[c] /\ status[c] # "declared")]
  /\ UNCHANGED <<server, status, cValue, cRev, net, drops, rejected>>

FlushTimeout(c) ==
  /\ flushTimer[c]
  /\ flushTimer' = [flushTimer EXCEPT ![c] = FALSE]
  /\ Flush(c, cRev[c])
  /\ UNCHANGED <<server, status, cValue, cRev, flushQueued, connected, toClient, ops, drops, rejected>>

HandleJoined(c) ==
  /\ Received(c, "joined")
  /\ toServer' = [toServer EXCEPT ![c] = Append(@, Declare)]
  /\ UNCHANGED <<server, page, connected, ops, drops, rejected>>

\* The head is taken over and the actions queued before it run.
HandleDeclared(c) ==
  LET msg == Head(toClient[c])
  IN  /\ Received(c, "declared")
      /\ status' = [status EXCEPT ![c] = "declared"]
      /\ cValue' = [cValue EXCEPT ![c] = msg.value]
      /\ cRev' = [cRev EXCEPT ![c] = msg.revision]
      /\ flushQueued' = [flushQueued EXCEPT ![c] = FALSE]
      /\ IF flushQueued[c] THEN Flush(c, msg.revision)
                           ELSE UNCHANGED <<pendingFlush, cQueue, toServer>>
      /\ UNCHANGED <<server, flushTimer, connected, ops, drops, rejected>>

\* _handleOperations: ignored before the replicant is declared, applied when
\* it is the next revision.  (The fetch of the latest value after a gap is
\* left out: NoRevisionGap says there is none.)
HandleOperations(c) ==
  LET msg == Head(toClient[c])
  IN  /\ Received(c, "operations")
      /\ IF status[c] = "declared" /\ msg.revision = cRev[c] + 1
           THEN /\ cValue' = [cValue EXCEPT ![c] = @ \o msg.operations]
                /\ cRev' = [cRev EXCEPT ![c] = msg.revision]
           ELSE UNCHANGED <<cValue, cRev>>
      /\ UNCHANGED <<server, status, cQueue, pendingFlush, flushTimer, flushQueued,
                     connected, toServer, ops, drops, rejected>>

\* The answer to a proposal: the head is taken over if it is another revision.
HandleAck(c) ==
  LET msg == Head(toClient[c])
  IN  /\ Received(c, "ack")
      /\ IF msg.revision # cRev[c]
           THEN /\ cValue' = [cValue EXCEPT ![c] = msg.value]
                /\ cRev' = [cRev EXCEPT ![c] = msg.revision]
           ELSE UNCHANGED <<cValue, cRev>>
      /\ UNCHANGED <<server, status, cQueue, pendingFlush, flushTimer, flushQueued,
                     connected, toServer, ops, drops, rejected>>

-----------------------------------------------------------------------------
(* Connections *)

\* _handleDisconnect of the pages in C, with the packets on their connections.
Disconnected(C) ==
  /\ connected' = connected \ C
  /\ toServer' = [c \in Clients |-> IF c \in C THEN <<>> ELSE toServer[c]]
  /\ toClient' = [c \in Clients |-> IF c \in C THEN <<>> ELSE toClient[c]]
  /\ status' = [c \in Clients |-> IF c \in C THEN "undeclared" ELSE status[c]]
  /\ cQueue' = [c \in Clients |-> IF c \in C THEN <<>> ELSE cQueue[c]]
  /\ flushQueued' = [c \in Clients |-> flushQueued[c] /\ c \notin C]
  /\ drops < MaxDrops /\ drops' = drops + 1
  /\ UNCHANGED <<cValue, cRev, pendingFlush, flushTimer, ops, rejected>>

Disconnect(c) ==
  /\ c \in connected
  /\ Disconnected({c})
  /\ room' = room \ {c}
  /\ UNCHANGED <<sValue, sRev, sQueue, turn>>

\* The server restarts on the value the database holds, at revision 0.
ServerRestart ==
  /\ Disconnected(connected)
  /\ room' = {}
  /\ \E n \in 0..Len(sValue) : sValue' = SubSeq(sValue, 1, n)
  /\ sRev' = 0
  /\ sQueue' = <<>>
  /\ turn' = NoTurn

\* The manager reconnects and the replicant declares itself again; what was
\* emitted meanwhile is sent first.
Reconnect(c) ==
  /\ c \notin connected
  /\ connected' = connected \cup {c}
  /\ status' = [status EXCEPT ![c] = "declaring"]
  /\ toServer' = [toServer EXCEPT ![c] = Append(@, Join)]
  /\ UNCHANGED <<server, cValue, cRev, cQueue, pendingFlush, flushTimer, flushQueued,
                 toClient, ops, drops, rejected>>

HandlePacket(c) == HandleJoin(c) \/ HandleDeclare(c) \/ HandlePropose(c)

HandleMessage(c) ==
  HandleJoined(c) \/ HandleDeclared(c) \/ HandleOperations(c) \/ HandleAck(c)

Next ==
  \/ \E w \in Clients \cup {NoClient} : ServerSet(w)
  \/ ServerFlush
  \/ ServerRestart
  \/ \E c \in Clients :
       \/ PageSet(c)
       \/ FlushTimeout(c)
       \/ HandlePacket(c)
       \/ HandleMessage(c)
       \/ Disconnect(c)
       \/ Reconnect(c)

\* The event loops of the server and of the pages run, packets on a
\* connection that stays arrive, and a page keeps trying to reconnect.
Fairness ==
  /\ WF_vars(ServerFlush)
  /\ \A c \in Clients : /\ WF_vars(FlushTimeout(c))
                        /\ WF_vars(HandlePacket(c))
                        /\ WF_vars(HandleMessage(c))
                        /\ WF_vars(Reconnect(c))

Spec == Init /\ [][Next]_vars /\ Fairness

-----------------------------------------------------------------------------
\* A declared page never meets a gap: the next operations it is sent are
\* those of the revision after its own (else it would fetch the latest value).
NoRevisionGap ==
  \A c \in Clients : \A i \in DOMAIN toClient[c] :
    /\ status[c] = "declared" /\ toClient[c][i].type = "operations"
    /\ \A j \in 1..i-1 : toClient[c][j].type # "operations"
    => toClient[c][i].revision = cRev[c] + 1

\* What a declared page holds is what the server held at some time: the same
\* operations in the same order.
PageIsPrefix ==
  \A c \in Clients : status[c] = "declared" => IsPrefix(cValue[c], sValue)

\* A declared page with nothing left to receive holds the server's value, at
\* the server's revision ("all outs stay in sync", scheduler.ts:12).
DrainedIsInSync ==
  \A c \in Clients :
    status[c] = "declared" /\ toClient[c] = <<>> /\ sQueue = <<>>
      => cValue[c] = sValue /\ cRev[c] = sRev

\* Every page ends up declared and in sync once the changes and the drops end.
Converges ==
  <>[](\A c \in Clients : status[c] = "declared" /\ cValue[c] = sValue /\ cRev[c] = sRev)

\* "Mismatched revision number, assignment rejected" (replicator.ts:282): what
\* a page is told is rejected is not part of the value.
RejectedIsNotApplied == rejected \cap ToSet(sValue) = {}

\* "to be flushed at the end of the current tick" (client/api/replicant.ts:136):
\* what a page queues is proposed, or dropped with a lost connection.
QueuedIsFlushed == \A c \in Clients : cQueue[c] # <<>> ~> cQueue[c] = <<>>
=============================================================================
