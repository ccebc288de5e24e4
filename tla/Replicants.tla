----------------------------- MODULE Replicants -----------------------------
(***************************************************************************)
(* A persistent replicant from the pages to its row: ReplicantSync, whose  *)
(* value is saved as Persistence describes and whose server restarts on    *)
(* the row.  The row is the number of operations it has of the value; a    *)
(* restart cuts the value down to them, and operations only follow.        *)
(*                                                                         *)
(* What the extension sets is the value at once and is a change when it is *)
(* flushed (ServerReplicant._flushOperations); what a page proposes is     *)
(* both at once (Replicator.applyOperations).                              *)
(***************************************************************************)
EXTENDS ReplicantSync

VARIABLES db, throttle, save, captured, changed, failed, missed

Row == INSTANCE Persistence WITH value <- Len(sValue), MaxChanges <- MaxOps

row == <<db, throttle, save, captured, changed, failed, missed>>
allVars == <<vars, row>>

ReplicantsInit == Init /\ Row!Init

\* The packets and messages that change nothing on the server.
Elsewhere(c) ==
  PageSet(c) \/ FlushTimeout(c) \/ HandleJoin(c) \/ HandleDeclare(c) \/ HandleMessage(c)
  \/ Disconnect(c) \/ Reconnect(c)

\* A change may meet a save that is writing, and be noted or not.
RowChanged == \E noted \in BOOLEAN : Row!Changed(noted)

ReplicantsNext ==
  \/ \E w \in Clients \cup {NoClient} : ServerSet(w) /\ UNCHANGED row
  \/ ServerFlush /\ RowChanged
  \/ \E c \in Clients : HandlePropose(c) /\ RowChanged
  \/ ServerRestart /\ Row!Crash
  \/ \E c \in Clients : Elsewhere(c) /\ UNCHANGED row
  \/ UNCHANGED vars /\ (Row!ThrottleTimeout \/ Row!Capture \/ Row!Written \/ Row!WriteFails)

\* As in ReplicantSync and in Persistence.
ReplicantsFairness ==
  /\ WF_allVars(ServerFlush /\ RowChanged)
  /\ \A c \in Clients :
       /\ WF_allVars(FlushTimeout(c) /\ UNCHANGED row)
       /\ WF_allVars(\/ HandlePropose(c) /\ RowChanged
                     \/ (HandleJoin(c) \/ HandleDeclare(c)) /\ UNCHANGED row)
       /\ WF_allVars(HandleMessage(c) /\ UNCHANGED row)
       /\ WF_allVars(Reconnect(c) /\ UNCHANGED row)
  /\ WF_allVars(UNCHANGED vars /\ Row!ThrottleTimeout)
  /\ WF_allVars(UNCHANGED vars /\ Row!Capture)
  /\ WF_allVars(UNCHANGED vars /\ (Row!Written \/ Row!WriteFails))

ReplicantsSpec == ReplicantsInit /\ [][ReplicantsNext]_allVars /\ ReplicantsFairness

-----------------------------------------------------------------------------
\* Every declared page holds operations of the server's value in their order, and
\* all of it when nothing is on its way (client/api/replicant.ts:401), though the
\* server restarts on the row.
PagesAgree == PageIsPrefix /\ DrainedIsInSync

\* When the server has nothing to flush, no save is under way and the row is not
\* the value, then the database refused it, or the change came while an older value
\* was being written and was not noted (Persistence.UnsavedWasMissed).
QuietRowIsValue == sQueue = <<>> => Row!UnsavedWasMissed

\* Once the changes and the drops end, every page holds the value the server holds,
\* whoever changed it and whatever a crash took back, and so does the row, but for
\* a save that was refused (replicator.ts:194) or a change that a save missed
\* (database-adapter.ts:192).
EverywhereInTheEnd == Converges /\ <>[](failed \/ missed \/ db = Len(sValue))
=============================================================================
