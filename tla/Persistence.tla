---------------------------- MODULE Persistence ----------------------------
(***************************************************************************)
(* How one persistent replicant reaches the database: the throttle         *)
(* (server/util/throttle-name.ts), Replicator.saveReplicant and            *)
(* _saveReplicant (server/replicant/replicator.ts) and saveReplicant of    *)
(* the SQLite adapter (database-adapter-sqlite-legacy).                    *)
(*                                                                         *)
(* A value is the number of the change that made it.  Saves are            *)
(* asynchronous: changes, the throttle's timeout and a crash come between  *)
(* their steps.                                                            *)
(***************************************************************************)
EXTENDS Naturals

CONSTANT MaxChanges     \* bound on the changes

VARIABLES value,      \* the replicant's value
          db,         \* its row in the database
          throttle,   \* "open", "closed" (timer set) or "queued" (and a call waits)
          save,       \* _pendingSave: "none", "opening" (waits for the connection)
                      \* or "writing" (waits for manager.save)
          captured,   \* the value being written
          changed,    \* valueChangedDuringSave
          failed,     \* history: the save that ended last failed
          missed      \* history: since the last capture, a save was asked for while
                      \* another wrote an older value and had noted no change

vars == <<value, db, throttle, save, captured, changed, failed, missed>>

TypeOK ==
  /\ value \in 0..MaxChanges /\ db \in 0..MaxChanges /\ captured \in 0..MaxChanges
  /\ throttle \in {"open", "closed", "queued"}
  /\ save \in {"none", "opening", "writing"}
  /\ changed \in BOOLEAN /\ failed \in BOOLEAN /\ missed \in BOOLEAN

Init ==
  /\ value = 0 /\ db = 0 /\ captured = 0
  /\ throttle = "open"
  /\ save = "none"
  /\ changed = FALSE /\ failed = FALSE /\ missed = FALSE

\* _saveReplicant: a save that is running already is all the caller gets, also
\* when it writes an older value.
SaveReplicant ==
  /\ save' = IF save = "none" THEN "opening" ELSE save
  /\ missed' = (missed \/ (save = "writing" /\ captured # value' /\ ~changed'))

\* The listeners of a change: the replicator asks for a save through the
\* throttle, and a save that is writing notes the change or not.  It notes a value
\* that is another than the one it writes, if isNaN is not true of that: never
\* after an object or a list of objects, and of an empty list unless the change was
\* made in place.
Changed(noted) ==
  /\ changed' = (changed \/ (save = "writing" /\ noted))
  /\ IF throttle = "open"
       THEN throttle' = "closed" /\ SaveReplicant
       ELSE throttle' = "queued" /\ UNCHANGED <<save, missed>>
  /\ UNCHANGED <<db, captured, failed>>

Change ==
  /\ value < MaxChanges
  /\ value' = value + 1
  /\ \E noted \in BOOLEAN : Changed(noted)

\* A slip: the call that waits is forgotten.
ThrottleTimeoutDropsCall ==
  /\ throttle # "open"
  /\ throttle' = "open"
  /\ UNCHANGED <<value, db, save, captured, changed, failed, missed>>

\* The throttle's timeout: a call that waits is made, and opens no new interval.
ThrottleTimeout ==
  /\ throttle # "open"
  /\ throttle' = "open"
  /\ UNCHANGED <<value, db, captured, changed, failed>>
  /\ IF throttle = "queued" THEN SaveReplicant ELSE UNCHANGED <<save, missed>>

\* The connection is there: the value is serialised and handed over.
Capture ==
  /\ save = "opening"
  /\ save' = "writing"
  /\ captured' = value
  /\ changed' = FALSE
  /\ missed' = FALSE
  /\ UNCHANGED <<value, db, throttle, failed>>

\* A slip: what changed during the save is not saved again.
WrittenOnce ==
  /\ save = "writing"
  /\ db' = captured
  /\ save' = "none"
  /\ failed' = FALSE
  /\ UNCHANGED <<value, throttle, captured, changed, missed>>

\* manager.save resolves: a value that changed meanwhile is saved again.
Written ==
  /\ save = "writing"
  /\ db' = captured
  /\ save' = IF changed THEN "opening" ELSE "none"
  /\ failed' = FALSE
  /\ UNCHANGED <<value, throttle, captured, changed, missed>>

\* manager.save rejects: the error is logged, nothing is tried again.
WriteFails ==
  /\ save = "writing"
  /\ save' = "none"
  /\ failed' = TRUE
  /\ UNCHANGED <<value, db, throttle, captured, changed, missed>>

\* The process dies and comes up on what the database holds.
Crash ==
  /\ value' = db
  /\ throttle' = "open"
  /\ save' = "none"
  /\ changed' = FALSE
  /\ failed' = FALSE
  /\ missed' = FALSE
  /\ UNCHANGED <<db, captured>>

Next == Change \/ ThrottleTimeout \/ Capture \/ Written \/ WriteFails \/ Crash

\* Node fires the timeout; the database answers every call.
Fairness == WF_vars(ThrottleTimeout) /\ WF_vars(Capture) /\ WF_vars(Written \/ WriteFails)

Spec == Init /\ [][Next]_vars /\ Fairness

-----------------------------------------------------------------------------
\* When nothing is under way any more, the database holds the value, unless
\* the database refused it, as the adapter has it: "If we are here, then that means
\* the value changed again during the save operation, and so we have to do some
\* recursion to save it again" (database-adapter.ts:206).  It is not so: a change
\* that the running save does not note is left out of it.
QuietIsSaved ==
  save = "none" /\ throttle # "queued" /\ ~failed => db = value

\* There is no other way to it: when nothing is under way and the row is not the
\* value, then the database refused the value, or the replicator, asked for a save,
\* counted on one that was writing an older value and had noted no change
\* (replicator.ts:201, database-adapter.ts:192).
UnsavedWasMissed ==
  save = "none" /\ throttle # "queued" /\ db # value => failed \/ missed

\* The row never goes back to an older value: saves of one replicant do not
\* overlap.
NeverBackwards == [][db' >= db]_vars
=============================================================================
