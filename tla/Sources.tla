------------------------------- MODULE Sources -------------------------------
(***************************************************************************)
(* Workbook sources (extension/sources.ts, extension/excel.ts): sheets of  *)
(* workbooks and list variables that mirror each other.  A sheet has the   *)
(* name of its variable.  Every await of a read or a write is a point      *)
(* where anything else may run; a file is replaced by a rename, so its     *)
(* content is seen and changed whole.                                      *)
(***************************************************************************)
EXTENDS Naturals, Sequences, FiniteSets

CONSTANTS Books,     \* the sources: workbooks that can be connected
          Tracked,   \* those of mode "track"; the others are loaded copies
          Vars, Lists,
          None,      \* no list, no sheet, no snapshot
          Workbooks, \* what a file may be made to hold: a list, or None, per variable
          MaxEvents  \* bound on what people do and what befalls the server

ASSUME SourcesAssumption ==
  /\ Tracked \subseteq Books /\ IsFiniteSet(Vars)
  /\ None \notin Lists /\ Workbooks \subseteq [Vars -> Lists \cup {None}]
  /\ MaxEvents \in Nat

VARIABLES
  data,              \* titleData: the list variables
  snapshot,          \* snapshots: as last agreed with the file
  mapped, status,    \* sources: the variables of a source ({}: not connected), state
  watched,           \* watched: the file is polled
  news,              \* the poll has yet to see a change of the file, and whose it is
  ownTime,           \* ownWrites has the modification time the file has now
  timer,             \* writeTimers
  queue,             \* chains: the jobs that wait
  step, rows, book,  \* the job that runs: how far, its rows, the workbook it writes
  file, exists,      \* the files
  events,
  unseen             \* history: what the code cannot notice, see QuietAgrees

sourceVars == <<mapped, status, watched, ownTime, timer>>
jobVars == <<queue, step, rows, book>>
fileVars == <<file, exists, news>>
vars == <<data, snapshot, sourceVars, jobVars, fileVars, events, unseen>>

Content == [Vars -> Lists \cup {None}]
Empty == [v \in Vars |-> None]

\* A job looks its source up when it runs (sheets = {}) or was given it before.
Job == [kind : {"read", "write"}, sheets : SUBSET Vars]
Read(sheets) == [kind |-> "read", sheets |-> sheets]
Write == [kind |-> "write", sheets |-> {}]

TypeOK ==
  /\ data \in Content /\ snapshot \in Content
  /\ mapped \in [Books -> SUBSET Vars]
  /\ status \in [Books -> {"ok", "error"}]
  /\ watched \in [Books -> BOOLEAN] /\ ownTime \in [Books -> BOOLEAN]
  /\ news \in [Books -> {"none", "own", "foreign"}]
  /\ timer \in [Books -> BOOLEAN]
  /\ queue \in [Books -> Seq(Job)]
  /\ step \in [Books -> {"idle", "reading", "writing", "unchanged", "renamed"}]
  /\ rows \in [Books -> Content] /\ book \in [Books -> Content]
  /\ file \in [Books -> Content] /\ exists \in [Books -> BOOLEAN]
  /\ events \in 0..MaxEvents /\ unseen \subseteq Vars
  /\ \A b, c \in Books : b # c => mapped[b] \cap mapped[c] = {}
  /\ \A b \in Books : timer[b] \/ watched[b] => mapped[b] # {}

Connected == {b \in Books : mapped[b] # {}}
Sheets(content) == {v \in Vars : content[v] # None}

\* At rest: what is mapped agrees with its file.
Init ==
  /\ mapped \in [Books -> SUBSET Vars]
  /\ \A b, c \in Books : b # c => mapped[b] \cap mapped[c] = {}
  /\ data \in Content
  /\ \A b \in Books : mapped[b] \subseteq Sheets(data)
  /\ file \in [Books -> Workbooks \cup {Empty}]
  /\ \A b \in Books : /\ \A v \in mapped[b] : file[b][v] = data[v]
                      /\ b \notin Tracked => Sheets(file[b]) = mapped[b]
  /\ exists = [b \in Books |-> b \in Tracked \/ mapped[b] # {}]
  /\ snapshot = [v \in Vars |-> IF \E b \in Books : v \in mapped[b] THEN data[v] ELSE None]
  /\ status = [b \in Books |-> "ok"]
  /\ watched = [b \in Books |-> b \in Tracked /\ mapped[b] # {}]
  /\ news = [b \in Books |-> "none"] /\ ownTime = [b \in Books |-> FALSE]
  /\ timer = [b \in Books |-> FALSE]
  /\ queue = [b \in Books |-> <<>>] /\ step = [b \in Books |-> "idle"]
  /\ rows = [b \in Books |-> Empty] /\ book = [b \in Books |-> Empty]
  /\ events = 0 /\ unseen = {}

Event == events < MaxEvents /\ events' = events + 1

-----------------------------------------------------------------------------
(* Letting go, and the listener of titleData *)

\* release: of the sources in gone; the working copy of a loaded one is removed.
Release(gone, watching) ==
  /\ watched' = [b \in Books |-> watching[b] /\ b \notin gone]
  /\ ownTime' = [b \in Books |-> ownTime[b] /\ b \notin gone]
  /\ exists' = [b \in Books |-> exists[b] /\ b \notin gone \ Tracked]
  /\ news' = [b \in Books |-> IF b \in gone THEN "none" ELSE news[b]]

\* titleData.on("change"), with the lists d and the snapshots s: lists that are
\* gone let go of their sheets, a list that is not as it was is to be written.
Listen(d, s, watching) ==
  LET kept(b) == mapped[b] \cap Sheets(d)
      gone == {b \in Connected : kept(b) = {}}
      lost == UNION {mapped[b] \ kept(b) : b \in Books}
      differs(b) == \E v \in kept(b) : s[v] # d[v]
  IN /\ data' = d
     /\ mapped' = [b \in Books |-> kept(b)]
     /\ snapshot' = [v \in Vars |-> IF v \in lost THEN None ELSE s[v]]
     /\ timer' = [b \in Books |-> b \notin gone /\ (timer[b] \/ differs(b))]
     /\ Release(gone, watching)

\* The variables that go back to a snapshot which their file does not have, or
\* will not have once the write that is under way ends: the listener sees no
\* difference.
BackToSnapshot(d) ==
  {v \in Vars : /\ d[v] # data[v] /\ d[v] = snapshot[v]
                /\ \E b \in Books : /\ v \in mapped[b]
                                    /\ \/ file[b][v] # d[v]
                                       \/ step[b] # "idle" /\ rows[b][v] # d[v]}

\* A variable is set, deleted or made something else than a list, by the
\* dashboard or the API.
Edit(v, list) ==
  /\ Event
  /\ data[v] # list
  /\ LET d == [data EXCEPT ![v] = list] IN
       Listen(d, snapshot, watched) /\ unseen' = unseen \cup BackToSnapshot(d)
  /\ UNCHANGED <<status, file, jobVars>>

\* Some variable that no workbook mirrors is set.
EditOther ==
  /\ Event
  /\ Listen(data, snapshot, watched)
  /\ UNCHANGED <<status, file, jobVars, unseen>>

-----------------------------------------------------------------------------
(* The chain of a source *)

Enqueue(b, job) == queue' = [queue EXCEPT ![b] = Append(@, job)]

\* The next job of the chain begins, or is dropped when its source is gone.
Begin(b, kind) ==
  /\ step[b] = "idle" /\ queue[b] # <<>> /\ Head(queue[b]).kind = kind
  /\ queue' = [queue EXCEPT ![b] = Tail(@)]
  /\ UNCHANGED <<data, snapshot, mapped, ownTime, timer, file, exists, news, events>>

TakenSheets(b) == IF Head(queue[b]).sheets = {} THEN mapped[b] ELSE Head(queue[b]).sheets

\* read, up to the content of the file.
ReadBegins(b) ==
  /\ Begin(b, "read")
  /\ exists[b] /\ TakenSheets(b) # {}
  /\ step' = [step EXCEPT ![b] = "reading"]
  /\ rows' = [rows EXCEPT ![b] = [v \in Vars |-> IF v \in TakenSheets(b) THEN file[b][v] ELSE None]]
  /\ unseen' = unseen \ (TakenSheets(b) \cap mapped[b])
  /\ UNCHANGED <<status, watched, book>>

\* The file is gone or cannot be read.  adopt watches it all the same.
ReadFails(b) ==
  /\ Begin(b, "read")
  /\ status' = [status EXCEPT ![b] = IF TakenSheets(b) = {} THEN @ ELSE "error"]
  /\ watched' = [watched EXCEPT ![b] = b \in Tracked /\ mapped[b] # {}]
  /\ UNCHANGED <<step, rows, book, unseen>>

\* read, once the content is there; adopt goes on to watch the file.  A sheet
\* that the file no longer has leaves its list as it is.
ReadEnds(b) ==
  LET over(lists) == [v \in Vars |-> IF rows[b][v] # None THEN rows[b][v] ELSE lists[v]]
      lostTo == {v \in Sheets(rows[b]) : \E c \in Books \ {b} : v \in mapped[c]}
  IN /\ step[b] = "reading"
     /\ Listen(over(data), over(snapshot),
               [watched EXCEPT ![b] = b \in Tracked /\ mapped[b] # {}])
     /\ status' = [status EXCEPT ![b] = "ok"]
     /\ step' = [step EXCEPT ![b] = "idle"] /\ rows' = [rows EXCEPT ![b] = Empty]
     /\ unseen' = unseen \cup lostTo
     /\ UNCHANGED <<queue, book, file, events>>

\* write, up to the workbook with the rows in it; other sheets stay.
WriteBegins(b) ==
  /\ Begin(b, "write")
  /\ exists[b] /\ mapped[b] # {}
  /\ LET r == [v \in Vars |-> IF v \in mapped[b] THEN data[v] ELSE None]
         w == [v \in Vars |-> IF r[v] # None THEN r[v] ELSE file[b][v]]
     IN /\ rows' = [rows EXCEPT ![b] = r]
        /\ book' = [book EXCEPT ![b] = w]
        /\ step' = [step EXCEPT ![b] = IF w = file[b] THEN "unchanged" ELSE "writing"]
  /\ unseen' = unseen \ mapped[b]
  /\ UNCHANGED <<status, watched>>

\* A slip: a write that fails is tried again at once.
WriteFailsAgain(b) ==
  /\ step[b] = "idle" /\ queue[b] # <<>> /\ Head(queue[b]).kind = "write"
  /\ status' = [status EXCEPT ![b] = IF mapped[b] = {} THEN @ ELSE "error"]
  /\ queue' = [queue EXCEPT ![b] = IF mapped[b] = {} THEN Tail(@) ELSE @]
  /\ UNCHANGED <<data, snapshot, mapped, watched, ownTime, timer, step, rows, book, fileVars, events, unseen>>

\* The source is gone, or its file is, or is locked.
WriteFails(b) ==
  /\ Begin(b, "write")
  /\ status' = [status EXCEPT ![b] = IF mapped[b] = {} THEN @ ELSE "error"]
  /\ UNCHANGED <<watched, step, rows, book, unseen>>

JobEnds(b) ==
  /\ step' = [step EXCEPT ![b] = "idle"]
  /\ rows' = [rows EXCEPT ![b] = Empty] /\ book' = [book EXCEPT ![b] = Empty]

News(b, whose) ==
  news' = [news EXCEPT ![b] = IF ~watched[b] THEN @ ELSE IF @ = "foreign" THEN @ ELSE whose]

\* writeWorkbook moves the new workbook over the file.
Rename(b) ==
  /\ step[b] = "writing"
  /\ step' = [step EXCEPT ![b] = "renamed"]
  /\ file' = [file EXCEPT ![b] = book[b]] /\ exists' = [exists EXCEPT ![b] = TRUE]
  /\ ownTime' = [ownTime EXCEPT ![b] = FALSE]
  /\ News(b, "own")
  /\ UNCHANGED <<data, snapshot, mapped, status, watched, timer, queue, rows, book, events, unseen>>

\* The new workbook cannot be written or moved over the file.
RenameFails(b) ==
  /\ step[b] = "writing"
  /\ JobEnds(b)
  /\ status' = [status EXCEPT ![b] = "error"]
  /\ UNCHANGED <<data, snapshot, mapped, watched, ownTime, timer, queue, fileVars, events, unseen>>

\* A slip: the time of the file after the write is not noted.
WriteEndsUnnoted(b) ==
  /\ step[b] \in {"unchanged", "renamed"}
  /\ JobEnds(b)
  /\ snapshot' = [v \in Vars |-> IF rows[b][v] # None THEN rows[b][v] ELSE snapshot[v]]
  /\ status' = [status EXCEPT ![b] = "ok"]
  /\ UNCHANGED <<data, mapped, watched, ownTime, timer, queue, fileVars, events, unseen>>

\* write, after the file is there: the time it has now, the snapshots.
WriteEnds(b) ==
  /\ \/ step[b] = "unchanged" /\ UNCHANGED ownTime
     \/ /\ step[b] = "renamed" /\ exists[b]
        /\ ownTime' = [ownTime EXCEPT ![b] = mapped[b] # {}]
  /\ JobEnds(b)
  /\ snapshot' = [v \in Vars |-> IF rows[b][v] # None THEN rows[b][v] ELSE snapshot[v]]
  /\ status' = [status EXCEPT ![b] = "ok"]
  /\ UNCHANGED <<data, mapped, watched, timer, queue, fileVars, events, unseen>>

\* The file is gone again before its time is asked for.
WriteEndsGone(b) ==
  /\ step[b] = "renamed" /\ ~exists[b]
  /\ JobEnds(b)
  /\ status' = [status EXCEPT ![b] = "error"]
  /\ UNCHANGED <<data, snapshot, mapped, watched, ownTime, timer, queue, fileVars, events, unseen>>

\* scheduleWrite's timeout.
WriteTimer(b) ==
  /\ timer[b]
  /\ timer' = [timer EXCEPT ![b] = FALSE]
  /\ Enqueue(b, Write)
  /\ UNCHANGED <<data, snapshot, mapped, status, watched, ownTime, step, rows, book, fileVars, events, unseen>>

\* A slip: a change that is seen while a job runs is taken for that job's own.
PollWhileIdle(b) ==
  /\ watched[b] /\ news[b] # "none"
  /\ news' = [news EXCEPT ![b] = "none"]
  /\ status' = [status EXCEPT ![b] = IF exists[b] THEN @ ELSE "error"]
  /\ IF exists[b] /\ ~ownTime[b] /\ step[b] = "idle" THEN Enqueue(b, Read({})) ELSE UNCHANGED queue
  /\ UNCHANGED <<data, snapshot, mapped, watched, ownTime, timer, step, rows, book, file, exists, events, unseen>>

\* watchFile sees that the file has changed.
Poll(b) ==
  /\ watched[b] /\ news[b] # "none"
  /\ news' = [news EXCEPT ![b] = "none"]
  /\ status' = [status EXCEPT ![b] = IF exists[b] THEN @ ELSE "error"]
  /\ IF exists[b] /\ ~ownTime[b] THEN Enqueue(b, Read({})) ELSE UNCHANGED queue
  /\ UNCHANGED <<data, snapshot, mapped, watched, ownTime, timer, step, rows, book, file, exists, events, unseen>>

-----------------------------------------------------------------------------
(* People, other programs, restarts *)

\* Somebody else saves a tracked file.  Nothing can tell while the file is not
\* watched, nor between notGT's rename and its look at the time of the file.
FileSaved(b, content) ==
  /\ Event /\ b \in Tracked
  /\ file[b] # content \/ ~exists[b]
  /\ file' = [file EXCEPT ![b] = content] /\ exists' = [exists EXCEPT ![b] = TRUE]
  /\ ownTime' = [ownTime EXCEPT ![b] = FALSE]
  /\ News(b, "foreign")
  /\ unseen' = unseen \cup (IF watched[b] /\ step[b] # "renamed" THEN {} ELSE mapped[b])
  /\ UNCHANGED <<data, snapshot, mapped, status, watched, timer, jobVars>>

FileRemoved(b) ==
  /\ Event /\ b \in Tracked /\ exists[b]
  /\ exists' = [exists EXCEPT ![b] = FALSE]
  /\ ownTime' = [ownTime EXCEPT ![b] = FALSE]
  /\ News(b, "foreign")
  /\ UNCHANGED <<data, snapshot, mapped, status, watched, timer, jobVars, file, unseen>>

\* connect and adopt: the file as it is, or the one that is uploaded to become
\* the working copy; other workbooks let go of its variables.  A source that
\* was let go comes back once its jobs have ended.
Connect(b, content) ==
  LET sheets == Sheets(content)
      left == [c \in Books |-> IF c = b THEN sheets ELSE mapped[c] \ sheets]
  IN /\ Event
     /\ b \in Tracked => exists[b] /\ content = file[b]
     /\ sheets # {}
     /\ mapped[b] = {} => queue[b] = <<>> /\ step[b] = "idle"
     /\ mapped' = left
     /\ timer' = [c \in Books |-> timer[c] /\ left[c] # {}]
     /\ watched' = [c \in Books |-> watched[c] /\ left[c] # {}]
     /\ ownTime' = [c \in Books |-> ownTime[c] /\ left[c] # {}]
     /\ news' = [c \in Books |-> IF left[c] = {} THEN "none" ELSE news[c]]
     /\ status' = [status EXCEPT ![b] = "ok"]
     /\ file' = [file EXCEPT ![b] = content]
     /\ exists' = [c \in Books |-> \/ c = b
                                   \/ exists[c] /\ (c \in Tracked \/ left[c] # {})]
     /\ Enqueue(b, Read(sheets))
     /\ UNCHANGED <<data, snapshot, step, rows, book, unseen>>

Reload(b) ==
  /\ Event /\ b \in Connected
  /\ Enqueue(b, Read(mapped[b]))
  /\ UNCHANGED <<data, snapshot, sourceVars, step, rows, book, fileVars, unseen>>

Disconnect(b) ==
  /\ Event /\ b \in Connected
  /\ mapped' = [mapped EXCEPT ![b] = {}]
  /\ snapshot' = [v \in Vars |-> IF v \in mapped[b] THEN None ELSE snapshot[v]]
  /\ timer' = [timer EXCEPT ![b] = FALSE]
  /\ Release({b}, watched)
  /\ UNCHANGED <<data, status, file, jobVars, unseen>>

\* The server dies and starts again: start.
Restart ==
  /\ Event
  /\ timer' = [b \in Books |-> FALSE] /\ ownTime' = [b \in Books |-> FALSE]
  /\ news' = [b \in Books |-> "none"]
  /\ watched' = [b \in Books |-> b \in Connected \cap Tracked]
  /\ snapshot' = [v \in Vars |-> IF \E b \in Books \ Tracked : v \in mapped[b]
                                  THEN data[v] ELSE None]
  /\ step' = [b \in Books |-> "idle"]
  /\ rows' = [b \in Books |-> Empty] /\ book' = [b \in Books |-> Empty]
  /\ queue' = [b \in Books |-> IF b \notin Connected THEN <<>>
                               ELSE IF b \in Tracked THEN <<Read(mapped[b])>> ELSE <<Write>>]
  /\ UNCHANGED <<data, mapped, status, file, exists, unseen>>

Work(b) ==
  \/ ReadBegins(b) \/ ReadFails(b) \/ ReadEnds(b)
  \/ WriteBegins(b) \/ WriteFails(b)
  \/ Rename(b) \/ RenameFails(b) \/ WriteEnds(b) \/ WriteEndsGone(b)

Next ==
  \/ \E v \in Vars, list \in Lists \cup {None} : Edit(v, list)
  \/ EditOther
  \/ \E b \in Books :
       \/ Work(b) \/ WriteTimer(b) \/ Poll(b)
       \/ (\E content \in Workbooks : FileSaved(b, content) \/ (b \notin Tracked /\ Connect(b, content)))
       \/ b \in Tracked /\ Connect(b, file[b])
       \/ FileRemoved(b) \/ Reload(b) \/ Disconnect(b)
  \/ Restart

\* The timeout and the poll of Node come, and every await ends; people stop.
Fairness == \A b \in Books : WF_vars(Work(b)) /\ WF_vars(WriteTimer(b)) /\ WF_vars(Poll(b))

Spec == Init /\ [][Next]_vars /\ Fairness

-----------------------------------------------------------------------------

Quiet(b) ==
  /\ b \in Connected /\ exists[b] /\ status[b] = "ok"
  /\ ~timer[b] /\ news[b] = "none" /\ queue[b] = <<>> /\ step[b] = "idle"

\* sources.ts:90-95: a workbook and the variables mirror each other.  With
\* nothing under way and no problem shown, a list is what its sheet is, but for
\* the cases that unseen collects: the list went back to a stale snapshot, the
\* file changed while nobody could tell, or a read ended after its list had
\* gone to another workbook.
QuietAgrees ==
  \A b \in Books : Quiet(b) =>
    \A v \in (mapped[b] \cap Sheets(data)) \ unseen : file[b][v] \in {data[v], None}

\* The engine's state is well formed, and quiet workbooks mirror their lists.
SourcesInv == TypeOK /\ QuietAgrees

\* sources.ts:235: notGT's own write is not news.  A change of the file that is
\* its own alone is not read, unless the poll comes before the write has ended.
OwnWritesAreNotRead ==
  [][\A b \in Books : Poll(b) /\ news[b] = "own" /\ step[b] # "renamed"
                       => UNCHANGED queue]_vars

\* sources.ts:207: a list that was deleted, or turned into something else, lets
\* go of its sheet; a change of another variable lets go of none.
OnlyDeletedListsLetGo == [][EditOther => UNCHANGED mapped]_vars

\* Reads and writes do not set each other off for ever: once people leave the
\* workbooks alone, nothing is under way.
Settles ==
  <>[](\A b \in Books : ~timer[b] /\ news[b] = "none" /\ queue[b] = <<>> /\ step[b] = "idle")

=============================================================================
