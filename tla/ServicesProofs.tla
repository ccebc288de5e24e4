--------------------------- MODULE ServicesProofs ---------------------------
(***************************************************************************)
(* Proofs about services of the extension: Sources, for any workbooks,     *)
(* variables and lists, and Timers, for any timers and settings of the     *)
(* clock.                                                                  *)
(*                                                                         *)
(* Sources.  That quiet workbooks mirror their lists follows from what is  *)
(* due when they do not (Owed): a write, a read, a change that the poll    *)
(* will see, or the job that runs will make it so, unless it fails and     *)
(* says so.  For a queue to count as due its last job must be about the    *)
(* sheet (LastCovers), since a job that was queued before the sheet was    *)
(* mapped may be about others only.                                        *)
(*                                                                         *)
(* Timers.  TimersTypeOK is inductive, since a timer that is stopped is    *)
(* stopped with the time of its run folded into its elapsed time.  What a  *)
(* timer shows is then a matter of one step: every command sets the timer  *)
(* it is for and settles them all, and to be settled changes nothing that  *)
(* is shown.                                                               *)
(***************************************************************************)
EXTENDS Sources, Timers, SequenceTheorems, TLAPS

Covers(job, v) == job.kind = "write" \/ job.sheets = {} \/ v \in job.sheets

LastCovers ==
  \A b \in Books : queue[b] # <<>> =>
    \A v \in mapped[b] : Covers(queue[b][Len(queue[b])], v)

\* The workbook that is being written has the rows in it.
BookHasRows ==
  \A b \in Books : step[b] = "writing" => \A v \in Vars : rows[b][v] \in {book[b][v], None}

\* A change of the file by somebody else that the poll will see.
Foreign(b) == news[b] = "foreign" /\ ~ownTime[b]

Owed(b, v) ==
  \/ timer[b] \/ queue[b] # <<>>
  \/ step[b] = "idle" /\ (Foreign(b) \/ status[b] = "error" \/ ~exists[b]
                          \/ data[v] = None \/ file[b][v] \in {data[v], None})
  \/ step[b] = "reading" /\ (Foreign(b) \/ ~exists[b] \/ rows[b][v] = file[b][v])
  \/ step[b] = "writing" /\ data[v] \in {book[b][v], None}
  \/ step[b] = "unchanged" /\ (Foreign(b) \/ ~exists[b] \/ data[v] \in {file[b][v], None})
  \/ step[b] = "renamed" /\ (~exists[b] \/ data[v] \in {file[b][v], None})

AllOwed == \A b \in Books : \A v \in mapped[b] \ unseen : Owed(b, v)

\* What the poll has yet to see is of a file that it polls, and a change that is
\* notGT's own is known as such once its write has ended.
NewsKnown ==
  \A b \in Books : /\ news[b] # "none" => watched[b]
                   /\ watched[b] => b \in Tracked
                   /\ news[b] = "own" /\ step[b] # "renamed" /\ exists[b] => ownTime[b]

IInv == TypeOK /\ LastCovers /\ BookHasRows /\ AllOwed /\ NewsKnown

-----------------------------------------------------------------------------
(* Types *)

LEMMA TypeInit == Init => TypeOK
<1> SUFFICES ASSUME Init PROVE TypeOK
  OBVIOUS
<1>1. Empty \in Content
  BY DEF Empty, Content
<1>2. file \in [Books -> Content]
  BY <1>1, SourcesAssumption DEF Init, Content
<1>3. snapshot \in Content
  BY DEF Init, Content
<1>4. 0 \in 0..MaxEvents
  BY SourcesAssumption
<1>5. exists \in [Books -> BOOLEAN] /\ watched \in [Books -> BOOLEAN]
  BY DEF Init
<1>6. \A b \in Books : timer[b] \/ watched[b] => mapped[b] # {}
  BY DEF Init
<1>7. /\ queue \in [Books -> Seq(Job)] /\ step \in [Books -> {"idle", "reading", "writing", "unchanged", "renamed"}]
      /\ rows \in [Books -> Content] /\ book \in [Books -> Content]
  BY <1>1 DEF Init
<1>8. status \in [Books -> {"ok", "error"}] /\ ownTime \in [Books -> BOOLEAN] /\ timer \in [Books -> BOOLEAN]
      /\ news \in [Books -> {"none", "own", "foreign"}] /\ data \in Content /\ mapped \in [Books -> SUBSET Vars]
  BY DEF Init
<1>9. events \in 0..MaxEvents /\ unseen \subseteq Vars /\ \A b, c \in Books : b # c => mapped[b] \cap mapped[c] = {}
  BY <1>4 DEF Init
<1> QED  BY <1>2, <1>3, <1>5, <1>6, <1>7, <1>8, <1>9 DEF TypeOK

\* What the listener does to the sources: those that keep a sheet keep the rest.
LEMMA Listens ==
  ASSUME TypeOK, NEW d \in Content, NEW s \in Content, NEW watching \in [Books -> BOOLEAN],
         \A b \in Books : watching[b] => mapped[b] # {},
         Listen(d, s, watching)
  PROVE  /\ data' = d /\ snapshot' \in Content
         /\ mapped' \in [Books -> SUBSET Vars] /\ timer' \in [Books -> BOOLEAN]
         /\ watched' \in [Books -> BOOLEAN] /\ ownTime' \in [Books -> BOOLEAN]
         /\ exists' \in [Books -> BOOLEAN] /\ news' \in [Books -> {"none", "own", "foreign"}]
         /\ \A b, c \in Books : b # c => mapped'[b] \cap mapped'[c] = {}
         /\ \A b \in Books :
              /\ mapped'[b] = mapped[b] \cap Sheets(d)
              /\ mapped'[b] = {} => ~timer'[b] /\ ~watched'[b]
              /\ mapped[b] = {} \/ mapped'[b] # {}
                   => /\ watched'[b] = watching[b] /\ ownTime'[b] = ownTime[b]
                      /\ exists'[b] = exists[b] /\ news'[b] = news[b]
              /\ mapped[b] # {} /\ mapped'[b] = {} => news'[b] = "none" /\ ~ownTime'[b]
              /\ mapped'[b] # {} => timer'[b] = (timer[b] \/ \E v \in mapped'[b] : s[v] # d[v])
<1> DEFINE kept(b) == mapped[b] \cap Sheets(d)
           gone == {b \in Connected : kept(b) = {}}
           lost == UNION {mapped[b] \ kept(b) : b \in Books}
<1>1. /\ data' = d
      /\ mapped' = [b \in Books |-> kept(b)]
      /\ snapshot' = [v \in Vars |-> IF v \in lost THEN None ELSE s[v]]
      /\ timer' = [b \in Books |-> b \notin gone /\ (timer[b] \/ \E v \in kept(b) : s[v] # d[v])]
      /\ watched' = [b \in Books |-> watching[b] /\ b \notin gone]
      /\ ownTime' = [b \in Books |-> ownTime[b] /\ b \notin gone]
      /\ exists' = [b \in Books |-> exists[b] /\ b \notin gone \ Tracked]
      /\ news' = [b \in Books |-> IF b \in gone THEN "none" ELSE news[b]]
  BY DEF Listen, Release
<1>2. \A b \in Books : b \in gone <=> mapped[b] # {} /\ kept(b) = {}
  BY DEF Connected
<1> HIDE DEF gone, lost
<1>3. snapshot' \in Content
  BY <1>1 DEF Content
<1>4. /\ mapped' \in [Books -> SUBSET Vars] /\ timer' \in [Books -> BOOLEAN]
      /\ watched' \in [Books -> BOOLEAN] /\ ownTime' \in [Books -> BOOLEAN]
      /\ exists' \in [Books -> BOOLEAN] /\ news' \in [Books -> {"none", "own", "foreign"}]
  BY <1>1 DEF TypeOK
<1>5. \A b, c \in Books : b # c => mapped'[b] \cap mapped'[c] = {}
  BY <1>1 DEF TypeOK
<1>6. ASSUME NEW b \in Books
      PROVE  /\ mapped'[b] = mapped[b] \cap Sheets(d)
             /\ mapped'[b] = {} => ~timer'[b] /\ ~watched'[b]
             /\ mapped[b] = {} \/ mapped'[b] # {}
                  => /\ watched'[b] = watching[b] /\ ownTime'[b] = ownTime[b]
                     /\ exists'[b] = exists[b] /\ news'[b] = news[b]
             /\ mapped[b] # {} /\ mapped'[b] = {} => news'[b] = "none" /\ ~ownTime'[b]
             /\ mapped'[b] # {} => timer'[b] = (timer[b] \/ \E v \in mapped'[b] : s[v] # d[v])
  <2>1. mapped'[b] = kept(b) /\ (b \in gone <=> mapped[b] # {} /\ kept(b) = {})
    BY <1>1, <1>2
  <2>2. (timer[b] => mapped[b] # {}) /\ (watching[b] => mapped[b] # {})
    BY DEF TypeOK
  <2>3. timer'[b] = (b \notin gone /\ (timer[b] \/ \E v \in kept(b) : s[v] # d[v]))
    BY <1>1
  <2>4. /\ watched'[b] = (watching[b] /\ b \notin gone) /\ ownTime'[b] = (ownTime[b] /\ b \notin gone)
        /\ exists'[b] = (exists[b] /\ b \notin gone \ Tracked)
        /\ news'[b] = IF b \in gone THEN "none" ELSE news[b]
    BY <1>1
  <2>5. ownTime[b] \in BOOLEAN /\ exists[b] \in BOOLEAN /\ watching[b] \in BOOLEAN /\ timer[b] \in BOOLEAN
    BY DEF TypeOK
  <2> QED  BY <2>1, <2>2, <2>3, <2>4, <2>5
<1> QED  BY <1>1, <1>3, <1>4, <1>5, <1>6

LEMMA JobTyped == ASSUME NEW sheets \in SUBSET Vars PROVE Read(sheets) \in Job /\ Write \in Job
BY DEF Read, Write, Job

\* One variable of the lists set.
LEMMA EditTyped ==
  ASSUME TypeOK, NEW v \in Vars, NEW list \in Lists \cup {None} PROVE [data EXCEPT ![v] = list] \in Content
BY DEF TypeOK, Content

\* The lists that are read, over those there are.
LEMMA OverTyped ==
  ASSUME NEW r \in Content, NEW lists \in Content
  PROVE  [v \in Vars |-> IF r[v] # None THEN r[v] ELSE lists[v]] \in Content
BY DEF Content

\* The chain of a source b: only its own book, and its rows, are touched.
LEMMA WorkTyped ==
  ASSUME TypeOK, NEW b \in Books, Work(b), ~ReadEnds(b)
  PROVE  TypeOK'
<1> USE DEF TypeOK, sourceVars, jobVars, fileVars
<1>0. Empty \in Content
  BY DEF Empty, Content
<1>1. ASSUME NEW kind, Begin(b, kind)
      PROVE  /\ queue' \in [Books -> Seq(Job)]
             /\ UNCHANGED <<data, snapshot, mapped, ownTime, timer, file, exists, news, events>>
  BY <1>1 DEF Begin
<1>2. CASE ReadBegins(b)
  <2>1. [v \in Vars |-> IF v \in TakenSheets(b) THEN file[b][v] ELSE None] \in Content
    BY DEF Content
  <2> QED  BY <1>1, <1>2, <2>1 DEF ReadBegins
<1>3. CASE ReadFails(b)
  <2>1. watched' \in [Books -> BOOLEAN] /\ \A c \in Books : watched'[c] => watched[c] \/ mapped[c] # {}
    BY <1>3 DEF ReadFails
  <2>2. status' \in [Books -> {"ok", "error"}]
    BY <1>3 DEF ReadFails
  <2> QED  BY <1>1, <1>3, <2>1, <2>2 DEF ReadFails
<1>4. CASE WriteBegins(b)
  <2> DEFINE r == [v \in Vars |-> IF v \in mapped[b] THEN data[v] ELSE None]
             w == [v \in Vars |-> IF r[v] # None THEN r[v] ELSE file[b][v]]
  <2>1. r \in Content
    BY DEF Content
  <2>2. w \in Content
    BY <2>1 DEF Content
  <2>3. /\ rows' = [rows EXCEPT ![b] = r] /\ book' = [book EXCEPT ![b] = w]
        /\ step' = [step EXCEPT ![b] = IF w = file[b] THEN "unchanged" ELSE "writing"]
        /\ unseen' = unseen \ mapped[b] /\ UNCHANGED <<status, watched>>
    BY <1>4 DEF WriteBegins
  <2>4. step' \in [Books -> {"idle", "reading", "writing", "unchanged", "renamed"}]
    BY <2>3
  <2> HIDE DEF r, w
  <2>5. rows' \in [Books -> Content] /\ book' \in [Books -> Content] /\ unseen' \subseteq Vars
    BY <2>1, <2>2, <2>3
  <2>6. Begin(b, "write")
    BY <1>4 DEF WriteBegins
  <2>7. /\ queue' \in [Books -> Seq(Job)]
        /\ UNCHANGED <<data, snapshot, mapped, ownTime, timer, file, exists, news, events>>
    BY <1>1, <2>6
  <2> QED  BY <2>3, <2>4, <2>5, <2>7
<1>5. CASE WriteFails(b)
  <2>1. status' \in [Books -> {"ok", "error"}]
    BY <1>5 DEF WriteFails
  <2> QED  BY <1>1, <1>5, <2>1 DEF WriteFails
<1>6. CASE Rename(b)
  <2>1. news' \in [Books -> {"none", "own", "foreign"}]
    BY <1>6 DEF Rename, News
  <2>2. exists' \in [Books -> BOOLEAN] /\ ownTime' \in [Books -> BOOLEAN]
    BY <1>6 DEF Rename
  <2> QED  BY <1>6, <2>1, <2>2 DEF Rename
<1>7. CASE RenameFails(b) \/ WriteEndsGone(b)
  <2>1. /\ JobEnds(b) /\ status' = [status EXCEPT ![b] = "error"]
        /\ UNCHANGED <<data, snapshot, mapped, watched, ownTime, timer, queue, fileVars, events, unseen>>
    BY <1>7 DEF RenameFails, WriteEndsGone
  <2>2. step' \in [Books -> {"idle", "reading", "writing", "unchanged", "renamed"}]
        /\ status' \in [Books -> {"ok", "error"}]
    BY <2>1 DEF JobEnds
  <2>3. rows' \in [Books -> Content] /\ book' \in [Books -> Content]
    BY <1>0, <2>1 DEF JobEnds
  <2> QED  BY <2>1, <2>2, <2>3
<1>8. CASE WriteEnds(b)
  <2>1. snapshot' \in Content
    BY <1>8, OverTyped DEF WriteEnds
  <2>2. ownTime' \in [Books -> BOOLEAN]
    BY <1>8 DEF WriteEnds
  <2> QED  BY <1>0, <1>8, <2>1, <2>2 DEF WriteEnds, JobEnds
<1> QED  BY <1>2, <1>3, <1>4, <1>5, <1>6, <1>7, <1>8 DEF Work

LEMMA TypeStep == TypeOK /\ [Next]_vars => TypeOK'
<1> SUFFICES ASSUME TypeOK, [Next]_vars PROVE TypeOK'
  OBVIOUS
<1> USE DEF sourceVars, jobVars, fileVars
<1>0. Empty \in Content
  BY DEF Empty, Content
<1>e. ASSUME Event PROVE events' \in 0..MaxEvents
  BY <1>e, SourcesAssumption DEF Event, TypeOK
<1>w. watched \in [Books -> BOOLEAN] /\ \A b \in Books : watched[b] => mapped[b] # {}
  BY DEF TypeOK
<1>1. ASSUME NEW v \in Vars, NEW list \in Lists \cup {None}, Edit(v, list) PROVE TypeOK'
  <2> DEFINE d == [data EXCEPT ![v] = list]
  <2>1. d \in Content /\ snapshot \in Content
    BY EditTyped DEF TypeOK
  <2>2. Listen(d, snapshot, watched) /\ unseen' = unseen \cup BackToSnapshot(d) /\ Event
        /\ UNCHANGED <<status, file, jobVars>>
    BY <1>1 DEF Edit
  <2> HIDE DEF d
  <2>3. BackToSnapshot(d) \subseteq Vars
    BY DEF BackToSnapshot
  <2> QED  BY <1>e, <1>w, <2>1, <2>2, <2>3, Listens DEF TypeOK
<1>2. CASE EditOther
  <2>1. Listen(data, snapshot, watched) /\ Event /\ UNCHANGED <<status, file, jobVars, unseen>>
    BY <1>2 DEF EditOther
  <2>2. data \in Content /\ snapshot \in Content
    BY DEF TypeOK
  <2> QED  BY <1>e, <1>w, <2>1, <2>2, Listens DEF TypeOK
<1>3. ASSUME NEW b \in Books, Work(b) PROVE TypeOK'
  <2>1. CASE ReadEnds(b)
    <3> DEFINE d == [v \in Vars |-> IF rows[b][v] # None THEN rows[b][v] ELSE data[v]]
               s == [v \in Vars |-> IF rows[b][v] # None THEN rows[b][v] ELSE snapshot[v]]
               watching == [watched EXCEPT ![b] = b \in Tracked /\ mapped[b] # {}]
    <3>1. d \in Content /\ s \in Content
      BY OverTyped DEF TypeOK
    <3>2. watching \in [Books -> BOOLEAN] /\ \A c \in Books : watching[c] => mapped[c] # {}
      BY <1>w
    <3>3. /\ Listen(d, s, watching)
          /\ status' = [status EXCEPT ![b] = "ok"]
          /\ step' = [step EXCEPT ![b] = "idle"] /\ rows' = [rows EXCEPT ![b] = Empty]
          /\ unseen' = unseen \cup {v \in Sheets(rows[b]) : \E c \in Books \ {b} : v \in mapped[c]}
          /\ UNCHANGED <<queue, book, file, events>>
      BY <2>1 DEF ReadEnds
    <3>4. unseen' \subseteq Vars
      BY <3>3 DEF TypeOK, Sheets
    <3>5. /\ step' \in [Books -> {"idle", "reading", "writing", "unchanged", "renamed"}]
          /\ status' \in [Books -> {"ok", "error"}] /\ rows' \in [Books -> Content]
      BY <1>0, <3>3 DEF TypeOK
    <3> HIDE DEF d, s, watching
    <3>6. /\ data' = d /\ snapshot' \in Content
          /\ mapped' \in [Books -> SUBSET Vars] /\ timer' \in [Books -> BOOLEAN]
          /\ watched' \in [Books -> BOOLEAN] /\ ownTime' \in [Books -> BOOLEAN]
          /\ exists' \in [Books -> BOOLEAN] /\ news' \in [Books -> {"none", "own", "foreign"}]
          /\ \A c, e \in Books : c # e => mapped'[c] \cap mapped'[e] = {}
          /\ \A c \in Books : mapped'[c] = {} => ~timer'[c] /\ ~watched'[c]
      BY <3>1, <3>2, <3>3, Listens
    <3> QED  BY <3>1, <3>3, <3>4, <3>5, <3>6 DEF TypeOK
  <2>2. CASE ~ReadEnds(b)
    BY <1>3, <2>2, WorkTyped
  <2> QED  BY <2>1, <2>2
<1>4. ASSUME NEW b \in Books, WriteTimer(b) \/ Poll(b) PROVE TypeOK'
  <2>1. CASE WriteTimer(b)
    <3>1. queue' \in [Books -> Seq(Job)]
      <4>1. queue' = [queue EXCEPT ![b] = Append(@, Write)]
        BY <2>1 DEF WriteTimer, Enqueue
      <4>2. Write \in Job /\ Read({}) \in Job
        BY JobTyped
      <4>3. queue \in [Books -> Seq(Job)] /\ Append(queue[b], Write) \in Seq(Job)
        BY <4>2 DEF TypeOK
      <4> QED  BY <4>1, <4>3
    <3>2. timer' \in [Books -> BOOLEAN] /\ \A c \in Books : timer'[c] => timer[c]
      BY <2>1 DEF WriteTimer, TypeOK
    <3> QED  BY <2>1, <3>1, <3>2 DEF WriteTimer, TypeOK
  <2>2. CASE Poll(b)
    <3>1. Read({}) \in Job
      BY JobTyped
    <3>2. queue' \in [Books -> Seq(Job)]
      <4>1. queue' = [queue EXCEPT ![b] = Append(@, Read({}))] \/ queue' = queue
        BY <2>2 DEF Poll, Enqueue
      <4>2. queue \in [Books -> Seq(Job)] /\ Append(queue[b], Read({})) \in Seq(Job)
        BY <3>1 DEF TypeOK
      <4> QED  BY <4>1, <4>2
    <3>3. status' \in [Books -> {"ok", "error"}] /\ news' \in [Books -> {"none", "own", "foreign"}]
      BY <2>2 DEF Poll, TypeOK
    <3> QED  BY <2>2, <3>2, <3>3 DEF Poll, TypeOK
  <2> QED  BY <1>4, <2>1, <2>2
<1>5. ASSUME NEW b \in Books, NEW content \in Workbooks, FileSaved(b, content) PROVE TypeOK'
  <2>1. content \in Content
    BY SourcesAssumption DEF Content
  <2>2. news' \in [Books -> {"none", "own", "foreign"}] /\ exists' \in [Books -> BOOLEAN]
        /\ ownTime' \in [Books -> BOOLEAN] /\ file' \in [Books -> Content] /\ unseen' \subseteq Vars
    BY <1>5, <2>1 DEF FileSaved, News, TypeOK
  <2> QED  BY <1>5, <1>e, <2>2 DEF FileSaved, TypeOK
<1>6. ASSUME NEW b \in Books, FileRemoved(b) PROVE TypeOK'
  <2>1. news' \in [Books -> {"none", "own", "foreign"}] /\ exists' \in [Books -> BOOLEAN]
        /\ ownTime' \in [Books -> BOOLEAN]
    BY <1>6 DEF FileRemoved, News, TypeOK
  <2> QED  BY <1>6, <1>e, <2>1 DEF FileRemoved, TypeOK
<1>7. ASSUME NEW b \in Books, NEW content \in Content, Connect(b, content) PROVE TypeOK'
  <2> DEFINE left == [c \in Books |-> IF c = b THEN Sheets(content) ELSE mapped[c] \ Sheets(content)]
  <2>1. /\ mapped' = left
        /\ timer' = [c \in Books |-> timer[c] /\ left[c] # {}]
        /\ watched' = [c \in Books |-> watched[c] /\ left[c] # {}]
        /\ ownTime' = [c \in Books |-> ownTime[c] /\ left[c] # {}]
        /\ news' = [c \in Books |-> IF left[c] = {} THEN "none" ELSE news[c]]
        /\ status' = [status EXCEPT ![b] = "ok"]
        /\ file' = [file EXCEPT ![b] = content]
        /\ exists' = [c \in Books |-> \/ c = b
                                      \/ exists[c] /\ (c \in Tracked \/ left[c] # {})]
        /\ queue' = [queue EXCEPT ![b] = Append(@, Read(Sheets(content)))]
        /\ UNCHANGED <<data, snapshot, step, rows, book, unseen>> /\ Event
    BY <1>7 DEF Connect, Enqueue
  <2>2. Sheets(content) \in SUBSET Vars /\ Read(Sheets(content)) \in Job
    BY JobTyped DEF Sheets
  <2>3. left \in [Books -> SUBSET Vars] /\ \A c, e \in Books : c # e => left[c] \cap left[e] = {}
    BY <2>2 DEF TypeOK
  <2> HIDE DEF left
  <2>4. mapped' \in [Books -> SUBSET Vars] /\ \A c, e \in Books : c # e => mapped'[c] \cap mapped'[e] = {}
    BY <2>1, <2>3
  <2>5. timer' \in [Books -> BOOLEAN] /\ watched' \in [Books -> BOOLEAN] /\ ownTime' \in [Books -> BOOLEAN]
        /\ exists' \in [Books -> BOOLEAN] /\ \A c \in Books : timer'[c] \/ watched'[c] => mapped'[c] # {}
    BY <2>1 DEF TypeOK
  <2>6. news' \in [Books -> {"none", "own", "foreign"}] /\ status' \in [Books -> {"ok", "error"}]
    BY <2>1 DEF TypeOK
  <2>7. queue' \in [Books -> Seq(Job)] /\ file' \in [Books -> Content]
    BY <2>1, <2>2 DEF TypeOK
  <2> QED  BY <1>e, <2>1, <2>4, <2>5, <2>6, <2>7 DEF TypeOK
<1>8. ASSUME NEW b \in Books, Reload(b) PROVE TypeOK'
  <2>1. Read(mapped[b]) \in Job
    BY JobTyped DEF TypeOK
  <2> QED  BY <1>8, <1>e, <2>1 DEF Reload, Enqueue, TypeOK
<1>9. ASSUME NEW b \in Books, Disconnect(b) PROVE TypeOK'
  <2>1. snapshot' \in Content
    BY <1>9 DEF Disconnect, TypeOK, Content
  <2>2. /\ watched' \in [Books -> BOOLEAN] /\ ownTime' \in [Books -> BOOLEAN] /\ exists' \in [Books -> BOOLEAN]
        /\ news' \in [Books -> {"none", "own", "foreign"}] /\ timer' \in [Books -> BOOLEAN]
        /\ \A c \in Books : (timer'[c] => timer[c]) /\ (watched'[c] => watched[c]) /\ ~timer'[b] /\ ~watched'[b]
    BY <1>9 DEF Disconnect, Release, TypeOK
  <2>3. mapped' \in [Books -> SUBSET Vars] /\ \A c \in Books : mapped'[c] = IF c = b THEN {} ELSE mapped[c]
    BY <1>9 DEF Disconnect, TypeOK
  <2> QED  BY <1>9, <1>e, <2>1, <2>2, <2>3 DEF Disconnect, TypeOK
<1>10. CASE Restart
  <2>1. \A b \in Books : Read(mapped[b]) \in Job /\ Write \in Job
    BY JobTyped DEF TypeOK
  <2>2. queue' \in [Books -> Seq(Job)]
    BY <1>10, <2>1 DEF Restart
  <2>3. snapshot' \in Content
    BY <1>10 DEF Restart, TypeOK, Content
  <2>4. /\ timer' = [b \in Books |-> FALSE] /\ ownTime' = [b \in Books |-> FALSE]
        /\ watched' = [b \in Books |-> b \in Connected \cap Tracked]
        /\ news' = [b \in Books |-> "none"] /\ step' = [b \in Books |-> "idle"]
        /\ rows' = [b \in Books |-> Empty] /\ book' = [b \in Books |-> Empty]
        /\ UNCHANGED <<data, mapped, status, file, exists, unseen>> /\ Event
    BY <1>10 DEF Restart
  <2>5. timer' \in [Books -> BOOLEAN] /\ ownTime' \in [Books -> BOOLEAN]
    BY <2>4
  <2>6. watched' \in [Books -> BOOLEAN] /\ \A b \in Books : ~timer'[b] /\ (watched'[b] => mapped[b] # {})
    <3>1. watched' \in [Books -> BOOLEAN]
      <4>1. \A b \in Books : (b \in Connected \cap Tracked) \in BOOLEAN
        OBVIOUS
      <4>2. [b \in Books |-> b \in Connected \cap Tracked] \in [Books -> BOOLEAN]
        BY <4>1
      <4> QED  BY <2>4, <4>2
    <3>2. \A b \in Books : ~timer'[b] /\ watched'[b] = (b \in Connected \cap Tracked)
      BY <2>4, Zenon
    <3> QED  BY <3>1, <3>2 DEF Connected
  <2>7. /\ news' \in [Books -> {"none", "own", "foreign"}]
        /\ step' \in [Books -> {"idle", "reading", "writing", "unchanged", "renamed"}]
        /\ rows' \in [Books -> Content] /\ book' \in [Books -> Content]
    BY <1>0, <2>4
  <2> QED  BY <1>e, <2>2, <2>3, <2>4, <2>5, <2>6, <2>7 DEF TypeOK
<1>11. CASE UNCHANGED vars
  BY <1>11 DEF vars, TypeOK
<1>12. \A b \in Books : file[b] \in Content /\ Workbooks \subseteq Content
  BY SourcesAssumption DEF TypeOK, Content
<1> QED  BY <1>1, <1>2, <1>3, <1>4, <1>5, <1>6, <1>7, <1>8, <1>9, <1>10, <1>11, <1>12 DEF Next

-----------------------------------------------------------------------------
(* What the poll knows, and the jobs *)

LEMMA NewsKnownStep == TypeOK /\ NewsKnown /\ [Next]_vars => NewsKnown'
<1> SUFFICES ASSUME TypeOK, NewsKnown, [Next]_vars, NEW c \in Books
             PROVE  /\ news'[c] # "none" => watched'[c]
                    /\ watched'[c] => c \in Tracked
                    /\ news'[c] = "own" /\ step'[c] # "renamed" /\ exists'[c] => ownTime'[c]
  BY DEF NewsKnown
<1> DEFINE Goal == /\ news'[c] # "none" => watched'[c]
                   /\ watched'[c] => c \in Tracked
                   /\ news'[c] = "own" /\ step'[c] # "renamed" /\ exists'[c] => ownTime'[c]
<1> USE DEF sourceVars, jobVars, fileVars
<1>0. /\ news[c] # "none" => watched[c]
      /\ watched[c] => c \in Tracked /\ mapped[c] # {}
      /\ news[c] = "own" /\ step[c] # "renamed" /\ exists[c] => ownTime[c]
  BY DEF NewsKnown, TypeOK
<1>t. /\ watched \in [Books -> BOOLEAN] /\ ownTime \in [Books -> BOOLEAN] /\ exists \in [Books -> BOOLEAN]
      /\ step \in [Books -> {"idle", "reading", "writing", "unchanged", "renamed"}]
      /\ news \in [Books -> {"none", "own", "foreign"}]
      /\ \A b \in Books : watched[b] => mapped[b] # {}
  BY DEF TypeOK
<1>l. ASSUME NEW d \in Content, NEW s \in Content, NEW watching \in [Books -> BOOLEAN],
             \A b \in Books : watching[b] => mapped[b] # {},
             Listen(d, s, watching), watched[c] => watching[c], watching[c] => c \in Tracked,
             step'[c] = "renamed" <=> step[c] = "renamed"
      PROVE  Goal
  <2>1. /\ mapped'[c] = {} => ~timer'[c] /\ ~watched'[c]
        /\ mapped[c] = {} \/ mapped'[c] # {}
             => /\ watched'[c] = watching[c] /\ ownTime'[c] = ownTime[c]
                /\ exists'[c] = exists[c] /\ news'[c] = news[c]
        /\ mapped[c] # {} /\ mapped'[c] = {} => news'[c] = "none" /\ ~ownTime'[c]
    BY <1>l, Listens
  <2> QED  BY <1>0, <1>l, <2>1
<1>1. ASSUME NEW v \in Vars, NEW list \in Lists \cup {None}, Edit(v, list) PROVE Goal
  <2>1. [data EXCEPT ![v] = list] \in Content /\ snapshot \in Content
    BY EditTyped DEF TypeOK
  <2>2. Listen([data EXCEPT ![v] = list], snapshot, watched) /\ step' = step
    BY <1>1 DEF Edit
  <2> QED  BY <1>0, <1>t, <1>l, <2>1, <2>2
<1>2. ASSUME EditOther PROVE Goal
  <2>1. Listen(data, snapshot, watched) /\ step' = step /\ data \in Content /\ snapshot \in Content
    BY <1>2 DEF EditOther, TypeOK
  <2> QED  BY <1>0, <1>t, <1>l, <2>1
<1>3. ASSUME NEW b \in Books, ReadEnds(b) PROVE Goal
  <2> DEFINE d == [v \in Vars |-> IF rows[b][v] # None THEN rows[b][v] ELSE data[v]]
             s == [v \in Vars |-> IF rows[b][v] # None THEN rows[b][v] ELSE snapshot[v]]
             watching == [watched EXCEPT ![b] = b \in Tracked /\ mapped[b] # {}]
  <2>1. d \in Content /\ s \in Content
    BY OverTyped DEF TypeOK
  <2>2. watching \in [Books -> BOOLEAN] /\ \A e \in Books : watching[e] => mapped[e] # {}
    BY <1>t
  <2>3. (watched[c] => watching[c]) /\ (watching[c] => c \in Tracked)
    BY <1>0, <1>t
  <2>4. Listen(d, s, watching) /\ step[b] = "reading" /\ step' = [step EXCEPT ![b] = "idle"]
    BY <1>3 DEF ReadEnds
  <2>5. step'[c] = "renamed" <=> step[c] = "renamed"
    BY <1>t, <2>4
  <2> HIDE DEF d, s, watching
  <2> QED  BY <1>l, <2>1, <2>2, <2>3, <2>4, <2>5
<1>4. ASSUME NEW b \in Books, ReadBegins(b) \/ WriteBegins(b) \/ WriteFails(b) PROVE Goal
  <2>1. /\ step[b] = "idle" /\ UNCHANGED <<news, ownTime, exists, watched>>
        /\ \A e \in Books : step'[e] # "renamed" => step[e] # "renamed"
    BY <1>4, <1>t DEF ReadBegins, WriteBegins, WriteFails, Begin
  <2> QED  BY <1>0, <2>1
<1>5. ASSUME NEW b \in Books, ReadFails(b) PROVE Goal
  <2>1. /\ UNCHANGED <<news, ownTime, exists, step>>
        /\ watched' = [watched EXCEPT ![b] = b \in Tracked /\ mapped[b] # {}]
    BY <1>5 DEF ReadFails, Begin
  <2>2. watched'[c] = IF c = b THEN b \in Tracked /\ mapped[b] # {} ELSE watched[c]
    BY <1>t, <2>1
  <2> QED  BY <1>0, <2>1, <2>2
<1>6. ASSUME NEW b \in Books, Rename(b) PROVE Goal
  BY <1>0, <1>t, <1>6 DEF Rename, News
<1>7. ASSUME NEW b \in Books, RenameFails(b) \/ WriteEndsGone(b) PROVE Goal
  BY <1>0, <1>t, <1>7 DEF RenameFails, WriteEndsGone, JobEnds
<1>8. ASSUME NEW b \in Books, WriteEnds(b) PROVE Goal
  BY <1>0, <1>t, <1>8 DEF WriteEnds, JobEnds
<1>9. ASSUME NEW b \in Books, WriteTimer(b) \/ Reload(b) PROVE Goal
  BY <1>0, <1>9 DEF WriteTimer, Reload
<1>10. ASSUME NEW b \in Books, Poll(b) PROVE Goal
  BY <1>0, <1>t, <1>10 DEF Poll
<1>11. ASSUME NEW b \in Books, NEW content, FileSaved(b, content) \/ FileRemoved(b) PROVE Goal
  BY <1>0, <1>t, <1>11 DEF FileSaved, FileRemoved, News
<1>12. ASSUME NEW b \in Books, NEW content, Connect(b, content) PROVE Goal
  <2> DEFINE left == [e \in Books |-> IF e = b THEN Sheets(content) ELSE mapped[e] \ Sheets(content)]
  <2>1. /\ watched'[c] = (watched[c] /\ left[c] # {}) /\ ownTime'[c] = (ownTime[c] /\ left[c] # {})
        /\ news'[c] = IF left[c] = {} THEN "none" ELSE news[c]
        /\ exists'[c] = (c = b \/ (exists[c] /\ (c \in Tracked \/ left[c] # {})))
        /\ step' = step /\ (c = b /\ c \in Tracked => exists[c])
    BY <1>12 DEF Connect
  <2> HIDE DEF left
  <2> QED  BY <1>0, <1>t, <2>1
<1>13. ASSUME NEW b \in Books, Disconnect(b) PROVE Goal
  <2>1. /\ watched'[c] = (watched[c] /\ c # b) /\ ownTime'[c] = (ownTime[c] /\ c # b)
        /\ news'[c] = (IF c = b THEN "none" ELSE news[c])
        /\ exists'[c] = (exists[c] /\ ~(c = b /\ c \notin Tracked)) /\ step' = step
    BY <1>13 DEF Disconnect, Release
  <2> QED  BY <1>0, <1>t, <2>1
<1>14. ASSUME Restart PROVE Goal
  <2>1. news'[c] = "none" /\ watched'[c] = (c \in Connected \cap Tracked)
    BY <1>14, Zenon DEF Restart
  <2> QED  BY <2>1
<1>15. ASSUME UNCHANGED vars PROVE Goal
  BY <1>0, <1>15 DEF vars
<1> HIDE DEF Goal
<1>16. ASSUME NEW b \in Books, Work(b) PROVE Goal
  BY <1>3, <1>4, <1>5, <1>6, <1>7, <1>8, <1>16 DEF Work
<1>17. Goal
  BY <1>1, <1>2, <1>9, <1>10, <1>11, <1>12, <1>13, <1>14, <1>15, <1>16 DEF Next
<1> QED  BY <1>17 DEF Goal

LEMMA BookHasRowsStep == TypeOK /\ BookHasRows /\ [Next]_vars => BookHasRows'
<1> SUFFICES ASSUME TypeOK, BookHasRows, [Next]_vars, NEW c \in Books, step'[c] = "writing", NEW v \in Vars
             PROVE  rows'[c][v] \in {book'[c][v], None}
  BY DEF BookHasRows
<1> USE DEF sourceVars, jobVars, fileVars
<1>1. step[c] = "writing" => rows[c][v] \in {book[c][v], None}
  BY DEF BookHasRows
<1>2. CASE UNCHANGED <<step, rows, book>>
  BY <1>1, <1>2
<1>t. /\ step \in [Books -> {"idle", "reading", "writing", "unchanged", "renamed"}]
      /\ rows \in [Books -> Content] /\ book \in [Books -> Content]
  BY DEF TypeOK
<1>3. ASSUME NEW b \in Books, WriteBegins(b) PROVE rows'[c][v] \in {book'[c][v], None}
  <2> DEFINE r == [u \in Vars |-> IF u \in mapped[b] THEN data[u] ELSE None]
             w == [u \in Vars |-> IF r[u] # None THEN r[u] ELSE file[b][u]]
  <2>1. rows' = [rows EXCEPT ![b] = r] /\ book' = [book EXCEPT ![b] = w]
        /\ \A e \in Books \ {b} : step'[e] = step[e]
    BY <1>3, <1>t DEF WriteBegins
  <2>2. r[v] \in {w[v], None}
    OBVIOUS
  <2> HIDE DEF r, w
  <2> QED  BY <1>1, <1>t, <2>1, <2>2
<1>4. ASSUME NEW b \in Books, ReadBegins(b) \/ ReadEnds(b) \/ Rename(b) \/ JobEnds(b)
      PROVE  rows'[c][v] \in {book'[c][v], None}
  <2>1. c # b /\ step'[c] = step[c] /\ rows'[c] = rows[c] /\ book'[c] = book[c]
    BY <1>4, <1>t DEF ReadBegins, ReadEnds, Rename, JobEnds
  <2> QED  BY <1>1, <2>1
<1>5. CASE Restart
  BY <1>5 DEF Restart
<1>6. ASSUME NEW b \in Books, Work(b) PROVE rows'[c][v] \in {book'[c][v], None}
  BY <1>2, <1>3, <1>4, <1>6 DEF Work, ReadFails, WriteFails, RenameFails, WriteEnds, WriteEndsGone
<1>7. ASSUME NEW b \in Books, NEW content,
             WriteTimer(b) \/ Poll(b) \/ FileSaved(b, content) \/ Connect(b, content)
             \/ FileRemoved(b) \/ Reload(b) \/ Disconnect(b)
      PROVE  UNCHANGED <<step, rows, book>>
  BY <1>7 DEF WriteTimer, Poll, FileSaved, Connect, FileRemoved, Reload, Disconnect
<1>8. ASSUME NEW u, NEW list, Edit(u, list) \/ EditOther PROVE UNCHANGED <<step, rows, book>>
  BY <1>8 DEF Edit, EditOther
<1>9. CASE UNCHANGED vars
  BY <1>2, <1>9 DEF vars
<1> QED  BY <1>2, <1>5, <1>6, <1>7, <1>8, <1>9 DEF Next

\* The first job of a chain leaves the last one where it is.
LEMMA LastStays ==
  ASSUME NEW q \in Seq(Job), q # <<>>, Tail(q) # <<>>
  PROVE  Tail(q)[Len(Tail(q))] = q[Len(q)]
<1>1. Len(q) \in Nat /\ Len(q) # 0 /\ Len(Tail(q)) = Len(q) - 1 /\ Len(Tail(q)) # 0
  BY EmptySeq, HeadTailProperties
<1>2. Tail(q)[Len(q) - 1] = q[Len(q)]
  BY <1>1, HeadTailProperties
<1> QED  BY <1>1, <1>2

LEMMA LastCoversStep == TypeOK /\ LastCovers /\ [Next]_vars => LastCovers'
<1> SUFFICES ASSUME TypeOK, LastCovers, [Next]_vars, NEW c \in Books, queue'[c] # <<>>, NEW v \in mapped'[c]
             PROVE  Covers(queue'[c][Len(queue'[c])], v)
  BY DEF LastCovers, Covers
<1> DEFINE Goal == Covers(queue'[c][Len(queue'[c])], v)
<1> USE DEF sourceVars, jobVars, fileVars
<1>1. queue[c] # <<>> /\ v \in mapped[c] => Covers(queue[c][Len(queue[c])], v)
  BY DEF LastCovers
<1>2. ASSUME queue' = queue, v \in mapped[c] PROVE Goal
  BY <1>1, <1>2
<1>t. queue \in [Books -> Seq(Job)] /\ mapped \in [Books -> SUBSET Vars]
      /\ \A b \in Books : watched[b] => mapped[b] # {}
  BY DEF TypeOK
<1>l. ASSUME NEW d \in Content, NEW s \in Content, NEW watching \in [Books -> BOOLEAN],
             \A b \in Books : watching[b] => mapped[b] # {}, Listen(d, s, watching)
      PROVE  v \in mapped[c]
  BY <1>l, Listens
<1>q. ASSUME NEW b \in Books, NEW job \in Job, queue' = [queue EXCEPT ![b] = Append(@, job)],
             v \in mapped[c] \/ c = b, c = b => Covers(job, v)
      PROVE  Goal
  <2>1. CASE c = b
    <3>1. queue'[c] = Append(queue[c], job) /\ queue[c] \in Seq(Job)
      BY <1>t, <1>q, <2>1
    <3>2. queue'[c][Len(queue'[c])] = job
      BY <3>1, AppendProperties
    <3> QED  BY <1>q, <2>1, <3>2
  <2>2. CASE c # b
    BY <1>1, <1>t, <1>q, <2>2
  <2> QED  BY <2>1, <2>2
<1>b. ASSUME NEW b \in Books, NEW kind, Begin(b, kind) PROVE Goal
  <2>1. queue[b] # <<>> /\ queue' = [queue EXCEPT ![b] = Tail(@)] /\ mapped' = mapped
    BY <1>b DEF Begin
  <2>2. CASE c = b
    <3>1. queue'[c] = Tail(queue[c]) /\ queue[c] \in Seq(Job) /\ queue[c] # <<>>
      BY <1>t, <2>1, <2>2
    <3> QED  BY <1>1, <2>1, <3>1, LastStays
  <2>3. CASE c # b
    BY <1>1, <1>t, <2>1, <2>3
  <2> QED  BY <2>2, <2>3
<1>e. /\ Write \in Job /\ Read({}) \in Job /\ Covers(Write, v) /\ Covers(Read({}), v)
      /\ \A sheets \in SUBSET Vars : Read(sheets) \in Job /\ (v \in sheets => Covers(Read(sheets), v))
  BY JobTyped DEF Covers, Write, Read
<1>3. ASSUME NEW u \in Vars, NEW list \in Lists \cup {None}, Edit(u, list) PROVE Goal
  <2>1. [data EXCEPT ![u] = list] \in Content /\ snapshot \in Content /\ watched \in [Books -> BOOLEAN]
    BY EditTyped DEF TypeOK
  <2>2. Listen([data EXCEPT ![u] = list], snapshot, watched) /\ queue' = queue
    BY <1>3 DEF Edit
  <2> QED  BY <1>2, <1>t, <1>l, <2>1, <2>2
<1>4. ASSUME EditOther PROVE Goal
  <2>1. data \in Content /\ snapshot \in Content /\ watched \in [Books -> BOOLEAN]
    BY DEF TypeOK
  <2>2. Listen(data, snapshot, watched) /\ queue' = queue
    BY <1>4 DEF EditOther
  <2> QED  BY <1>2, <1>t, <1>l, <2>1, <2>2
<1>5. ASSUME NEW b \in Books, ReadEnds(b) PROVE Goal
  <2> DEFINE d == [u \in Vars |-> IF rows[b][u] # None THEN rows[b][u] ELSE data[u]]
             s == [u \in Vars |-> IF rows[b][u] # None THEN rows[b][u] ELSE snapshot[u]]
             watching == [watched EXCEPT ![b] = b \in Tracked /\ mapped[b] # {}]
  <2>1. d \in Content /\ s \in Content
    BY OverTyped DEF TypeOK
  <2>2. watching \in [Books -> BOOLEAN] /\ \A e \in Books : watching[e] => mapped[e] # {}
    BY DEF TypeOK
  <2>3. Listen(d, s, watching) /\ queue' = queue
    BY <1>5 DEF ReadEnds
  <2> HIDE DEF d, s, watching
  <2> QED  BY <1>2, <1>l, <2>1, <2>2, <2>3
<1>6. ASSUME NEW b \in Books, ReadBegins(b) \/ ReadFails(b) \/ WriteBegins(b) \/ WriteFails(b) PROVE Goal
  BY <1>b, <1>6 DEF ReadBegins, ReadFails, WriteBegins, WriteFails
<1>7. ASSUME NEW b \in Books, Rename(b) \/ RenameFails(b) \/ WriteEnds(b) \/ WriteEndsGone(b) PROVE Goal
  BY <1>2, <1>7 DEF Rename, RenameFails, WriteEnds, WriteEndsGone
<1>8. ASSUME NEW b \in Books, WriteTimer(b) PROVE Goal
  <2>1. queue' = [queue EXCEPT ![b] = Append(@, Write)] /\ mapped' = mapped
    BY <1>8 DEF WriteTimer, Enqueue
  <2> QED  BY <1>q, <1>e, <2>1
<1>9. ASSUME NEW b \in Books, Poll(b) PROVE Goal
  <2>1. (queue' = [queue EXCEPT ![b] = Append(@, Read({}))] \/ queue' = queue) /\ mapped' = mapped
    BY <1>9 DEF Poll, Enqueue
  <2> QED  BY <1>2, <1>q, <1>e, <2>1
<1>10. ASSUME NEW b \in Books, NEW content, FileSaved(b, content) \/ FileRemoved(b) PROVE Goal
  BY <1>2, <1>10 DEF FileSaved, FileRemoved
<1>11. ASSUME NEW b \in Books, NEW content, Connect(b, content) PROVE Goal
  <2>1. /\ queue' = [queue EXCEPT ![b] = Append(@, Read(Sheets(content)))]
        /\ v \in (IF c = b THEN Sheets(content) ELSE mapped[c] \ Sheets(content))
    BY <1>11 DEF Connect, Enqueue
  <2>2. Sheets(content) \in SUBSET Vars
    BY DEF Sheets
  <2> QED  BY <1>q, <1>e, <2>1, <2>2
<1>12. ASSUME NEW b \in Books, Reload(b) PROVE Goal
  <2>1. queue' = [queue EXCEPT ![b] = Append(@, Read(mapped[b]))] /\ mapped' = mapped
    BY <1>12 DEF Reload, Enqueue
  <2> QED  BY <1>q, <1>e, <1>t, <2>1
<1>13. ASSUME NEW b \in Books, Disconnect(b) PROVE Goal
  <2>1. queue' = queue /\ mapped' = [mapped EXCEPT ![b] = {}]
    BY <1>13 DEF Disconnect
  <2> QED  BY <1>2, <1>t, <2>1
<1>14. ASSUME Restart PROVE Goal
  <2>1. /\ v \in mapped[c] /\ mapped[c] \in SUBSET Vars
        /\ queue'[c] \in {<<>>, <<Read(mapped[c])>>, <<Write>>}
    BY <1>14, <1>t DEF Restart
  <2>2. CASE queue'[c] = <<Read(mapped[c])>>
    BY <1>e, <2>1, <2>2
  <2>3. CASE queue'[c] = <<Write>>
    BY <1>e, <2>3
  <2> QED  BY <2>1, <2>2, <2>3
<1>15. ASSUME UNCHANGED vars PROVE Goal
  BY <1>2, <1>15 DEF vars
<1> HIDE DEF Goal
<1>16. ASSUME NEW b \in Books, Work(b) PROVE Goal
  BY <1>5, <1>6, <1>7, <1>16 DEF Work
<1>17. Goal
  BY <1>3, <1>4, <1>8, <1>9, <1>10, <1>11, <1>12, <1>13, <1>14, <1>15, <1>16 DEF Next
<1> QED  BY <1>17 DEF Goal

-----------------------------------------------------------------------------
(* What is due *)

\* A step that leaves a source and the list alone leaves due what was due.
LEMMA DueKept ==
  ASSUME NEW c \in Books, NEW v \in Vars, Owed(c, v),
         timer[c] => timer'[c],
         queue'[c] = queue[c], step'[c] = step[c], rows'[c] = rows[c], book'[c] = book[c],
         file'[c] = file[c], exists'[c] = exists[c], news'[c] = news[c], ownTime'[c] = ownTime[c],
         status'[c] = status[c] \/ status'[c] = "error", data'[v] = data[v]
  PROVE  Owed(c, v)'
BY DEF Owed, Foreign

\* A list that is set.
LEMMA EditDue ==
  ASSUME TypeOK, BookHasRows, AllOwed, NEW u \in Vars, NEW list \in Lists \cup {None}, Edit(u, list),
         NEW c \in Books, NEW v \in mapped'[c] \ unseen'
  PROVE  Owed(c, v)'
<1> DEFINE d == [data EXCEPT ![u] = list]
<1>1. d \in Content /\ snapshot \in Content /\ watched \in [Books -> BOOLEAN]
      /\ \A b \in Books : watched[b] => mapped[b] # {}
  BY EditTyped DEF TypeOK
<1>2. Listen(d, snapshot, watched) /\ unseen' = unseen \cup BackToSnapshot(d)
      /\ UNCHANGED <<status, file, queue, step, rows, book>>
  BY DEF Edit, jobVars
<1>3. d[u] = list /\ \A w \in Vars \ {u} : d[w] = data[w]
  BY DEF TypeOK, Content
<1> HIDE DEF d
<1>4. /\ data' = d /\ mapped'[c] = mapped[c] \cap Sheets(d) /\ mapped'[c] # {}
      /\ ownTime'[c] = ownTime[c] /\ exists'[c] = exists[c] /\ news'[c] = news[c]
      /\ timer'[c] = (timer[c] \/ \E w \in mapped'[c] : snapshot[w] # d[w])
  BY <1>1, <1>2, Listens
<1>5. v \in Vars /\ v \in mapped[c] /\ d[v] # None /\ v \notin unseen /\ v \notin BackToSnapshot(d)
  BY <1>2, <1>4 DEF Sheets
<1>6. Owed(c, v)
  BY <1>5 DEF AllOwed
<1>7. CASE d[v] = data[v]
  BY <1>2, <1>4, <1>5, <1>6, <1>7, DueKept
<1>8. CASE snapshot[v] # d[v]
  BY <1>4, <1>8 DEF Owed
<1>9. CASE d[v] # data[v] /\ snapshot[v] = d[v]
  <2>1. file[c][v] = d[v] /\ (step[c] = "idle" \/ rows[c][v] = d[v])
    BY <1>5, <1>9 DEF BackToSnapshot
  <2>2. step[c] = "writing" => book[c][v] = d[v]
    BY <1>5, <2>1 DEF BookHasRows
  <2>3. step[c] \in {"idle", "reading", "writing", "unchanged", "renamed"}
    BY DEF TypeOK
  <2> QED  BY <1>2, <1>4, <2>1, <2>2, <2>3 DEF Owed
<1> QED  BY <1>7, <1>8, <1>9

\* A read that ends.
LEMMA ReadEndsDue ==
  ASSUME TypeOK, AllOwed, NEW b \in Books, ReadEnds(b),
         NEW c \in Books, NEW v \in mapped'[c] \ unseen'
  PROVE  Owed(c, v)'
<1> DEFINE d == [w \in Vars |-> IF rows[b][w] # None THEN rows[b][w] ELSE data[w]]
           s == [w \in Vars |-> IF rows[b][w] # None THEN rows[b][w] ELSE snapshot[w]]
           watching == [watched EXCEPT ![b] = b \in Tracked /\ mapped[b] # {}]
<1>1. d \in Content /\ s \in Content
  BY OverTyped DEF TypeOK
<1>2. watching \in [Books -> BOOLEAN] /\ \A e \in Books : watching[e] => mapped[e] # {}
  BY DEF TypeOK
<1>3. /\ Listen(d, s, watching) /\ step[b] = "reading"
      /\ status' = [status EXCEPT ![b] = "ok"]
      /\ step' = [step EXCEPT ![b] = "idle"] /\ rows' = [rows EXCEPT ![b] = Empty]
      /\ unseen' = unseen \cup {w \in Sheets(rows[b]) : \E e \in Books \ {b} : w \in mapped[e]}
      /\ UNCHANGED <<queue, book, file>>
  BY DEF ReadEnds
<1>4. \A w \in Vars : d[w] = IF rows[b][w] # None THEN rows[b][w] ELSE data[w]
  OBVIOUS
<1> HIDE DEF d, s, watching
<1>5. /\ data' = d /\ mapped'[c] = mapped[c] \cap Sheets(d) /\ mapped'[c] # {}
      /\ ownTime'[c] = ownTime[c] /\ exists'[c] = exists[c] /\ news'[c] = news[c]
      /\ (timer[c] => timer'[c])
  BY <1>1, <1>2, <1>3, Listens
<1>6. v \in Vars /\ v \in mapped[c] /\ d[v] # None /\ v \notin unseen
  BY <1>3, <1>5 DEF Sheets
<1>7. Owed(c, v)
  BY <1>6 DEF AllOwed
<1>8. CASE c = b
  <2>1. step'[c] = "idle" /\ queue'[c] = queue[c] /\ file'[c] = file[c] /\ step[c] = "reading"
    BY <1>3, <1>8 DEF TypeOK
  <2>2. rows[c][v] = file[c][v] => file[c][v] \in {d[v], None}
    BY <1>4, <1>6, <1>8
  <2> QED  BY <1>5, <1>7, <2>1, <2>2 DEF Owed, Foreign
<1>9. CASE c # b
  <2>1. d[v] = data[v]
    BY <1>3, <1>4, <1>6, <1>9 DEF Sheets
  <2>2. step'[c] = step[c] /\ rows'[c] = rows[c] /\ status'[c] = status[c]
    BY <1>3, <1>9 DEF TypeOK
  <2> QED  BY <1>3, <1>5, <1>6, <1>7, <1>9, <2>1, <2>2, DueKept
<1> QED  BY <1>8, <1>9

\* The job of b, for the other sources: nothing of theirs changes.
LEMMA OthersDue ==
  ASSUME TypeOK, AllOwed, NEW b \in Books, Work(b), ~ReadEnds(b),
         NEW c \in Books, c # b, NEW v \in mapped'[c] \ unseen'
  PROVE  Owed(c, v)'
<1> USE DEF sourceVars, jobVars, fileVars
<1>1. /\ UNCHANGED <<data, mapped, timer>>
      /\ queue'[c] = queue[c] /\ step'[c] = step[c] /\ rows'[c] = rows[c] /\ book'[c] = book[c]
      /\ file'[c] = file[c] /\ exists'[c] = exists[c] /\ news'[c] = news[c] /\ ownTime'[c] = ownTime[c]
      /\ status'[c] = status[c]
  <2>1. ASSUME NEW kind, Begin(b, kind)
        PROVE  /\ UNCHANGED <<data, mapped, timer, file, exists, news, ownTime>>
               /\ queue'[c] = queue[c]
    BY <2>1 DEF Begin, TypeOK
  <2>2. CASE ReadBegins(b) \/ ReadFails(b) \/ WriteBegins(b) \/ WriteFails(b)
    BY <2>1, <2>2 DEF ReadBegins, ReadFails, WriteBegins, WriteFails, TypeOK
  <2>3. CASE Rename(b)
    BY <2>3 DEF Rename, News, TypeOK
  <2>4. CASE RenameFails(b) \/ WriteEnds(b) \/ WriteEndsGone(b)
    BY <2>4 DEF RenameFails, WriteEnds, WriteEndsGone, JobEnds, TypeOK
  <2> QED  BY <2>2, <2>3, <2>4 DEF Work
<1>2. v \in mapped[c] /\ v \in Vars /\ v \notin mapped[b]
  BY <1>1 DEF TypeOK
<1>3. unseen' = unseen \/ unseen' = unseen \ (TakenSheets(b) \cap mapped[b]) \/ unseen' = unseen \ mapped[b]
  BY DEF Work, ReadBegins, ReadFails, WriteBegins, WriteFails, Rename, RenameFails, WriteEnds, WriteEndsGone
<1>4. v \notin unseen
  BY <1>2, <1>3
<1> QED  BY <1>1, <1>2, <1>4, DueKept DEF AllOwed

\* The job that begins when the chain ends with it is about every list of the source.
LEMMA LastTakes ==
  ASSUME TypeOK, LastCovers, NEW b \in Books, Begin(b, "read"), queue'[b] = <<>>, NEW v \in mapped[b]
  PROVE  v \in TakenSheets(b)
<1>1. queue[b] \in Seq(Job) /\ queue[b] # <<>> /\ Head(queue[b]).kind = "read" /\ Tail(queue[b]) = <<>>
  BY DEF Begin, TypeOK
<1>2. Len(queue[b]) \in Nat /\ Len(queue[b]) - 1 = 0
  <2>1. Len(queue[b]) \in Nat /\ Len(Tail(queue[b])) = Len(queue[b]) - 1
    BY <1>1, LenProperties, HeadTailProperties
  <2>2. Len(Tail(queue[b])) = 0
    BY <1>1, EmptySeq
  <2> QED  BY <2>1, <2>2
<1>3. queue[b][Len(queue[b])] = Head(queue[b])
  BY <1>1, <1>2
<1>4. Covers(Head(queue[b]), v)
  BY <1>1, <1>3 DEF LastCovers
<1> QED  BY <1>1, <1>4 DEF Covers, TakenSheets

\* The job of b, for b.
LEMMA WorkDue ==
  ASSUME TypeOK, LastCovers, AllOwed, NEW b \in Books, Work(b), ~ReadEnds(b),
         NEW v \in mapped'[b] \ unseen'
  PROVE  Owed(b, v)'
<1> USE DEF sourceVars, jobVars, fileVars
<1>0. step[b] \in {"idle", "reading", "writing", "unchanged", "renamed"} /\ v \in Vars /\ v \in mapped[b]
  <2>1. mapped' = mapped
    BY DEF Work, ReadBegins, ReadFails, WriteBegins, WriteFails, Begin, Rename, RenameFails, WriteEnds, WriteEndsGone
  <2> QED  BY <2>1 DEF TypeOK
<1>1. ASSUME unseen' = unseen PROVE Owed(b, v)
  BY <1>0, <1>1 DEF AllOwed
<1>2. CASE ReadBegins(b)
  <2>1. CASE queue'[b] # <<>>
    BY <2>1 DEF Owed
  <2>2. CASE queue'[b] = <<>>
    <3>1. v \in TakenSheets(b)
      BY <1>0, <1>2, <2>2, LastTakes DEF ReadBegins
    <3>2. step'[b] = "reading" /\ rows'[b][v] = file[b][v] /\ file' = file
      BY <1>0, <1>2, <3>1 DEF ReadBegins, Begin, TypeOK
    <3> QED  BY <3>2 DEF Owed
  <2> QED  BY <2>1, <2>2
<1>3. CASE ReadFails(b)
  <2>1. CASE queue'[b] # <<>>
    BY <2>1 DEF Owed
  <2>2. CASE queue'[b] = <<>>
    <3>1. v \in TakenSheets(b)
      BY <1>0, <1>3, <2>2, LastTakes DEF ReadFails
    <3>2. step'[b] = "idle" /\ status'[b] = "error"
      BY <1>3, <3>1 DEF ReadFails, Begin, TypeOK
    <3> QED  BY <3>2 DEF Owed
  <2> QED  BY <2>1, <2>2
<1>4. CASE WriteBegins(b)
  <2> DEFINE r == [u \in Vars |-> IF u \in mapped[b] THEN data[u] ELSE None]
             w == [u \in Vars |-> IF r[u] # None THEN r[u] ELSE file[b][u]]
  <2>1. /\ book'[b] = w /\ step'[b] = (IF w = file[b] THEN "unchanged" ELSE "writing")
        /\ data' = data /\ file' = file
    BY <1>4 DEF WriteBegins, Begin, TypeOK
  <2>2. data[v] \in {w[v], None}
    BY <1>0
  <2> HIDE DEF w
  <2> QED  BY <2>1, <2>2 DEF Owed
<1>5. CASE WriteFails(b)
  <2>1. step'[b] = "idle" /\ status'[b] = "error"
    BY <1>0, <1>5 DEF WriteFails, Begin, TypeOK
  <2> QED  BY <2>1 DEF Owed
<1>6. CASE Rename(b)
  <2>1. /\ step[b] = "writing" /\ step'[b] = "renamed" /\ file'[b] = book[b]
        /\ UNCHANGED <<data, timer, queue, unseen>>
    BY <1>6 DEF Rename, TypeOK
  <2> QED  BY <1>1, <2>1 DEF Owed
<1>7. CASE RenameFails(b) \/ WriteEndsGone(b)
  <2>1. step'[b] = "idle" /\ status'[b] = "error"
    BY <1>7 DEF RenameFails, WriteEndsGone, JobEnds, TypeOK
  <2> QED  BY <2>1 DEF Owed
<1>8. CASE WriteEnds(b)
  <2>1. /\ step'[b] = "idle" /\ UNCHANGED <<data, timer, queue, file, exists, news, unseen>>
        /\ \/ step[b] = "unchanged" /\ ownTime' = ownTime
           \/ step[b] = "renamed" /\ exists[b]
    BY <1>8 DEF WriteEnds, JobEnds, TypeOK
  <2>2. CASE step[b] = "unchanged" /\ ownTime' = ownTime
    BY <1>1, <2>1, <2>2 DEF Owed, Foreign
  <2>3. CASE step[b] = "renamed" /\ exists[b]
    BY <1>1, <2>1, <2>3 DEF Owed
  <2> QED  BY <2>1, <2>2, <2>3
<1> QED  BY <1>2, <1>3, <1>4, <1>5, <1>6, <1>7, <1>8 DEF Work

LEMMA AllDueStep == TypeOK /\ LastCovers /\ BookHasRows /\ AllOwed /\ [Next]_vars => AllOwed'
<1> SUFFICES ASSUME TypeOK, LastCovers, BookHasRows, AllOwed, [Next]_vars,
                    NEW c \in Books, NEW v \in mapped'[c] \ unseen'
             PROVE  Owed(c, v)'
  BY DEF AllOwed
<1> DEFINE Goal == Owed(c, v)'
<1> USE DEF sourceVars, jobVars, fileVars
<1>0. /\ step[c] \in {"idle", "reading", "writing", "unchanged", "renamed"}
      /\ mapped[c] \in SUBSET Vars /\ exists[c] \in BOOLEAN /\ timer[c] \in BOOLEAN
  BY DEF TypeOK
<1>1. ASSUME NEW u \in Vars, NEW list \in Lists \cup {None}, Edit(u, list) PROVE Goal
  BY <1>1, EditDue
<1>2. ASSUME EditOther PROVE Goal
  <2>1. /\ Listen(data, snapshot, watched) /\ data \in Content /\ snapshot \in Content
        /\ watched \in [Books -> BOOLEAN] /\ \A b \in Books : watched[b] => mapped[b] # {}
        /\ UNCHANGED <<status, file, jobVars, unseen>>
    BY <1>2 DEF EditOther, TypeOK
  <2>2. /\ data' = data /\ v \in mapped[c] /\ (timer[c] => timer'[c])
        /\ ownTime'[c] = ownTime[c] /\ exists'[c] = exists[c] /\ news'[c] = news[c]
    BY <2>1, Listens
  <2> QED  BY <1>0, <2>1, <2>2, DueKept DEF AllOwed
<1>3. ASSUME NEW b \in Books, Work(b) PROVE Goal
  <2>1. CASE ReadEnds(b)
    BY <2>1, ReadEndsDue
  <2>2. CASE ~ReadEnds(b) /\ c # b
    BY <1>3, <2>2, OthersDue
  <2>3. CASE ~ReadEnds(b) /\ c = b
    BY <1>3, <2>3, WorkDue
  <2> QED  BY <2>1, <2>2, <2>3
<1>4. ASSUME NEW b \in Books, NEW job \in Job, queue' = [queue EXCEPT ![b] = Append(@, job)], c = b PROVE Goal
  <2>1. queue[b] \in Seq(Job) /\ queue'[c] = Append(queue[b], job)
    BY <1>4 DEF TypeOK
  <2>2. queue'[c] # <<>>
    BY <2>1, AppendProperties
  <2> QED  BY <2>2 DEF Owed
<1>5. ASSUME NEW b \in Books, WriteTimer(b) PROVE Goal
  <2>1. /\ queue' = [queue EXCEPT ![b] = Append(@, Write)] /\ timer' = [timer EXCEPT ![b] = FALSE]
        /\ UNCHANGED <<data, mapped, status, ownTime, step, rows, book, fileVars, unseen>>
    BY <1>5 DEF WriteTimer, Enqueue
  <2>2. Write \in Job /\ Read({}) \in Job
    BY JobTyped
  <2>3. c # b => queue'[c] = queue[c] /\ timer'[c] = timer[c]
    BY <2>1 DEF TypeOK
  <2> QED  BY <1>0, <1>4, <2>1, <2>2, <2>3, DueKept DEF AllOwed
<1>6. ASSUME NEW b \in Books, Poll(b) PROVE Goal
  <2>1. /\ (IF exists[b] /\ ~ownTime[b] THEN queue' = [queue EXCEPT ![b] = Append(@, Read({}))] ELSE queue' = queue)
        /\ UNCHANGED <<data, mapped, timer, ownTime, step, rows, book, file, exists, unseen>>
    BY <1>6 DEF Poll, Enqueue
  <2>2. Write \in Job /\ Read({}) \in Job
    BY JobTyped
  <2>3. v \in mapped[c] /\ Owed(c, v)
    BY <2>1 DEF AllOwed
  <2>4. CASE c # b
    <3>1. queue'[c] = queue[c] /\ news'[c] = news[c] /\ status'[c] = status[c]
      BY <1>6, <2>1, <2>4 DEF Poll, TypeOK
    <3> QED  BY <1>0, <2>1, <2>3, <3>1, DueKept
  <2>5. CASE c = b /\ exists[b] /\ ~ownTime[b]
    BY <1>4, <2>1, <2>2, <2>5
  <2>6. CASE c = b /\ (~exists[b] \/ ownTime[b])
    <3>1. status'[c] = status[c] \/ status'[c] = "error"
      BY <1>6, <2>6 DEF Poll, TypeOK
    <3> QED  BY <2>1, <2>3, <2>6, <3>1 DEF Owed, Foreign
  <2> QED  BY <2>4, <2>5, <2>6
<1>7. ASSUME NEW b \in Books, NEW content, FileSaved(b, content) PROVE Goal
  <2>1. /\ UNCHANGED <<data, mapped, status, watched, timer, queue, step, rows, book>>
        /\ unseen' = unseen \cup (IF watched[b] /\ step[b] # "renamed" THEN {} ELSE mapped[b])
    BY <1>7 DEF FileSaved
  <2>2. v \in mapped[c] /\ Owed(c, v)
    BY <2>1 DEF AllOwed
  <2>3. CASE c # b
    <3>1. file'[c] = file[c] /\ exists'[c] = exists[c] /\ news'[c] = news[c] /\ ownTime'[c] = ownTime[c]
      BY <1>7, <2>3 DEF FileSaved, News, TypeOK
    <3> QED  BY <1>0, <2>1, <2>2, <3>1, DueKept
  <2>4. CASE c = b
    <3>1. watched[b] /\ step[b] # "renamed"
      BY <2>1, <2>2, <2>4
    <3>2. news'[b] = "foreign" /\ ~ownTime'[b]
      BY <1>7, <3>1 DEF FileSaved, News, TypeOK
    <3> QED  BY <1>0, <2>1, <2>2, <2>4, <3>1, <3>2 DEF Owed, Foreign
  <2> QED  BY <2>3, <2>4
<1>8. ASSUME NEW b \in Books, FileRemoved(b) PROVE Goal
  <2>1. UNCHANGED <<data, mapped, status, watched, timer, queue, step, rows, book, file, unseen>>
    BY <1>8 DEF FileRemoved
  <2>2. v \in mapped[c] /\ Owed(c, v)
    BY <2>1 DEF AllOwed
  <2>3. CASE c # b
    <3>1. exists'[c] = exists[c] /\ news'[c] = news[c] /\ ownTime'[c] = ownTime[c]
      BY <1>8, <2>3 DEF FileRemoved, News, TypeOK
    <3> QED  BY <1>0, <2>1, <2>2, <3>1, DueKept
  <2>4. CASE c = b
    <3>1. ~exists'[b]
      BY <1>8 DEF FileRemoved, TypeOK
    <3> QED  BY <1>0, <2>1, <2>2, <2>4, <3>1 DEF Owed
  <2> QED  BY <2>3, <2>4
<1>9. ASSUME NEW b \in Books, NEW content, Connect(b, content) PROVE Goal
  <2> DEFINE left == [e \in Books |-> IF e = b THEN Sheets(content) ELSE mapped[e] \ Sheets(content)]
  <2>1. /\ queue' = [queue EXCEPT ![b] = Append(@, Read(Sheets(content)))] /\ mapped' = left
        /\ timer'[c] = (timer[c] /\ left[c] # {}) /\ ownTime'[c] = (ownTime[c] /\ left[c] # {})
        /\ news'[c] = (IF left[c] = {} THEN "none" ELSE news[c])
        /\ exists'[c] = (c = b \/ (exists[c] /\ (c \in Tracked \/ left[c] # {})))
        /\ status' = [status EXCEPT ![b] = "ok"] /\ file' = [file EXCEPT ![b] = content]
        /\ UNCHANGED <<data, step, rows, book, unseen>>
    BY <1>9 DEF Connect, Enqueue
  <2>2. Read(Sheets(content)) \in Job
    BY JobTyped DEF Sheets
  <2>3. CASE c # b
    <3>1. left[c] # {} /\ v \in mapped[c] /\ ownTime[c] \in BOOLEAN
      BY <2>1, <2>3 DEF TypeOK
    <3> HIDE DEF left
    <3>2. queue'[c] = queue[c] /\ file'[c] = file[c] /\ status'[c] = status[c]
      BY <2>1, <2>3 DEF TypeOK
    <3> QED  BY <1>0, <2>1, <2>3, <3>1, <3>2, DueKept DEF AllOwed
  <2> QED  BY <1>4, <2>1, <2>2, <2>3
<1>10. ASSUME NEW b \in Books, Reload(b) PROVE Goal
  <2>1. /\ queue' = [queue EXCEPT ![b] = Append(@, Read(mapped[b]))]
        /\ UNCHANGED <<data, sourceVars, step, rows, book, fileVars, unseen>>
    BY <1>10 DEF Reload, Enqueue
  <2>2. Read(mapped[b]) \in Job /\ (c # b => queue'[c] = queue[c])
    BY <2>1, JobTyped DEF TypeOK
  <2> QED  BY <1>0, <1>4, <2>1, <2>2, DueKept DEF AllOwed
<1>11. ASSUME NEW b \in Books, Disconnect(b) PROVE Goal
  <2>1. /\ mapped' = [mapped EXCEPT ![b] = {}] /\ timer' = [timer EXCEPT ![b] = FALSE]
        /\ ownTime'[c] = (ownTime[c] /\ c # b) /\ news'[c] = (IF c = b THEN "none" ELSE news[c])
        /\ exists'[c] = (exists[c] /\ ~(c = b /\ c \notin Tracked))
        /\ UNCHANGED <<data, status, file, jobVars, unseen>>
    BY <1>11 DEF Disconnect, Release
  <2>2. c # b /\ v \in mapped[c] /\ timer'[c] = timer[c] /\ ownTime[c] \in BOOLEAN
    BY <2>1 DEF TypeOK
  <2> QED  BY <1>0, <2>1, <2>2, DueKept DEF AllOwed
<1>12. ASSUME Restart PROVE Goal
  <2>1. v \in mapped[c] /\ queue'[c] \in {<<Read(mapped[c])>>, <<Write>>}
    BY <1>12 DEF Restart, Connected
  <2>2. \A job : <<job>> # <<>>
    OBVIOUS
  <2>3. queue'[c] # <<>>
    BY <2>1, <2>2, Zenon
  <2> QED  BY <2>3 DEF Owed
<1>13. ASSUME UNCHANGED vars PROVE Goal
  BY <1>0, <1>13, DueKept DEF vars, AllOwed
<1> HIDE DEF Goal
<1>14. Goal
  BY <1>1, <1>2, <1>3, <1>5, <1>6, <1>7, <1>8, <1>9, <1>10, <1>11, <1>12, <1>13 DEF Next
<1> QED  BY <1>14 DEF Goal

-----------------------------------------------------------------------------
(* The theorems *)

LEMMA Inductive == IInv /\ [Next]_vars => IInv'
BY TypeStep, LastCoversStep, BookHasRowsStep, AllDueStep, NewsKnownStep DEF IInv

LEMMA Initially == Init => IInv
<1> SUFFICES ASSUME Init PROVE IInv
  OBVIOUS
<1>1. TypeOK
  BY TypeInit
<1>2. LastCovers /\ BookHasRows
  BY DEF Init, LastCovers, BookHasRows
<1>3. AllOwed
  BY DEF Init, AllOwed, Owed
<1>4. NewsKnown
  BY DEF Init, NewsKnown
<1> QED  BY <1>1, <1>2, <1>3, <1>4 DEF IInv

LEMMA Invariance == Spec => []IInv
BY Initially, Inductive, PTL DEF Spec

LEMMA DueIsQuiet == IInv => SourcesInv
<1> SUFFICES ASSUME IInv, NEW b \in Books, Quiet(b), NEW v \in (mapped[b] \cap Sheets(data)) \ unseen
             PROVE  file[b][v] \in {data[v], None}
  BY DEF SourcesInv, QuietAgrees, IInv
<1>1. Owed(b, v) /\ data[v] # None
  BY DEF IInv, AllOwed, Sheets
<1> QED  BY <1>1 DEF Owed, Foreign, Quiet

\* sources.ts:90-95, for any workbooks: whatever the order in which edits, reads,
\* writes, polls and restarts come, a workbook with nothing under way and no
\* problem shown mirrors its lists (but for the cases of unseen).
THEOREM QuietWorkbooksMirror == Spec => []SourcesInv
BY Invariance, DueIsQuiet, PTL

\* The step of OwnWritesAreNotRead.
NotRead ==
  \A b \in Books : Poll(b) /\ news[b] = "own" /\ step[b] # "renamed" => UNCHANGED queue

LEMMA OwnIsNotRead == IInv => NotRead
BY DEF IInv, NewsKnown, NotRead, Poll

\* sources.ts:235, for any workbooks: the poll does not take notGT's own write
\* for news once the write has ended.
THEOREM OwnWritesKnown == Spec => OwnWritesAreNotRead
<1>1. OwnWritesAreNotRead <=> [][NotRead]_vars
  BY DEF OwnWritesAreNotRead, NotRead
<1> HIDE DEF NotRead
<1> QED  BY <1>1, Invariance, OwnIsNotRead, PTL

-----------------------------------------------------------------------------
(* The timers *)

\* A timer, stopped or not, as the replicant may hold it.
Kept(t) == t \in Timer /\ (~t.running => t.run = 0)

AllKept(ts) == ts \in [Ids -> Timer \cup {Unset}] /\ \A i \in Ids : ts[i] # Unset => Kept(ts[i])

-----------------------------------------------------------------------------
(* shared/timer.ts *)

LEMMA CountedInt ==
  ASSUME NEW t, t \in Timer
  PROVE  Counted(t) \in Int /\ TimerElapsed(t) \in Int /\ TimerValue(t) \in Int
<1>1. t.durationMs \in Int /\ t.run \in Int /\ t.elapsedMs \in Int
  BY TimersAssumption DEF Timer
<1> QED  BY <1>1 DEF Counted, TimerElapsed, TimerValue, Smaller, Larger

\* A command that starts or stops a timer leaves a timer.
LEMMA SetTimer ==
  ASSUME NEW t \in Timer, NEW running \in BOOLEAN, NEW c \in Int
  PROVE  [t EXCEPT !.running = running, !.run = 0, !.elapsedMs = c] \in Timer
<1> DEFINE g == [t EXCEPT !.running = running]
           h == [g EXCEPT !.run = 0]
<1>1. g \in Timer
  BY DEF Timer
<1>2. h \in Timer
  <2> HIDE DEF g
  <2> QED  BY <1>1 DEF Timer
<1>3. [h EXCEPT !.elapsedMs = c] \in Timer
  BY <1>2 DEF Timer
<1>4. [t EXCEPT !.running = running, !.run = 0, !.elapsedMs = c] = [h EXCEPT !.elapsedMs = c]
  BY DEF Timer
<1> QED  BY <1>3, <1>4

LEMMA ElapsedForValueInt ==
  ASSUME NEW t, t \in Timer, NEW v \in Int
  PROVE  ElapsedForValue(t, v) \in Int
<1>1. t.durationMs \in Int /\ TimerMax \in Int
  BY TimersAssumption DEF Timer
<1> QED  BY <1>1 DEF ElapsedForValue, Larger

\* A timer that is stopped where it is shows what it showed.
LEMMA FoldedShows ==
  ASSUME NEW t, t \in Timer
  PROVE  Kept(Folded(t)) /\ ~Folded(t).running /\ TimerValue(Folded(t)) = TimerValue(t)
<1>1. Counted(t) \in Int /\ t.durationMs \in Int /\ t.elapsedMs \in Int /\ t.run \in Int
  BY CountedInt, TimersAssumption DEF Timer
<1>2. Folded(t) \in Timer
  BY <1>1, SetTimer DEF Folded
<1>3. /\ Folded(t).mode = t.mode /\ Folded(t).durationMs = t.durationMs /\ Folded(t).overtime = t.overtime
      /\ Folded(t).run = 0 /\ ~Folded(t).running /\ Folded(t).elapsedMs = Counted(t)
  BY DEF Folded, Timer
<1>4. TimerElapsed(Folded(t)) = Counted(t) /\ (HasEnd(Folded(t)) <=> HasEnd(t))
  BY <1>1, <1>3 DEF TimerElapsed, HasEnd
<1>5. Counted(Folded(t)) = Counted(t)
  BY <1>1, <1>3, <1>4, CountedInt DEF Counted, Smaller
<1> QED  BY <1>2, <1>3, <1>5 DEF Kept, TimerValue

LEMMA RebasedKept ==
  ASSUME NEW t, Kept(t)
  PROVE  Kept(Rebased(t))
<1>1. CASE t.running
  <2>1. Folded(t) \in Timer
    BY FoldedShows DEF Kept
  <2>2. Rebased(t) = [Folded(t) EXCEPT !.running = TRUE]
    BY <1>1 DEF Rebased
  <2>3. Rebased(t) \in Timer /\ Rebased(t).running
    BY <2>1, <2>2 DEF Timer
  <2> QED  BY <2>3 DEF Kept
<1>2. CASE ~t.running
  BY <1>2 DEF Rebased
<1> QED  BY <1>1, <1>2

-----------------------------------------------------------------------------
(* scheduleSettle *)

\* It stops the timers that are due and leaves every other as it is.
LEMMA SettledShows ==
  ASSUME NEW ts, AllKept(ts)
  PROVE  /\ AllKept(Settled(ts))
         /\ \A i \in Ids : ts[i] = Unset => Settled(ts)[i] = Unset
         /\ \A i \in Ids : ts[i] # Unset =>
              /\ Settled(ts)[i] # Unset
              /\ TimerValue(Settled(ts)[i]) = TimerValue(ts[i])
              /\ Settled(ts)[i].running <=> (ts[i].running /\ ~Over(ts[i]))
<1> DEFINE next == Settled(ts)
<1>1. \A i \in Ids : next[i] = IF Due(ts[i]) THEN Folded(ts[i]) ELSE ts[i]
  BY DEF Settled
<1>2. ASSUME NEW i \in Ids, Due(ts[i])
      PROVE  /\ ts[i] # Unset /\ ts[i].running /\ Over(ts[i])
             /\ Kept(next[i]) /\ ~next[i].running /\ TimerValue(next[i]) = TimerValue(ts[i])
  <2>1. ts[i] # Unset /\ ts[i].running /\ Over(ts[i]) /\ ts[i] \in Timer
    BY <1>2 DEF Due, AllKept, Kept
  <2> QED  BY <1>1, <1>2, <2>1, FoldedShows
<1>3. ASSUME NEW i \in Ids, ~Due(ts[i])
      PROVE  next[i] = ts[i]
  BY <1>1, <1>3
<1>4. \A i \in Ids : next[i] \in Timer \cup {Unset} /\ (next[i] # Unset => Kept(next[i]))
  BY <1>2, <1>3 DEF AllKept, Kept
<1>5. AllKept(next)
  <2>1. next = [i \in Ids |-> next[i]]
    BY DEF Settled
  <2> QED  BY <1>4, <2>1 DEF AllKept
<1>6. ASSUME NEW i \in Ids, ts[i] = Unset
      PROVE  next[i] = Unset
  BY <1>3, <1>6 DEF Due
<1>7. ASSUME NEW i \in Ids, ts[i] # Unset
      PROVE  /\ next[i] # Unset
             /\ TimerValue(next[i]) = TimerValue(ts[i])
             /\ next[i].running <=> (ts[i].running /\ ~Over(ts[i]))
  <2>1. CASE Due(ts[i])
    BY <1>2, <2>1, TimersAssumption DEF Kept
  <2>2. CASE ~Due(ts[i])
    BY <1>3, <1>7, <2>2 DEF Due
  <2> QED  BY <2>1, <2>2
<1> QED  BY <1>5, <1>6, <1>7

\* What is left of a timer that is not due is left.
LEMMA Armed ==
  ASSUME NEW ts, AllKept(ts), ScheduleSettle(ts)
  PROVE  settle' \in 0..Look \cup {Unset}
<1>1. CASE Waiting(Settled(ts)) = {} /\ settle' = Unset
  BY <1>1
<1>2. ASSUME NEW left \in Waiting(Settled(ts)), settle' = Smaller(Look, left + Margin)
      PROVE  settle' \in 0..Look
  <2>1. PICK i \in Ids : /\ Settled(ts)[i] # Unset /\ Settled(ts)[i].running /\ HasEnd(Settled(ts)[i])
                         /\ left = Settled(ts)[i].durationMs - TimerElapsed(Settled(ts)[i])
    BY <1>2 DEF Waiting
  <2>2. Settled(ts)[i] = ts[i]
    <3>1. Settled(ts)[i] = IF Due(ts[i]) THEN Folded(ts[i]) ELSE ts[i]
      BY DEF Settled
    <3>2. Due(ts[i]) => ts[i] \in Timer
      BY DEF Due, AllKept, Kept
    <3>3. ~Due(ts[i])
      BY <2>1, <3>1, <3>2, FoldedShows
    <3> QED  BY <3>1, <3>3
  <2>3. ~Over(ts[i]) /\ ts[i] \in Timer
    <3>1. ts[i] # Unset
      BY <2>1, <2>2
    <3>2. ts[i] \in Timer
      BY <3>1 DEF AllKept, Kept
    <3>3. Settled(ts)[i].running <=> (ts[i].running /\ ~Over(ts[i]))
      BY <3>1, SettledShows
    <3> QED  BY <2>1, <3>2, <3>3
  <2>4. ts[i].durationMs \in Int /\ TimerElapsed(ts[i]) \in Int
    BY <2>3, CountedInt, TimersAssumption DEF Timer
  <2>5. left \in Nat
    BY <2>1, <2>2, <2>3, <2>4 DEF Over
  <2> QED  BY <1>2, <2>5, TimersAssumption DEF Smaller
<1> QED  BY <1>1, <1>2 DEF ScheduleSettle, Arm

-----------------------------------------------------------------------------
(* The steps *)

\* What a command makes of one timer, given the others are kept.
LEMMA CommandKept ==
  ASSUME AllKept(timers), NEW i \in Ids, NEW next, next = Unset \/ Kept(next)
  PROVE  AllKept([timers EXCEPT ![i] = next])
BY DEF AllKept, Kept

\* Every command is for one timer and settles them all.
LEMMA Driven ==
  ASSUME TimersTypeOK, NEW j \in Ids, Drive(j)
  PROVE  \E next : /\ next = Unset \/ Kept(next)
                   /\ ScheduleSettle([timers EXCEPT ![j] = next])
                   /\ UNCHANGED up /\ up /\ acts' \in 0..MaxActs
<1> DEFINE t == timers[j]
<1>1. timers[j] # Unset => Kept(timers[j]) /\ timers[j] \in Timer
  BY DEF TimersTypeOK, Kept
<1>2. Act => acts' \in 0..MaxActs
  BY TimersAssumption DEF TimersTypeOK, Act
<1>3. ASSUME NEW s \in Settings, Create(j, s)
      PROVE  Kept(New(s)) /\ ScheduleSettle([timers EXCEPT ![j] = New(s)]) /\ UNCHANGED up /\ up /\ Act
  BY <1>3, TimersAssumption DEF Create, Kept, New, Timer
<1>4. ASSUME NEW next, Becomes(j, next)
      PROVE  /\ timers[j] # Unset /\ ScheduleSettle([timers EXCEPT ![j] = next])
             /\ UNCHANGED up /\ up /\ Act
  BY <1>4 DEF Becomes
<1>5. ASSUME NEW s \in Settings, Update(j, s)
      PROVE  \E next : Kept(next) /\ Becomes(j, next)
  <2> DEFINE b == Rebased(timers[j])
             u == [b EXCEPT !.mode = s.mode, !.durationMs = s.durationMs, !.overtime = s.overtime]
             n == IF u.running /\ Over(u) THEN Folded(u) ELSE u
  <2>1. Kept(b)
    BY <1>1, <1>4, <1>5, RebasedKept DEF Update
  <2>2. Kept(u)
    <3>1. b \in Timer /\ (~b.running => b.run = 0)
      BY <2>1 DEF Kept
    <3>2. s.mode \in {"down", "up"} /\ s.durationMs \in 0..TimerMax /\ s.overtime \in BOOLEAN
      BY TimersAssumption
    <3>3. u \in Timer /\ u.running = b.running /\ u.run = b.run
      <4> HIDE DEF b
      <4> QED  BY <3>1, <3>2 DEF Timer
    <3> QED  BY <3>1, <3>3 DEF Kept
  <2>3. Kept(n)
    BY <2>2, FoldedShows DEF Kept
  <2>4. Becomes(j, n)
    BY <1>5 DEF Update
  <2> HIDE DEF n
  <2> QED  BY <2>3, <2>4
<1>6. ASSUME Pause(j)
      PROVE  \E next : Kept(next) /\ Becomes(j, next)
  BY <1>1, <1>4, <1>6, FoldedShows DEF Pause
<1>7. ASSUME timers[j] # Unset, NEW running \in BOOLEAN, NEW c \in Int
      PROVE  Kept([timers[j] EXCEPT !.running = running, !.run = 0, !.elapsedMs = c])
  <2>1. [timers[j] EXCEPT !.running = running, !.run = 0, !.elapsedMs = c] \in Timer
    BY <1>1, <1>7, SetTimer
  <2> QED  BY <1>1, <1>7, <2>1 DEF Kept, Timer
<1>8. ASSUME Start(j)
      PROVE  \E next : Kept(next) /\ Becomes(j, next)
  <2>1. timers[j] # Unset
    BY <1>4, <1>8 DEF Start
  <2> DEFINE c == IF Over(timers[j]) THEN 0 ELSE timers[j].elapsedMs
  <2>2. c \in Int
    BY <1>1, <2>1 DEF Timer
  <2>3. Kept([timers[j] EXCEPT !.running = TRUE, !.run = 0, !.elapsedMs = c])
    BY <1>7, <2>1, <2>2
  <2> QED  BY <1>1, <1>8, <2>1, <2>3 DEF Start
<1>9. ASSUME Reset(j) \/ StartOver(j)
      PROVE  \E next : Kept(next) /\ Becomes(j, next)
  <2>1. CASE Reset(j)
    <3>1. timers[j] # Unset /\ Becomes(j, [timers[j] EXCEPT !.running = FALSE, !.run = 0, !.elapsedMs = 0])
      BY <1>4, <2>1 DEF Reset
    <3>2. Kept([timers[j] EXCEPT !.running = FALSE, !.run = 0, !.elapsedMs = 0])
      <4>1. 0 \in Int
        OBVIOUS
      <4> QED  BY <1>7, <3>1, <4>1, Zenon
    <3> QED  BY <3>1, <3>2, Zenon
  <2>2. CASE StartOver(j)
    <3>1. timers[j] # Unset /\ Becomes(j, [timers[j] EXCEPT !.running = TRUE, !.run = 0, !.elapsedMs = 0])
      BY <1>4, <2>2 DEF StartOver
    <3>2. Kept([timers[j] EXCEPT !.running = TRUE, !.run = 0, !.elapsedMs = 0])
      <4>1. 0 \in Int
        OBVIOUS
      <4> QED  BY <1>7, <3>1, <4>1, Zenon
    <3> QED  BY <3>1, <3>2, Zenon
  <2> QED  BY <1>9, <2>1, <2>2
<1>10. ASSUME NEW v \in Int, NEW b, Kept(b)
       PROVE  Kept([b EXCEPT !.elapsedMs = ElapsedForValue(b, v)])
  BY <1>10, ElapsedForValueInt DEF Kept, Timer
<1>11. ASSUME NEW v \in Values, Put(j, v) \/ Adjust(j, v)
       PROVE  \E next : Kept(next) /\ Becomes(j, next)
  <2> DEFINE b == Rebased(timers[j])
  <2>1. Kept(b) /\ b \in Timer
    BY <1>1, <1>4, <1>11, RebasedKept DEF Put, Adjust, Kept
  <2>2. v \in Int /\ TimerValue(b) + v \in Int
    BY <2>1, CountedInt, TimersAssumption
  <2> QED  BY <1>10, <1>11, <2>1, <2>2 DEF Put, Adjust
<1>12. CASE Remove(j)
  BY <1>2, <1>4, <1>12 DEF Remove
<1>13. CASE Toggle(j)
  BY <1>2, <1>4, <1>6, <1>8, <1>13 DEF Toggle
<1> QED
  BY <1>2, <1>3, <1>4, <1>5, <1>6, <1>8, <1>9, <1>11, <1>12, <1>13 DEF Drive

LEMMA TypeInv == TimersTypeOK /\ [TimersNext]_timersVars => TimersTypeOK'
<1> SUFFICES ASSUME TimersTypeOK, [TimersNext]_timersVars PROVE TimersTypeOK'
  OBVIOUS
<1> DEFINE Good == AllKept(timers') /\ settle' \in 0..Look \cup {Unset} /\ up' \in BOOLEAN
                   /\ acts' \in 0..MaxActs /\ (settle' # Unset => up')
<1>1. AllKept(timers)
  BY DEF TimersTypeOK, AllKept, Kept
<1>2. ASSUME NEW ts, AllKept(ts), ScheduleSettle(ts)
      PROVE  AllKept(timers') /\ settle' \in 0..Look \cup {Unset}
  BY <1>2, SettledShows, Armed DEF ScheduleSettle
<1>3. ASSUME NEW i \in Ids, Drive(i)
      PROVE  Good
  <2>1. PICK next : /\ next = Unset \/ Kept(next)
                    /\ ScheduleSettle([timers EXCEPT ![i] = next])
                    /\ UNCHANGED up /\ up /\ acts' \in 0..MaxActs
    BY <1>3, Driven
  <2>2. AllKept([timers EXCEPT ![i] = next])
    BY <1>1, <2>1, CommandKept
  <2> QED  BY <1>2, <2>1, <2>2 DEF TimersTypeOK
<1>4. ASSUME SettleTimeout
      PROVE  Good
  <2>1. settle # Unset => up
    BY DEF TimersTypeOK
  <2>2. up
    BY <1>4, <2>1, TimersAssumption DEF SettleTimeout
  <2> QED  BY <1>1, <1>2, <1>4, <2>2 DEF SettleTimeout, TimersTypeOK
<1>5. ASSUME NEW t \in Timer, NEW ms \in Int, t.running
      PROVE  Kept([t EXCEPT !.run = @ + ms])
  BY <1>5 DEF Kept, Timer
<1>6. ASSUME Tick
      PROVE  Good
  <2>1. ASSUME NEW i \in Ids, timers'[i] # Unset
        PROVE  Kept(timers'[i])
    <3>1. timers'[i] \in {timers[i], [timers[i] EXCEPT !.run = @ + 1]} /\ timers[i] # Unset
          /\ (~timers[i].running => timers'[i] = timers[i])
      BY <1>6, <2>1 DEF Tick
    <3>2. Kept(timers[i]) /\ timers[i] \in Timer
      BY <1>1, <3>1 DEF AllKept, Kept
    <3>3. timers[i].running => Kept([timers[i] EXCEPT !.run = @ + 1])
      <4>1. 1 \in Int
        OBVIOUS
      <4> QED  BY <1>5, <3>2, <4>1, Zenon
    <3> QED  BY <3>1, <3>2, <3>3, Zenon
  <2>2. AllKept(timers')
    <3>1. \A i \in Ids : timers'[i] \in Timer \cup {Unset}
      BY <2>1 DEF Kept
    <3> QED  BY <1>6, <2>1, <3>1 DEF AllKept, Tick
  <2>3. settle' \in 0..Look \cup {Unset} /\ (settle' # Unset => settle # Unset)
    BY <1>6, TimersAssumption DEF Tick, TimersTypeOK
  <2> QED  BY <1>6, <2>2, <2>3 DEF Tick, TimersTypeOK
<1>7. ASSUME NEW ms \in Jumps, Jump(ms)
      PROVE  Good
  <2>1. ASSUME NEW i \in Ids, timers'[i] # Unset
        PROVE  Kept(timers'[i])
    BY <1>1, <1>5, <1>7, <2>1, TimersAssumption DEF AllKept, Kept, Jump
  <2>2. AllKept(timers')
    <3>1. \A i \in Ids : timers'[i] \in Timer \cup {Unset}
      BY <2>1 DEF Kept
    <3> QED  BY <1>7, <2>1, <3>1 DEF AllKept, Jump
  <2> QED  BY <1>7, <2>2, TimersAssumption DEF Jump, TimersTypeOK, Act
<1>8. ASSUME Stop
      PROVE  Good
  <2>1. acts' \in 0..MaxActs
    BY <1>8, TimersAssumption DEF Stop, TimersTypeOK, Act
  <2>2. timers' = timers /\ settle' = Unset /\ up' = FALSE
    BY <1>8 DEF Stop
  <2> QED  BY <1>1, <2>1, <2>2
<1>9. ASSUME NEW s \in Settings, Boot(s)
      PROVE  Good
  <2> DEFINE ts == [i \in Ids |-> IF i \in Seeds /\ timers[i] = Unset THEN New(s) ELSE timers[i]]
  <2>1. Kept(New(s))
    BY TimersAssumption DEF Kept, New, Timer
  <2>2. AllKept(ts)
    BY <1>1, <2>1 DEF AllKept, Kept
  <2>3. ScheduleSettle(ts) /\ up' = TRUE /\ UNCHANGED acts
    BY <1>9 DEF Boot
  <2> HIDE DEF ts
  <2> QED  BY <1>2, <2>2, <2>3 DEF TimersTypeOK
<1>10. ASSUME UNCHANGED timersVars
      PROVE  Good
  BY <1>1, <1>10 DEF timersVars, TimersTypeOK
<1>11. Good
  BY <1>3, <1>4, <1>6, <1>7, <1>8, <1>9, <1>10 DEF TimersNext
<1> QED  BY <1>11 DEF TimersTypeOK, AllKept, Kept

LEMMA InitType == TimersInit => TimersTypeOK
<1> SUFFICES ASSUME TimersInit PROVE TimersTypeOK
  OBVIOUS
<1>1. \A s \in Settings : New(s) \in Timer /\ New(s).run = 0
  BY TimersAssumption DEF New, Timer
<1>2. timers \in [Ids -> Timer \cup {Unset}]
  BY <1>1 DEF TimersInit
<1>3. \A i \in Ids : timers[i] # Unset => timers[i].run = 0
  BY <1>1 DEF TimersInit
<1> QED  BY <1>2, <1>3, TimersAssumption DEF TimersInit, TimersTypeOK

-----------------------------------------------------------------------------
(* What a timer shows *)

Others(i) == SettleTimeout \/ (\E s \in Settings : Boot(s)) \/ \E j \in Ids \ {i} : Drive(j)

\* A step that is for no command of a timer only settles it.
LEMMA OthersSettle ==
  ASSUME TimersTypeOK, NEW i \in Ids, timers[i] # Unset, Others(i)
  PROVE  /\ TimerValue(timers'[i]) = TimerValue(timers[i])
         /\ timers'[i].running <=> (timers[i].running /\ ~Over(timers[i]))
<1>1. AllKept(timers)
  BY DEF TimersTypeOK, AllKept, Kept
<1>2. \E ts : AllKept(ts) /\ ts[i] = timers[i] /\ ScheduleSettle(ts)
  <2>1. CASE SettleTimeout
    BY <1>1, <2>1 DEF SettleTimeout
  <2>2. ASSUME NEW s \in Settings, Boot(s)
        PROVE  \E ts : AllKept(ts) /\ ts[i] = timers[i] /\ ScheduleSettle(ts)
    <3> DEFINE ts == [j \in Ids |-> IF j \in Seeds /\ timers[j] = Unset THEN New(s) ELSE timers[j]]
    <3>1. Kept(New(s))
      BY TimersAssumption DEF Kept, New, Timer
    <3>2. AllKept(ts)
      BY <1>1, <3>1 DEF AllKept, Kept
    <3>3. ts[i] = timers[i] /\ ScheduleSettle(ts)
      BY <2>2 DEF Boot
    <3> HIDE DEF ts
    <3> QED  BY <3>2, <3>3
  <2>3. ASSUME NEW j \in Ids \ {i}, Drive(j)
        PROVE  \E ts : AllKept(ts) /\ ts[i] = timers[i] /\ ScheduleSettle(ts)
    <3>1. PICK next : (next = Unset \/ Kept(next)) /\ ScheduleSettle([timers EXCEPT ![j] = next])
      BY <2>3, Driven
    <3> DEFINE ts == [timers EXCEPT ![j] = next]
    <3>2. AllKept(ts)
      BY <1>1, <3>1, CommandKept
    <3>3. ts[i] = timers[i]
      BY DEF TimersTypeOK
    <3> HIDE DEF ts
    <3>4. ScheduleSettle(ts)
      BY <3>1 DEF ts
    <3> QED  BY <3>2, <3>3, <3>4
  <2> QED  BY <2>1, <2>2, <2>3 DEF Others
<1>3. PICK ts : AllKept(ts) /\ ts[i] = timers[i] /\ ScheduleSettle(ts)
  BY <1>2
<1>4. timers'[i] = Settled(ts)[i]
  BY <1>3 DEF ScheduleSettle
<1> QED  BY <1>3, <1>4, SettledShows

\* A command leaves its timer as it says, but for its being settled.
LEMMA CommandShows ==
  ASSUME TimersTypeOK, NEW i \in Ids, NEW next, Kept(next), Becomes(i, next)
  PROVE  TimerValue(timers'[i]) = TimerValue(next)
<1> DEFINE ts == [timers EXCEPT ![i] = next]
<1>1. AllKept(timers)
  BY DEF TimersTypeOK, AllKept, Kept
<1>2. AllKept(ts) /\ ts[i] = next /\ ts[i] # Unset
  <2>1. next # Unset
    BY TimersAssumption DEF Kept
  <2> QED  BY <1>1, <2>1, CommandKept DEF AllKept
<1>3. timers'[i] = Settled(ts)[i]
  BY DEF Becomes, ScheduleSettle
<1> HIDE DEF ts
<1> QED  BY <1>2, <1>3, SettledShows

LEMMA PauseShows ==
  ASSUME TimersTypeOK, NEW i \in Ids, Pause(i)
  PROVE  TimerValue(timers'[i]) = TimerValue(timers[i])
<1>1. timers[i] # Unset /\ Kept(timers[i]) /\ timers[i] \in Timer
  BY DEF Pause, Becomes, TimersTypeOK, Kept
<1>2. CASE timers[i].running
  <2>1. Becomes(i, Folded(timers[i]))
    BY <1>2 DEF Pause
  <2> QED  BY <1>1, <2>1, FoldedShows, CommandShows
<1>3. CASE ~timers[i].running
  <2>1. Becomes(i, timers[i])
    BY <1>3 DEF Pause
  <2> QED  BY <1>1, <2>1, CommandShows
<1> QED  BY <1>2, <1>3

LEMMA StartShows ==
  ASSUME TimersTypeOK, NEW i \in Ids, Start(i), ~Over(timers[i])
  PROVE  TimerValue(timers'[i]) = TimerValue(timers[i])
<1> DEFINE t == timers[i]
           n == [t EXCEPT !.running = TRUE, !.run = 0, !.elapsedMs = t.elapsedMs]
<1>1. t # Unset /\ Kept(t) /\ t \in Timer /\ t.elapsedMs \in Int
  BY DEF Start, Becomes, TimersTypeOK, Kept, Timer
<1>2. CASE t.running
  <2>1. Becomes(i, t)
    BY <1>2 DEF Start
  <2> QED  BY <1>1, <2>1, CommandShows
<1>3. CASE ~t.running
  <2>1. n \in Timer
    BY <1>1, SetTimer
  <2>2. /\ n.mode = t.mode /\ n.durationMs = t.durationMs /\ n.overtime = t.overtime
        /\ n.running /\ n.run = 0 /\ n.elapsedMs = t.elapsedMs
    BY <1>1 DEF Timer
  <2>3. Becomes(i, n)
    BY <1>3 DEF Start
  <2> HIDE DEF n
  <2>4. Kept(n)
    BY <2>1, <2>2 DEF Kept
  <2>5. TimerElapsed(n) = TimerElapsed(t) /\ (HasEnd(n) <=> HasEnd(t))
    BY <1>1, <1>3, <2>2 DEF TimerElapsed, HasEnd, Larger
  <2>6. TimerValue(n) = TimerValue(t)
    BY <2>2, <2>5 DEF TimerValue, Counted
  <2> QED  BY <2>3, <2>4, <2>6, CommandShows
<1> QED  BY <1>2, <1>3

-----------------------------------------------------------------------------
(* The properties *)

\* A timer that is stopped has its run folded away, and a timeout is set only
\* while the server runs, for a time between now and the longest look.
THEOREM TimersTypeCorrect == TimersSpec => []TimersTypeOK
BY InitType, TypeInv, PTL DEF TimersSpec

\* A pause, a start, the commands for the other timers, the timeout and a restart
\* leave what a timer shows, and stop it only at its end (timers.ts, command and
\* scheduleSettle).
THEOREM TimersKeepCounting == TimersSpec => KeepsCounting
<1>1. TimersTypeOK /\ TimersTypeOK' =>
        \A i \in Ids : timers[i] # Unset /\ timers'[i] # Unset =>
          LET t == timers[i]
              others == SettleTimeout \/ (\E s \in Settings : Boot(s)) \/ \E j \in Ids \ {i} : Drive(j)
          IN /\ others \/ Pause(i) \/ (Start(i) /\ ~Over(t)) => TimerValue(timers'[i]) = TimerValue(t)
             /\ others => timers'[i].running = (t.running /\ ~Over(t))
  <2> SUFFICES ASSUME TimersTypeOK, TimersTypeOK', NEW i \in Ids, timers[i] # Unset, timers'[i] # Unset
               PROVE  /\ Others(i) \/ Pause(i) \/ (Start(i) /\ ~Over(timers[i]))
                           => TimerValue(timers'[i]) = TimerValue(timers[i])
                      /\ Others(i) => timers'[i].running = (timers[i].running /\ ~Over(timers[i]))
    BY DEF Others
  <2>1. timers'[i].running \in BOOLEAN
    BY DEF TimersTypeOK, Timer
  <2>2. Others(i) => timers'[i].running = (timers[i].running /\ ~Over(timers[i]))
    BY <2>1, OthersSettle
  <2> QED  BY <2>2, OthersSettle, PauseShows, StartShows
<1>2. TimersSpec => []TimersTypeOK
  BY TimersTypeCorrect
<1> QED  BY <1>1, <1>2, PTL DEF TimersSpec, KeepsCounting
=============================================================================
