# A TLA+ model of notGT

notGT puts titles on air: a NodeCG server keeps the templates and the *outs* (one browser
source each), an extension decides what is on air, and pages draw it. This directory models
the parts of it that decide, agree on and carry what is on air, checks them with TLC on small
instances, and proves the most important results with TLAPS for any instance. Paths below
are relative to the repository's root (`src/` in `PROJECT.json`); `ext/` stands for
`bundles/notGT/src/extension/`.

## Inventory

| Component | State | Operations | Hard part | Correct when | Module |
|---|---|---|---|---|---|
| Scheduler and store (`ext/scheduler.ts`, `ext/store.ts`) | `outs`, `templates` (persisted), `runtime` (not), the hold timeouts | sync, trigger, stop, timeouts, every edit of outs and templates | edits, triggers, switches and timeouts in any order; dangling placements | what is switched on stays on air until it is switched off; a play ends by itself and nobody's edit cuts it short | `Playback`, `OnAir` |
| Manual and one-shot titles (`ext/trigger.ts`, `store.show/hide/toggle`) | `activeTitle` (persisted), the timeouts of timed shows (not) | show, hide, toggle, reset, play once | overlapping timed shows, several writers, scoped keys | a play always shows something, a timed show leaves, a scoped command spares the rest | `Program` |
| Command handlers (`ext/index.ts`, `api.ts`, `ws.ts`) | none for playback | REST, WebSocket and dashboard verbs | scope of a key | see the two above | `Playback`, `Program` |
| Out page (`graphics/out.ts`, `graphics/code-runtime.ts`) | copies of the replicants; slots, frames, exits | computes what it shows; renders, loads frames, takes their hooks, ends their exits | edits between two animation frames, frames that load late, report late or twice | shows what the server has on air, with the variables of now and one entrance per show | `Program` (`Picture`), `Stage` |
| Dashboard writes (`dashboard/shared.ts`) | a copy of each replicant, pending writes | whole-list writes, their echo and expiry | stale copies, echoes that look alike, lost connections, two writes for one deletion | a page reads its own writes and overwrites nothing it had seen; no ghost stays on air | `PageStore`; `Playback`, `Program` (as writes of the server's value) |
| Project files, file animations (`ext/project.ts`, `file-animations.ts`) | files | open; register and remove | replaces everything under a running show | opening puts nothing on air | `Playback`, `Program` |
| Replicant synchronisation (`workspaces/nodecg/src/server/replicant`, `client/api/replicant.ts`) | value, revision, operation queue on both sides; status, action queue, rooms | set, flush, declare, propose, apply, disconnect, reconnect | concurrent writers, lost connections, restarts, ticks | every page ends with the server's value; no operation lost, repeated or reordered | `ReplicantSync`, `Replicants` |
| Replicant persistence (`replicator.ts`, `throttle-name.ts`, SQLite adapter) | row, throttle, pending save | change, throttled save, write, crash | changes during a save, refused saves, crashes | the last value reaches the row, the row never goes back | `Persistence`, `Replicants` |
| Countdown timers (`ext/timers.ts`, `shared/timer.ts`) | list of timers (persisted), one settle timeout | create, update, start, pause, set, adjust, reset, remove, boot | the wall clock, folding at the end, changes while running | nothing but a command for it changes what a timer shows; one with an end stops there by itself | `Timers` |
| Workbook sources (`ext/sources.ts`, `excel.ts`) | sources, snapshots, own-write times, promise chains, write timers, polls | connect, read, write, poll, disconnect | asynchronous reads and writes against edits of either side | workbook and variables agree again; own writes are not read back | `Sources` |
| NDI sender (`ndi/src`) and hub (`ext/ndi.ts`) | outputs, workers and their processes; what is wanted, the key file, the report | ask, apply, launch, relaunch, stop, report, shut down | spawning against stopping, processes that die, a server that is away | an out has one worker that is meant to run; what runs and is reported becomes what is asked for | `Sender` |
| WebSocket sessions, team (`ext/ws.ts`, `auth.ts`, `team.ts`) | sessions with principals, what each was told; users, groups, keys, their file | sign in, subscribe, push, heartbeat, revoke; edit the team, restart | timeouts against frames, writes that fail, reach that changes from four places | nobody stays who left the team; there is an administrator; every session knows its reach as it is | `Sessions` |
| Graphics registration, bundle manager (`workspaces/nodecg/src/server/server`) | registrations; bundles, timers | register, disconnect; reload | reconnects within a second; bursts of file events | one page per single-instance graphic | not modelled |
| Editor (`dashboard/editor.tsx`) | selection, library choice, working copy, unsaved mark | select, place, edit, save, make, duplicate, rename, remove, delete | effects that run between a write and its echo, late answers, other clients | an edit is only in the animation it was made for; what is saved is what is selected | `Editor` |
| Render to file (`ext/render.ts`, `render-job.ts`, `dxv.ts`, `render-worker.ts`) | the job, its key, dot-file and files; a pool of workers, ffmpeg | start, capture, encode, write, stop, finish, crash | answers out of order, failures at every await, a stop at any time | a named file is whole; a job ends and leaves nothing but its file | `Render` |
| Launcher (`launcher/index.mjs`) | status, the server's and the sender's process | start, stop, switch the log, restart the sender, end | handlers that overlap at every await; processes that do not end | one sender; a stop has stopped; every request is answered | `Launcher` |
| Media, routers, login, other panels, graphics renderer, native sinks, windows, CLI | - | - | I/O, GPU, user interface | - | not modelled |

The parts interact through replicants. A handler (HTTP, WebSocket, a socket message) writes
`outs`, `templates`, `titleData`, `timers` or `activeTitle`; a `change` listener runs the
scheduler's sync (which writes `runtime`), the sources' listener and the sessions' push; the
operations reach the pages through Replicant synchronisation, and the persisted replicants the
database through Persistence. The NDI sender is a process of its own that asks the server over
HTTP and opens the out pages. The extension is one thread, so the hazards are in the *order* of
handlers, ticks, timeouts, awaits, packets and saves. `PROJECT.json` lists each hazard at its
line with the properties that would catch it going wrong, or why none does.

## Modules

**`Playback`** models the scheduler with the store and the commands that drive it. A key is an
out and a placement's id; `items` gives the placement or `NoItem`, `playing` and `triggers`
are `runtime`, and `timers` is the scheduler's map: no entry, an entry, an entry with its hold
timeout set (`"armed"`). Every handler that writes the configuration ends in `Sync` before
any other handler runs: the API calls it, and the `change` listeners run it on the next tick
or inside `applyOperations`; so `Configure` is the write and the sync in one step. Calls of
sync that follow one another on the same configuration change nothing after the first, so one
stands for them. `SaveOut` lets an out have any list of placements, with any template: neither
the API's update nor the dashboard checks it. `DropOut` and `DropTemplate` are the dashboard's
deletions, which leave `runtime` to sync and the second write of a deletion to a later step.
`Init` is a boot on any configuration the database may hold. Durations are left out: a timeout
that is set may fire at any later time, which covers every length of a hold, an exit time
included. The order of placements and everything about their looks are left out too.

**`OnAir`** is what playback promises without timers, counters and replicants: a placement is off,
on for one play, or on because it is wanted; the configuration decides about the wanted ones
only. `Playback` implements it with `phase` and `wanted` computed from its state (`OnAirSpec`).

**`Program`** extends Playback with `activeTitle`, the timeouts of timed shows and the picture of
an out page, which is what `computeInstances` makes of all of it. The commands of a key that
reaches some outs only go through these one by one; a set of outs stands for that loop.
`shown` and `timed` are history: they number the shows and remember whether the last one was a
timed one of this process.

**`Stage`** is the out page itself: the slot of every instance on screen, the document in it (its
layers, or a sandboxed frame that is blank, opening, running its script or loaded), the variables
the document has and those posted to it, the hooks its runtime reported, and the exits that are
still playing. The replicants are the environment: shows, hides, edits of templates and of
variables come in any order and each asks for a render in the next animation frame, so several
are drawn as one. `since` and `entrances` are history, for `OneEntrancePerShow`.

**`Persistence`** models one persistent replicant on its way to the database. A value is the number
of its change. `save` has the two awaits of the adapter (the connection, `manager.save`) as
its states. The adapter's change listener notes a change during a save if the value is another
reference than the one being written and `isNaN` is false of that: never after an object or a list of
objects, which is nearly all that notGT persists, and after an empty list unless the change was made
in place. Since that is a matter of the data, a change is noted or not, either way (`Changed(noted)`).
`missed` is history: since the last capture, a save was asked for while another was writing an older
value and had noted no change.

**`ReplicantSync`** models one replicant, the server and some pages. A value is the *sequence* of the
operations applied, so that a lost, a repeated and a reordered operation all show. Packets on a
connection arrive in order and are lost with it; what is emitted without a connection waits
for the next one. `Batches` allows packets to arrive together: they are then handed out in one
turn by `process.nextTick`, and the server's flush, asked for with `process.nextTick` too,
comes after their handlers (`turn`). A restart takes any earlier value, at revision 0. Left out:
schemas and validation, pages that only read, and the fetch of the value after a gap, which is
not reached (theorem `NoGaps`).

**`Replicants`** is the replicant as notGT relies on it: `ReplicantSync` with its row. It extends
`ReplicantSync` and instantiates `Persistence` with the number of operations applied for the value,
so a row is how much of the value it holds. A write of the server changes the value at once
and tells its listeners, the save among them, when the queue is flushed; a proposal does both in
one handler. A restart of the server is a crash of the row's save: the value comes back as the
row has it, at revision 0, under pages that still hold more, and only what was saved comes back.

**`Timers`** keeps a timer as the code does, except that `startedAt` is kept as the time since
(`run` = now − `startedAt`), so that time passing and the wall clock being set are both changes of
`run`. The settle timeout counts on a clock of its own (`settle`, the time it has left). `fold`,
`timerElapsed`, `timerEnd` and the arithmetic of `shared/timer.ts` are operators over integers,
negative values included. `Boot` is the restart with its seeding of timers.

**`Sources`** has the lists of `titleData`, the snapshots, the connected workbooks and their files.
Every `await` of a read or a write is a point where anything else may run: a job reads the file,
merges it, opens the workbook, renames the new one into place and notes its time in separate
steps (`step`, `rows`, `book`), while edits, saves by other programs, polls, uploads and
connections go on. A list is a model value; a file is replaced whole by a rename. `unseen` is
history: the cases in which the code has no means to notice a difference (a list that went back
to a stale snapshot, a file changed while nobody could tell, a read that ended after its list had
gone to another workbook); `QuietAgrees` is stated of everything else.

**`Sender`** composes four parties: the server (what is wanted, its key and the key file, the last
report and whether it is still fresh), the follower's round (`tick`: waiting, asking, answered,
reporting), the controller with one `WorkerOutput` per out, and each worker's process (spawning,
running, told to end, resting before a relaunch, a program that cannot be executed). People
change what is wanted and replace the key; requests fail; processes end or cannot be started, at
any time; the supervisor is told to stop at any time.

**`Sessions`** has the team as it is in memory and as it is in its file, since a change whose write
fails stays in memory with nobody told (`unsaved`), and the sessions: principal, last state told,
whether subscribed, open, still there, alive by the last heartbeat. A principal is a user, a
group's key, or the server's own token; what it reaches is computed from roles, groups, their
outs and the outs that exist. Passwords are right or wrong; a group's timers stand in its view as
the group's name; the topics `data` and `timers`, sent as they are to whoever subscribed, are
left out. Sessions take no step together and read nothing of each other, so one client shows in
a run what any number do; the proofs are for any number.

**`PageStore`** is the page's side of a replicant that the dashboard edits: `read` and `write` of
`shared.ts` on top of NodeCG's client. A value is a function from fields (an out, a template, a
variable) to the number of the edit that set it, so that an overwritten edit shows; `Json` is what
the comparison of the echo tells apart, which without `updatedAt` is only what the edit says.
The server applies a proposal whatever its revision (disagreement 10); that revisions have no gaps
is in `ReplicantSync`, here they only say what a page had read: `known` is the revision of a page's
value, `base` the one that the first of its pending writes was built on, `since` the one that last
changed a field of the server's value. These, `mine` and `says` are history, and so are `own` and
`base` of a queued write (`Entry`). A page may overwrite what another page wrote while its own
writes were pending, also with a write that was lost with its connection and is read until it
expires; `SeenEditsStay` says what it never overwrites: its own edits, and what was on the page
before them.

**`Editor`** is `EditorApp`: React state as variables, one handler or effect per action, and the lists
it is given by hooks (`items`, `shown`) apart from those it reads back (`templates`, `placed`),
because between a write and its echo they differ. Effects run before any other event
(`Settled`). `Unplaced` is the out without an animation's placement. An animation is the set of edits it holds, and `made` is the history of where each
was meant. What is modelled is one out; layers, tools and looks are left out.

**`Render`** has one job at a time: the route's state (`current`, keys, files), the await the job's
run is at, the pool's workers with their inboxes, the promises in `waiting` and `queue`, and
ffmpeg's stdin. Whatever is awaited may fail. A frame is its number, so a file that lost, doubled
or swapped one shows. A crash leaves the files and dot-files. A worker may end at any time, also while
it encodes nothing, as one whose script cannot be loaded does; `lost` is history: the frames that
were posted to a worker after its end.

**`Launcher`** has every request as a handler with the await it is at (`pc`) and the process it waits
for; all share `status`, `child` and `sender`. `Turn` holds back events while an await that is over has
not been continued, as Node does with microtasks. Servers and senders are processes that
come up, end by themselves, are told to end and may ignore it until killed. After the launcher's
own end the model stops.

`MCPlayback`, `MCProgram`, `MCStage`, `MCSources`, `MCTimers` and `MCSessions` give project files,
forms of templates, workbooks, settings and teams to TLC, and bound the counters; the others are
checked as they are.
`ProgramProofs` (of Playback and Program), `ReplicantSyncProofs` (of ReplicantSync, Replicants and
Persistence), `StageProofs`, `SenderProofs`, `SessionsProofs`, `ServicesProofs` (of Sources and
Timers), `DashboardProofs` (of Editor and PageStore) and `ProcessProofs` (of Render and Launcher)
hold the proofs.

Definitions whose comment begins "A slip" are faulty variants of the definition that follows them
(a forgotten guard, a missing reset); no specification uses them. Put in the place of the
definition they must make the property named in `PROJECT.json`, `mutants`, fail: it shows that the
property depends on that line of the code.

## Runs

| Run | Instance | Distinct states | Shows |
|---|---|---|---|
| `Playback` | 2 outs, 1 placement id, 2 templates, 7 project files, at most 2 plays counted over any two placements | 24,912 | what is switched on stays, a play ends by itself and is not cut short, and Playback implements OnAir |
| `Program` | 2 outs (placements on one), 2 templates, 1 counted play, 2 shows by hand | 109,296 | timed shows leave, a play is shown, scoped commands spare the rest |
| `Stage` | 2 instances, 2 templates, 4 forms (layers, two inline animations, a file), 2 values of the variables, 3 changes | 322,000 | the stage becomes what is asked for, with the variables of now and one entrance per show |
| `Replicants` | 2 pages, 2 operations, 1 lost connection or restart, packets one per turn, refused saves, changes that a save notes or not | 215,376 | pages agree with the server, in order, and come to; a quiet row holds the value and comes to, unless it was refused or a save missed the change |
| `Timers` | 2 timers, 4 settings, times up to 4, 4 commands, restarts or settings of the clock | 44,099 | only its own commands change what a timer shows; one with an end stops there |
| `Sources` | a tracked and a loaded workbook, 2 sheets, 2 lists, 2 contents, 3 events | 323,339 | workbooks and variables agree again, own writes are not read back, nothing goes on for ever |
| `Sender` | 1 out, 2 configurations, 3 workers, 3 events | 408,814 | one worker per out, stopped ones stay stopped, an absent server takes nothing down, all settles |
| `Sessions` | 2 users, 1 group, 1 key, 1 out, 1 client, 3 configurations, 2 starting teams, 3 events | 203,350 | an administrator is left, who left is out, sessions become current |
| `PageStore` | 2 pages, 2 fields, stamped writes, 3 edits, 1 lost connection | 209,675 | a page reads its own writes, overwrites no edit it had seen, and comes to read the server's value |
| `Editor` | 2 animations, one of them code, 1 new one, 1 edit, another client | 392,025 | an edit is only where it was made, the draft is of what is selected |
| `Render` | a job of each kind of sink, 2 workers, 5 frames, 1 crash, workers that end at any time | 557,322 | files are whole, keys and dot-files go, every job ends or stays at a frame given to a worker that had ended |
| `Launcher` | 2 starts, one of them looking at the port at a time, a stop, a switch of the log, the end, 4 senders, an address that is not the loopback, 1 process that ends by itself | 278,674 | one sender, a stop has stopped, every request is answered |

`UnsavedWasMissed` (in `QuietRowIsValue`) and `JobEnds` speak of parts in which the code does not do what
a comment says of it: the comment's own claim is violated (`PersistenceObject.cfg`, `RenderHangs.cfg`,
below), and the run's property names the case that fails and rules out every other. So it is with
`InlineIsCurrent` (`BlankFrame.cfg`) and with `unseen` in `SourcesInv`.

Where a component has several invariants a run checks their conjunction, whose parts the
theorems and the modules name one by one.

- *Playback*: `SchedulerInv` (`TypeOK`, `HeldNeverTimesOut`, `HeldIsRemembered` and `RememberedOnAirHasEnd`,
  which relate the switches, the air and the timeouts); `EditKeepsPlay`, `SwitchOffHides` and
  `HeldDoesNotReplay` say what a step may never do to a play or a switched-on placement;
  `PlayLeaves` is liveness and `OnAirSpec` the refinement.
- *Program*: `ProgramInv` (`ProgramTypeOK`, which includes that no visible title has lost its template
  reference, and `TimedShowHasTimeout`); `PlayIsShown`, `ScopedHideSparesOthers`, `TimedShowLeaves`.
- *Replicants*: `PagesAgree` (a page holds what the server had at its revision, and all of it once
  nothing is under way), `QuietRowIsValue` (with nothing under way the row is the value, unless the
  database refused it or a save missed the change), `EverywhereInTheEnd` (the server's value is on
  every page in the end, and in the row, with the same two exceptions). The second exception is a
  fault of the code (`PersistenceObject.cfg`): the row then stays behind until the next change is saved.
- *Sources*: `SourcesInv` (the types and `QuietAgrees`), `OwnWritesAreNotRead`, `Settles`.
- *Sender*: `OneWorkerPerOut`, `StoppedNeverRuns`, `AwayKeepsSources`, `SettlesAsAsked`.
- *Stage*: `QuietStageIsAsked`, `InlineIsCurrent`, `OneEntrancePerShow`, `StageSettles`.
- *Timers*: `KeepsCounting`, `EndedTimersStop`.
- *Sessions*: `TeamHasAdministrator`, `NobodyStaysWhoLeft`, `QuietClientsAreCurrent`, `SessionsSettle`.
- *Launcher*: `LauncherInv` (the types, `OneSender`, `StopStops`), `RequestsEnd`.
- *Render*: `DoneIsWhole`, `NothingIsLeft` (`KeyDiesWithJob`, `StoppedLeavesNothing`,
  `LeftoversAreCleared`), `JobEnds` (a job ends, or from some point on awaits a frame that it posted to
  a worker after that had ended, which is `RenderHangs.cfg`; it awaits nothing else for good).
- *PageStore*: `ReadsOwnWrites`, `SeenEditsStay`, `PagesReadServer`.
- *Editor*: `EditsLandWhereMade`, `DraftIsEdited`.

Each is stated in words above its definition. The type invariants of Persistence, Stage, Timers,
Sender and Sessions are proved for every instance (below), so no run checks them again.

Configurations that are beside the modules and not among the runs ask more of a part, and hold:
`ReplicantSync.cfg` (`ReplicantSync` alone with 3 operations: `TypeOK`, `NoRevisionGap`, `PageIsPrefix`,
`DrainedIsInSync`, `Converges`) and `TwoStarts.cfg` (`Launcher` with two starts looking at the port at
once, 1.5 million states). The remaining ones each show a disagreement, below.

**Why the bounds are enough.** Two outs separate "this out" from "every out" and "another out"; one
placement id each gives two placements, of the same or of different templates, which is what
sync's loops can confuse; two templates separate the one removed from the one that stays. Two
plays suffice to retrigger a placement in flight, or to have two in flight. Two shows by hand
let one timed show overlap another. On the stage a template change, a show of the other template
and a change of variables can all fall into one frame or into the loading of one; each kind of
document, with and without hooks of its own, is among the forms. Two pages and two operations
let two pages, or a page and the server, write at once, and one drop or restart hits every point
of that, with any part of it saved; three operations were run for `ReplicantSync` alone and add
nothing. A timer's
times up to 4 hold an end, its margin, overtime and a clock set back past the start; a longest
look of 2 makes the settle timeout come early and look again. Two sheets let a workbook lose one
and keep the other, two workbooks let a sheet go from one to the other, and three events put an
edit and a foreign save into one read or write. Three workers hold one that runs, one that was
replaced and has not ended, and the next; three events replace a configuration twice or
combine one with a fault and a shutdown. Three events of Sessions let a refused write meet a
second change and a restart, or a change of reach meet a change of the outs; four of them, 1.3
million states, were run once and add nothing. Three edits of two pages let one be in flight
while the other page, or a second edit of the same page, is built on the value before it; four without a
lost connection were run by hand and add nothing. One edit, a placed animation, one that is not and a new one put a late answer, a late echo and a
deletion by another client into any choice of what is edited; two edits, 5.8 million states, were
run once and add nothing. Five frames are one more than two workers hold in flight, so the queue
is full, drained and filled again. Two starts, a stop, a switch and the end overlap at every await
of each but the look at the port, where only one start is at a time; both at once, which makes
two servers (disagreement 6), were run in `TwoStarts.cfg` for the invariants. With `MaxPlays`, `MaxShows`, `MaxChanges`,
`MaxOps`, `MaxDrops`, `MaxActs` and `MaxEvents` reached, what they count stops and everything else goes on;
outside Playback, Program and Sessions the system may then be at rest, hence no deadlock check
there.

**Fairness.** Nothing is assumed of people, of commands or of faults.
- Playback, Program: every hold timeout and every timeout of a timed show that stays set fires, as
  Node's timers do.
- Stage: animation frames come, fetches end, frames run and load, exits' timeouts fire. That a
  frame reports its hooks or the end of its exit is *not* assumed: it is the template's own code.
- Persistence: the throttle's timeout fires and the database answers each call, with success or
  refusal.
- ReplicantSync (Replicants has its fairness and Persistence's): the server's flush, the pages' timeouts and the handlers of delivered packets
  run, and Socket.IO goes on reconnecting.
- Timers: the clock ticks, the settle timeout fires, a stopped server is started again.
- Sources: jobs of a chain go on (file operations end, well or not), write timers and polls fire.
- Sender: rounds go on (a request ends, well or not), a process that is started comes up or
  fails, one that is told to end does (it is killed after 5 s), reports age, the hub prunes, the
  supervisor's process ends once its shutdown is over.
- Sessions: the heartbeat's interval, the push's and the sign-in's timeouts fire, and a closed
  socket's end is noticed.
- PageStore: ticks end, packets on a connection that stays arrive, the two seconds pass, Socket.IO
  goes on reconnecting.
- Render: disk and browser answer or their calls time out; a worker that lives answers, ffmpeg that
  lives encodes. That a job is stopped, and that a worker or ffmpeg lives, is not assumed.
- Launcher: file, port and probe calls end, timeouts fire, a process that was sent SIGKILL ends, and
  the deadline of a start comes, though the loop may go round many times before it (strong
  fairness of the late branch). That a process ends when it is only told to is not assumed.

### Disagreements found

Each has a configuration beside the modules, to be run by hand (`tlc -config X.cfg M`), in which
TLC finds the named property violated, most of them in seconds. The first six are of the most weight.

1. `PersistenceObject.cfg` (`Persistence`): the adapter notes a change during a save only if `!isNaN(value)`
   (`database-adapter.ts:192`), which is false of every object and list of objects; a list that
   changes during its save can stay unsaved until its next change, though the comment at line 206
   says it is saved again.
2. `RenderHangs.cfg` (`Render`): a worker that ends while no frame waits rejects nothing (`render-job.ts:365`); the frames
   it is given later are awaited for good and the stop is looked at between frames only, so
   "DELETE /jobs/:id stops it" (`render.ts:50`) does not, and no other render can start.
3. `StaleShow.cfg` (`MCProgram`): the timeout of a timed show hides a later show of the same template
   (`trigger.ts:53`), though the comment above says that nothing else is hidden.
4. `BlankFrame.cfg` (`MCStage`): a frame for a file is blank while the file is fetched, and what is posted to the
   blank document counts as known (`out.ts:513`); the animation that is loaded into it keeps the
   variables of before, though line 434 says that what changed while it loaded is made up for.
5. `SourceLetGo.cfg` (`MCSources`): a workbook is in the list of sources before its first read has made its lists
   (`sources.ts:325`); a change of any variable in between takes them for deleted and lets the
   workbook go, though line 207 says that a deleted list does so.
6. `LauncherLeaves.cfg` (`Launcher`): `startServer` looks at the status before two awaits and sets it after them
   (`launcher/index.mjs:1872`); two starts at once spawn two servers, and the first is not stopped
   when the launcher exits, though its README (line 141) says that the child always is.
7. `PageStoreAgain.cfg` (`PageStore`): a variable written A, B, A in quick succession: the echo of the first A is taken
   for the last one's (`shared.ts:150`) and the page then reads B, though line 120 says that it reads
   its own writes until the echo.
8. `EditorAddedLayer.cfg` (`Editor`): "+ Layer" with nothing selected makes a new animation and puts the layer into the
   working copy; the effect at `editor.tsx:2349` then loads the animation as it was saved, without
   it. The bundle's README (line 416) says that the layer goes into the new animation.
9. `MutePage.cfg` (`ReplicantSync`): `_handleDisconnect` (`client/api/replicant.ts:374`) leaves
   `_pendingOperationFlush` set; a page that wrote before it was declared and lost its connection
   proposes nothing any more.
10. `RejectedApplied.cfg` (`ReplicantSync`): `replicator.ts` answers "assignment rejected" (line 282) and
   applies the operations all the same (line 288).
11. `BatchedTurn.cfg` (`ReplicantSync`): a declare handled between a write of the server and its flush
   is answered with the new value at the old revision, and the page applies the operations
   again. The passing run and the proofs say that this ordering is the only one that breaks
   agreement.
12. `HeldDisabled.cfg` (`MCProgram`): `held` "wins over `enabled`" in `shared/types.ts:382` and the
   bundle's README; the scheduler does so, the page does not (`out.ts:257`).
13. `StopsEarly.cfg` (`Sender`): `supervisor.mjs:68` has `onStop` called after every worker has ended; a
   worker that is still being spawned, or that was stopped before and has not ended, is not waited
   for.
14. `NegativeTimer.cfg` (`MCTimers`): the bundle's README (line 190) has less than zero for overtime
    only; a stopwatch whose mode or elapsed time is changed while it runs can show it.
15. `RemovedStays.cfg` (`MCSessions`): "Revoking a key disconnects whatever uses it" (the bundle's README,
    lines 712-723); when the write of the change fails it is revoked in memory and its sessions
    stay open until the next change that is written.

Seen while modelling, stated by no document: a write that was lost with the
connection is still read for up to two seconds, and what is written on top of it overwrites what
others did meanwhile (`shared.ts:134`); the editor drops unsaved edits unasked when the edited
animation is placed (`editor.tsx:2652`) or the empty stage is clicked (line 2614), and a late size
marks any draft as changed; a probe that was sent before a stop makes the launcher "running"
again without a server (`launcher/index.mjs:2045`), which ends with the next stop; a placement switched on without
its template is put on air by a trigger with neither entry nor timeout; a play whose placement is
removed by a project keeps its timeout; `activeTitle` stays visible after a crash during a timed
show; a hide or toggle that names another out than the title's does nothing; a stop of a
switched-on placement is undone by the next edit of anything, since sync puts it back. A worker's
`error` without an `exit` leaves its out "loading" for good (`workers.mjs:93`). A list edited back
to what it was while it is being written is not written again; a save by somebody else between
the rename and the `stat` of an own write is taken for the own one. The reply to a command may be
a timer that the settle has stopped since; a seeded timer that was deleted is back at the next
boot. A replay asked for between a frame's script and the report of its hooks is lost; the cause
of `BlankFrame` also makes render control's `loaded()` (`out.ts:818`) true too early. A graceful stop
does not await the saves it asks for (`server/index.ts:318`). A demotion that is refused with 409
has already changed the password in memory (`team.ts:405-411`), and an out key whose write failed
is handed out by later looks though it is not in the file.

## Proofs

Each proof is for any value of the constants that satisfies the named assumptions of its module;
these say how constants that stand for sets and "none" values are disjoint, and what the code's
inputs look like. A proof module may hold the proofs of two components, which it extends both; the
names that both would have carry the component's in one of them (`LauncherSpec`, `PageSpec`,
`TimersSpec`).

**`ProgramProofs`** has two parts.

*Playback*, from `NoItemAssumption` (the null placement is not a placement) and
`ProjectsAssumption` (a project file's placements are on its outs, have their template and come
switched off, as `project.ts:272-278` makes them): the invariants `TypeCorrect`, `HeldStays`,
`HeldIsKnown`, `OnAirHasEnd`; the action properties `SwitchedOffLeaves`, `HeldPlaysOnce`,
`PlaySurvivesEdits`; the refinement `PlaybackImplementsOnAir`. The inductive invariant `IInv` is
the conjunction of `TypeOK`, `HeldNeverTimesOut`, `HeldIsRemembered` and `RememberedOnAirHasEnd`
(`SchedulerFits` states it as the run does). None is inductive alone: that an idle entry which is
not wanted may be stopped, for example, needs that what is wanted has an entry and no timeout. The
argument goes by the kinds of steps: `StepKinds` shows that each step is a write of the
configuration followed by sync (`Edited`, whichever of the nine handlers wrote it), a play, a stop,
a timeout or a restart; `EditedState` says what sync leaves on air and in the map; the invariant,
the action properties and the refinement then each have one case per kind.

*Program*: `ProgramPlaysBack` shows that every step of Program is one of Playback's or leaves its
state alone, so that Playback's invariant holds of the whole program; next to it,
`ProgramTypeCorrect` and `TimedShowsEnd` are inductive, and `ScopedHides` and `PlaysAreSeen` follow
from them for each step. `ProgramHolds` is the run's invariant.

**`StageProofs`**: the invariant speaks of each slot by itself (its document is of the kind of its
template, what it reported came from a runtime that took it, and it knows what was posted), and of
the stage as a whole when nothing is scheduled. `QuietStage`, `InlineShowsData` and `EntrancesCount`
are the run's invariants, `StageTypeCorrect` the types.

**`ReplicantSyncProofs`**: for any pages, operations, lost connections and restarts, with packets
one per turn (`~Batches`), `PagesHoldPrefixes`, `NoGaps` and `DrainedPagesAgree`. The values in the
messages must be related to each other although the server keeps only the last; the proof keeps
them all, in a log by revision whose existence is the invariant (`\E h : Logged(h)`). Of each page
`Good` says where it is in joining the room (`Place`: one join under way at most, and what was sent
before the join does not count), that what it was sent since leads from one revision to the next
and ends at the server's (`Follows`), that this begins at the page's own revision once it is
declared (`Starts`), and that every message and the page's value are those of the log (`Kept`).
Lemmas about appending to and taking from a box carry these through the sends and the receives;
each action then is one of them for its page and nothing for the others. `DrainedIsInSync` is false
with `Batches` (`BatchedTurn.cfg`), and the hypothesis is used where a packet is handled: no flush is
pending then. `ReplicantSync`'s `TypeOK` is model-checked only: its bounds on the revisions need a
count of the operations.
The same module carries this to `Replicants`: every step of it is one of `ReplicantSync`'s
(`ReplicantsSynchronise`), so `WholePagesAgree`; and what a save writes is the value, unless the save
has noted a change or missed one, or a change is still to be asked for (`UnchangedIsCaptured`), from
which `QuietRow` follows, for any value: every step but a write between two flushes is a step of
`Persistence` or leaves it alone.
Of Persistence by itself (`Save`), for any natural number `MaxChanges` of changes: a save's steps stay
a save's steps (`SaveTypeCorrect`), the row never goes back whatever the value (`RowNeverGoesBack`,
with `InOrder`: the row is not ahead of the value being written, nor that of the current one), and,
when nothing is under way and the row is not the value, the database refused it or a save that was
writing an older value missed the change (`UnsavedValueWasMissed`, with `NoChangeSince`, which is
`UnchangedIsCaptured` of a number). None of these assumes anything of the value.

**`ServicesProofs`**. *Sources*: `QuietWorkbooksMirror` is the run's invariant, for any workbooks, sheets,
lists and failures. That a quiet workbook agrees is not inductive, for quiet is the end of a chain of
steps; the invariant says instead what is *due* while a list and its sheet differ (`AllOwed`): a write
timer, a read or a write in the chain, a change that the poll has not looked at, the job that runs
and how far it has come, or a problem that is shown. A queue counts only if its last job is about
the sheet (`LastCovers`), since one that was queued before the sheet was mapped may be about others;
a write puts into the file what it merged (`BookHasRows`); and a change that is the server's own is
known as such once the time of its write is noted (`NewsKnown`), which gives `OwnWritesKnown` too.
`OnlyDeletedListsLetGo` is false (disagreement 5).
*Timers*: `TimersTypeCorrect` (a stopped timer has no run; the timeout is for a time between
now and the longest look) and `TimersKeepCounting`, by lemmas on what folding, starting and
stopping leave of a timer's value.

**`DashboardProofs`**. *Editor*: only what exists or was made can be placed, shown or chosen (`Used`), so
a fresh id collides with nothing; where the effects have run, the draft is of what is edited
(`Loaded`), which gives `DraftFollowsChoice`; an edit is made for the draft's animation and
saved from there (`Landed`), which gives `EditsStayWithTheirs`.
*PageStore*: `StampedReadsOwnWrites` needs that a pending write is the page's last until its
echo, and that stamped writes look alike only if they are the same. For `EditsThatWereReadStay` every
value in the system (the server's, a page's, one in a write or in an echo) is given the revision
it was built on: of each field it has the server's edit or a younger one, unless the server's is of a
later revision (`Fits`). `AllFit` says so of all of them, and of the writes of a page that each is
built on the one before, so it is also what a step of the server may not undo. The attempt to prove
the property for any number of edits showed that an earlier form of it, which spoke of the edits a
page had ever seen, held for three edits only: a page whose pending write has expired may show, and
write again, a value older than what it has shown before. The model had no revisions then; they were
added to say what a write is built on.

**`ProcessProofs`**. *Render*: `FilesAreWhole`, `JobsLeaveNothing` and `RenderTypeCorrect` from one inductive
invariant. `Sound` says for every await of the run where the frames are: those written are the first
ones, and those in the queue of a DXV job or in ffmpeg's stdin are the rest of the captured ones, in
their order (`Splits`), until a job that is to be done has none left there. `Clean` says what a job
has left of itself at each await. Neither depends on how many workers and frames there are, since
the queue keeps the order of the captures and a packet is taken from it only at its turn.
*Launcher*: `LauncherKnows` is the run's invariant. That a stop is answered when its server has
ended needs that a server which has ended does not come back, since only a start that has not had
one yet spawns it (`NotYet`), and that a handler which awaits the end of a server has one (`Awaiting`).

Every invariant and action property of the runs is proved. Model-checked only: liveness
(`PlayLeaves`, `TimedShowLeaves`, `StageSettles`, `EverywhereInTheEnd`, `EndedTimersStop`, `Settles`,
`SettlesAsAsked`, `SessionsSettle`, `PagesReadServer`, `JobEnds`, `RequestsEnd`), which TLAPS does not
reach under fairness, and `ReplicantSync`'s `TypeOK`. Out of the prover's reach in general:
liveness and ENABLED, induction over data (what a recursive definition computes for every input),
and modules with RECURSIVE operators.

## Not modelled

In the modelled parts: titles' data and selection, except that they are there; durations;
replicant schemas; how the editor's layers, tools and canvas change a draft, and changing the out
there; how a page is driven frame by frame and a loop found; the launcher's settings, firewall,
installers and the hand-over to a newer one; how a sheet becomes rows; the text a timer is shown as; the placement, video layers and
debug overlay of an out page; the topics `data` and `timers` of a session.

Not modelled at all:

- *The other panels, the canvas, graphics renderer, shared geometry*: drawing, input and
  floating-point geometry. By lines it is most of the repository, which is why the modelled lines
  are a small part of it; what it changes of the shared state is in the dashboard's writes.
- *Frame clock, the sender's frames* (`output.mjs`), *native sinks and windows, lyrics bridge*: real
  time, GPU, browser and vendor libraries, in part in other languages.
- *Media library, routers, assets, sounds, login pages*: file and request handling without a
  protocol of its own.
- *Graphics registration, bundle manager*: state machines of NodeCG that a running show does not
  use: notGT's graphics are not single-instance, and bundles are reloaded in development.
- *CLI, build scripts, benches*: tooling.

## Plan

1. Done: `OnAir`, `Playback`, `Program`, `Persistence`, `ReplicantSync`, `Replicants`, `Sender`, `Sources`, `Timers`,
   `Sessions`, `Stage`, `PageStore`, `Editor`, `Render` and `Launcher`, with a proof of every safety property
   of their runs.
2. A count of operations for `ReplicantSync`'s `TypeOK`, from which no operation is applied twice.
3. That the whole of Replicants implements Persistence step by step but for the write between two
   flushes, as a refinement with a history of the flushed value.
4. `PageStore` over `Playback`'s configuration: what a page overwrites as steps on the outs.
5. `Registration` and the bundle manager, should notGT come to depend on them.
