----------------------------- MODULE PageStore -----------------------------
(***************************************************************************)
(* The copy of a replicant that a dashboard page edits (dashboard/         *)
(* shared.ts): every helper reads the whole value, changes a field of it   *)
(* and writes the whole.  A write is applied on the page when the server   *)
(* echoes it; until then `pending` is read in its place.  Connections are  *)
(* queues: what a page declares, and that revisions have no gaps, is in    *)
(* ReplicantSync.  A field holds the number of the edit that set it.       *)
(***************************************************************************)
EXTENDS Naturals, Sequences, SequencesExt

CONSTANTS Pages,
          Fields,      \* an out or a template of a list, a variable of the data
          Contents,    \* what an edit may say
          Stamped,     \* writes carry updatedAt (outs, templates, activeTitle)
          MaxEdits, MaxDrops,   \* bounds
          NoWrite

ASSUME PageStoreAssumption ==
  /\ Stamped \in BOOLEAN /\ MaxEdits \in Nat /\ MaxDrops \in Nat /\ Contents # {}
  /\ NoWrite \notin [Fields -> 0..MaxEdits]

VARIABLES
  server, revision,   \* the server's value
  value, known,       \* rep.value and rep.revision of each page
  pending,   \* the page's pending write
  queue,     \* writes of this tick, or those made without a connection
  toServer, toPage,
  connected,
  says,      \* what each edit says
  edits, drops,
  mine,      \* the page's last write, until its echo, its expiry or its loss
  base,      \* the revision that the first of its pending writes was built on
  since      \* the revision that last changed a field of the server's value

serverVars == <<server, revision, since>>
pageVars == <<value, known, pending, mine>>
pageStoreVars == <<serverVars, pageVars, base, queue, toServer, toPage, connected, says, edits, drops>>

\* What JSON.stringify tells apart.
Json(v) == IF Stamped THEN v ELSE [f \in Fields |-> says[v[f]]]

PageInit ==
  /\ server = [f \in Fields |-> 0] /\ revision = 0 /\ since = [f \in Fields |-> 0]
  /\ value = [p \in Pages |-> server] /\ known = [p \in Pages |-> 0]
  /\ base = [p \in Pages |-> 0] /\ pending = [p \in Pages |-> NoWrite]
  /\ queue = [p \in Pages |-> <<>>]
  /\ toServer = [p \in Pages |-> <<>>] /\ toPage = [p \in Pages |-> <<>>]
  /\ connected = [p \in Pages |-> TRUE]
  /\ says = [e \in 0..MaxEdits |-> CHOOSE c \in Contents : TRUE]
  /\ edits = 0 /\ drops = 0
  /\ mine = [p \in Pages |-> NoWrite]

\* read
Read(p) == IF pending[p] = NoWrite THEN value[p] ELSE pending[p]

\* A write, with the one it is built on and the revision that one began with.
Entry(p, next) ==
  [value |-> next, own |-> pending[p], base |-> IF pending[p] = NoWrite THEN known[p] ELSE base[p]]

Written(p, next) ==
  /\ pending' = [pending EXCEPT ![p] = next]
  /\ mine' = [mine EXCEPT ![p] = next]
  /\ base' = [base EXCEPT ![p] = Entry(p, next).base]
  /\ queue' = [queue EXCEPT ![p] = Append(@, Entry(p, next))]

\* A slip: the write is built from the replicant's own value.
EditValue(p, f, c) ==
  /\ edits < MaxEdits /\ edits' = edits + 1
  /\ says' = [says EXCEPT ![edits + 1] = c]
  /\ Written(p, [value[p] EXCEPT ![f] = edits + 1])
  /\ UNCHANGED <<serverVars, value, known, toServer, toPage, connected, drops>>

\* write, of what was read with one field changed.
Edit(p, f, c) ==
  /\ edits < MaxEdits /\ edits' = edits + 1
  /\ says' = [says EXCEPT ![edits + 1] = c]
  /\ Written(p, [Read(p) EXCEPT ![f] = edits + 1])
  /\ UNCHANGED <<serverVars, value, known, toServer, toPage, connected, drops>>

\* The end of the tick: _flushOperations proposes its writes together.
Flush(p) ==
  /\ connected[p] /\ queue[p] # <<>>
  /\ toServer' = [toServer EXCEPT ![p] = Append(@, queue[p])]
  /\ queue' = [queue EXCEPT ![p] = <<>>]
  /\ UNCHANGED <<serverVars, pageVars, base, toPage, connected, says, edits, drops>>

\* The server applies a proposal, whatever its revision, and tells every page.
Propose(p) ==
  /\ toServer[p] # <<>>
  /\ server' = Last(Head(toServer[p])).value
  /\ revision' = revision + 1
  /\ since' = [f \in Fields |-> IF server'[f] = server[f] THEN since[f] ELSE revision']
  /\ toPage' = [q \in Pages |-> IF connected[q]
                                  THEN Append(toPage[q], [value |-> server', revision |-> revision'])
                                  ELSE toPage[q]]
  /\ toServer' = [toServer EXCEPT ![p] = Tail(@)]
  /\ UNCHANGED <<pageVars, base, queue, connected, says, edits, drops>>

\* A slip: any change counts as the echo.
ChangedByAny(p, next) ==
  /\ value' = [value EXCEPT ![p] = next]
  /\ pending' = [pending EXCEPT ![p] = NoWrite]
  /\ mine' = [mine EXCEPT ![p] = IF @ = next THEN NoWrite ELSE @]

\* The change listener of write: the pending write is let go of when the value is
\* the same.
Changed(p, next) ==
  /\ value' = [value EXCEPT ![p] = next]
  /\ pending' = [pending EXCEPT ![p] = IF @ # NoWrite /\ Json(@) = Json(next) THEN NoWrite ELSE @]
  /\ mine' = [mine EXCEPT ![p] = IF @ = next THEN NoWrite ELSE @]

EchoArrives(p) ==
  /\ toPage[p] # <<>>
  /\ Changed(p, Head(toPage[p]).value)
  /\ known' = [known EXCEPT ![p] = Head(toPage[p]).revision]
  /\ toPage' = [toPage EXCEPT ![p] = Tail(@)]
  /\ UNCHANGED <<serverVars, base, queue, toServer, connected, says, edits, drops>>

\* A slip: a write is trusted until it is echoed.
ExpireEchoed(p) ==
  /\ pending[p] # NoWrite /\ Json(pending[p]) = Json(value[p])
  /\ pending' = [pending EXCEPT ![p] = NoWrite]
  /\ mine' = [mine EXCEPT ![p] = NoWrite]
  /\ UNCHANGED <<serverVars, value, known, base, queue, toServer, toPage, connected, says, edits, drops>>

\* PENDING_MS have passed.
Expire(p) ==
  /\ pending[p] # NoWrite
  /\ pending' = [pending EXCEPT ![p] = NoWrite]
  /\ mine' = [mine EXCEPT ![p] = NoWrite]
  /\ UNCHANGED <<serverVars, value, known, base, queue, toServer, toPage, connected, says, edits, drops>>

\* The connection is lost with what is on it and what was queued.
Disconnect(p) ==
  /\ connected[p] /\ drops < MaxDrops /\ drops' = drops + 1
  /\ connected' = [connected EXCEPT ![p] = FALSE]
  /\ queue' = [queue EXCEPT ![p] = <<>>]
  /\ toServer' = [toServer EXCEPT ![p] = <<>>] /\ toPage' = [toPage EXCEPT ![p] = <<>>]
  /\ mine' = [mine EXCEPT ![p] = NoWrite]
  /\ UNCHANGED <<serverVars, value, known, pending, base, says, edits>>

\* The replicant is declared again: a value that differs is assigned, and what was
\* queued meanwhile can be flushed.
Reconnect(p) ==
  /\ ~connected[p]
  /\ connected' = [connected EXCEPT ![p] = TRUE]
  /\ IF value[p] # server THEN Changed(p, server) ELSE UNCHANGED <<value, pending, mine>>
  /\ known' = [known EXCEPT ![p] = revision]
  /\ UNCHANGED <<serverVars, base, queue, toServer, toPage, says, edits, drops>>

PageNext ==
  \E p \in Pages :
    \/ \E f \in Fields, c \in Contents : Edit(p, f, c)
    \/ Flush(p) \/ Propose(p) \/ EchoArrives(p) \/ Expire(p) \/ Disconnect(p) \/ Reconnect(p)

\* Ticks end, packets on a connection that stays arrive, time passes.
PageFairness ==
  \A p \in Pages :
    /\ WF_pageStoreVars(Flush(p)) /\ WF_pageStoreVars(Propose(p)) /\ WF_pageStoreVars(EchoArrives(p))
    /\ WF_pageStoreVars(Expire(p)) /\ WF_pageStoreVars(Reconnect(p))

PageSpec == PageInit /\ [][PageNext]_pageStoreVars /\ PageFairness

-----------------------------------------------------------------------------
(* Properties *)

Content == [Fields -> 0..MaxEdits]
Entries == [value : Content, own : Content \cup {NoWrite}, base : Nat]
Echoes == [value : Content, revision : Nat]

PageTypeOK ==
  /\ server \in Content /\ revision \in Nat /\ since \in [Fields -> Nat]
  /\ value \in [Pages -> Content] /\ known \in [Pages -> Nat]
  /\ pending \in [Pages -> Content \cup {NoWrite}] /\ mine \in [Pages -> Content \cup {NoWrite}]
  /\ base \in [Pages -> Nat]
  /\ queue \in [Pages -> Seq(Entries)]
  /\ toServer \in [Pages -> Seq(Seq(Entries) \ {<<>>})]
  /\ toPage \in [Pages -> Seq(Echoes)]
  /\ connected \in [Pages -> BOOLEAN]
  /\ says \in [0..MaxEdits -> Contents]
  /\ edits \in 0..MaxEdits /\ drops \in 0..MaxDrops

\* shared.ts:110: every helper reads its own writes (read), until the echo of the
\* last one has come.  Broken without stamps: a value that is written, changed and
\* written again is confirmed by the echo of the first.
ReadsOwnWrites == \A p \in Pages : mine[p] # NoWrite => Read(p) = mine[p]

\* A write takes back no edit that the page had read when it made its first pending
\* write, nor one of its own since (write, on the value of read): of two pages that
\* work at once, only what was still on its way is overwritten.
SeenEditsStay ==
  [][\A p \in Pages : Propose(p) =>
       \A i \in DOMAIN Head(toServer[p]), f \in Fields :
         LET w == Head(toServer[p])[i]
             before == IF i = 1 THEN server[f] ELSE Head(toServer[p])[i - 1].value[f]
         IN  w.value[f] < before => /\ w.own # NoWrite => before # w.own[f]
                                    /\ i = 1 => since[f] > w.base]_pageStoreVars

\* Every page comes to read what the server has, though writes are lost with a
\* connection: a pending write does not hide the value for good (PENDING_MS).
PagesReadServer == <>[](\A p \in Pages : Read(p) = server)
=============================================================================
