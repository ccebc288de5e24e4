------------------------------- MODULE Timers -------------------------------
(***************************************************************************)
(* The timers (extension/timers.ts, shared/timer.ts): countdowns and       *)
(* stopwatches kept as the moment they were started and what they had      *)
(* counted before, and the one timeout that stops those that have reached  *)
(* their end.  Timeouts run on a clock of their own; the clock that the    *)
(* timers count by is the wall's, which people and NTP set.                *)
(*                                                                         *)
(* startedAt is kept as the time since: run = now - startedAt.             *)
(***************************************************************************)
EXTENDS Integers

CONSTANTS Ids,
          Seeds,       \* the examples' own, made at boot when they are not there
          Settings,    \* what create and update ask for
          Values,      \* what set and adjust are given
          Jumps,       \* what the clock is set by
          Unset,       \* no timer; no timeout
          TimerMax,    \* TIMER_MAX_MS
          Look,        \* the longest timeout: 60_000 ms
          Margin,      \* 5 ms
          Horizon,     \* bound: an elapsed time up to which a timer counts
          MaxActs      \* bound on commands, restarts and settings of the clock

Timer == [mode : {"down", "up"}, durationMs : 0..TimerMax, overtime : BOOLEAN,
          running : BOOLEAN, run : Int, elapsedMs : Int]

ASSUME TimersAssumption ==
  /\ Seeds \subseteq Ids /\ Values \subseteq Int /\ Jumps \subseteq Int
  /\ Settings \subseteq [mode : {"down", "up"}, durationMs : 0..TimerMax, overtime : BOOLEAN]
  /\ TimerMax \in Nat /\ Look \in Nat \ {0} /\ Margin \in Nat /\ MaxActs \in Nat
  /\ Horizon \in Nat /\ TimerMax < Horizon
  /\ Unset \notin Timer /\ Unset \notin 0..Look

VARIABLES
  timers,      \* the timers replicant, persisted
  settle,      \* the timeout: the time it has left
  up,          \* the server runs
  acts

timersVars == <<timers, settle, up, acts>>

TimersTypeOK ==
  /\ timers \in [Ids -> Timer \cup {Unset}]
  /\ settle \in 0..Look \cup {Unset}
  /\ up \in BOOLEAN /\ acts \in 0..MaxActs
  /\ \A i \in Ids : timers[i] # Unset /\ ~timers[i].running => timers[i].run = 0
  /\ settle # Unset => up

-----------------------------------------------------------------------------
(* shared/timer.ts *)

New(s) == [mode |-> s.mode, durationMs |-> s.durationMs, overtime |-> s.overtime,
           running |-> FALSE, run |-> 0, elapsedMs |-> 0]

Larger(a, b) == IF a < b THEN b ELSE a
Smaller(a, b) == IF a < b THEN a ELSE b

TimerElapsed(t) == t.elapsedMs + IF t.running THEN Larger(0, t.run) ELSE 0

HasEnd(t) == t.durationMs > 0 /\ ~(t.mode = "down" /\ t.overtime)

\* What it has counted, and not past its end.
Counted(t) == IF HasEnd(t) THEN Smaller(t.durationMs, TimerElapsed(t)) ELSE TimerElapsed(t)

TimerValue(t) == IF t.mode = "down" THEN t.durationMs - Counted(t) ELSE Counted(t)

ElapsedForValue(t, v) ==
  IF t.mode = "up" THEN Larger(0, v)
  ELSE t.durationMs - Larger(IF t.overtime THEN -TimerMax ELSE 0, v)

Over(t) == HasEnd(t) /\ TimerElapsed(t) >= t.durationMs

-----------------------------------------------------------------------------
(* extension/timers.ts *)

Folded(t) == [t EXCEPT !.running = FALSE, !.run = 0, !.elapsedMs = Counted(t)]

Rebased(t) == IF t.running THEN [Folded(t) EXCEPT !.running = TRUE] ELSE t

\* The timers that have reached their end are stopped there.
Due(t) == t # Unset /\ t.running /\ Over(t)
Settled(ts) == [i \in Ids |-> IF Due(ts[i]) THEN Folded(ts[i]) ELSE ts[i]]

\* The next one to end is waited for, a look at a time.
Waiting(ts) == {ts[i].durationMs - TimerElapsed(ts[i]) :
                  i \in {i \in Ids : ts[i] # Unset /\ ts[i].running /\ HasEnd(ts[i])}}

Arm(ts) ==
  \/ Waiting(ts) = {} /\ settle' = Unset
  \/ \E left \in Waiting(ts) :
       (\A other \in Waiting(ts) : left <= other) /\ settle' = Smaller(Look, left + Margin)

\* A slip: when one is due, every timer with an end is stopped.
ScheduleSettleAll(ts) ==
  /\ timers' = [i \in Ids |-> IF (\E j \in Ids : Due(ts[j])) /\ ts[i] # Unset /\ ts[i].running /\ HasEnd(ts[i])
                              THEN Folded(ts[i]) ELSE ts[i]]
  /\ Arm(timers')

\* A slip: the timers that are due are written without a look at the others.
ScheduleSettleOnce(ts) ==
  /\ timers' = Settled(ts)
  /\ IF \E i \in Ids : Due(ts[i]) THEN settle' = Unset ELSE Arm(ts)

\* write and scheduleSettle.
ScheduleSettle(ts) == timers' = Settled(ts) /\ Arm(Settled(ts))

Act == acts < MaxActs /\ acts' = acts + 1

TimersInit ==
  /\ timers \in [Ids -> {New(s) : s \in Settings} \cup {Unset}]
  /\ settle = Unset /\ up = TRUE /\ acts = 0
  /\ \A i \in Seeds : timers[i] # Unset

Create(i, s) ==
  /\ Act /\ up /\ timers[i] = Unset
  /\ ScheduleSettle([timers EXCEPT ![i] = New(s)])
  /\ UNCHANGED up

\* A command for a timer that is there leaves it as `next`.
Becomes(i, next) ==
  /\ Act /\ up /\ timers[i] # Unset
  /\ ScheduleSettle([timers EXCEPT ![i] = next])
  /\ UNCHANGED up

Remove(i) == Becomes(i, Unset)

\* A running timer goes on from where it is, under its new settings.
Update(i, s) ==
  LET t == Rebased(timers[i])
      next == [t EXCEPT !.mode = s.mode, !.durationMs = s.durationMs, !.overtime = s.overtime]
  IN Becomes(i, IF next.running /\ Over(next) THEN Folded(next) ELSE next)

Pause(i) == Becomes(i, IF timers[i].running THEN Folded(timers[i]) ELSE timers[i])

\* A timer that has run out starts over.
Start(i) ==
  Becomes(i, IF timers[i].running THEN timers[i]
             ELSE [timers[i] EXCEPT !.running = TRUE, !.run = 0,
                                    !.elapsedMs = IF Over(timers[i]) THEN 0 ELSE @])

Toggle(i) == timers[i] # Unset /\ IF timers[i].running THEN Pause(i) ELSE Start(i)

Reset(i) == Becomes(i, [timers[i] EXCEPT !.running = FALSE, !.run = 0, !.elapsedMs = 0])

StartOver(i) == Becomes(i, [timers[i] EXCEPT !.running = TRUE, !.run = 0, !.elapsedMs = 0])

Put(i, v) ==
  LET base == Rebased(timers[i]) IN Becomes(i, [base EXCEPT !.elapsedMs = ElapsedForValue(base, v)])

Adjust(i, delta) ==
  LET base == Rebased(timers[i])
  IN Becomes(i, [base EXCEPT !.elapsedMs = ElapsedForValue(base, TimerValue(base) + delta)])

SettleTimeout ==
  /\ settle = 0
  /\ ScheduleSettle(timers)
  /\ UNCHANGED <<up, acts>>

-----------------------------------------------------------------------------
(* The clocks and the process *)

\* Time passes; a timeout that is due comes first.
Tick ==
  /\ settle # 0
  /\ timers' = [i \in Ids |->
       IF timers[i] = Unset \/ ~timers[i].running THEN timers[i]
       ELSE IF TimerElapsed(timers[i]) >= Horizon THEN timers[i]
       ELSE [timers[i] EXCEPT !.run = @ + 1]]
  /\ settle' = IF settle = Unset THEN Unset ELSE settle - 1
  /\ UNCHANGED <<up, acts>>

\* The wall clock is set.
Jump(ms) ==
  /\ Act
  /\ timers' = [i \in Ids |-> IF timers[i] = Unset \/ ~timers[i].running THEN timers[i]
                              ELSE [timers[i] EXCEPT !.run = @ + ms]]
  /\ UNCHANGED <<settle, up>>

Stop ==
  /\ Act /\ up
  /\ up' = FALSE /\ settle' = Unset
  /\ UNCHANGED timers

\* The examples' own timers that are gone are made again, one `create` each.
Boot(s) ==
  /\ ~up
  /\ up' = TRUE
  /\ ScheduleSettle([i \in Ids |-> IF i \in Seeds /\ timers[i] = Unset THEN New(s) ELSE timers[i]])
  /\ UNCHANGED acts

-----------------------------------------------------------------------------

Drive(i) ==
  \/ \E s \in Settings : Create(i, s) \/ Update(i, s)
  \/ Remove(i) \/ Pause(i) \/ Start(i) \/ Toggle(i) \/ Reset(i) \/ StartOver(i)
  \/ \E v \in Values : Put(i, v) \/ Adjust(i, v)

TimersNext ==
  \/ \E i \in Ids : Drive(i)
  \/ SettleTimeout \/ Tick \/ Stop
  \/ \E ms \in Jumps : Jump(ms)
  \/ \E s \in Settings : Boot(s)

TimersFairness ==
  /\ WF_timersVars(Tick) /\ WF_timersVars(SettleTimeout)
  /\ WF_timersVars(\E s \in Settings : Boot(s))

TimersSpec == TimersInit /\ [][TimersNext]_timersVars /\ TimersFairness

-----------------------------------------------------------------------------

\* timers.ts:126, notGT/README.md:1453: a pause, a start, a command for another timer, the
\* timeout and a restart leave what a timer shows as it is, and stop it only when
\* it has reached its end.
KeepsCounting ==
  [][\A i \in Ids : timers[i] # Unset /\ timers'[i] # Unset =>
       LET t == timers[i]
           others == SettleTimeout \/ (\E s \in Settings : Boot(s)) \/ \E j \in Ids \ {i} : Drive(j)
       IN /\ others \/ Pause(i) \/ (Start(i) /\ ~Over(t)) => TimerValue(timers'[i]) = TimerValue(t)
          /\ others => timers'[i].running = (t.running /\ ~Over(t))]_timersVars

\* timers.ts:164-167: once nobody drives it any more, every timer that has an end
\* stops there by itself, whatever the clock was set to.
EndedTimersStop ==
  <>[](\A i \in Ids : timers[i] # Unset /\ HasEnd(timers[i]) => ~timers[i].running)

\* notGT/README.md:190: a timer shows less than zero in overtime only.
SignIsOvertime ==
  \A i \in Ids : timers[i] # Unset /\ TimerValue(timers[i]) < 0 =>
    timers[i].mode = "down" /\ timers[i].overtime

=============================================================================
