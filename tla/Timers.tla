------------------------------- MODULE Timers -------------------------------
(***************************************************************************)
(* The timer table of bus/timer_server.go and the helpers that change it.  *)
(* A timer is identified by the bus message that created it.  Durations    *)
(* are counted in abstract units; of starTime only time.Since(starTime) is *)
(* ever used, so a timer records that difference in "run" and a paused     *)
(* timer, whose starTime is not read, has run = 0.                         *)
(***************************************************************************)
EXTENDS Integers

CONSTANTS
  Ids,      \* identifiers of timers (bus message ids)
  NoTimer   \* an id that is not in the map

Timer == [limit : Nat, hard : Nat, paused : BOOLEAN, lapsed : Nat, run : Nat]

\* What "init" and "init-hard" ask for.
Grant == [limit : Nat, hard : Nat]

ASSUME NoTimerAssumption == NoTimer \notin Timer

Tables == [Ids -> Timer \cup {NoTimer}]

Known(ts) == {id \in Ids : ts[id] # NoTimer}

Running(ts) == {id \in Known(ts) : ~ts[id].paused}

Elapsed(t) == t.lapsed + t.run

\* Also what GetTimeLeft answers for a known timer.
Left(t) == t.limit - Elapsed(t)

Fresh(grant, paused) ==
  [limit |-> grant.limit, hard |-> grant.hard, paused |-> paused,
   lapsed |-> 0, run |-> 0]

-----------------------------------------------------------------------------
(* Each helper is an operator on tables; the *Refused predicates are the   *)
(* early returns that answer "ERROR" or only log.                          *)

InitRefused(ts, id, grant) ==
  \/ id \in Known(ts)
  \/ grant.limit > grant.hard

TimerInit(ts, id, grant, start) ==
  IF InitRefused(ts, id, grant) THEN ts
  ELSE [ts EXCEPT ![id] = Fresh(grant, ~start)]

\* Variant: a timer that is not in the table is made.
TimerInitHardAnyId(ts, id, grant) == [ts EXCEPT ![id] = Fresh(grant, FALSE)]

\* The limits are not compared here, and the old timer is replaced whole.
TimerInitHard(ts, id, grant) ==
  IF id \notin Known(ts) THEN ts
  ELSE [ts EXCEPT ![id] = Fresh(grant, FALSE)]

StartRefused(ts, id) ==
  \/ id \notin Known(ts)
  \/ ~ts[id].paused
  \/ ts[id].lapsed >= ts[id].limit

TimerStart(ts, id) ==
  IF StartRefused(ts, id) THEN ts
  ELSE [ts EXCEPT ![id].paused = FALSE]

\* Variant: what is left is recorded, not what has elapsed.
TimerPauseLeft(ts, id) ==
  IF id \notin Running(ts) THEN ts
  ELSE [ts EXCEPT ![id] = [@ EXCEPT !.paused = TRUE, !.lapsed = Left(ts[id]),
                                    !.run = 0]]

TimerPause(ts, id) ==
  IF id \notin Running(ts) THEN ts
  ELSE [ts EXCEPT ![id] = [@ EXCEPT !.paused = TRUE, !.lapsed = Elapsed(ts[id]),
                                    !.run = 0]]

ResetRefused(ts, id) ==
  \/ id \notin Known(ts)
  \/ Elapsed(ts[id]) >= ts[id].hard

\* Variant: the hard limit is not reduced by the time used.
TimerResetInFull(ts, id) ==
  IF ResetRefused(ts, id) THEN ts
  ELSE [ts EXCEPT ![id] = [@ EXCEPT !.lapsed = 0, !.run = 0]]

TimerReset(ts, id) ==
  IF ResetRefused(ts, id) THEN ts
  ELSE LET t    == ts[id]
           rest == t.hard - Elapsed(t)
       IN  [ts EXCEPT ![id] = [t EXCEPT !.lapsed = 0, !.run = 0, !.hard = rest,
                                 !.limit = IF @ > rest THEN rest ELSE @]]

TimerTrigger(ts, id) ==
  IF id \notin Known(ts) THEN ts
  ELSE [ts EXCEPT ![id] = [@ EXCEPT !.lapsed = ts[id].limit, !.paused = FALSE]]

TimerDelete(ts, id) == [ts EXCEPT ![id] = NoTimer]

\* updateTimers: the timers it sends "done" for, and what is left of the table.
Expired(ts) == {id \in Running(ts) : Left(ts[id]) <= 0}

\* Variant: a timer stays in the table after its "done".
SurvivorsAll(ts) == ts

Survivors(ts) == [id \in Ids |-> IF id \in Expired(ts) THEN NoTimer ELSE ts[id]]

\* One unit of time for every running timer.
Advance(ts) ==
  [id \in Ids |-> IF id \in Running(ts) THEN [ts[id] EXCEPT !.run = @ + 1]
                  ELSE ts[id]]
=============================================================================
