----------------------------- MODULE TimerServer -----------------------------
(***************************************************************************)
(* ProcessTimers of bus/timer_server.go: one goroutine that serves the     *)
(* requests of topic "timer" and, when nextCheckTimer fires, sends "done"  *)
(* for the timers whose limit has been reached.  Every request, also one   *)
(* that is answered "ERROR" or only reads, ends in updateTimers, so each   *)
(* action below applies one helper of Timers and then updateTimers.        *)
(*                                                                         *)
(* The requests of all clients are the inputs of this module; Fetch        *)
(* composes the same helpers with the clients that send them.              *)
(***************************************************************************)
EXTENDS Timers

CONSTANTS
  Grants,   \* the limit/hard limit pairs clients ask for
  MaxWait,  \* update_after: the longest nextCheckTimer is armed for
  MaxLate,  \* how long the goroutine may lag behind nextCheckTimer
  MaxChain  \* bound: how often one timer is re-armed with "init-hard"

ASSUME GrantsAssumption == Grants \subseteq Grant
ASSUME BoundsAssumption == /\ MaxWait \in Nat \ {0}
                           /\ MaxLate \in Nat
                           /\ MaxChain \in Nat

VARIABLES
  timers,   \* timers
  armed,    \* nextCheckTimer is armed ...
  checkIn,  \* ... and fires in so many units (negative: it is overdue)
  used,     \* ids of the "init" messages handled so far; bus ids are unique
  fired,    \* ids "done" was sent for
  granted,  \* history: the last grant of each timer
  spent,    \* history: time used before the last "reset" since that grant
  chain     \* history: number of "init-hard" of each timer

timerVars == <<timers, armed, checkIn, used, fired, granted, spent, chain>>

-----------------------------------------------------------------------------

\* Candidates for update_after once the expired timers are gone.
Waits(ts) == {MaxWait} \cup {Left(ts[id]) : id \in Running(ts)}

\* Variant: nextCheckTimer is left stopped when a timer has expired.
UpdateTimersNoRearm(ts) ==
  LET rest == Survivors(ts)
  IN  /\ timers' = rest
      /\ fired' = fired \cup Expired(ts)
      /\ IF Running(rest) = {} \/ Expired(ts) # {}
         THEN armed' = FALSE /\ checkIn' = 0
         ELSE /\ armed' = TRUE
              /\ \E w \in Waits(rest) : /\ \A v \in Waits(rest) : w <= v
                                        /\ checkIn' = w

\* updateTimers on the table the handler leaves.
UpdateTimers(ts) ==
  LET rest == Survivors(ts)
  IN  /\ timers' = rest
      /\ fired' = fired \cup Expired(ts)
      /\ IF Running(rest) = {}
         THEN armed' = FALSE /\ checkIn' = 0
         ELSE /\ armed' = TRUE
              /\ \E w \in Waits(rest) : /\ \A v \in Waits(rest) : w <= v
                                        /\ checkIn' = w

Histories == <<granted, spent, chain>>

\* nextCheckTimer starts as time.NewTimer(0).
TimersInit ==
  /\ timers = [id \in Ids |-> NoTimer]
  /\ armed = TRUE
  /\ checkIn = 0
  /\ used = {}
  /\ fired = {}
  /\ granted = [id \in Ids |-> [limit |-> 0, hard |-> 0]]
  /\ spent = [id \in Ids |-> 0]
  /\ chain = [id \in Ids |-> 0]

InitTimer(id, grant, start) ==
  /\ id \notin used
  /\ used' = used \cup {id}
  /\ UpdateTimers(TimerInit(timers, id, grant, start))
  /\ granted' = [granted EXCEPT ![id] = grant]
  /\ spent' = [spent EXCEPT ![id] = 0]
  /\ UNCHANGED chain

InitHard(id, grant) ==
  /\ chain[id] < MaxChain
  /\ UpdateTimers(TimerInitHard(timers, id, grant))
  /\ IF id \in Known(timers)
     THEN /\ granted' = [granted EXCEPT ![id] = grant]
          /\ spent' = [spent EXCEPT ![id] = 0]
          /\ chain' = [chain EXCEPT ![id] = @ + 1]
     ELSE UNCHANGED Histories
  /\ UNCHANGED used

StartTimer(id) ==        \* "start" and "resume"
  /\ UpdateTimers(TimerStart(timers, id))
  /\ UNCHANGED <<used, Histories>>

PauseTimer(id) ==
  /\ UpdateTimers(TimerPause(timers, id))
  /\ UNCHANGED <<used, Histories>>

ResetTimer(id) ==
  /\ UpdateTimers(TimerReset(timers, id))
  /\ spent' = IF ResetRefused(timers, id) THEN spent
              ELSE [spent EXCEPT ![id] = @ + Elapsed(timers[id])]
  /\ UNCHANGED <<used, granted, chain>>

TriggerTimer(id) ==
  /\ UpdateTimers(TimerTrigger(timers, id))
  /\ UNCHANGED <<used, Histories>>

DeleteTimer(id) ==
  /\ UpdateTimers(TimerDelete(timers, id))
  /\ UNCHANGED <<used, Histories>>

\* "left" and requests of an unknown type leave the table alone.
OtherRequest ==
  /\ UpdateTimers(timers)
  /\ UNCHANGED <<used, Histories>>

\* case <-nextCheckTimer.C
CheckFires ==
  /\ armed
  /\ checkIn <= 0
  /\ UpdateTimers(timers)
  /\ UNCHANGED <<used, Histories>>

\* Time passes; the goroutine is never more than MaxLate behind.
Tick ==
  /\ armed => checkIn > -MaxLate
  /\ timers' = Advance(timers)
  /\ checkIn' = IF armed THEN checkIn - 1 ELSE checkIn
  /\ UNCHANGED <<armed, used, fired, Histories>>

Request ==
  \/ \E id \in Ids, grant \in Grants, start \in BOOLEAN :
       InitTimer(id, grant, start)
  \/ \E id \in Ids, grant \in Grants : InitHard(id, grant)
  \/ \E id \in Ids : StartTimer(id)
  \/ \E id \in Ids : PauseTimer(id)
  \/ \E id \in Ids : ResetTimer(id)
  \/ \E id \in Ids : TriggerTimer(id)
  \/ \E id \in Ids : DeleteTimer(id)
  \/ OtherRequest

TimersNext == Request \/ CheckFires \/ Tick

TimersSpec == TimersInit /\ [][TimersNext]_timerVars

\* Time does not stop and the goroutine serves an armed nextCheckTimer.
FairTimers == TimersSpec /\ WF_timerVars(Tick) /\ WF_timerVars(CheckFires)

-----------------------------------------------------------------------------
TimersOK ==
  /\ timers \in Tables
  /\ armed \in BOOLEAN
  /\ checkIn \in Int
  /\ used \in SUBSET Ids
  /\ fired \in SUBSET used
  /\ Known(timers) \subseteq used
  /\ granted \in [Ids -> Grant]
  /\ spent \in [Ids -> Nat]
  /\ chain \in [Ids -> Nat]

\* nextCheckTimer always covers the earliest expiry: whatever sequence of
\* requests re-arms it, it is armed for no later than any running timer needs.
CheckCovers ==
  \A id \in Running(timers) : armed /\ checkIn <= Left(timers[id])

\* A running timer is never overdue by more than the goroutine itself lags.
Punctual ==
  \A id \in Running(timers) : Elapsed(timers[id]) <= timers[id].limit + MaxLate

\* The same id never times out twice: once "done" is sent for it, no request
\* (a late "init-hard" of a nested fetch, a "resume" of a closing popup) brings
\* the timer back.
NeverRevived == fired \cap Known(timers) = {}

\* "reset" buys no time past the hard limit: what was used before the resets
\* and what is used since stays within the hard limit of the grant.
HardDeadline ==
  \A id \in Known(timers) :
    granted[id].limit <= granted[id].hard
      => spent[id] + Elapsed(timers[id]) <= granted[id].hard + MaxLate

\* A running timer does not run for ever: it times out, or is paused or deleted.
Settles ==
  \A id \in Ids : (id \in Running(timers)) ~> (id \notin Running(timers))
=============================================================================
