-------------------------------- MODULE Fetch --------------------------------
(***************************************************************************)
(* FetchEx of bus/bus.go: a request over the bus that ends with the first  *)
(* response to it or with the "done" of its timer, composed with the bus   *)
(* (as Broadcast promises it), the timer server (a running timer may fire  *)
(* at any time, what TimerServer adds is when) and the handlers of the     *)
(* requests.  A handler may call m.Fetch, a FetchEx on the timer of the    *)
(* request it handles, which first runs a Fetch of its own for             *)
(* "timer"/"init-hard".  The two are frames of kind "call" and "hard".     *)
(*                                                                         *)
(* The ids of messages are names here: a frame sends one request, and at   *)
(* most one "init", so both ids are named after the frame.  A client       *)
(* subscribes to whole topics and its loop skips what is not for it; such  *)
(* a message is dropped when it is dispatched.  So are the responses to    *)
(* "init" and "trigger", which nobody waits for.                           *)
(***************************************************************************)
EXTENDS FiniteSets, Integers, Sequences

CONSTANTS
  Calls,        \* the calls of FetchEx, each made at most once
  NoCall,
  Parent,       \* the call whose handler makes this one with m.Fetch, or NoCall
  MaxAnswers,   \* bound: responses to one request (several signers may answer)
  LimitsInOrder \* BusTimeout <= BusHardTimeout, as in the default configuration

ASSUME NoCallAssumption == NoCall \notin Calls
ASSUME ParentAssumption == Parent \in [Calls -> Calls \cup {NoCall}]
ASSUME MaxAnswersAssumption == MaxAnswers \in Nat
ASSUME LimitsAssumption == LimitsInOrder \in BOOLEAN

Frames == [call : Calls, kind : {"call", "hard"}]
CallOf(c) == [call |-> c, kind |-> "call"]
HardOf(c) == [call |-> c, kind |-> "hard"]

Chained(c) == Parent[c] # NoCall
OnChain(f) == f.kind = "call" /\ Chained(f.call)

\* "of" names the request (request, init-hard, response) or the timer (init,
\* trigger, done) the message is about.
Msg == [type : {"init", "init-hard", "trigger", "done", "request", "response"},
        of : Frames, err : BOOLEAN]

VARIABLES
  queue,     \* messages sent and not yet dispatched
  inbox,     \* per frame: what its channel holds for it
  requests,  \* what the channel of ProcessTimers holds for it
  timers,    \* "absent" (never made), "running" or "fired"
  pc,        \* where each frame is in FetchEx
  timer,     \* its timer_id
  outcome,   \* what it returned
  handler,   \* the request of a call is "unseen" or "running"
  answers,   \* how many responses were sent to it
  triggered  \* the timer of a call was triggered from the user interface

vars == <<queue, inbox, requests, timers, pc, timer, outcome, handler, answers,
          triggered>>

-----------------------------------------------------------------------------
Message(type, of) == [type |-> type, of |-> of, err |-> FALSE]

Publish(m) == queue' = Append(queue, m)

Active(f) == pc[f] \in {"joined", "armed", "waiting"}

\* Variant: the channel is made only after the request has been sent.
HeedsLate(f, m) ==
  /\ pc[f] = "waiting"
  /\ \/ m.type = "response" /\ m.of = f
     \/ m.type = "done" /\ m.of = timer[f]

\* Variant: a response is taken without a look at its RespondTo.
HeedsAnyResponse(f, m) ==
  /\ Active(f)
  /\ \/ m.type = "response"
     \/ m.type = "done" /\ m.of = timer[f]

\* The channel of f exists and its loop does not skip m.
Heeds(f, m) ==
  /\ Active(f)
  /\ \/ m.type = "response" /\ m.of = f
     \/ m.type = "done" /\ m.of = timer[f]

Init ==
  /\ queue = <<>>
  /\ inbox = [f \in Frames |-> <<>>]
  /\ requests = <<>>
  /\ timers = [f \in Frames |-> "absent"]
  /\ pc = [f \in Frames |-> "idle"]
  /\ timer = [f \in Frames |-> f]
  /\ outcome = [f \in Frames |-> "none"]
  /\ handler = [c \in Calls |-> "unseen"]
  /\ answers = [c \in Calls |-> 0]
  /\ triggered = [c \in Calls |-> FALSE]

\* No call made by the handler of c is under way.
Unoccupied(c) == \A d \in Calls : Parent[d] = c => ~Active(CallOf(d))

\* Subscribe.  A chained call is made by a handler that has not answered yet.
Subscribe(c) ==
  LET f == CallOf(c)
  IN  /\ pc[f] = "idle"
      /\ Chained(c) => /\ handler[Parent[c]] = "running"
                       /\ answers[Parent[c]] = 0
                       /\ Unoccupied(Parent[c])
      /\ pc' = [pc EXCEPT ![f] = "joined"]
      /\ timer' = [timer EXCEPT ![f] = IF Chained(c) THEN timer[CallOf(Parent[c])]
                                       ELSE f]
      /\ UNCHANGED <<queue, inbox, requests, timers, outcome, handler, answers,
                     triggered>>

\* The Subscribe of the nested Fetch("timer", "init-hard").
SubscribeHard(c) ==
  /\ Chained(c)
  /\ pc[CallOf(c)] = "joined"
  /\ pc[HardOf(c)] = "idle"
  /\ pc' = [pc EXCEPT ![HardOf(c)] = "joined"]
  /\ UNCHANGED <<queue, inbox, requests, timers, timer, outcome, handler, answers,
                 triggered>>

\* Variant: the timer is not made.
SendInitNot(f) ==
  /\ pc[f] = "joined"
  /\ ~OnChain(f)
  /\ pc' = [pc EXCEPT ![f] = "armed"]
  /\ UNCHANGED <<queue, inbox, requests, timers, timer, outcome, handler, answers,
                 triggered>>

\* timer_id == 0: the frame makes a timer; the answer to "init" is not awaited.
SendInit(f) ==
  /\ pc[f] = "joined"
  /\ ~OnChain(f)
  /\ Publish(Message("init", f))
  /\ pc' = [pc EXCEPT ![f] = "armed"]
  /\ UNCHANGED <<inbox, requests, timers, timer, outcome, handler, answers,
                 triggered>>

\* timer_id # 0: the nested Fetch has returned; its error is returned as it is.
EndInitHard(c) ==
  /\ Chained(c)
  /\ pc[CallOf(c)] = "joined"
  /\ pc[HardOf(c)] = "returned"
  /\ IF outcome[HardOf(c)] = "reply"
     THEN /\ pc' = [pc EXCEPT ![CallOf(c)] = "armed"]
          /\ UNCHANGED <<outcome, inbox>>
     ELSE /\ pc' = [pc EXCEPT ![CallOf(c)] = "returned"]
          /\ outcome' = [outcome EXCEPT ![CallOf(c)] = "refused"]
          /\ inbox' = [inbox EXCEPT ![CallOf(c)] = <<>>]
  /\ UNCHANGED <<queue, requests, timers, timer, handler, answers, triggered>>

SendRequest(f) ==
  /\ pc[f] = "armed"
  /\ Publish(Message(IF f.kind = "hard" THEN "init-hard" ELSE "request", f))
  /\ pc' = [pc EXCEPT ![f] = "waiting"]
  /\ UNCHANGED <<inbox, requests, timers, timer, outcome, handler, answers,
                 triggered>>

\* The loop over the channel, and the deferred Unsubscribe.
Receive(f) ==
  /\ pc[f] = "waiting"
  /\ inbox[f] # <<>>
  /\ LET m == Head(inbox[f])
     IN  outcome' = [outcome EXCEPT ![f] = IF m.type = "done" THEN "timeout"
                                           ELSE IF m.err THEN "error" ELSE "reply"]
  /\ pc' = [pc EXCEPT ![f] = "returned"]
  /\ inbox' = [inbox EXCEPT ![f] = <<>>]
  /\ UNCHANGED <<queue, requests, timers, timer, handler, answers, triggered>>

\* A handler responds, at the end of what it does; it may also never respond.
Respond(c) ==
  /\ handler[c] = "running"
  /\ Unoccupied(c)
  /\ answers[c] < MaxAnswers
  /\ \E err \in BOOLEAN :
       Publish([type |-> "response", of |-> CallOf(c), err |-> err])
  /\ answers' = [answers EXCEPT ![c] = @ + 1]
  /\ UNCHANGED <<inbox, requests, timers, pc, timer, outcome, handler, triggered>>

\* The Cancel button of a request that is being handled, pressed once.
Trigger(c) ==
  /\ handler[c] = "running"
  /\ ~triggered[c]
  /\ Publish(Message("trigger", timer[CallOf(c)]))
  /\ triggered' = [triggered EXCEPT ![c] = TRUE]
  /\ UNCHANGED <<inbox, requests, timers, pc, timer, outcome, handler, answers>>

\* Variant: the timer server takes its last request first.
DispatchLifo ==
  /\ queue # <<>>
  /\ LET m == Head(queue)
     IN  /\ inbox' = [f \in Frames |-> IF Heeds(f, m) THEN Append(inbox[f], m)
                                       ELSE inbox[f]]
         /\ requests' = IF m.type \in {"init", "init-hard", "trigger"}
                        THEN <<m>> \o requests ELSE requests
         /\ handler' = IF m.type = "request"
                       THEN [handler EXCEPT ![m.of.call] = "running"] ELSE handler
  /\ queue' = Tail(queue)
  /\ UNCHANGED <<timers, pc, timer, outcome, answers, triggered>>

Dispatch ==
  /\ queue # <<>>
  /\ LET m == Head(queue)
     IN  /\ inbox' = [f \in Frames |-> IF Heeds(f, m) THEN Append(inbox[f], m)
                                       ELSE inbox[f]]
         /\ requests' = IF m.type \in {"init", "init-hard", "trigger"}
                        THEN Append(requests, m) ELSE requests
         /\ handler' = IF m.type = "request"
                       THEN [handler EXCEPT ![m.of.call] = "running"] ELSE handler
  /\ queue' = Tail(queue)
  /\ UNCHANGED <<timers, pc, timer, outcome, answers, triggered>>

-----------------------------------------------------------------------------
\* ProcessTimers, one action per request it serves.
Served(type) == requests # <<>> /\ Head(requests).type = type

ServeInit ==
  /\ Served("init")
  /\ timers' = [timers EXCEPT ![Head(requests).of] =
                  IF LimitsInOrder THEN "running" ELSE @]
  /\ requests' = Tail(requests)
  /\ UNCHANGED <<queue, inbox, pc, timer, outcome, handler, answers, triggered>>

\* The timer to re-arm is that of the call the nested Fetch is made for.
ServeInitHard ==
  /\ Served("init-hard")
  /\ LET h == Head(requests).of
     IN  Publish([type |-> "response", of |-> h,
                  err |-> timers[timer[CallOf(h.call)]] # "running"])
  /\ requests' = Tail(requests)
  /\ UNCHANGED <<inbox, timers, pc, timer, outcome, handler, answers, triggered>>

Fire(t) ==
  /\ timers[t] = "running"
  /\ timers' = [timers EXCEPT ![t] = "fired"]
  /\ Publish(Message("done", t))

\* Variant: the timer goes without a "done".
ServeTriggerSilent ==
  /\ Served("trigger")
  /\ timers' = [timers EXCEPT ![Head(requests).of] = "fired"]
  /\ requests' = Tail(requests)
  /\ UNCHANGED <<queue, inbox, pc, timer, outcome, handler, answers, triggered>>

ServeTrigger ==
  /\ Served("trigger")
  /\ \/ Fire(Head(requests).of)
     \/ timers[Head(requests).of] # "running" /\ UNCHANGED <<timers, queue>>
  /\ requests' = Tail(requests)
  /\ UNCHANGED <<inbox, pc, timer, outcome, handler, answers, triggered>>

\* The limit of a running timer is reached.
Expire(t) ==
  /\ Fire(t)
  /\ UNCHANGED <<inbox, requests, pc, timer, outcome, handler, answers, triggered>>

-----------------------------------------------------------------------------
Frame(f) == SendInit(f) \/ SendRequest(f) \/ Receive(f)
Chain(c) == SubscribeHard(c) \/ EndInitHard(c)
TimerServer == ServeInit \/ ServeInitHard \/ ServeTrigger

Next ==
  \/ \E c \in Calls : Subscribe(c) \/ Chain(c) \/ Respond(c) \/ Trigger(c)
  \/ \E f \in Frames : Frame(f) \/ Expire(f)
  \/ Dispatch
  \/ TimerServer

Spec == Init /\ [][Next]_vars

\* The goroutines of the bus, of the timer server and of a call under way keep
\* running.  Handlers owe nothing, and nobody owes a trigger.
Running ==
  /\ WF_vars(Dispatch) /\ WF_vars(TimerServer)
  /\ \A f \in Frames : WF_vars(Frame(f))
  /\ \A c \in Calls : WF_vars(Chain(c))

FairSpec == Spec /\ Running

-----------------------------------------------------------------------------
Outcomes == {"none", "reply", "error", "timeout", "refused"}

TypeOK ==
  /\ queue \in Seq(Msg)
  /\ inbox \in [Frames -> Seq(Msg)]
  /\ requests \in Seq(Msg)
  /\ timers \in [Frames -> {"absent", "running", "fired"}]
  /\ pc \in [Frames -> {"idle", "joined", "armed", "waiting", "returned"}]
  /\ timer \in [Frames -> Frames]
  /\ outcome \in [Frames -> Outcomes]
  /\ handler \in [Calls -> {"unseen", "running"}]
  /\ answers \in [Calls -> 0..MaxAnswers]
  /\ triggered \in [Calls -> BOOLEAN]

In(s, m) == \E i \in 1..Len(s) : s[i] = m

\* Something is on its way that will end the wait of f: a message it heeds, or
\* its timer, running or about to be made.
Wakeable(f) ==
  \/ inbox[f] # <<>>
  \/ \E i \in 1..Len(queue) : Heeds(f, queue[i])
  \/ timers[timer[f]] = "running"
  \/ In(queue, Message("init", timer[f]))
  \/ In(requests, Message("init", timer[f]))

\* No wake-up is lost: however the timer, the response, the subscription and
\* the re-arming of the chain interleave, a call that waits can be woken.
NoLostWakeup ==
  LimitsInOrder => \A f \in Frames : pc[f] = "waiting" => Wakeable(f)

\* m.Fetch is turned down by the timer server only when the operation it
\* belongs to has already timed out or been cancelled.
RefusedOnlyWhenOver ==
  LimitsInOrder =>
    \A c \in Calls : outcome[HardOf(c)] = "error" => timers[timer[CallOf(c)]] = "fired"

\* "trigger: to cancel all nested operations": every call on the timer returns,
\* even when no handler answers and no timer expires by itself.
CancelUnwinds ==
  \A c \in Calls :
    triggered[c] ~> \A f \in Frames :
                      Active(f) => timer[f] # timer[CallOf(c)]

\* FetchEx implements RequestReply.
R == INSTANCE RequestReply WITH
       status   <- [c \in Calls |-> IF pc[CallOf(c)] = "idle" THEN "idle"
                                    ELSE IF Active(CallOf(c)) THEN "active"
                                    ELSE outcome[CallOf(c)]],
       answered <- [c \in Calls |-> answers[c] > 0]

ImplementsRequestReply == R!RSpec

\* A running timer fires: what Settles of TimerServer shows for a timer that
\* is neither paused nor re-armed for ever.
TimersFire == \A t \in Frames : WF_vars(Expire(t))

\* Every call returns, though no handler owes it an answer.
EveryCallReturns == TimersFire => R!EveryCallReturns
=============================================================================
