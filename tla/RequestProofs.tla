----------------------------- MODULE RequestProofs -----------------------------
(***************************************************************************)
(* Who asks for something is woken, and whom one may hold up. First the    *)
(* requests over the bus, then those of the servers of the hardware        *)
(* wallets to the USB server and to the panes.                             *)
(*                                                                         *)
(* No wake-up of FetchEx is lost, for any calls, chained to any depth, and *)
(* any number of responses: whoever waits has something on its way.  A     *)
(* call that makes a timer hears it because it subscribes first; one that  *)
(* is chained to the timer of another because "init-hard" is answered      *)
(* without an error only while that timer still runs.                      *)
(***************************************************************************)
EXTENDS Fetch, Devices, SequenceLemmas, FiniteSetTheorems

Reply(f) == [type |-> "response", of |-> f, err |-> FALSE]

\* The timer of f is about to be made, runs, or has fired for f to hear of it; or f has
\* something to read.
Armed(f) ==
  \/ In(queue, Message("init", timer[f]))
  \/ In(requests, Message("init", timer[f]))
  \/ timers[timer[f]] = "running"
  \/ In(queue, Message("done", timer[f]))
  \/ inbox[f] # <<>>

\* "init-hard" has been answered for the timer of the chained call f.
Extended(f) ==
  /\ OnChain(f)
  /\ pc[f] = "joined"
  /\ LET h == HardOf(f.call)
     IN  outcome[h] = "reply" \/ In(queue, Reply(h)) \/ In(inbox[h], Reply(h))

Promised(f) == pc[f] \in {"armed", "waiting"} \/ Extended(f)

Alarmed == LimitsInOrder => \A f \in Frames : Promised(f) => Armed(f)

OwnTimer == \A f \in Frames : ~OnChain(f) => timer[f] = f

\* The nested Fetch of a call has left no trace before the call is made.
Fresh ==
  \A c \in Calls :
    pc[CallOf(c)] = "idle" =>
      /\ pc[HardOf(c)] = "idle"
      /\ outcome[HardOf(c)] = "none"
      /\ inbox[HardOf(c)] = <<>>
      /\ \A m \in Msg : m.of = HardOf(c) /\ m.type \in {"init-hard", "response"} =>
           ~In(queue, m) /\ ~In(requests, m)

\* A channel holds what its loop does not skip.
Heard ==
  \A f \in Frames, m \in Msg :
    In(inbox[f], m) => m.type = "done" \/ (m.type = "response" /\ m.of = f)

IInv == TypeOK /\ OwnTimer /\ Fresh /\ Heard /\ Alarmed

-----------------------------------------------------------------------------
\* What a sequence holds with one more element at its end.
LEMMA InAppend ==
  ASSUME NEW S, NEW s \in Seq(S), NEW e \in S
  PROVE  /\ Append(s, e) \in Seq(S)
         /\ Append(s, e) # <<>>
         /\ \A x : In(Append(s, e), x) <=> In(s, x) \/ x = e
<1>1. /\ Append(s, e) \in Seq(S) /\ Len(Append(s, e)) = Len(s) + 1 /\ Len(s) \in Nat
      /\ \A i \in 1..Len(s) : Append(s, e)[i] = s[i]
      /\ Append(s, e)[Len(s) + 1] = e
  OBVIOUS
<1>2. ASSUME NEW x, In(Append(s, e), x) PROVE In(s, x) \/ x = e
  <2>1. PICK i \in 1..(Len(s) + 1) : Append(s, e)[i] = x
    BY <1>1, <1>2 DEF In
  <2>2. QED
    BY <1>1, <2>1 DEF In
<1>3. ASSUME NEW x, In(s, x) \/ x = e PROVE In(Append(s, e), x)
  BY <1>1, <1>3 DEF In
<1>4. QED
  BY <1>1, <1>2, <1>3

\* What a sequence holds is its head and what its tail holds.
LEMMA InTail ==
  ASSUME NEW S, NEW s \in Seq(S), s # <<>>
  PROVE  /\ Tail(s) \in Seq(S) /\ Head(s) \in S
         /\ \A x : In(s, x) <=> x = Head(s) \/ In(Tail(s), x)
<1>1. /\ Tail(s) \in Seq(S) /\ Head(s) \in S /\ Head(s) = s[1]
      /\ Len(s) \in Nat /\ Len(s) > 0 /\ Len(Tail(s)) = Len(s) - 1
      /\ \A i \in 1..(Len(s) - 1) : Tail(s)[i] = s[i + 1]
  OBVIOUS
<1>2. ASSUME NEW x, In(s, x) PROVE x = Head(s) \/ In(Tail(s), x)
  <2>1. PICK i \in 1..Len(s) : s[i] = x
    BY <1>2 DEF In
  <2>2. CASE i # 1
    <3>1. i - 1 \in 1..(Len(s) - 1) /\ (i - 1) + 1 = i
      BY <1>1, <2>2
    <3>2. Tail(s)[i - 1] = x
      BY <1>1, <2>1, <3>1
    <3>3. QED
      BY <1>1, <3>1, <3>2 DEF In
  <2>3. QED
    BY <1>1, <2>1, <2>2
<1>3. ASSUME NEW x, x = Head(s) \/ In(Tail(s), x) PROVE In(s, x)
  <2>1. CASE x = Head(s)
    <3>1. 1 \in 1..Len(s)
      BY <1>1
    <3>2. QED
      BY <1>1, <2>1, <3>1 DEF In
  <2>2. CASE In(Tail(s), x)
    <3>1. PICK i \in 1..(Len(s) - 1) : Tail(s)[i] = x
      BY <1>1, <2>2 DEF In
    <3>2. i + 1 \in 1..Len(s)
      BY <1>1
    <3>3. QED
      BY <1>1, <3>1, <3>2 DEF In
  <2>3. QED
    BY <1>3, <2>1, <2>2
<1>4. QED
  BY <1>1, <1>2, <1>3

\* The frames of the calls.
LEMMA FrameFacts ==
  /\ \A c \in Calls : /\ CallOf(c) \in Frames /\ HardOf(c) \in Frames
                      /\ CallOf(c).call = c /\ HardOf(c).call = c
                      /\ OnChain(CallOf(c)) <=> Chained(c)
                      /\ ~OnChain(HardOf(c))
                      /\ Chained(c) => Parent[c] \in Calls
  /\ \A c, d \in Calls : /\ CallOf(c) # HardOf(d)
                         /\ CallOf(c) = CallOf(d) => c = d
                         /\ HardOf(c) = HardOf(d) => c = d
  /\ \A f \in Frames : /\ f.call \in Calls
                       /\ f = CallOf(f.call) \/ f = HardOf(f.call)
                       /\ OnChain(f) => f = CallOf(f.call)
                       /\ f.kind = "hard" <=> f = HardOf(f.call)
BY ParentAssumption DEF Frames, CallOf, HardOf, OnChain, Chained

\* The messages.
LEMMA MsgFacts ==
  /\ \A f \in Frames :
       /\ \A t \in {"init", "init-hard", "trigger", "done", "request", "response"} :
            /\ Message(t, f) \in Msg
            /\ Message(t, f).type = t /\ Message(t, f).of = f
       /\ Reply(f) \in Msg /\ Reply(f).type = "response" /\ Reply(f).of = f
       /\ \A e \in BOOLEAN : [type |-> "response", of |-> f, err |-> e] \in Msg
  /\ \A m \in Msg : /\ m.of \in Frames
                    /\ m.type = "response" /\ ~m.err => m = Reply(m.of)
BY DEF Msg, Message, Reply

\* Only the timer server's answer to "init-hard" is Reply of a hard frame.
LEMMA NotReply ==
  ASSUME NEW f \in Frames
  PROVE  /\ \A m \in Msg : m.type # "response" \/ m.of # f => m # Reply(f)
         /\ \A m \in Msg : m.type = "response" /\ m.err => m # Reply(f)
         /\ \E m \in Msg : m # Reply(f)
<1>1. /\ \A m \in Msg : m.type # "response" \/ m.of # f => m # Reply(f)
      /\ \A m \in Msg : m.type = "response" /\ m.err => m # Reply(f)
  BY DEF Reply
<1>2. Message("done", f) \in Msg /\ Message("done", f).type # "response"
  BY MsgFacts
<1>3. QED
  BY <1>1, <1>2

\* The state at the start.
LEMMA InitLemma == Init => IInv
<1> SUFFICES ASSUME Init PROVE IInv
  OBVIOUS
<1>1. TypeOK
  BY MaxAnswersAssumption DEF Init, TypeOK, Outcomes
<1>2. OwnTimer
  BY DEF Init, OwnTimer
<1>3. \A m : ~In(<<>>, m)
  BY DEF In
<1>4. Fresh /\ Heard
  BY <1>3, FrameFacts DEF Init, Fresh, Heard
<1>5. Alarmed
  BY FrameFacts DEF Init, Alarmed, Promised, Extended
<1>6. QED
  BY <1>1, <1>2, <1>4, <1>5 DEF IInv

\* What is left of a frame that a step does not touch: a message more in the queue, which
\* is not the answer to its "init-hard", wakes it as before.
LEMMA Untouched ==
  ASSUME TypeOK, NEW g \in Frames, Promised(g) => Armed(g),
         NEW m \in Msg, queue' = queue \/ queue' = Append(queue, m),
         m # Reply(HardOf(g.call)),
         UNCHANGED <<requests, timers>>,
         timer'[g] = timer[g], inbox'[g] = inbox[g], pc'[g] = pc[g],
         OnChain(g) => /\ outcome'[HardOf(g.call)] = outcome[HardOf(g.call)]
                       /\ inbox'[HardOf(g.call)] = inbox[HardOf(g.call)]
  PROVE  Promised(g)' => Armed(g)'
<1>1. /\ \A x : In(queue, x) => In(queue', x)
      /\ \A x : In(queue', x) => In(queue, x) \/ x = m
  <2>1. queue \in Seq(Msg)
    BY DEF TypeOK
  <2>2. \A x : In(Append(queue, m), x) <=> In(queue, x) \/ x = m
    BY <2>1, InAppend
  <2>3. QED
    BY <2>2
<1>2. Armed(g) => Armed(g)'
  BY <1>1 DEF Armed
<1>3. Promised(g)' => Promised(g)
  BY <1>1 DEF Promised, Extended
<1>4. QED
  BY <1>2, <1>3

\* Every step of a frame, of a handler, of the bus and of the timer server keeps the types.
LEMMA TypeLemma == IInv /\ [Next]_vars => TypeOK'
<1> SUFFICES ASSUME TypeOK, [Next]_vars PROVE TypeOK'
  BY DEF IInv
<1>0. \A m \in Msg : Append(queue, m) \in Seq(Msg) /\ Append(requests, m) \in Seq(Msg)
  BY DEF TypeOK
<1>1. CASE UNCHANGED vars
  BY <1>1 DEF vars, TypeOK
<1>2. ASSUME NEW c \in Calls, Subscribe(c) \/ Chain(c) PROVE TypeOK'
  <2>1. CASE Subscribe(c)
    <3>1. pc' \in [Frames -> {"idle", "joined", "armed", "waiting", "returned"}]
      BY <2>1, FrameFacts DEF Subscribe, TypeOK
    <3>2. timer' \in [Frames -> Frames]
      BY <2>1, FrameFacts DEF Subscribe, TypeOK
    <3>3. QED
      BY <2>1, <3>1, <3>2 DEF Subscribe, TypeOK
  <2>2. CASE SubscribeHard(c)
    BY <2>2, FrameFacts DEF SubscribeHard, TypeOK
  <2>3. CASE EndInitHard(c)
    <3>1. pc' \in [Frames -> {"idle", "joined", "armed", "waiting", "returned"}]
      BY <2>3, FrameFacts DEF EndInitHard, TypeOK
    <3>2. outcome' \in [Frames -> Outcomes]
      BY <2>3, FrameFacts DEF EndInitHard, TypeOK, Outcomes
    <3>3. inbox' \in [Frames -> Seq(Msg)]
      <4>1. /\ inbox \in [Frames -> Seq(Msg)] /\ <<>> \in Seq(Msg)
            /\ inbox' \in {inbox, [inbox EXCEPT ![CallOf(c)] = <<>>]}
        BY <2>3 DEF EndInitHard, TypeOK
      <4>2. QED
        BY <4>1
    <3>4. QED
      BY <2>3, <3>1, <3>2, <3>3 DEF EndInitHard, TypeOK
  <2>4. QED
    BY <1>2, <2>1, <2>2, <2>3 DEF Chain
<1>3. ASSUME NEW c \in Calls, Respond(c) PROVE TypeOK'
  <2>1. queue' \in Seq(Msg)
    BY <1>0, <1>3, FrameFacts, MsgFacts DEF Respond, Publish
  <2>2. answers' \in [Calls -> 0..MaxAnswers]
    BY <1>3, MaxAnswersAssumption DEF Respond, TypeOK
  <2>3. QED
    BY <1>3, <2>1, <2>2 DEF Respond, TypeOK
<1>4. ASSUME NEW c \in Calls, Trigger(c) PROVE TypeOK'
  <2>1. timer[CallOf(c)] \in Frames
    BY FrameFacts DEF TypeOK
  <2>2. queue' \in Seq(Msg)
    BY <1>0, <1>4, <2>1, MsgFacts DEF Trigger, Publish
  <2>3. QED
    BY <1>4, <2>2 DEF Trigger, TypeOK
<1>5. ASSUME NEW f \in Frames, SendInit(f) \/ SendRequest(f) PROVE TypeOK'
  <2>1. queue' \in Seq(Msg)
    <3>1. \E m \in Msg : Publish(m)
      BY <1>5, MsgFacts DEF SendInit, SendRequest
    <3>2. QED
      BY <1>0, <3>1 DEF Publish
  <2>2. pc' \in [Frames -> {"idle", "joined", "armed", "waiting", "returned"}]
    BY <1>5 DEF SendInit, SendRequest, TypeOK
  <2>3. QED
    BY <1>5, <2>1, <2>2 DEF SendInit, SendRequest, TypeOK
<1>6. ASSUME NEW f \in Frames, Receive(f) PROVE TypeOK'
  <2>1. pc' \in [Frames -> {"idle", "joined", "armed", "waiting", "returned"}]
    BY <1>6 DEF Receive, TypeOK
  <2>2. outcome' \in [Frames -> Outcomes]
    BY <1>6 DEF Receive, TypeOK, Outcomes
  <2>3. inbox' \in [Frames -> Seq(Msg)]
    BY <1>6 DEF Receive, TypeOK
  <2>4. QED
    BY <1>6, <2>1, <2>2, <2>3 DEF Receive, TypeOK
<1>7. CASE Dispatch
  <2>1. queue' \in Seq(Msg) /\ Head(queue) \in Msg
    BY <1>7, InTail DEF Dispatch, TypeOK
  <2>2. inbox' \in [Frames -> Seq(Msg)]
    BY <1>7, <2>1 DEF Dispatch, TypeOK
  <2>3. requests' \in Seq(Msg)
    BY <1>0, <1>7, <2>1 DEF Dispatch, TypeOK
  <2>4. handler' \in [Calls -> {"unseen", "running"}]
    BY <1>7 DEF Dispatch, TypeOK
  <2>5. QED
    BY <1>7, <2>1, <2>2, <2>3, <2>4 DEF Dispatch, TypeOK
<1>8. ASSUME NEW f \in Frames, Fire(f) PROVE queue' \in Seq(Msg)
  BY <1>0, <1>8, MsgFacts DEF Fire, Publish
<1>9. CASE TimerServer
  <2>1. requests' = Tail(requests) /\ requests # <<>>
    BY <1>9 DEF TimerServer, ServeInit, ServeInitHard, ServeTrigger, Served
  <2>2. requests' \in Seq(Msg) /\ Head(requests) \in Msg
    BY <2>1, InTail DEF TypeOK
  <2>3. Head(requests).of \in Frames
    BY <2>2, MsgFacts
  <2>4. queue' \in Seq(Msg)
    <3>1. CASE ServeInit
      BY <3>1 DEF ServeInit, TypeOK
    <3>2. CASE ServeInitHard
      BY <1>0, <2>3, <3>2, MsgFacts DEF ServeInitHard, Publish
    <3>3. CASE ServeTrigger
      BY <1>8, <2>3, <3>3 DEF ServeTrigger, TypeOK
    <3>4. QED
      BY <1>9, <3>1, <3>2, <3>3 DEF TimerServer
  <2>5. timers' \in [Frames -> {"absent", "running", "fired"}]
    BY <1>9, <2>3 DEF TimerServer, ServeInit, ServeInitHard, ServeTrigger, Fire, TypeOK
  <2>6. QED
    BY <1>9, <2>2, <2>4, <2>5 DEF TimerServer, ServeInit, ServeInitHard, ServeTrigger, TypeOK
<1>10. ASSUME NEW f \in Frames, Expire(f) PROVE TypeOK'
  <2>1. timers' \in [Frames -> {"absent", "running", "fired"}]
    BY <1>10 DEF Expire, Fire, TypeOK
  <2>2. QED
    BY <1>8, <1>10, <2>1 DEF Expire, TypeOK
<1>11. QED
  BY <1>1, <1>2, <1>3, <1>4, <1>5, <1>6, <1>7, <1>9, <1>10 DEF Next, Frame

\* Only a chained call takes the timer of another.
LEMMA OwnTimerLemma == IInv /\ [Next]_vars => OwnTimer'
<1> SUFFICES ASSUME IInv, [Next]_vars PROVE OwnTimer'
  OBVIOUS
<1>1. CASE timer' = timer
  BY <1>1 DEF IInv, OwnTimer
<1>2. ASSUME NEW c \in Calls, Subscribe(c) PROVE OwnTimer'
  <2>1. timer \in [Frames -> Frames] /\ CallOf(c) \in Frames /\ (~OnChain(CallOf(c)) => ~Chained(c))
    BY FrameFacts DEF IInv, TypeOK
  <2>2. QED
    BY <1>2, <2>1 DEF Subscribe, IInv, OwnTimer
<1>3. QED
  BY <1>1, <1>2 DEF Next, vars, Frame, Chain, TimerServer, SubscribeHard, EndInitHard, Respond,
     Trigger, SendInit, SendRequest, Receive, Expire, Dispatch, ServeInit, ServeInitHard,
     ServeTrigger

\* Only Dispatch fills a channel, with what its frame heeds.
LEMMA HeardLemma == IInv /\ [Next]_vars => Heard'
<1> SUFFICES ASSUME IInv, [Next]_vars, NEW f \in Frames, NEW m \in Msg, In(inbox'[f], m)
             PROVE  m.type = "done" \/ (m.type = "response" /\ m.of = f)
  BY DEF Heard
<1>1. inbox \in [Frames -> Seq(Msg)]
  BY DEF IInv, TypeOK
<1>2. CASE In(inbox[f], m)
  BY <1>2 DEF IInv, Heard
<1>3. CASE inbox' = inbox
  BY <1>2, <1>3
<1>4. ASSUME NEW g \in Frames, inbox' = [inbox EXCEPT ![g] = <<>>] PROVE In(inbox[f], m)
  BY <1>1, <1>4 DEF In
<1>5. ASSUME NEW c \in Calls, EndInitHard(c) PROVE inbox' = inbox \/ In(inbox[f], m)
  <2>1. inbox' = inbox \/ inbox' = [inbox EXCEPT ![CallOf(c)] = <<>>]
    BY <1>5 DEF EndInitHard
  <2>2. QED
    BY <1>4, <2>1, FrameFacts
<1>6. ASSUME NEW g \in Frames, Receive(g) PROVE In(inbox[f], m)
  BY <1>4, <1>6 DEF Receive
<1>7. CASE Dispatch
  <2>1. queue # <<>> /\ queue \in Seq(Msg)
    BY <1>7 DEF Dispatch, IInv, TypeOK
  <2>2. PICK e \in Msg : e = Head(queue)
    BY <2>1, InTail
  <2>3. inbox'[f] = IF Heeds(f, e) THEN Append(inbox[f], e) ELSE inbox[f]
    BY <1>1, <1>7, <2>2 DEF Dispatch
  <2>4. CASE Heeds(f, e)
    <3>1. In(inbox[f], m) \/ m = e
      BY <1>1, <2>3, <2>4, InAppend
    <3>2. QED
      BY <1>2, <2>4, <3>1 DEF Heeds
  <2>5. QED
    BY <1>2, <2>3, <2>4
<1>8. QED
  BY <1>2, <1>3, <1>5, <1>6, <1>7 DEF Next, vars, Frame, Chain, TimerServer, Subscribe,
     SubscribeHard, Respond, Trigger, SendInit, SendRequest, Expire, ServeInit, ServeInitHard,
     ServeTrigger

\* What the queue and the requests hold of the nested Fetch of a call.
About(c, m) == m.of = HardOf(c) /\ m.type \in {"init-hard", "response"}

\* Nothing of a nested Fetch happens before its call is made.
LEMMA FreshLemma == IInv /\ [Next]_vars => Fresh'
<1> SUFFICES ASSUME IInv, [Next]_vars, NEW c \in Calls, pc'[CallOf(c)] = "idle"
             PROVE  /\ pc'[HardOf(c)] = "idle"
                    /\ outcome'[HardOf(c)] = "none"
                    /\ inbox'[HardOf(c)] = <<>>
                    /\ \A m \in Msg : About(c, m) => ~In(queue', m) /\ ~In(requests', m)
  BY DEF Fresh, About
<1> DEFINE h == HardOf(c)
           Quiet == pc'[h] = "idle" /\ outcome'[h] = "none" /\ inbox'[h] = <<>>
           Silent == \A m \in Msg : About(c, m) => ~In(queue', m) /\ ~In(requests', m)
<1>0. /\ queue \in Seq(Msg) /\ requests \in Seq(Msg) /\ inbox \in [Frames -> Seq(Msg)]
      /\ pc \in [Frames -> {"idle", "joined", "armed", "waiting", "returned"}]
      /\ outcome \in [Frames -> Outcomes] /\ timer \in [Frames -> Frames]
      /\ h \in Frames /\ CallOf(c) \in Frames
  BY FrameFacts DEF IInv, TypeOK
<1>1. pc[CallOf(c)] = "idle"
  <2>1. \/ pc' = pc
        \/ \E x \in Frames, v \in {"joined", "armed", "waiting", "returned"} :
             pc' = [pc EXCEPT ![x] = v]
    BY FrameFacts DEF Next, vars, Frame, Chain, TimerServer, Subscribe, SubscribeHard,
       EndInitHard, Respond, Trigger, SendInit, SendRequest, Receive, Expire, Dispatch,
       ServeInit, ServeInitHard, ServeTrigger
  <2>2. QED
    BY <1>0, <2>1
<1>2. /\ pc[h] = "idle" /\ outcome[h] = "none" /\ inbox[h] = <<>>
      /\ \A m \in Msg : About(c, m) => ~In(queue, m) /\ ~In(requests, m)
  BY <1>1 DEF IInv, Fresh, About
<1>3. ASSUME NEW e \in Msg, ~About(c, e), queue' = Append(queue, e), requests' = requests
      PROVE  Silent
  BY <1>0, <1>2, <1>3, InAppend
<1>4. CASE UNCHANGED vars
  BY <1>2, <1>4 DEF vars
<1>5. ASSUME NEW d \in Calls, Subscribe(d) \/ Chain(d) PROVE Quiet /\ Silent
  <2>1. CASE Subscribe(d)
    BY <1>0, <1>2, <2>1, FrameFacts DEF Subscribe
  <2>2. CASE SubscribeHard(d)
    <3>1. d # c
      BY <1>1, <2>2 DEF SubscribeHard
    <3>2. QED
      BY <1>0, <1>2, <2>2, <3>1, FrameFacts DEF SubscribeHard
  <2>3. CASE EndInitHard(d)
    <3>1. /\ CallOf(d) # h /\ \A g \in Frames \ {CallOf(d)} : UNCHANGED <<pc[g], outcome[g], inbox[g]>>
          /\ UNCHANGED <<queue, requests>>
      BY <1>0, <2>3, FrameFacts DEF EndInitHard
    <3>2. QED
      BY <1>0, <1>2, <3>1
  <2>4. QED
    BY <1>5, <2>1, <2>2, <2>3 DEF Chain
<1>6. ASSUME NEW d \in Calls, Respond(d) \/ Trigger(d) PROVE Quiet /\ Silent
  <2>1. UNCHANGED <<pc, outcome, inbox, requests>>
    BY <1>6 DEF Respond, Trigger
  <2>2. CASE Respond(d)
    <3>1. PICK e \in Msg : e.of = CallOf(d) /\ queue' = Append(queue, e)
      BY <2>2, FrameFacts, MsgFacts DEF Respond, Publish
    <3>2. ~About(c, e)
      BY <3>1, FrameFacts DEF About
    <3>3. QED
      BY <1>2, <1>3, <2>1, <3>1, <3>2
  <2>3. CASE Trigger(d)
    <3>1. PICK e \in Msg : e.type = "trigger" /\ queue' = Append(queue, e)
      BY <1>0, <2>3, FrameFacts, MsgFacts DEF Trigger, Publish
    <3>2. ~About(c, e)
      BY <3>1 DEF About
    <3>3. QED
      BY <1>2, <1>3, <2>1, <3>1, <3>2
  <2>4. QED
    BY <1>6, <2>2, <2>3
<1>7. ASSUME NEW f \in Frames, Frame(f) PROVE Quiet /\ Silent
  <2>1. f # h
    BY <1>2, <1>7 DEF Frame, SendInit, SendRequest, Receive
  <2>2. /\ pc'[h] = pc[h] /\ outcome'[h] = outcome[h] /\ inbox'[h] = inbox[h]
        /\ requests' = requests
    BY <1>0, <1>7, <2>1 DEF Frame, SendInit, SendRequest, Receive
  <2>3. CASE SendInit(f) \/ SendRequest(f)
    <3>1. PICK e \in Msg : e.of = f /\ queue' = Append(queue, e)
      <4>1. CASE SendInit(f)
        BY <4>1, MsgFacts DEF SendInit, Publish
      <4>2. CASE SendRequest(f)
        BY <4>2, MsgFacts DEF SendRequest, Publish
      <4>3. QED
        BY <2>3, <4>1, <4>2
    <3>2. ~About(c, e)
      BY <2>1, <3>1 DEF About
    <3>3. QED
      BY <1>2, <1>3, <2>2, <3>1, <3>2
  <2>4. CASE Receive(f)
    BY <1>2, <2>2, <2>4 DEF Receive
  <2>5. QED
    BY <1>7, <2>3, <2>4 DEF Frame
<1>8. CASE Dispatch
  <2>1. queue # <<>> /\ queue' = Tail(queue) /\ UNCHANGED <<pc, outcome>>
    BY <1>8 DEF Dispatch
  <2>2. PICK e \in Msg : e = Head(queue)
    BY <1>0, <2>1, InTail
  <2>3. \A x : In(queue, x) <=> x = e \/ In(queue', x)
    BY <1>0, <2>1, <2>2, InTail
  <2>4. ~Heeds(h, e)
    BY <1>2 DEF Heeds, Active
  <2>5. inbox'[h] = inbox[h]
    BY <1>0, <1>8, <2>2, <2>4 DEF Dispatch
  <2>6. requests' = requests \/ requests' = Append(requests, e)
    BY <1>8, <2>2 DEF Dispatch
  <2>7. \A x : In(requests', x) => In(requests, x) \/ x = e
    BY <1>0, <2>6, InAppend
  <2>8. QED
    BY <1>2, <2>1, <2>3, <2>5, <2>7
<1>9. ASSUME NEW f \in Frames, Fire(f), requests' = requests PROVE Silent
  BY <1>3, <1>9, MsgFacts DEF Fire, Publish, About
<1>10. CASE TimerServer
  <2>1. requests # <<>> /\ requests' = Tail(requests) /\ UNCHANGED <<pc, outcome, inbox>>
    BY <1>10 DEF TimerServer, ServeInit, ServeInitHard, ServeTrigger, Served
  <2>2. PICK e \in Msg : e = Head(requests) /\ e.of \in Frames
    BY <1>0, <2>1, InTail, MsgFacts
  <2>3. \A x : In(requests, x) <=> x = e \/ In(requests', x)
    BY <1>0, <2>1, <2>2, InTail
  <2>4. queue' = queue \/ \E m \in Msg : ~About(c, m) /\ queue' = Append(queue, m)
    <3>1. CASE ServeInit
      BY <3>1 DEF ServeInit
    <3>2. CASE ServeInitHard
      <4>1. e.of # h
        BY <1>2, <2>2, <2>3, <3>2 DEF ServeInitHard, Served, About
      <4>2. PICK m \in Msg : m.of = e.of /\ queue' = Append(queue, m)
        BY <2>2, <3>2, MsgFacts DEF ServeInitHard, Publish
      <4>3. QED
        BY <4>1, <4>2 DEF About
    <3>3. CASE ServeTrigger
      BY <2>2, <3>3, MsgFacts DEF ServeTrigger, Fire, Publish, About
    <3>4. QED
      BY <1>10, <3>1, <3>2, <3>3 DEF TimerServer
  <2>5. \A m \in Msg : About(c, m) /\ In(queue', m) => In(queue, m)
    <3>1. ASSUME NEW e2 \in Msg, ~About(c, e2), queue' = Append(queue, e2),
                 NEW m \in Msg, About(c, m), In(queue', m)
          PROVE  In(queue, m)
      BY <1>0, <3>1, InAppend
    <3>2. QED
      BY <2>4, <3>1
  <2>6. QED
    BY <1>2, <2>1, <2>3, <2>5
<1>11. ASSUME NEW f \in Frames, Expire(f) PROVE Quiet /\ Silent
  BY <1>2, <1>9, <1>11 DEF Expire
<1>12. QED
  BY <1>2, <1>4, <1>5, <1>6, <1>7, <1>8, <1>10, <1>11 DEF Next, vars

\* Whoever is to be woken stays so, through every step.
LEMMA AlarmedLemma == IInv /\ [Next]_vars => Alarmed'
<1> SUFFICES ASSUME IInv, [Next]_vars, LimitsInOrder, NEW g \in Frames
             PROVE  Promised(g)' => Armed(g)'
  BY DEF Alarmed
<1> DEFINE h == HardOf(g.call)
           Done == Promised(g)' => Armed(g)'
<1>0. /\ queue \in Seq(Msg) /\ requests \in Seq(Msg) /\ inbox \in [Frames -> Seq(Msg)]
      /\ pc \in [Frames -> {"idle", "joined", "armed", "waiting", "returned"}]
      /\ outcome \in [Frames -> Outcomes] /\ timer \in [Frames -> Frames]
      /\ timers \in [Frames -> {"absent", "running", "fired"}]
      /\ h \in Frames /\ timer[g] \in Frames
  BY FrameFacts DEF IInv, TypeOK
<1>1. TypeOK /\ (Promised(g) => Armed(g))
  BY DEF IInv, Alarmed
<1> PICK n \in Msg : n # Reply(h)
  BY <1>0, NotReply
<1>2. CASE UNCHANGED vars
  BY <1>1, <1>2, Untouched DEF vars
<1>3. ASSUME NEW c \in Calls, Subscribe(c) PROVE Done
  <2>1. CASE g = CallOf(c)
    <3>1. /\ pc[g] = "idle" /\ pc'[g] = "joined" /\ g.call = c
          /\ UNCHANGED <<queue, inbox, outcome>>
      BY <1>0, <1>3, <2>1, FrameFacts DEF Subscribe
    <3>2. outcome[h] = "none" /\ inbox[h] = <<>> /\ ~In(queue, Reply(h))
      <4>1. Reply(h) \in Msg /\ Reply(h).of = h /\ Reply(h).type = "response"
        BY <1>0, MsgFacts
      <4>2. QED
        BY <2>1, <3>1, <4>1 DEF IInv, Fresh
    <3>3. ~In(inbox[h], Reply(h))
      BY <3>2 DEF In
    <3>4. QED
      BY <3>1, <3>2, <3>3 DEF Promised, Extended
  <2>2. CASE g # CallOf(c)
    <3>1. /\ pc'[g] = pc[g] /\ timer'[g] = timer[g]
          /\ UNCHANGED <<queue, inbox, requests, timers, outcome>>
      BY <1>0, <1>3, <2>2, FrameFacts DEF Subscribe
    <3>2. QED
      BY <1>1, <3>1, Untouched
  <2>3. QED
    BY <2>1, <2>2
<1>4. ASSUME NEW c \in Calls, SubscribeHard(c) PROVE Done
  <2>1. CASE g = HardOf(c)
    <3>1. pc'[g] = "joined" /\ ~OnChain(g)
      BY <1>0, <1>4, <2>1, FrameFacts DEF SubscribeHard
    <3>2. QED
      BY <3>1 DEF Promised, Extended
  <2>2. CASE g # HardOf(c)
    <3>1. /\ pc'[g] = pc[g]
          /\ UNCHANGED <<queue, inbox, requests, timers, outcome, timer>>
      BY <1>0, <1>4, <2>2, FrameFacts DEF SubscribeHard
    <3>2. QED
      BY <1>1, <3>1, Untouched
  <2>3. QED
    BY <2>1, <2>2
<1>5. ASSUME NEW f \in Frames, SendInit(f) PROVE Done
  <2>0. Message("init", f) \in Msg /\ Message("init", f) # Reply(h)
    BY <1>0, MsgFacts, NotReply
  <2>1. /\ queue' = Append(queue, Message("init", f))
        /\ UNCHANGED <<inbox, requests, timers, timer, outcome>>
        /\ pc[f] = "joined" /\ pc' = [pc EXCEPT ![f] = "armed"] /\ ~OnChain(f)
    BY <1>5 DEF SendInit, Publish
  <2>2. CASE g = f
    <3>1. timer'[g] = f
      BY <2>1, <2>2 DEF IInv, OwnTimer
    <3>2. In(queue', Message("init", f))
      BY <1>0, <2>0, <2>1, InAppend
    <3>3. QED
      BY <3>1, <3>2 DEF Armed
  <2>3. CASE g # f
    <3>1. pc'[g] = pc[g]
      BY <1>0, <2>1, <2>3
    <3>2. QED
      BY <1>1, <2>0, <2>1, <3>1, Untouched
  <2>4. QED
    BY <2>2, <2>3
<1>6. ASSUME NEW c \in Calls, EndInitHard(c) PROVE Done
  <2>1. UNCHANGED <<queue, requests, timers, timer>>
    BY <1>6 DEF EndInitHard
  <2>2. CASE g = CallOf(c)
    <3>1. CASE outcome[HardOf(c)] = "reply"
      <4>1. Promised(g) /\ inbox' = inbox
        BY <1>6, <2>2, <3>1, FrameFacts DEF EndInitHard, Promised, Extended
      <4>2. QED
        BY <1>1, <2>1, <4>1 DEF Armed
    <3>2. CASE outcome[HardOf(c)] # "reply"
      <4>1. pc'[g] = "returned"
        BY <1>0, <1>6, <2>2, <3>2 DEF EndInitHard
      <4>2. QED
        BY <4>1 DEF Promised, Extended
    <3>3. QED
      BY <3>1, <3>2
  <2>3. CASE g # CallOf(c)
    <3>1. /\ pc'[g] = pc[g] /\ inbox'[g] = inbox[g]
          /\ outcome'[h] = outcome[h] /\ inbox'[h] = inbox[h]
      BY <1>0, <1>6, <2>3, FrameFacts DEF EndInitHard
    <3>2. QED
      BY <1>1, <2>1, <3>1, Untouched
  <2>4. QED
    BY <2>2, <2>3
<1>7. ASSUME NEW f \in Frames, SendRequest(f) PROVE Done
  <2>1. PICK e \in Msg : e.type \in {"init-hard", "request"} /\ queue' = Append(queue, e)
    BY <1>7, MsgFacts DEF SendRequest, Publish
  <2>2. /\ UNCHANGED <<inbox, requests, timers, timer, outcome>>
        /\ pc[f] = "armed" /\ pc' = [pc EXCEPT ![f] = "waiting"]
    BY <1>7 DEF SendRequest
  <2>3. CASE g = f
    <3>1. Armed(g)
      BY <1>1, <2>2, <2>3 DEF Promised
    <3>2. \A x : In(queue, x) => In(queue', x)
      BY <1>0, <2>1, InAppend
    <3>3. QED
      BY <2>2, <3>1, <3>2 DEF Armed
  <2>4. CASE g # f
    <3>1. pc'[g] = pc[g] /\ e # Reply(h)
      BY <1>0, <2>1, <2>2, <2>4, NotReply
    <3>2. QED
      BY <1>1, <2>1, <2>2, <3>1, Untouched
  <2>5. QED
    BY <2>3, <2>4
<1>8. ASSUME NEW f \in Frames, Receive(f) PROVE Done
  <2>1. /\ UNCHANGED <<queue, requests, timers, timer>>
        /\ inbox[f] # <<>> /\ inbox' = [inbox EXCEPT ![f] = <<>>]
        /\ pc' = [pc EXCEPT ![f] = "returned"]
    BY <1>8 DEF Receive
  <2>2. CASE g = f
    <3>1. pc'[g] = "returned"
      BY <1>0, <2>1, <2>2
    <3>2. QED
      BY <3>1 DEF Promised, Extended
  <2>3. CASE g # f /\ f = h
    <3>1. pc'[g] = pc[g] /\ inbox'[g] = inbox[g] /\ inbox'[h] = <<>>
      BY <1>0, <2>1, <2>3
    <3>2. ASSUME outcome'[h] = "reply" PROVE In(inbox[h], Reply(h))
      <4>1. PICK m \in Msg : m = Head(inbox[h]) /\ In(inbox[h], m)
        BY <1>0, <2>1, <2>3, InTail
      <4>2. m.type # "done" /\ ~m.err
        BY <1>0, <1>8, <2>3, <3>2, <4>1 DEF Receive
      <4>3. m.type = "response" /\ m.of = h
        BY <1>0, <4>1, <4>2 DEF IInv, Heard
      <4>4. QED
        BY <4>1, <4>2, <4>3, MsgFacts
    <3>3. ~In(inbox'[h], Reply(h))
      BY <3>1 DEF In
    <3>4. Promised(g)' => Promised(g)
      BY <2>1, <3>1, <3>2, <3>3 DEF Promised, Extended
    <3>5. QED
      BY <1>1, <2>1, <3>1, <3>4 DEF Armed
  <2>4. CASE g # f /\ f # h
    <3>1. /\ pc'[g] = pc[g] /\ inbox'[g] = inbox[g]
          /\ outcome'[h] = outcome[h] /\ inbox'[h] = inbox[h]
      BY <1>0, <1>8, <2>1, <2>4 DEF Receive
    <3>2. QED
      BY <1>1, <2>1, <3>1, Untouched
  <2>5. QED
    BY <2>2, <2>3, <2>4
<1>9. ASSUME NEW c \in Calls, Respond(c) \/ Trigger(c) PROVE Done
  <2>1. UNCHANGED <<pc, outcome, inbox, requests, timers, timer>>
    BY <1>9 DEF Respond, Trigger
  <2>2. PICK e \in Msg : /\ queue' = Append(queue, e)
                         /\ e.type # "response" \/ e.of # h
    <3>1. CASE Respond(c)
      <4>1. PICK e \in BOOLEAN :
              queue' = Append(queue, [type |-> "response", of |-> CallOf(c), err |-> e])
        BY <3>1 DEF Respond, Publish
      <4>2. [type |-> "response", of |-> CallOf(c), err |-> e] \in Msg
        BY FrameFacts, MsgFacts
      <4>3. CallOf(c) # h
        BY FrameFacts
      <4>4. QED
        BY <4>1, <4>2, <4>3
    <3>2. CASE Trigger(c)
      <4>1. timer[CallOf(c)] \in Frames
        BY <1>0, FrameFacts
      <4>2. QED
        BY <3>2, <4>1, MsgFacts DEF Trigger, Publish
    <3>3. QED
      BY <1>9, <3>1, <3>2
  <2>3. e # Reply(h)
    BY <1>0, <2>2, NotReply
  <2>4. QED
    BY <1>1, <2>1, <2>2, <2>3, Untouched
<1>10. CASE Dispatch
  <2>1. queue # <<>> /\ queue' = Tail(queue) /\ UNCHANGED <<timers, pc, timer, outcome>>
    BY <1>10 DEF Dispatch
  <2>2. PICK e \in Msg : e = Head(queue)
    BY <1>0, <2>1, InTail
  <2>3. \A x : In(queue, x) <=> x = e \/ In(queue', x)
    BY <1>0, <2>1, <2>2, InTail
  <2>4. \A y \in Frames : inbox'[y] = IF Heeds(y, e) THEN Append(inbox[y], e) ELSE inbox[y]
    BY <1>0, <1>10, <2>2 DEF Dispatch
  <2>5. requests' = IF e.type \in {"init", "init-hard", "trigger"} THEN Append(requests, e)
                    ELSE requests
    BY <1>10, <2>2 DEF Dispatch
  <2>6. \A y \in Frames : /\ inbox[y] # <<>> => inbox'[y] # <<>>
                          /\ Heeds(y, e) => inbox'[y] # <<>>
                          /\ \A x : In(inbox'[y], x) => In(inbox[y], x) \/ x = e
    <3>1. ASSUME NEW y \in Frames
          PROVE  /\ inbox[y] # <<>> => inbox'[y] # <<>>
                 /\ Heeds(y, e) => inbox'[y] # <<>>
                 /\ \A x : In(inbox'[y], x) => In(inbox[y], x) \/ x = e
      <4>1. inbox[y] \in Seq(Msg)
        BY <1>0
      <4>2. QED
        BY <2>4, <4>1, InAppend
    <3>2. QED
      BY <3>1
  <2>7. /\ \A x : In(requests, x) => In(requests', x)
        /\ e.type = "init" => In(requests', e)
    BY <1>0, <2>5, InAppend
  <2>8. Promised(g)' => Promised(g)
    BY <1>0, <2>1, <2>3, <2>6 DEF Promised, Extended
  <2>9. ASSUME Promised(g), Armed(g) PROVE Armed(g)'
    <3>1. Active(g)
      BY <2>9 DEF Promised, Extended, Active
    <3>2. /\ Message("init", timer[g]).type = "init"
          /\ Message("done", timer[g]).type = "done" /\ Message("done", timer[g]).of = timer[g]
      BY <1>0, MsgFacts
    <3>3. CASE In(queue, Message("init", timer[g]))
      BY <2>1, <2>3, <2>7, <3>2, <3>3 DEF Armed
    <3>4. CASE In(queue, Message("done", timer[g]))
      <4>1. e = Message("done", timer[g]) => Heeds(g, e)
        BY <3>1, <3>2 DEF Heeds
      <4>2. QED
        BY <2>1, <2>3, <2>6, <3>4, <4>1 DEF Armed
    <3>5. CASE In(requests, Message("init", timer[g]))
      BY <2>1, <2>7, <3>5 DEF Armed
    <3>6. CASE timers[timer[g]] = "running" \/ inbox[g] # <<>>
      BY <2>1, <2>6, <3>6 DEF Armed
    <3>7. QED
      BY <2>9, <3>3, <3>4, <3>5, <3>6 DEF Armed
  <2>10. QED
    BY <1>1, <2>8, <2>9
<1>11. ASSUME NEW t \in Frames, Fire(t), UNCHANGED <<inbox, pc, timer, outcome>>,
              \A f \in Frames : In(requests, Message("init", f)) => In(requests', Message("init", f))
       PROVE  Done
  <2>1. /\ timers' = [timers EXCEPT ![t] = "fired"]
        /\ queue' = Append(queue, Message("done", t)) /\ Message("done", t) \in Msg
    BY <1>11, MsgFacts DEF Fire, Publish
  <2>2. Message("done", t) # Reply(h)
    BY <1>0, <2>1, MsgFacts, NotReply
  <2>3. \A x : In(queue', x) <=> In(queue, x) \/ x = Message("done", t)
    BY <1>0, <2>1, InAppend
  <2>4. Promised(g)' => Promised(g)
    BY <1>11, <2>2, <2>3 DEF Promised, Extended
  <2>5. timers'[timer[g]] = timers[timer[g]] \/ timer[g] = t
    BY <1>0, <2>1
  <2>6. QED
    BY <1>0, <1>1, <1>11, <2>3, <2>4, <2>5 DEF Armed
<1>12. CASE TimerServer
  <2>1. /\ requests # <<>> /\ requests' = Tail(requests)
        /\ UNCHANGED <<inbox, pc, timer, outcome>>
    BY <1>12 DEF TimerServer, ServeInit, ServeInitHard, ServeTrigger, Served
  <2>2. PICK e \in Msg : e = Head(requests) /\ e.of \in Frames
    BY <1>0, <2>1, InTail, MsgFacts
  <2>3. \A x : In(requests, x) <=> x = e \/ In(requests', x)
    BY <1>0, <2>1, <2>2, InTail
  <2>4. ASSUME e.type # "init", NEW f \in Frames, In(requests, Message("init", f))
        PROVE  In(requests', Message("init", f))
    BY <2>3, <2>4, MsgFacts
  <2>5. CASE ServeInit
    <3>1. queue' = queue /\ timers' = [timers EXCEPT ![e.of] = "running"]
      BY <2>2, <2>5 DEF ServeInit
    <3>2. Promised(g)' => Promised(g)
      BY <2>1, <3>1 DEF Promised, Extended
    <3>3. timers[timer[g]] = "running" => timers'[timer[g]] = "running"
      BY <1>0, <2>2, <3>1
    <3>4. e = Message("init", timer[g]) => timers'[timer[g]] = "running"
      <4>1. Message("init", timer[g]).of = timer[g]
        BY <1>0, MsgFacts
      <4>2. QED
        BY <1>0, <2>2, <3>1, <4>1
    <3>5. QED
      BY <1>1, <2>1, <2>3, <3>1, <3>2, <3>3, <3>4 DEF Armed
  <2>6. CASE ServeInitHard
    <3>1. e.type = "init-hard" /\ timers' = timers
      BY <2>2, <2>6 DEF ServeInitHard, Served
    <3>2. In(requests, Message("init", timer[g])) => In(requests', Message("init", timer[g]))
      BY <1>0, <2>4, <3>1
    <3>3. PICK r \in Msg :
            /\ queue' = Append(queue, r)
            /\ r.type = "response" /\ r.of = e.of
            /\ ~r.err => timers[timer[CallOf(e.of.call)]] = "running"
      <4> DEFINE err == timers[timer[CallOf(e.of.call)]] # "running"
                 r == [type |-> "response", of |-> e.of, err |-> err]
      <4>1. queue' = Append(queue, r)
        BY <2>2, <2>6 DEF ServeInitHard, Publish
      <4>2. r \in Msg
        BY <2>2, MsgFacts
      <4>3. r.type = "response" /\ r.of = e.of /\ r.err = err
        OBVIOUS
      <4>4. QED
        BY <4>1, <4>2, <4>3, Zenon
    <3>4. \A x : In(queue', x) <=> In(queue, x) \/ x = r
      BY <1>0, <3>3, InAppend
    <3>5. CASE r # Reply(h)
      <4>1. Promised(g)' => Promised(g)
        BY <2>1, <3>4, <3>5 DEF Promised, Extended
      <4>2. QED
        BY <1>1, <2>1, <3>1, <3>2, <3>4, <4>1 DEF Armed
    <3>6. CASE r = Reply(h)
      <4>1. e.of = h /\ ~r.err
        BY <3>3, <3>6 DEF Reply
      <4>2. timers[timer[CallOf(g.call)]] = "running"
        BY <3>3, <4>1, FrameFacts
      <4>3. Promised(g)' => Promised(g) \/ g = CallOf(g.call)
        BY <2>1, <3>4, FrameFacts DEF Promised, Extended
      <4>4. QED
        BY <1>1, <2>1, <3>1, <3>2, <3>4, <4>2, <4>3 DEF Armed
    <3>7. QED
      BY <3>5, <3>6
  <2>7. CASE ServeTrigger
    <3>1. e.type = "trigger"
      BY <2>2, <2>7 DEF ServeTrigger, Served
    <3>2. \A f \in Frames : In(requests, Message("init", f)) => In(requests', Message("init", f))
      BY <2>4, <3>1
    <3>3. CASE Fire(e.of)
      BY <1>11, <2>1, <2>2, <3>2, <3>3
    <3>4. CASE UNCHANGED <<timers, queue>>
      <4>1. Promised(g)' => Promised(g)
        BY <2>1, <3>4 DEF Promised, Extended
      <4>2. QED
        BY <1>0, <1>1, <2>1, <3>2, <3>4, <4>1 DEF Armed
    <3>5. QED
      BY <2>2, <2>7, <3>3, <3>4 DEF ServeTrigger
  <2>8. QED
    BY <1>12, <2>5, <2>6, <2>7 DEF TimerServer
<1>13. ASSUME NEW f \in Frames, Expire(f) PROVE Done
  BY <1>11, <1>13 DEF Expire
<1>14. QED
  BY <1>2, <1>3, <1>4, <1>5, <1>6, <1>7, <1>8, <1>9, <1>10, <1>12, <1>13
     DEF Next, Chain, Frame

\* Each step of a frame, of a handler, of the bus and of the timer server.
LEMMA StepLemma == IInv /\ [Next]_vars => IInv'
BY TypeLemma, OwnTimerLemma, FreshLemma, HeardLemma, AlarmedLemma DEF IInv

-----------------------------------------------------------------------------
\* The invariant of the calls in all its parts.
THEOREM FetchInvariant == Spec => []IInv
BY InitLemma, StepLemma, PTL DEF Spec

\* Types of the calls, of the queue and of the timers.
THEOREM TypeCorrect == Spec => []TypeOK
<1>1. IInv => TypeOK
  BY DEF IInv
<1>2. QED
  BY <1>1, FetchInvariant, PTL

\* A call of FetchEx in bus/bus.go that waits can be woken: its timer is about to be made or
\* runs, or a message it will not skip is on its way, also when it is chained to the timer
\* of another call that may fire or be triggered at any time.
THEOREM WakeUpsAreKept == Spec => []NoLostWakeup
<1>1. IInv => NoLostWakeup
  <2> SUFFICES ASSUME IInv, LimitsInOrder, NEW f \in Frames, pc[f] = "waiting"
               PROVE  Wakeable(f)
    BY DEF NoLostWakeup
  <2>1. Armed(f) /\ timer[f] \in Frames
    BY DEF IInv, TypeOK, Alarmed, Promised
  <2>2. CASE In(queue, Message("done", timer[f]))
    <3>1. PICK i \in 1..Len(queue) : queue[i] = Message("done", timer[f])
      BY <2>2 DEF In
    <3>2. Heeds(f, queue[i])
      BY <2>1, <3>1, MsgFacts DEF Heeds, Active
    <3>3. QED
      BY <3>1, <3>2 DEF Wakeable
  <2>3. CASE ~In(queue, Message("done", timer[f]))
    BY <2>1, <2>3 DEF Armed, Wakeable
  <2>4. QED
    BY <2>2, <2>3
<1>2. QED
  BY <1>1, FetchInvariant, PTL

-----------------------------------------------------------------------------
(***************************************************************************)
(* The refinement of RequestReply. It rests on where responses come from.  *)
(***************************************************************************)

\* Only an answer of the handler is a response to the request of a call.
Genuine(m) ==
  /\ m.type = "init-hard" => m.of.kind = "hard"
  /\ m.type = "response" /\ m.of.kind = "call" => answers[m.of.call] > 0
  /\ m.type = "request" => pc[CallOf(m.of.call)] # "idle"

Traced ==
  /\ \A m \in Msg : In(queue, m) \/ In(requests, m) => Genuine(m)
  /\ \A f \in Frames, m \in Msg : In(inbox[f], m) => Genuine(m)
  /\ \A c \in Calls : handler[c] = "running" => pc[CallOf(c)] # "idle"

\* A message stays what it was: calls do not begin again, and answers are not taken back.
LEMMA StaysGenuine == IInv /\ [Next]_vars => \A m \in Msg : Genuine(m) => Genuine(m)'
<1> SUFFICES ASSUME IInv, [Next]_vars, NEW m \in Msg, Genuine(m) PROVE Genuine(m)'
  OBVIOUS
<1>0. /\ pc \in [Frames -> {"idle", "joined", "armed", "waiting", "returned"}]
      /\ answers \in [Calls -> 0..MaxAnswers]
      /\ m.of \in Frames /\ m.of.call \in Calls /\ CallOf(m.of.call) \in Frames
  BY MsgFacts, FrameFacts DEF IInv, TypeOK
<1>1. \/ pc' = pc
      \/ \E x \in Frames, v \in {"joined", "armed", "waiting", "returned"} :
           pc' = [pc EXCEPT ![x] = v]
  BY FrameFacts DEF Next, vars, Frame, Chain, TimerServer, Subscribe, SubscribeHard,
     EndInitHard, Respond, Trigger, SendInit, SendRequest, Receive, Expire, Dispatch,
     ServeInit, ServeInitHard, ServeTrigger
<1>2. answers' = answers \/ \E c \in Calls : answers' = [answers EXCEPT ![c] = @ + 1]
  BY DEF Next, vars, Frame, Chain, TimerServer, Subscribe, SubscribeHard,
     EndInitHard, Respond, Trigger, SendInit, SendRequest, Receive, Expire, Dispatch,
     ServeInit, ServeInitHard, ServeTrigger
<1>3. answers[m.of.call] > 0 => answers'[m.of.call] > 0
  BY <1>0, <1>2, MaxAnswersAssumption
<1>4. pc[CallOf(m.of.call)] # "idle" => pc'[CallOf(m.of.call)] # "idle"
  BY <1>0, <1>1
<1>5. QED
  BY <1>3, <1>4 DEF Genuine

\* What is sent is genuine.
LEMMA SentGenuine ==
  IInv /\ Traced /\ [Next]_vars => \A m \in Msg : In(queue', m) => In(queue, m) \/ Genuine(m)'
<1> SUFFICES ASSUME IInv, Traced, [Next]_vars, NEW m \in Msg, In(queue', m)
             PROVE  In(queue, m) \/ Genuine(m)'
  OBVIOUS
<1>0. /\ queue \in Seq(Msg) /\ requests \in Seq(Msg) /\ timer \in [Frames -> Frames]
      /\ answers \in [Calls -> 0..MaxAnswers]
      /\ pc \in [Frames -> {"idle", "joined", "armed", "waiting", "returned"}]
  BY DEF IInv, TypeOK
<1>1. ASSUME NEW e \in Msg, queue' = Append(queue, e) PROVE In(queue, m) \/ m = e
  BY <1>0, <1>1, InAppend
<1>2. CASE queue' = queue
  BY <1>2
<1>3. ASSUME NEW c \in Calls, Respond(c) PROVE In(queue, m) \/ Genuine(m)'
  <2>1. PICK e \in BOOLEAN :
          queue' = Append(queue, [type |-> "response", of |-> CallOf(c), err |-> e])
    BY <1>3 DEF Respond, Publish
  <2>2. [type |-> "response", of |-> CallOf(c), err |-> e] \in Msg
    BY FrameFacts, MsgFacts
  <2>3. In(queue, m) \/ (m.type = "response" /\ m.of = CallOf(c))
    BY <1>1, <2>1, <2>2
  <2>4. answers'[c] > 0
    BY <1>0, <1>3, MaxAnswersAssumption DEF Respond
  <2>5. QED
    BY <2>3, <2>4, FrameFacts DEF Genuine
<1>4. ASSUME NEW t \in {"trigger", "done", "init"}, NEW f \in Frames, Publish(Message(t, f))
      PROVE  In(queue, m) \/ Genuine(m)'
  <2>1. In(queue, m) \/ m.type = t
    BY <1>1, <1>4, MsgFacts DEF Publish
  <2>2. QED
    BY <2>1 DEF Genuine
<1>5. ASSUME NEW f \in Frames, SendRequest(f) PROVE In(queue, m) \/ Genuine(m)'
  <2>1. In(queue, m) \/ /\ m.of = f
                        /\ m.type = IF f.kind = "hard" THEN "init-hard" ELSE "request"
    BY <1>1, <1>5, MsgFacts DEF SendRequest, Publish
  <2>2. f.kind # "hard" => pc'[CallOf(f.call)] # "idle"
    BY <1>0, <1>5, FrameFacts DEF SendRequest
  <2>3. QED
    BY <2>1, <2>2 DEF Genuine
<1>6. CASE Dispatch
  <2>1. queue # <<>> /\ queue' = Tail(queue)
    BY <1>6 DEF Dispatch
  <2>2. QED
    BY <1>0, <2>1, InTail
<1>7. CASE ServeInitHard
  <2>1. requests # <<>> /\ Head(requests).type = "init-hard"
    BY <1>7 DEF ServeInitHard, Served
  <2>2. Head(requests) \in Msg /\ In(requests, Head(requests))
    BY <1>0, <2>1, InTail
  <2>3. Head(requests).of.kind = "hard" /\ Head(requests).of \in Frames
    BY <2>1, <2>2, MsgFacts DEF Traced, Genuine
  <2>4. In(queue, m) \/ (m.type = "response" /\ m.of = Head(requests).of)
    <3>1. PICK e \in BOOLEAN :
            queue' = Append(queue, [type |-> "response", of |-> Head(requests).of, err |-> e])
      BY <1>7 DEF ServeInitHard, Publish
    <3>2. [type |-> "response", of |-> Head(requests).of, err |-> e] \in Msg
      BY <2>3, MsgFacts
    <3>3. QED
      BY <1>1, <3>1, <3>2
  <2>5. QED
    BY <2>3, <2>4 DEF Genuine
<1>8. ASSUME NEW c \in Calls, Trigger(c) PROVE In(queue, m) \/ Genuine(m)'
  <2>1. timer[CallOf(c)] \in Frames /\ Publish(Message("trigger", timer[CallOf(c)]))
    BY <1>0, <1>8, FrameFacts DEF Trigger
  <2>2. QED
    BY <1>4, <2>1
<1>9. CASE ServeTrigger
  <2>1. requests # <<>> /\ (Fire(Head(requests).of) \/ queue' = queue)
    BY <1>9 DEF ServeTrigger, Served
  <2>2. Head(requests).of \in Frames
    BY <1>0, <2>1, InTail, MsgFacts
  <2>3. QED
    BY <1>2, <1>4, <2>1, <2>2 DEF Fire
<1>10. ASSUME NEW f \in Frames, SendInit(f) \/ Expire(f) PROVE In(queue, m) \/ Genuine(m)'
  BY <1>4, <1>10 DEF SendInit, Expire, Fire
<1>11. QED
  BY <1>2, <1>3, <1>5, <1>6, <1>7, <1>8, <1>9, <1>10
     DEF Next, vars, Frame, Chain, TimerServer, Subscribe, SubscribeHard, EndInitHard, Receive,
         ServeInit

\* Only the bus fills a channel and starts a handler, with what is in its queue.
LEMMA FromQueue ==
  IInv /\ [Next]_vars =>
    /\ \A m \in Msg : In(requests', m) => In(requests, m) \/ In(queue, m)
    /\ \A f \in Frames, m \in Msg : In(inbox'[f], m) => In(inbox[f], m) \/ In(queue, m)
    /\ \A c \in Calls :
         handler'[c] = "running" =>
           \/ handler[c] = "running"
           \/ \E m \in Msg : In(queue, m) /\ m.type = "request" /\ m.of.call = c
<1> SUFFICES ASSUME IInv, [Next]_vars
             PROVE  /\ \A m \in Msg : In(requests', m) => In(requests, m) \/ In(queue, m)
                    /\ \A f \in Frames, m \in Msg :
                         In(inbox'[f], m) => In(inbox[f], m) \/ In(queue, m)
                    /\ \A c \in Calls :
                         handler'[c] = "running" =>
                           \/ handler[c] = "running"
                           \/ \E m \in Msg : /\ In(queue, m) /\ m.type = "request"
                                             /\ m.of.call = c
  OBVIOUS
<1>0. /\ queue \in Seq(Msg) /\ requests \in Seq(Msg) /\ inbox \in [Frames -> Seq(Msg)]
      /\ handler \in [Calls -> {"unseen", "running"}]
  BY DEF IInv, TypeOK
<1>1. CASE Dispatch
  <2>1. queue # <<>>
    BY <1>1 DEF Dispatch
  <2>2. PICK e \in Msg : e = Head(queue) /\ In(queue, e)
    BY <1>0, <2>1, InTail
  <2>3. requests' = requests \/ requests' = Append(requests, e)
    BY <1>1, <2>2 DEF Dispatch
  <2>4. \A m : In(requests', m) => In(requests, m) \/ m = e
    BY <1>0, <2>3, InAppend
  <2>5. \A f \in Frames : inbox'[f] = inbox[f] \/ inbox'[f] = Append(inbox[f], e)
    BY <1>0, <1>1, <2>2 DEF Dispatch
  <2>6. ASSUME NEW f \in Frames, NEW m \in Msg, In(inbox'[f], m)
        PROVE  In(inbox[f], m) \/ m = e
    <3>1. inbox[f] \in Seq(Msg)
      BY <1>0
    <3>2. QED
      BY <2>5, <2>6, <3>1, InAppend
  <2>7. ASSUME NEW c \in Calls, handler'[c] = "running", handler[c] # "running"
        PROVE  e.type = "request" /\ e.of.call = c
    BY <1>0, <1>1, <2>2, <2>7 DEF Dispatch
  <2>8. QED
    BY <2>2, <2>4, <2>6, <2>7
<1>2. ASSUME ~Dispatch PROVE handler' = handler
  BY <1>2 DEF Next, vars, Frame, Chain, TimerServer, Subscribe, SubscribeHard,
     EndInitHard, Respond, Trigger, SendInit, SendRequest, Receive, Expire,
     ServeInit, ServeInitHard, ServeTrigger
<1>3. ASSUME ~Dispatch PROVE requests' = requests \/ (requests # <<>> /\ requests' = Tail(requests))
  BY <1>3 DEF Next, vars, Frame, Chain, TimerServer, Subscribe, SubscribeHard,
     EndInitHard, Respond, Trigger, SendInit, SendRequest, Receive, Expire,
     ServeInit, ServeInitHard, ServeTrigger, Served
<1>4. ASSUME ~Dispatch
      PROVE  inbox' = inbox \/ \E g \in Frames : inbox' = [inbox EXCEPT ![g] = <<>>]
  BY <1>4, FrameFacts DEF Next, vars, Frame, Chain, TimerServer, Subscribe, SubscribeHard,
     EndInitHard, Respond, Trigger, SendInit, SendRequest, Receive, Expire,
     ServeInit, ServeInitHard, ServeTrigger
<1>5. ASSUME ~Dispatch, NEW m \in Msg, In(requests', m) PROVE In(requests, m)
  BY <1>0, <1>3, <1>5, InTail
<1>6. ASSUME ~Dispatch, NEW f \in Frames, NEW m \in Msg, In(inbox'[f], m) PROVE In(inbox[f], m)
  <2>1. inbox'[f] = inbox[f] \/ inbox'[f] = <<>>
    BY <1>0, <1>4, <1>6
  <2>2. QED
    BY <1>6, <2>1 DEF In
<1>7. QED
  BY <1>1, <1>2, <1>5, <1>6

\* Whatever is on its way stays genuine.
LEMMA TracedStep == IInv /\ Traced /\ [Next]_vars => Traced'
<1> SUFFICES ASSUME IInv, Traced, [Next]_vars PROVE Traced'
  OBVIOUS
<1>1. \A m \in Msg : In(queue, m) \/ In(requests, m) => Genuine(m)'
  BY StaysGenuine DEF Traced
<1>2. ASSUME NEW m \in Msg, In(queue', m) \/ In(requests', m) PROVE Genuine(m)'
  BY <1>1, <1>2, SentGenuine, FromQueue
<1>3. ASSUME NEW f \in Frames, NEW m \in Msg, In(inbox'[f], m) PROVE Genuine(m)'
  BY <1>1, <1>3, StaysGenuine, FromQueue DEF Traced
<1>4. ASSUME NEW c \in Calls, handler'[c] = "running" PROVE pc'[CallOf(c)] # "idle"
  <2>1. CASE handler[c] = "running"
    <3>1. PICK m \in Msg : m = Message("request", CallOf(c)) /\ m.type = "request" /\ m.of.call = c
      BY FrameFacts, MsgFacts
    <3>2. m.of.kind # "hard" /\ Genuine(m)
      BY <2>1, <3>1, FrameFacts, MsgFacts DEF Genuine, Traced, Message
    <3>3. QED
      BY <3>1, <3>2, StaysGenuine DEF Genuine
  <2>2. CASE handler[c] # "running"
    <3>1. PICK m \in Msg : In(queue, m) /\ m.type = "request" /\ m.of.call = c
      BY <1>4, <2>2, FromQueue
    <3>2. QED
      BY <1>1, <3>1 DEF Genuine
  <2>3. QED
    BY <2>1, <2>2
<1>5. QED
  BY <1>2, <1>3, <1>4 DEF Traced

\* Nothing is on its way at the start.
LEMMA TracedInit == Init => Traced
BY DEF Init, Traced, In

\* Every message in the system is one that somebody had reason to send.
THEOREM MessagesAreGenuine == Spec => []Traced
BY TracedInit, TracedStep, FetchInvariant, PTL DEF Spec

\* The values of RequestReply that the state stands for.
StatusOf(c) == IF pc[CallOf(c)] = "idle" THEN "idle"
               ELSE IF Active(CallOf(c)) THEN "active"
               ELSE outcome[CallOf(c)]
Status == [c \in Calls |-> StatusOf(c)]
Answered == [c \in Calls |-> answers[c] > 0]

Same == \A c \in Calls : StatusOf(c)' = StatusOf(c) /\ answers'[c] = answers[c]

\* The actions of RequestReply, of the state that a state of the calls stands for.
LEMMA Mapping ==
  /\ R!RInit <=> /\ Status = [c \in Calls |-> "idle"]
                 /\ Answered = [c \in Calls |-> FALSE]
  /\ UNCHANGED <<Status, Answered>> => R!rvars' = R!rvars
  /\ \A c \in Calls :
       /\ R!Issue(c) <=> /\ Status[c] = "idle"
                         /\ Status' = [Status EXCEPT ![c] = "active"]
                         /\ UNCHANGED Answered
       /\ R!Answer(c) <=> /\ Status[c] # "idle"
                          /\ Answered' = [Answered EXCEPT ![c] = TRUE]
                          /\ UNCHANGED Status
       /\ R!ReturnReply(c) <=>
            /\ Status[c] = "active"
            /\ Answered[c]
            /\ \E o \in {"reply", "error"} : Status' = [Status EXCEPT ![c] = o]
            /\ UNCHANGED Answered
       /\ R!ReturnFailure(c) <=>
            /\ Status[c] = "active"
            /\ \E o \in {"timeout", "refused"} : Status' = [Status EXCEPT ![c] = o]
            /\ UNCHANGED Answered
<1>1. R!RInit <=> /\ Status = [c \in Calls |-> "idle"]
                  /\ Answered = [c \in Calls |-> FALSE]
  BY DEF R!RInit, Status, Answered, StatusOf
<1>2. UNCHANGED <<Status, Answered>> => R!rvars' = R!rvars
  BY DEF R!rvars, Status, Answered, StatusOf
<1>3. ASSUME NEW c \in Calls
      PROVE  R!Issue(c) <=> /\ Status[c] = "idle"
                            /\ Status' = [Status EXCEPT ![c] = "active"]
                            /\ UNCHANGED Answered
  BY DEF R!Issue, Status, Answered, StatusOf
<1>4. ASSUME NEW c \in Calls
      PROVE  R!Answer(c) <=> /\ Status[c] # "idle"
                             /\ Answered' = [Answered EXCEPT ![c] = TRUE]
                             /\ UNCHANGED Status
  BY DEF R!Answer, Status, Answered, StatusOf
<1>5. ASSUME NEW c \in Calls
      PROVE  R!ReturnReply(c) <=>
               /\ Status[c] = "active"
               /\ Answered[c]
               /\ \E o \in {"reply", "error"} : Status' = [Status EXCEPT ![c] = o]
               /\ UNCHANGED Answered
  BY DEF R!ReturnReply, Status, Answered, StatusOf
<1>6. ASSUME NEW c \in Calls
      PROVE  R!ReturnFailure(c) <=>
               /\ Status[c] = "active"
               /\ \E o \in {"timeout", "refused"} : Status' = [Status EXCEPT ![c] = o]
               /\ UNCHANGED Answered
  BY DEF R!ReturnFailure, Status, Answered, StatusOf
<1>7. QED
  BY <1>1, <1>2, <1>3, <1>4, <1>5, <1>6

\* The calls start as RequestReply does.
LEMMA InitRefines == Init => R!RInit
<1> SUFFICES ASSUME Init PROVE R!RInit
  OBVIOUS
<1>1. Status = [c \in Calls |-> "idle"]
  BY FrameFacts DEF Init, Status, StatusOf
<1>2. \A c \in Calls : ~(answers[c] > 0)
  BY DEF Init
<1>3. Answered = [c \in Calls |-> FALSE]
  <2>1. \A c \in Calls : (answers[c] > 0) = FALSE
    BY <1>2, SMT
  <2>2. QED
    BY <2>1, Zenon DEF Answered
<1>4. QED
  BY <1>1, <1>3, Mapping

\* One call alone goes from one status to another.
LEMMA Turns ==
  ASSUME NEW c \in Calls, NEW v, StatusOf(c)' = v,
         \A d \in Calls \ {c} : StatusOf(d)' = StatusOf(d)
  PROVE  Status' = [Status EXCEPT ![c] = v]
BY DEF Status

\* Each step is one of RequestReply, or changes nothing that RequestReply has.
LEMMA StepRefines == IInv /\ Traced /\ [Next]_vars => [R!RNext]_R!rvars
<1> SUFFICES ASSUME IInv, Traced, [Next]_vars
             PROVE  R!RNext \/ UNCHANGED <<Status, Answered>>
  BY Mapping
<1>0. /\ inbox \in [Frames -> Seq(Msg)] /\ answers \in [Calls -> 0..MaxAnswers]
      /\ pc \in [Frames -> {"idle", "joined", "armed", "waiting", "returned"}]
      /\ outcome \in [Frames -> Outcomes]
      /\ \A c \in Calls : CallOf(c) \in Frames /\ HardOf(c) \in Frames
  BY FrameFacts DEF IInv, TypeOK
<1>1. CASE Same
  BY <1>1 DEF Same, Status, Answered
<1>2. CASE UNCHANGED <<pc, outcome, answers>>
  BY <1>2 DEF Status, Answered, StatusOf, Active
<1>3. ASSUME answers' = answers PROVE UNCHANGED Answered
  BY <1>3 DEF Answered
<1>4. ASSUME NEW c \in Calls, Subscribe(c) PROVE R!RNext
  <2>1. StatusOf(c) = "idle" /\ StatusOf(c)' = "active"
    BY <1>0, <1>4 DEF Subscribe, StatusOf, Active
  <2>2. ASSUME NEW d \in Calls \ {c} PROVE StatusOf(d)' = StatusOf(d)
    BY <1>0, <1>4, FrameFacts DEF Subscribe, StatusOf, Active
  <2>3. Status[c] = "idle" /\ Status' = [Status EXCEPT ![c] = "active"]
    BY <2>1, <2>2, Turns DEF Status
  <2>4. answers' = answers
    BY <1>4 DEF Subscribe
  <2>5. QED
    BY <1>3, <2>3, <2>4, Mapping DEF R!RNext
<1>5. ASSUME NEW c \in Calls, SubscribeHard(c) PROVE Same
  BY <1>0, <1>5, FrameFacts DEF SubscribeHard, Same, StatusOf, Active
<1>6. ASSUME NEW f \in Frames, SendInit(f) \/ SendRequest(f) PROVE Same
  BY <1>0, <1>6 DEF SendInit, SendRequest, Same, StatusOf, Active
<1>7. ASSUME NEW c \in Calls, EndInitHard(c) PROVE R!RNext \/ Same
  <2>1. answers' = answers
    BY <1>7 DEF EndInitHard
  <2>2. CASE outcome[HardOf(c)] = "reply"
    BY <1>0, <1>7, <2>2 DEF EndInitHard, Same, StatusOf, Active
  <2>3. CASE outcome[HardOf(c)] # "reply"
    <3>1. StatusOf(c) = "active" /\ StatusOf(c)' = "refused"
      BY <1>0, <1>7, <2>3 DEF EndInitHard, StatusOf, Active
    <3>2. ASSUME NEW d \in Calls \ {c} PROVE StatusOf(d)' = StatusOf(d)
      BY <1>0, <1>7, <2>3, FrameFacts DEF EndInitHard, StatusOf, Active
    <3>3. Status[c] = "active" /\ Status' = [Status EXCEPT ![c] = "refused"]
      BY <3>1, <3>2, Turns DEF Status
    <3>4. R!ReturnFailure(c)
      BY <1>3, <2>1, <3>3, Mapping
    <3>5. QED
      BY <3>4 DEF R!RNext, R!Return
  <2>4. QED
    BY <2>2, <2>3
<1>8. ASSUME NEW f \in Frames, Receive(f) PROVE R!RNext \/ Same
  <2>1. /\ answers' = answers /\ pc[f] = "waiting" /\ pc' = [pc EXCEPT ![f] = "returned"]
        /\ inbox[f] # <<>>
    BY <1>8 DEF Receive
  <2>2. PICK m \in Msg : m = Head(inbox[f]) /\ In(inbox[f], m)
    BY <1>0, <2>1, InTail
  <2>3. PICK o \in {"reply", "error", "timeout"} :
          /\ outcome' = [outcome EXCEPT ![f] = o]
          /\ m.type # "done" => o # "timeout"
          /\ m.type = "done" => o = "timeout"
    BY <1>8, <2>2 DEF Receive
  <2>4. CASE f = HardOf(f.call)
    BY <1>0, <2>1, <2>3, <2>4, FrameFacts DEF Same, StatusOf, Active
  <2>5. CASE f = CallOf(f.call)
    <3> PICK c \in Calls : c = f.call
      BY FrameFacts
    <3>1. StatusOf(c) = "active" /\ StatusOf(c)' = o
      BY <1>0, <2>1, <2>3, <2>5 DEF StatusOf, Active
    <3>2. ASSUME NEW d \in Calls \ {c} PROVE StatusOf(d)' = StatusOf(d)
      BY <1>0, <2>1, <2>3, <2>5, FrameFacts DEF StatusOf, Active
    <3>3. Status[c] = "active" /\ Status' = [Status EXCEPT ![c] = o]
      BY <3>1, <3>2, Turns DEF Status
    <3>4. CASE m.type = "done"
      BY <1>3, <2>1, <2>3, <3>3, <3>4, Mapping DEF R!RNext, R!Return
    <3>5. CASE m.type # "done"
      <4>1. m.type = "response" /\ m.of = f
        BY <2>2, <3>5 DEF IInv, Heard
      <4>2. answers[c] > 0
        BY <2>2, <2>5, <4>1, FrameFacts DEF Traced, Genuine, CallOf
      <4>3. Answered[c]
        BY <4>2 DEF Answered
      <4>4. o \in {"reply", "error"}
        BY <2>3, <3>5
      <4>5. R!ReturnReply(c)
        BY <1>3, <2>1, <3>3, <4>3, <4>4, Mapping
      <4>6. QED
        BY <4>5 DEF R!RNext, R!Return
    <3>6. QED
      BY <3>4, <3>5
  <2>6. QED
    BY <2>4, <2>5, FrameFacts
<1>9. ASSUME NEW c \in Calls, Respond(c) PROVE R!RNext
  <2>1. UNCHANGED <<pc, outcome>> /\ handler[c] = "running" /\ answers' = [answers EXCEPT ![c] = @ + 1]
    BY <1>9 DEF Respond
  <2>2. StatusOf(c) # "idle"
    BY <1>0, <2>1 DEF Traced, StatusOf, Outcomes
  <2>3. Status[c] # "idle" /\ UNCHANGED Status
    BY <2>1, <2>2 DEF Status, StatusOf, Active
  <2>4. ASSUME NEW d \in Calls
        PROVE  (answers'[d] > 0) = IF d = c THEN TRUE ELSE answers[d] > 0
    <3>1. CASE d = c
      <4>1. answers'[c] > 0
        BY <1>0, <2>1, MaxAnswersAssumption
      <4>2. (answers'[c] > 0) = TRUE
        BY <4>1, SMT
      <4>3. QED
        BY <3>1, <4>2, Zenon
    <3>2. CASE d # c
      <4>1. answers'[d] = answers[d]
        BY <1>0, <2>1, <3>2
      <4>2. QED
        BY <3>2, <4>1, Zenon
    <3>3. QED
      BY <3>1, <3>2
  <2>5. Answered' = [Answered EXCEPT ![c] = TRUE]
    <3>1. [Answered EXCEPT ![c] = TRUE] =
            [d \in Calls |-> IF d = c THEN TRUE ELSE answers[d] > 0]
      BY Zenon DEF Answered
    <3>2. Answered' = [d \in Calls |-> IF d = c THEN TRUE ELSE answers[d] > 0]
      BY <2>4, Zenon DEF Answered
    <3>3. QED
      BY <3>1, <3>2
  <2>6. QED
    BY <2>3, <2>5, Mapping DEF R!RNext
<1>10. QED
  BY <1>1, <1>2, <1>4, <1>5, <1>6, <1>7, <1>8, <1>9
     DEF Next, vars, Frame, Chain, TimerServer, Trigger, Expire, Dispatch, ServeInit,
         ServeInitHard, ServeTrigger

\* FetchEx of bus/bus.go implements RequestReply: a call returns once, with a response only
\* if a handler sent one to this very request.
THEOREM FetchImplementsRequestReply == Spec => ImplementsRequestReply
<1>1. IInv /\ Traced /\ [Next]_vars => [R!RNext]_R!rvars
  BY StepRefines
<1>2. QED
  BY <1>1, InitRefines, FetchInvariant, MessagesAreGenuine, PTL
     DEF Spec, ImplementsRequestReply, R!RSpec
-----------------------------------------------------------------------------
(***************************************************************************)
(* m.Fetch is refused only when its operation is over. It rests on the     *)
(* order of messages: the "init" of a timer is ahead of all that is chained *)
(* to it, in the queue of the bus and in the channel of ProcessTimers.     *)
(***************************************************************************)

InitOf(t) == Message("init", t)
TimerOf(c) == timer[CallOf(c)]

\* The "init" of t has reached the timer server.
Made(t) == timers[t] # "absent" \/ In(requests, InitOf(t))

Preceded(s, i, t) == \E j \in 1..(i - 1) : s[j] = InitOf(t)

Once(s, m) == \A i, j \in 1..Len(s) : s[i] = m /\ s[j] = m => i = j

\* A timer is made once.
MadeOnce ==
  \A t \in Frames :
    /\ pc[t] \in {"idle", "joined"} =>
         timers[t] = "absent" /\ ~In(queue, InitOf(t)) /\ ~In(requests, InitOf(t))
    /\ In(queue, InitOf(t)) => timers[t] = "absent" /\ ~In(requests, InitOf(t))
    /\ In(requests, InitOf(t)) => timers[t] = "absent"
    /\ Once(queue, InitOf(t)) /\ Once(requests, InitOf(t))

\* Who makes a timer has sent for it before anything else.
SentFirst ==
  \A f \in Frames : ~OnChain(f) /\ pc[f] \notin {"idle", "joined"} => Made(f) \/ In(queue, InitOf(f))

\* What is chained to a timer comes after it.
InOrder ==
  /\ \A c \in Calls : handler[c] = "running" => Made(TimerOf(c))
  /\ \A c \in Calls : Chained(c) /\ pc[CallOf(c)] # "idle" => Made(TimerOf(c))
  /\ \A i \in 1..Len(queue) :
       queue[i].type = "request" =>
         LET t == TimerOf(queue[i].of.call) IN Made(t) \/ Preceded(queue, i, t)
  /\ \A i \in 1..Len(requests) :
       requests[i].type = "init-hard" =>
         LET t == TimerOf(requests[i].of.call)
         IN  timers[t] # "absent" \/ Preceded(requests, i, t)

\* Only the call of a handler extends a timer.
WellSent(m) ==
  /\ m.type = "init" => m = InitOf(m.of)
  /\ m.type = "init-hard" => Chained(m.of.call) /\ pc[HardOf(m.of.call)] # "idle"

HardIsChained ==
  /\ \A c \in Calls : pc[HardOf(c)] # "idle" => Chained(c)
  /\ \A m \in Msg : In(queue, m) \/ In(requests, m) => WellSent(m)

\* The timer server has refused, and the timer has fired.
Refusal(m) == m.type = "response" /\ m.err /\ m.of.kind = "hard"
RefusedLate ==
  /\ \A m \in Msg : In(queue, m) /\ Refusal(m) => timers[TimerOf(m.of.call)] = "fired"
  /\ \A f \in Frames, m \in Msg :
       In(inbox[f], m) /\ Refusal(m) => timers[TimerOf(m.of.call)] = "fired"
  /\ \A c \in Calls : outcome[HardOf(c)] = "error" => timers[TimerOf(c)] = "fired"

Ordered == MadeOnce /\ SentFirst /\ InOrder /\ HardIsChained /\ RefusedLate

\* One more message at the end of a queue, and the places of "init" messages in it.
LEMMA AppendOrder ==
  ASSUME NEW s \in Seq(Msg), NEW e \in Msg
  PROVE  /\ \A m : Once(s, m) /\ (e = m => ~In(s, m)) => Once(Append(s, e), m)
         /\ \A i \in 1..Len(s) : \A t : Append(s, e)[i] = s[i]
                                    /\ (Preceded(s, i, t) => Preceded(Append(s, e), i, t))
         /\ \A t : In(s, InitOf(t)) => Preceded(Append(s, e), Len(s) + 1, t)
<1>1. /\ Append(s, e) \in Seq(Msg) /\ Len(Append(s, e)) = Len(s) + 1 /\ Len(s) \in Nat
      /\ \A i \in 1..Len(s) : Append(s, e)[i] = s[i]
      /\ Append(s, e)[Len(s) + 1] = e
  OBVIOUS
<1>2. ASSUME NEW m, Once(s, m), e = m => ~In(s, m) PROVE Once(Append(s, e), m)
  <2> SUFFICES ASSUME NEW i \in 1..(Len(s) + 1), NEW j \in 1..(Len(s) + 1),
                      Append(s, e)[i] = m, Append(s, e)[j] = m
               PROVE  i = j
    BY <1>1 DEF Once
  <2>1. \A k \in 1..(Len(s) + 1) : k \in 1..Len(s) \/ k = Len(s) + 1
    BY <1>1
  <2>2. CASE i \in 1..Len(s) /\ j \in 1..Len(s)
    BY <1>1, <1>2, <2>2 DEF Once
  <2>3. CASE i = Len(s) + 1 /\ j \in 1..Len(s)
    BY <1>1, <1>2, <2>3 DEF In
  <2>4. CASE j = Len(s) + 1 /\ i \in 1..Len(s)
    BY <1>1, <1>2, <2>4 DEF In
  <2>5. QED
    BY <2>1, <2>2, <2>3, <2>4
<1>3. ASSUME NEW i \in 1..Len(s), NEW t, Preceded(s, i, t) PROVE Preceded(Append(s, e), i, t)
  <2>1. PICK j \in 1..(i - 1) : s[j] = InitOf(t)
    BY <1>3 DEF Preceded
  <2>2. j \in 1..Len(s)
    BY <1>1
  <2>3. QED
    BY <1>1, <2>1, <2>2 DEF Preceded
<1>4. ASSUME NEW t, In(s, InitOf(t)) PROVE Preceded(Append(s, e), Len(s) + 1, t)
  <2>1. PICK j \in 1..Len(s) : s[j] = InitOf(t)
    BY <1>4 DEF In
  <2>2. j \in 1..((Len(s) + 1) - 1)
    BY <1>1
  <2>3. QED
    BY <1>1, <2>1, <2>2 DEF Preceded
<1>5. QED
  BY <1>1, <1>2, <1>3, <1>4

\* The same when the first message is taken.
LEMMA TailOrder ==
  ASSUME NEW s \in Seq(Msg), s # <<>>
  PROVE  /\ \A m : Once(s, m) => Once(Tail(s), m) /\ (Head(s) = m => ~In(Tail(s), m))
         /\ \A i \in 1..Len(Tail(s)) : \A t :
              /\ i + 1 \in 1..Len(s) /\ Tail(s)[i] = s[i + 1]
              /\ Preceded(s, i + 1, t) => Head(s) = InitOf(t) \/ Preceded(Tail(s), i, t)
         /\ 1 \in 1..Len(s) /\ s[1] = Head(s) /\ \A t : ~Preceded(s, 1, t)
<1>1. /\ Tail(s) \in Seq(Msg) /\ Head(s) = s[1]
      /\ Len(s) \in Nat /\ Len(s) > 0 /\ Len(Tail(s)) = Len(s) - 1
      /\ \A i \in 1..(Len(s) - 1) : Tail(s)[i] = s[i + 1]
  OBVIOUS
<1>2. ASSUME NEW m, Once(s, m) PROVE Once(Tail(s), m) /\ (Head(s) = m => ~In(Tail(s), m))
  <2>1. \A i \in 1..(Len(s) - 1) : i + 1 \in 1..Len(s) /\ i + 1 # 1
    BY <1>1
  <2>2. 1 \in 1..Len(s)
    BY <1>1
  <2>3. Once(Tail(s), m)
    <3> SUFFICES ASSUME NEW i \in 1..(Len(s) - 1), NEW j \in 1..(Len(s) - 1),
                        s[i + 1] = m, s[j + 1] = m
                 PROVE  i = j
      BY <1>1 DEF Once
    <3>1. i + 1 = j + 1
      BY <1>2, <2>1 DEF Once
    <3>2. QED
      BY <3>1
  <2>4. ASSUME Head(s) = m, In(Tail(s), m) PROVE FALSE
    <3>1. PICK i \in 1..(Len(s) - 1) : s[i + 1] = m
      BY <1>1, <2>4 DEF In
    <3>2. i + 1 = 1
      BY <1>1, <1>2, <2>1, <2>2, <2>4, <3>1 DEF Once
    <3>3. QED
      BY <2>1, <3>2
  <2>5. QED
    BY <2>3, <2>4
<1>3. ASSUME NEW i \in 1..(Len(s) - 1), NEW t, Preceded(s, i + 1, t), Head(s) # InitOf(t)
      PROVE  Preceded(Tail(s), i, t)
  <2>1. PICK j \in 1..((i + 1) - 1) : s[j] = InitOf(t)
    BY <1>3 DEF Preceded
  <2>2. j # 1
    BY <1>1, <1>3, <2>1
  <2>3. j - 1 \in 1..(i - 1) /\ j - 1 \in 1..(Len(s) - 1) /\ (j - 1) + 1 = j
    BY <1>1, <2>2
  <2>4. Tail(s)[j - 1] = InitOf(t)
    BY <1>1, <2>1, <2>3
  <2>5. QED
    BY <2>3, <2>4 DEF Preceded
<1>4. \A t : ~Preceded(s, 1, t)
  BY DEF Preceded
<1>5. \A i \in 1..Len(Tail(s)) : i + 1 \in 1..Len(s) /\ Tail(s)[i] = s[i + 1]
  BY <1>1
<1>6. QED
  BY <1>1, <1>2, <1>3, <1>4, <1>5

\* What a step does to the frames.
LEMMA FrameMoves ==
  ASSUME IInv, [Next]_vars
  PROVE  /\ \A f \in Frames : pc[f] # "idle" => pc'[f] # "idle" /\ timer'[f] = timer[f]
         /\ \A f \in Frames : pc'[f] \in {"idle", "joined"} => pc[f] \in {"idle", "joined"}
         /\ \A f \in Frames : /\ ~OnChain(f)
                              /\ pc[f] \in {"idle", "joined"} /\ pc'[f] \notin {"idle", "joined"}
                              => SendInit(f)
         /\ \A c \in Calls : pc[HardOf(c)] = "idle" /\ pc'[HardOf(c)] # "idle" => Chained(c)
<1>0. /\ pc \in [Frames -> {"idle", "joined", "armed", "waiting", "returned"}]
      /\ timer \in [Frames -> Frames]
  BY DEF IInv, TypeOK
<1>1. CASE pc' = pc /\ timer' = timer
  BY <1>1
<1>2. ASSUME NEW c \in Calls, Subscribe(c)
      PROVE  /\ pc[CallOf(c)] = "idle" /\ pc' = [pc EXCEPT ![CallOf(c)] = "joined"]
             /\ \A f \in Frames : f # CallOf(c) => timer'[f] = timer[f]
  BY <1>0, <1>2 DEF Subscribe
<1>3. ASSUME NEW c \in Calls, SubscribeHard(c)
      PROVE  /\ pc[HardOf(c)] = "idle" /\ pc' = [pc EXCEPT ![HardOf(c)] = "joined"]
             /\ timer' = timer /\ Chained(c)
  BY <1>3 DEF SubscribeHard
<1>4. ASSUME NEW c \in Calls, EndInitHard(c)
      PROVE  /\ timer' = timer /\ pc[CallOf(c)] = "joined" /\ OnChain(CallOf(c))
             /\ \E v \in {"armed", "returned"} : pc' = [pc EXCEPT ![CallOf(c)] = v]
  BY <1>4, FrameFacts DEF EndInitHard
<1>5. ASSUME NEW f \in Frames, SendInit(f)
      PROVE  timer' = timer /\ pc[f] = "joined" /\ pc' = [pc EXCEPT ![f] = "armed"]
  BY <1>5 DEF SendInit
<1>6. ASSUME NEW f \in Frames, SendRequest(f) \/ Receive(f)
      PROVE  /\ timer' = timer /\ pc[f] \in {"armed", "waiting"}
             /\ \E v \in {"waiting", "returned"} : pc' = [pc EXCEPT ![f] = v]
  BY <1>6 DEF SendRequest, Receive
<1>7. CASE \E c \in Calls : Subscribe(c)
  BY <1>0, <1>2, <1>7, FrameFacts
<1>8. CASE \E c \in Calls : SubscribeHard(c)
  BY <1>0, <1>3, <1>8, FrameFacts
<1>9. CASE \E c \in Calls : EndInitHard(c)
  BY <1>0, <1>4, <1>9, FrameFacts
<1>10. CASE \E f \in Frames : SendInit(f)
  <2>1. PICK f \in Frames : SendInit(f)
    BY <1>10
  <2>2. \A g \in Frames \ {f} : pc'[g] = pc[g]
    BY <1>0, <1>5, <2>1
  <2>3. pc'[f] = "armed" /\ pc[f] = "joined" /\ timer' = timer
    BY <1>0, <1>5, <2>1
  <2>4. \A c \in Calls : pc[HardOf(c)] = "idle" => pc'[HardOf(c)] = "idle"
    BY <2>2, <2>3, FrameFacts
  <2>5. QED
    BY <2>1, <2>2, <2>3, <2>4
<1>11. CASE \E f \in Frames : SendRequest(f) \/ Receive(f)
  <2>1. PICK f \in Frames : SendRequest(f) \/ Receive(f)
    BY <1>11
  <2>2. \A g \in Frames \ {f} : pc'[g] = pc[g]
    BY <1>0, <1>6, <2>1
  <2>3. pc'[f] \in {"waiting", "returned"} /\ pc[f] \in {"armed", "waiting"} /\ timer' = timer
    BY <1>0, <1>6, <2>1
  <2>4. \A c \in Calls : pc[HardOf(c)] = "idle" => pc'[HardOf(c)] = "idle"
    BY <2>2, <2>3, FrameFacts
  <2>5. QED
    BY <2>1, <2>2, <2>3, <2>4
<1>12. QED
  BY <1>1, <1>7, <1>8, <1>9, <1>10, <1>11
     DEF Next, vars, Frame, Chain, TimerServer, Respond, Trigger, Expire, Dispatch, ServeInit,
         ServeInitHard, ServeTrigger

\* Why a message is sent.
Cause(e) ==
  /\ e.type = "init" => e = InitOf(e.of) /\ SendInit(e.of)
  /\ e.type = "request" => \E c \in Calls : e.of = CallOf(c) /\ pc[CallOf(c)] = "armed"
  /\ e.type = "init-hard" => \E c \in Calls : e.of = HardOf(c) /\ pc[HardOf(c)] # "idle"
  /\ Refusal(e) => ServeInitHard /\ timers[TimerOf(e.of.call)] # "running"
                   /\ Head(requests).type = "init-hard" /\ Head(requests).of = e.of

\* What a step that is not of the bus does to the messages on their way.
LEMMA Sends ==
  ASSUME IInv, Traced, [Next]_vars, ~Dispatch
  PROVE  /\ handler' = handler
         /\ requests' = requests \/ (requests # <<>> /\ requests' = Tail(requests))
         /\ queue' = queue \/ \E e \in Msg : queue' = Append(queue, e) /\ Cause(e)
<1>0. /\ queue \in Seq(Msg) /\ requests \in Seq(Msg) /\ timer \in [Frames -> Frames]
  BY DEF IInv, TypeOK
<1>1. handler' = handler
  BY DEF Next, vars, Frame, Chain, TimerServer, Subscribe, SubscribeHard,
     EndInitHard, Respond, Trigger, SendInit, SendRequest, Receive, Expire,
     ServeInit, ServeInitHard, ServeTrigger
<1>2. requests' = requests \/ (requests # <<>> /\ requests' = Tail(requests))
  BY DEF Next, vars, Frame, Chain, TimerServer, Subscribe, SubscribeHard,
     EndInitHard, Respond, Trigger, SendInit, SendRequest, Receive, Expire,
     ServeInit, ServeInitHard, ServeTrigger, Served
<1> DEFINE Sent == \E e \in Msg : queue' = Append(queue, e) /\ Cause(e)
<1>3. ASSUME NEW c \in Calls, Respond(c) PROVE Sent
  <2>1. PICK err \in BOOLEAN :
          queue' = Append(queue, [type |-> "response", of |-> CallOf(c), err |-> err])
    BY <1>3 DEF Respond, Publish
  <2>2. PICK e \in Msg : e = [type |-> "response", of |-> CallOf(c), err |-> err]
    BY FrameFacts, MsgFacts
  <2>3. e.type = "response" /\ e.of.kind = "call"
    BY <2>2 DEF CallOf
  <2>4. Cause(e)
    BY <2>3 DEF Cause, Refusal
  <2>5. QED
    BY <2>1, <2>2, <2>4
<1>4. ASSUME NEW t \in {"trigger", "done"}, NEW f \in Frames, Publish(Message(t, f)) PROVE Sent
  <2>1. Message(t, f) \in Msg /\ Message(t, f).type = t
    BY MsgFacts
  <2>2. Cause(Message(t, f))
    BY <2>1 DEF Cause, Refusal
  <2>3. QED
    BY <1>4, <2>1, <2>2 DEF Publish
<1>5. ASSUME NEW f \in Frames, SendInit(f) PROVE Sent
  <2>1. InitOf(f) \in Msg /\ InitOf(f).type = "init" /\ InitOf(f).of = f
    BY MsgFacts DEF InitOf
  <2>2. Cause(InitOf(f))
    BY <1>5, <2>1 DEF Cause, Refusal
  <2>3. queue' = Append(queue, InitOf(f))
    BY <1>5 DEF SendInit, Publish, InitOf
  <2>4. QED
    BY <2>1, <2>2, <2>3
<1>6. ASSUME NEW f \in Frames, SendRequest(f) PROVE Sent
  <2>1. PICK t \in {"init-hard", "request"} :
          t = (IF f.kind = "hard" THEN "init-hard" ELSE "request")
    OBVIOUS
  <2>2. Message(t, f) \in Msg /\ Message(t, f).type = t /\ Message(t, f).of = f
    BY MsgFacts
  <2>3. \E c \in Calls : f = IF t = "request" THEN CallOf(c) ELSE HardOf(c)
    BY <2>1, FrameFacts
  <2>4. pc[f] = "armed" /\ queue' = Append(queue, Message(t, f))
    BY <1>6, <2>1 DEF SendRequest, Publish
  <2>5. Cause(Message(t, f))
    BY <2>2, <2>3, <2>4 DEF Cause, Refusal
  <2>6. QED
    BY <2>2, <2>4, <2>5
<1>7. CASE ServeInitHard
  <2>1. requests # <<>> /\ Head(requests).type = "init-hard"
    BY <1>7 DEF ServeInitHard, Served
  <2>2. Head(requests) \in Msg /\ In(requests, Head(requests))
    BY <1>0, <2>1, InTail
  <2>3. PICK h \in Frames : h = Head(requests).of
    BY <2>2, MsgFacts
  <2>4. PICK e \in Msg : e = [type |-> "response", of |-> h,
                              err |-> timers[timer[CallOf(h.call)]] # "running"]
    BY <2>3, MsgFacts
  <2>5. e.type = "response" /\ e.of = h /\ e.err = (timers[TimerOf(h.call)] # "running")
    BY <2>4, Zenon DEF TimerOf
  <2>6. Cause(e)
    BY <1>7, <2>1, <2>3, <2>5 DEF Cause, Refusal
  <2>7. queue' = Append(queue, e)
    BY <1>7, <2>3, <2>4, Zenon DEF ServeInitHard, Publish
  <2>8. QED
    BY <1>1, <1>2, <2>6, <2>7
<1>8. ASSUME NEW c \in Calls, Trigger(c) PROVE Sent
  <2>1. timer[CallOf(c)] \in Frames /\ Publish(Message("trigger", timer[CallOf(c)]))
    BY <1>0, <1>8, FrameFacts DEF Trigger
  <2>2. QED
    BY <1>4, <2>1
<1>9. CASE ServeTrigger
  <2>1. requests # <<>> /\ (Fire(Head(requests).of) \/ queue' = queue)
    BY <1>9 DEF ServeTrigger, Served
  <2>2. Head(requests).of \in Frames
    BY <1>0, <2>1, InTail, MsgFacts
  <2>3. queue' = queue \/ Sent
    BY <1>4, <2>1, <2>2 DEF Fire
  <2>4. QED
    BY <1>1, <1>2, <2>3
<1>10. ASSUME NEW f \in Frames, Expire(f) PROVE Sent
  BY <1>4, <1>10 DEF Expire, Fire
<1>11. queue' = queue \/ Sent
  BY <1>3, <1>5, <1>6, <1>7, <1>8, <1>9, <1>10
     DEF Next, vars, Frame, Chain, TimerServer, Subscribe, SubscribeHard, EndInitHard, Receive,
         ServeInit
<1>12. QED
  BY <1>1, <1>2, <1>11

\* The timers are made by their "init", and then fire once.
LEMMA TimersMove ==
  ASSUME IInv, Ordered, LimitsInOrder, [Next]_vars
  PROVE  /\ \A t \in Frames :
              \/ timers'[t] = timers[t]
              \/ timers[t] = "running" /\ timers'[t] = "fired"
              \/ /\ timers'[t] = "running" /\ timers[t] = "absent"
                 /\ requests # <<>> /\ Head(requests) = InitOf(t) /\ requests' = Tail(requests)
                 /\ In(requests, InitOf(t))
         /\ \A t \in Frames : requests # <<>> /\ Head(requests) = InitOf(t)
                              /\ requests' = Tail(requests) /\ ~Dispatch
              => timers'[t] # "absent"
<1>0. requests \in Seq(Msg) /\ timers \in [Frames -> {"absent", "running", "fired"}]
  BY DEF IInv, TypeOK
<1>1. requests # <<>> => Head(requests) \in Msg /\ Head(requests).of \in Frames
                         /\ In(requests, Head(requests)) /\ Tail(requests) # requests
  <2>1. requests # <<>> => Len(Tail(requests)) = Len(requests) - 1 /\ Len(requests) \in Nat
    BY <1>0
  <2>2. requests # <<>> => Tail(requests) # requests
    BY <2>1
  <2>3. QED
    BY <1>0, <2>2, InTail, MsgFacts
<1>2. CASE ServeInit
  <2>1. /\ requests # <<>> /\ Head(requests).type = "init" /\ requests' = Tail(requests)
        /\ timers' = [timers EXCEPT ![Head(requests).of] = "running"]
    BY <1>2 DEF ServeInit, Served
  <2>2. Head(requests) = InitOf(Head(requests).of)
    BY <1>1, <2>1 DEF Ordered, HardIsChained, WellSent
  <2>3. timers[Head(requests).of] = "absent"
    BY <1>1, <2>1, <2>2 DEF Ordered, MadeOnce
  <2>4. timers'[Head(requests).of] = "running"
    BY <1>0, <1>1, <2>1
  <2>5. \A t \in Frames : t # Head(requests).of => timers'[t] = timers[t]
    BY <1>0, <2>1
  <2>6. \A t \in Frames : InitOf(t).of = t
    BY MsgFacts DEF InitOf
  <2>7. QED
    BY <1>1, <2>1, <2>2, <2>3, <2>4, <2>5, <2>6
<1>3. ASSUME NEW f \in Frames, Fire(f)
      PROVE  \A t \in Frames : timers'[t] = timers[t] \/ (timers[t] = "running" /\ timers'[t] = "fired")
  BY <1>0, <1>3 DEF Fire
<1>4. ASSUME ~ServeInit
      PROVE  \A t \in Frames : timers'[t] = timers[t] \/ (timers[t] = "running" /\ timers'[t] = "fired")
  <2>1. CASE timers' = timers
    BY <2>1
  <2>2. CASE \E f \in Frames : Fire(f)
    BY <1>3, <2>2
  <2>3. timers' = timers \/ \E f \in Frames : Fire(f)
    BY <1>1, <1>4
       DEF Next, vars, Frame, Chain, TimerServer, Subscribe, SubscribeHard, EndInitHard, Respond,
           Trigger, SendInit, SendRequest, Receive, Expire, Dispatch, ServeInitHard,
           ServeTrigger, Served
  <2>4. QED
    BY <2>1, <2>2, <2>3
<1>5. ASSUME ~ServeInit, ~Dispatch, requests # <<>>, requests' = Tail(requests),
             NEW t \in Frames, Head(requests) = InitOf(t)
      PROVE  FALSE
  <2>1. Head(requests).type = "init"
    BY <1>5, MsgFacts DEF InitOf
  <2>2. requests' # requests
    BY <1>1, <1>5
  <2>3. QED
    BY <1>5, <2>1, <2>2
       DEF Next, vars, Frame, Chain, TimerServer, Subscribe, SubscribeHard, EndInitHard, Respond,
           Trigger, SendInit, SendRequest, Receive, Expire, ServeInitHard,
           ServeTrigger, Served
<1>6. QED
  BY <1>2, <1>4, <1>5

\* What has been made stays made, and what has fired stays so.
LEMMA Stays ==
  ASSUME IInv, Traced, Ordered, LimitsInOrder, [Next]_vars
  PROVE  /\ \A t \in Frames : timers[t] # "absent" => timers'[t] # "absent"
         /\ \A t \in Frames : timers[t] = "fired" => timers'[t] = "fired"
         /\ \A t \in Frames : Made(t) => Made(t)'
         /\ \A c \in Calls : pc[CallOf(c)] # "idle" =>
              /\ TimerOf(c)' = TimerOf(c) /\ TimerOf(c) \in Frames
              /\ pc'[CallOf(c)] # "idle"
         /\ \A m \in Msg : WellSent(m) => WellSent(m)'
<1>0. /\ queue \in Seq(Msg) /\ requests \in Seq(Msg) /\ timer \in [Frames -> Frames]
  BY DEF IInv, TypeOK
<1>1. \A t \in Frames : timers[t] # "absent" => timers'[t] # "absent"
  BY TimersMove
<1>2. \A t \in Frames : timers[t] = "fired" => timers'[t] = "fired"
  BY TimersMove
<1>3. ASSUME NEW t \in Frames, Made(t) PROVE Made(t)'
  <2>1. CASE timers[t] # "absent"
    BY <1>1, <2>1 DEF Made
  <2>2. CASE In(requests, InitOf(t)) /\ Dispatch
    <3>1. PICK e \in Msg : requests' = requests \/ requests' = Append(requests, e)
      BY <1>0, <2>2, InTail DEF Dispatch
    <3>2. \A x : In(requests, x) => In(Append(requests, e), x)
      BY <1>0, InAppend
    <3>3. In(requests', InitOf(t))
      BY <2>2, <3>1, <3>2
    <3>4. QED
      BY <3>3 DEF Made
  <2>3. CASE In(requests, InitOf(t)) /\ ~Dispatch
    <3>1. requests' = requests \/ (requests # <<>> /\ requests' = Tail(requests))
      BY <2>3, Sends
    <3>2. requests # <<>> /\ requests' = Tail(requests) =>
            Head(requests) = InitOf(t) \/ In(requests', InitOf(t))
      BY <1>0, <2>3, InTail
    <3>3. timers'[t] # "absent" \/ In(requests', InitOf(t))
      BY <2>3, <3>1, <3>2, TimersMove
    <3>4. QED
      BY <3>3 DEF Made
  <2>4. QED
    BY <1>3, <2>1, <2>2, <2>3 DEF Made
<1>4. ASSUME NEW c \in Calls, pc[CallOf(c)] # "idle"
      PROVE  /\ TimerOf(c)' = TimerOf(c) /\ TimerOf(c) \in Frames
             /\ pc'[CallOf(c)] # "idle"
  BY <1>0, <1>4, FrameMoves, FrameFacts DEF TimerOf
<1>5. ASSUME NEW m \in Msg, WellSent(m) PROVE WellSent(m)'
  BY <1>5, FrameMoves, FrameFacts, MsgFacts DEF WellSent
<1>6. QED
  BY <1>1, <1>2, <1>3, <1>4, <1>5

\* The bus takes the first message.
LEMMA Taken ==
  ASSUME IInv, Dispatch
  PROVE  /\ queue # <<>> /\ Head(queue) \in Msg /\ In(queue, Head(queue)) /\ queue' = Tail(queue)
         /\ requests' = IF Head(queue).type \in {"init", "init-hard", "trigger"}
                        THEN Append(requests, Head(queue)) ELSE requests
         /\ \A c \in Calls : handler'[c] = "running" /\ handler[c] # "running" =>
              Head(queue).type = "request" /\ Head(queue).of.call = c
         /\ UNCHANGED <<timers, pc, timer, outcome>>
         /\ \A t \in Frames : Head(queue) = InitOf(t) => Made(t)'
<1>1. queue \in Seq(Msg) /\ requests \in Seq(Msg) /\ handler \in [Calls -> {"unseen", "running"}]
  BY DEF IInv, TypeOK
<1>2. /\ queue # <<>> /\ queue' = Tail(queue)
      /\ UNCHANGED <<timers, pc, timer, outcome>>
      /\ requests' = IF Head(queue).type \in {"init", "init-hard", "trigger"}
                     THEN Append(requests, Head(queue)) ELSE requests
      /\ handler' = IF Head(queue).type = "request"
                    THEN [handler EXCEPT ![Head(queue).of.call] = "running"] ELSE handler
  BY DEF Dispatch
<1>3. Head(queue) \in Msg /\ In(queue, Head(queue))
  BY <1>1, <1>2, InTail
<1>4. ASSUME NEW t \in Frames, Head(queue) = InitOf(t) PROVE Made(t)'
  <2>1. requests' = Append(requests, InitOf(t)) /\ InitOf(t) \in Msg
    BY <1>2, <1>3, <1>4, MsgFacts DEF InitOf
  <2>2. In(requests', InitOf(t))
    BY <1>1, <2>1, InAppend
  <2>3. QED
    BY <2>2 DEF Made
<1>5. \A c \in Calls : handler'[c] = "running" /\ handler[c] # "running" =>
        Head(queue).type = "request" /\ Head(queue).of.call = c
  BY <1>1, <1>2
<1>6. QED
  BY <1>2, <1>3, <1>4, <1>5

\* A timer is sent for by the call that makes it, and once.
LEMMA MadeOnceStep ==
  ASSUME IInv, Traced, Ordered, LimitsInOrder, [Next]_vars PROVE MadeOnce'
<1> SUFFICES ASSUME NEW t \in Frames
             PROVE  /\ pc'[t] \in {"idle", "joined"} =>
                         /\ timers'[t] = "absent" /\ ~In(queue', InitOf(t))
                         /\ ~In(requests', InitOf(t))
                    /\ In(queue', InitOf(t)) => timers'[t] = "absent" /\ ~In(requests', InitOf(t))
                    /\ In(requests', InitOf(t)) => timers'[t] = "absent"
                    /\ Once(queue', InitOf(t)) /\ Once(requests', InitOf(t))
  BY DEF MadeOnce, InitOf
<1>0. /\ queue \in Seq(Msg) /\ requests \in Seq(Msg)
      /\ pc \in [Frames -> {"idle", "joined", "armed", "waiting", "returned"}]
      /\ InitOf(t) \in Msg /\ InitOf(t).type = "init" /\ InitOf(t).of = t
  BY MsgFacts DEF IInv, TypeOK, InitOf
<1>1. /\ pc[t] \in {"idle", "joined"} =>
           timers[t] = "absent" /\ ~In(queue, InitOf(t)) /\ ~In(requests, InitOf(t))
      /\ In(queue, InitOf(t)) => timers[t] = "absent" /\ ~In(requests, InitOf(t))
      /\ In(requests, InitOf(t)) => timers[t] = "absent"
      /\ Once(queue, InitOf(t)) /\ Once(requests, InitOf(t))
  BY DEF Ordered, MadeOnce
<1>2. pc'[t] \in {"idle", "joined"} => pc[t] \in {"idle", "joined"}
  BY FrameMoves
<1>3. CASE Dispatch
  <2>1. /\ queue # <<>> /\ Head(queue) \in Msg /\ queue' = Tail(queue) /\ timers' = timers
        /\ In(queue, Head(queue))
        /\ requests' = requests \/ requests' = Append(requests, Head(queue))
    BY <1>3, Taken
  <2>2. In(queue, InitOf(t)) <=> Head(queue) = InitOf(t) \/ In(queue', InitOf(t))
    BY <1>0, <2>1, InTail
  <2>3. In(requests', InitOf(t)) => In(requests, InitOf(t)) \/ Head(queue) = InitOf(t)
    <3>1. \A x : In(Append(requests, Head(queue)), x) <=> In(requests, x) \/ x = Head(queue)
      BY <1>0, <2>1, InAppend
    <3>2. QED
      BY <2>1, <3>1
  <2>4. Once(queue', InitOf(t)) /\ (Head(queue) = InitOf(t) => ~In(queue', InitOf(t)))
    BY <1>0, <1>1, <2>1, TailOrder
  <2>5. Once(requests', InitOf(t))
    <3>1. Head(queue) = InitOf(t) => ~In(requests, InitOf(t))
      BY <1>1, <2>2
    <3>2. Once(Append(requests, Head(queue)), InitOf(t))
      BY <1>0, <1>1, <2>1, <3>1, AppendOrder
    <3>3. QED
      BY <1>1, <2>1, <3>2
  <2>6. QED
    BY <1>1, <1>2, <2>1, <2>2, <2>3, <2>4, <2>5
<1>4. CASE ~Dispatch
  <2>1. /\ requests' = requests \/ (requests # <<>> /\ requests' = Tail(requests))
        /\ queue' = queue \/ \E e \in Msg : queue' = Append(queue, e) /\ Cause(e)
    BY <1>4, Sends
  <2>2. /\ In(requests', InitOf(t)) => In(requests, InitOf(t))
        /\ Once(requests', InitOf(t))
        /\ requests # <<>> /\ requests' = Tail(requests) /\ Head(requests) = InitOf(t)
             => ~In(requests', InitOf(t))
    <3>1. CASE requests' = requests
      BY <1>0, <1>1, <3>1, TailOrder
    <3>2. CASE requests # <<>> /\ requests' = Tail(requests)
      <4>1. \A x : In(Tail(requests), x) => In(requests, x)
        BY <1>0, <3>2, InTail
      <4>2. /\ Once(Tail(requests), InitOf(t))
            /\ Head(requests) = InitOf(t) => ~In(Tail(requests), InitOf(t))
        BY <1>0, <1>1, <3>2, TailOrder
      <4>3. QED
        BY <3>2, <4>1, <4>2
    <3>3. QED
      BY <2>1, <3>1, <3>2
  <2>3. CASE SendInit(t)
    <3>1. /\ pc[t] = "joined" /\ pc'[t] = "armed" /\ timers' = timers /\ requests' = requests
          /\ queue' = Append(queue, InitOf(t))
      BY <1>0, <2>3 DEF SendInit, Publish, InitOf
    <3>2. Once(queue', InitOf(t))
      BY <1>0, <1>1, <3>1, AppendOrder
    <3>3. QED
      BY <1>1, <3>1, <3>2
  <2>4. CASE ~SendInit(t)
    <3>1. (In(queue', InitOf(t)) => In(queue, InitOf(t))) /\ Once(queue', InitOf(t))
      <4>1. CASE queue' = queue
        BY <1>1, <4>1
      <4>2. ASSUME NEW e \in Msg, queue' = Append(queue, e), Cause(e)
            PROVE  (In(queue', InitOf(t)) => In(queue, InitOf(t))) /\ Once(queue', InitOf(t))
        <5>1. e # InitOf(t)
          BY <1>0, <2>4, <4>2 DEF Cause
        <5>2. Once(queue', InitOf(t))
          BY <1>0, <1>1, <4>2, <5>1, AppendOrder
        <5>3. In(queue', InitOf(t)) => In(queue, InitOf(t))
          BY <1>0, <4>2, <5>1, InAppend
        <5>4. QED
          BY <5>2, <5>3
      <4>3. QED
        BY <2>1, <4>1, <4>2
    <3>2. timers[t] = "absent" /\ timers'[t] # "absent" =>
            /\ requests # <<>> /\ Head(requests) = InitOf(t) /\ requests' = Tail(requests)
            /\ In(requests, InitOf(t))
      BY TimersMove
    <3>3. QED
      BY <1>1, <1>2, <2>2, <3>1, <3>2
  <2>5. QED
    BY <2>3, <2>4
<1>5. QED
  BY <1>3, <1>4

\* Whoever makes a timer begins with its "init".
LEMMA SentFirstStep ==
  ASSUME IInv, Traced, Ordered, LimitsInOrder, [Next]_vars PROVE SentFirst'
<1> SUFFICES ASSUME NEW f \in Frames, ~OnChain(f), pc'[f] \notin {"idle", "joined"}
             PROVE  Made(f)' \/ In(queue', InitOf(f))
  BY DEF SentFirst, OnChain, Chained, InitOf
<1>0. queue \in Seq(Msg) /\ InitOf(f) \in Msg
  BY MsgFacts DEF IInv, TypeOK, InitOf
<1>1. CASE pc[f] \in {"idle", "joined"}
  <2>1. queue' = Append(queue, InitOf(f))
    BY <1>1, FrameMoves DEF SendInit, Publish, InitOf
  <2>2. QED
    BY <1>0, <2>1, InAppend
<1>2. CASE pc[f] \notin {"idle", "joined"}
  <2>1. Made(f) \/ In(queue, InitOf(f))
    BY <1>2 DEF Ordered, SentFirst
  <2>2. CASE Made(f)
    BY <2>2, Stays
  <2>3. CASE In(queue, InitOf(f)) /\ Dispatch
    <3>1. queue # <<>> /\ queue' = Tail(queue) /\ (Head(queue) = InitOf(f) => Made(f)')
      BY <2>3, Taken
    <3>2. Head(queue) = InitOf(f) \/ In(queue', InitOf(f))
      BY <1>0, <2>3, <3>1, InTail
    <3>3. QED
      BY <3>1, <3>2
  <2>4. CASE In(queue, InitOf(f)) /\ ~Dispatch
    <3>1. PICK e \in Msg : queue' = queue \/ queue' = Append(queue, e)
      BY <1>0, <2>4, Sends
    <3>2. In(Append(queue, e), InitOf(f))
      BY <1>0, <2>4, InAppend
    <3>3. QED
      BY <2>4, <3>1, <3>2
  <2>5. QED
    BY <2>1, <2>2, <2>3, <2>4
<1>3. QED
  BY <1>1, <1>2

\* A call joins in one way.
LEMMA Joins ==
  ASSUME IInv, [Next]_vars, NEW c \in Calls, pc[CallOf(c)] = "idle", pc'[CallOf(c)] # "idle"
  PROVE  Subscribe(c)
<1>0. /\ pc \in [Frames -> {"idle", "joined", "armed", "waiting", "returned"}]
  BY DEF IInv, TypeOK
<1>1. ~(pc' = pc)
  OBVIOUS
<1>2. ASSUME NEW d \in Calls, Subscribe(d) PROVE d = c
  BY <1>0, <1>2, FrameFacts DEF Subscribe
<1>3. ASSUME NEW d \in Calls, Chain(d) PROVE FALSE
  BY <1>0, <1>3, FrameFacts DEF Chain, SubscribeHard, EndInitHard
<1>4. ASSUME NEW f \in Frames, SendInit(f) \/ SendRequest(f) \/ Receive(f) PROVE FALSE
  BY <1>0, <1>4, FrameFacts DEF SendInit, SendRequest, Receive
<1>5. QED
  BY <1>1, <1>2, <1>3, <1>4
     DEF Next, vars, Frame, TimerServer, Respond, Trigger, Expire, Dispatch, ServeInit,
         ServeInitHard, ServeTrigger

\* The first part of InOrder: handlers run, and calls are chained, after the timer is made.
LEMMA RunsAfter ==
  ASSUME IInv, Traced, Ordered, LimitsInOrder, [Next]_vars
  PROVE  /\ \A c \in Calls : handler'[c] = "running" => Made(TimerOf(c))'
         /\ \A c \in Calls : Chained(c) /\ pc'[CallOf(c)] # "idle" => Made(TimerOf(c))'
<1>0. queue \in Seq(Msg) /\ timer \in [Frames -> Frames]
  BY DEF IInv, TypeOK
<1>1. \A c \in Calls : /\ handler[c] = "running" => pc[CallOf(c)] # "idle" /\ Made(TimerOf(c))
                       /\ Chained(c) /\ pc[CallOf(c)] # "idle" => Made(TimerOf(c))
  BY DEF Traced, Ordered, InOrder
<1>2. ASSUME NEW c \in Calls, pc[CallOf(c)] # "idle", Made(TimerOf(c))
      PROVE  Made(TimerOf(c))'
  BY <1>2, Stays DEF Made, InitOf
<1>3. ASSUME NEW c \in Calls, handler'[c] = "running" PROVE Made(TimerOf(c))'
  <2>1. CASE handler[c] = "running"
    BY <1>1, <1>2, <2>1
  <2>2. CASE handler[c] # "running"
    <3>1. Dispatch
      BY <1>3, <2>2, Sends
    <3>2. /\ queue # <<>> /\ Head(queue).type = "request" /\ Head(queue).of.call = c
          /\ Head(queue) \in Msg /\ In(queue, Head(queue))
      BY <1>3, <2>2, <3>1, Taken
    <3>3. pc[CallOf(c)] # "idle"
      BY <3>2 DEF Traced, Genuine
    <3>4. 1 \in 1..Len(queue) /\ queue[1] = Head(queue) /\ ~Preceded(queue, 1, TimerOf(c))
      BY <1>0, <3>2, TailOrder
    <3>5. Made(TimerOf(c))
      BY <3>2, <3>4 DEF Ordered, InOrder
    <3>6. QED
      BY <1>2, <3>3, <3>5
  <2>3. QED
    BY <2>1, <2>2
<1>4. ASSUME NEW c \in Calls, Chained(c), pc'[CallOf(c)] # "idle" PROVE Made(TimerOf(c))'
  <2>1. CASE pc[CallOf(c)] # "idle"
    BY <1>1, <1>2, <1>4, <2>1
  <2>2. CASE pc[CallOf(c)] = "idle"
    <3>1. Subscribe(c)
      BY <1>4, <2>2, Joins
    <3>2. /\ Parent[c] \in Calls /\ handler[Parent[c]] = "running"
          /\ timer'[CallOf(c)] = timer[CallOf(Parent[c])]
          /\ UNCHANGED <<requests, timers>>
      BY <1>0, <1>4, <3>1, FrameFacts DEF Subscribe
    <3>3. Made(TimerOf(Parent[c]))
      BY <1>1, <3>2
    <3>4. QED
      BY <3>2, <3>3 DEF Made, TimerOf
  <2>3. QED
    BY <2>1, <2>2
<1>5. QED
  BY <1>3, <1>4

\* The second part: no request overtakes the "init" of its timer.
LEMMA QueueInOrder ==
  ASSUME IInv, Traced, Ordered, LimitsInOrder, [Next]_vars,
         NEW i \in 1..Len(queue'), queue'[i].type = "request"
  PROVE  Made(TimerOf(queue[i].of.call))' \/ Preceded(queue, i, TimerOf(queue[i].of.call))'
<1>0. queue \in Seq(Msg) /\ timer \in [Frames -> Frames]
  BY DEF IInv, TypeOK
<1> DEFINE Behind(c, s, j) == \E t \in Frames : TimerOf(c)' = t /\ (Made(t)' \/ Preceded(s, j, t))
<1>1. ASSUME NEW j \in 1..Len(queue), queue[j].type = "request"
      PROVE  \E c \in Calls : c = queue[j].of.call /\ Behind(c, queue, j)
  <2>1. queue[j] \in Msg /\ In(queue, queue[j])
    BY <1>0 DEF In
  <2>2. PICK c \in Calls : c = queue[j].of.call
    BY <2>1, MsgFacts, FrameFacts
  <2>3. pc[CallOf(c)] # "idle"
    BY <1>1, <2>1, <2>2 DEF Traced, Genuine
  <2>4. PICK t \in Frames : t = TimerOf(c) /\ TimerOf(c)' = t
    BY <2>3, Stays
  <2>5. Made(t) \/ Preceded(queue, j, t)
    BY <1>1, <2>2, <2>4 DEF Ordered, InOrder
  <2>6. Made(t) => Made(t)'
    BY Stays
  <2>7. QED
    BY <2>2, <2>4, <2>5, <2>6
<1>2. ASSUME NEW c \in Calls, c = queue'[i].of.call, Behind(c, queue', i)
      PROVE  Made(TimerOf(queue[i].of.call))' \/ Preceded(queue, i, TimerOf(queue[i].of.call))'
  <2>1. PICK t \in Frames : TimerOf(c)' = t /\ (Made(t)' \/ Preceded(queue', i, t))
    BY <1>2
  <2>2. TimerOf(queue[i].of.call)' = t
    BY <1>2, <2>1 DEF TimerOf
  <2>3. Made(t)' => Made(TimerOf(queue[i].of.call))'
    BY <2>2 DEF Made, InitOf
  <2>4. Preceded(queue', i, t) => Preceded(queue, i, TimerOf(queue[i].of.call))'
    BY <2>2 DEF Preceded, InitOf
  <2>5. QED
    BY <2>1, <2>3, <2>4
<1>3. CASE Dispatch
  <2>1. queue # <<>> /\ queue' = Tail(queue) /\ \A t \in Frames : Head(queue) = InitOf(t) => Made(t)'
    BY <1>3, Taken
  <2>2. /\ i + 1 \in 1..Len(queue) /\ queue'[i] = queue[i + 1]
        /\ \A t : Preceded(queue, i + 1, t) => Head(queue) = InitOf(t) \/ Preceded(queue', i, t)
    BY <1>0, <2>1, TailOrder
  <2>3. PICK c \in Calls : c = queue'[i].of.call /\ Behind(c, queue, i + 1)
    BY <1>1, <2>2
  <2>4. Behind(c, queue', i)
    BY <2>1, <2>2, <2>3
  <2>5. QED
    BY <1>2, <2>3, <2>4
<1>4. CASE queue' = queue
  <2>1. PICK c \in Calls : c = queue'[i].of.call /\ Behind(c, queue', i)
    BY <1>1, <1>4
  <2>2. QED
    BY <1>2, <2>1
<1>5. ASSUME NEW e \in Msg, queue' = Append(queue, e), Cause(e)
      PROVE  \E c \in Calls : c = queue'[i].of.call /\ Behind(c, queue', i)
  <2>1. Len(queue') = Len(queue) + 1 /\ Len(queue) \in Nat /\ queue'[Len(queue) + 1] = e
    BY <1>0, <1>5
  <2>2. CASE i \in 1..Len(queue)
    <3>1. queue'[i] = queue[i] /\ \A t : Preceded(queue, i, t) => Preceded(queue', i, t)
      BY <1>0, <1>5, <2>2, AppendOrder
    <3>2. PICK c \in Calls : c = queue'[i].of.call /\ Behind(c, queue, i)
      BY <1>1, <2>2, <3>1
    <3>3. QED
      BY <3>1, <3>2
  <2>3. CASE i = Len(queue) + 1
    <3>1. PICK c \in Calls : e.of = CallOf(c) /\ pc[CallOf(c)] = "armed" /\ c = queue'[i].of.call
      BY <1>5, <2>1, <2>3, FrameFacts DEF Cause
    <3>2. PICK t \in Frames : t = TimerOf(c) /\ TimerOf(c)' = t /\ pc'[CallOf(c)] # "idle"
      BY <3>1, Stays
    <3>3. CASE Chained(c)
      <4>1. Made(TimerOf(c))'
        BY <3>2, <3>3, RunsAfter
      <4>2. Made(t)'
        BY <3>2, <4>1 DEF Made, InitOf
      <4>3. QED
        BY <3>1, <3>2, <4>2
    <3>4. CASE ~Chained(c)
      <4>1. t = CallOf(c) /\ ~OnChain(CallOf(c))
        BY <3>2, <3>4, FrameFacts DEF IInv, OwnTimer, TimerOf
      <4>2. Made(t) \/ In(queue, InitOf(t))
        BY <3>1, <4>1 DEF Ordered, SentFirst
      <4>3. Made(t) => Made(t)'
        BY Stays
      <4>4. In(queue, InitOf(t)) => Preceded(queue', i, t)
        BY <1>0, <1>5, <2>3, AppendOrder
      <4>5. QED
        BY <3>1, <3>2, <4>2, <4>3, <4>4
    <3>5. QED
      BY <3>3, <3>4
  <2>4. QED
    BY <2>1, <2>2, <2>3
<1>6. CASE ~Dispatch
  <2>1. CASE queue' = queue
    BY <1>4, <2>1
  <2>2. CASE \E e \in Msg : queue' = Append(queue, e) /\ Cause(e)
    <3>1. PICK c \in Calls : c = queue'[i].of.call /\ Behind(c, queue', i)
      BY <1>5, <2>2
    <3>2. QED
      BY <1>2, <3>1
  <2>3. QED
    BY <1>6, <2>1, <2>2, Sends
<1>7. QED
  BY <1>3, <1>6

\* The third part: no "init-hard" overtakes the "init" of the timer it is for.
LEMMA RequestsInOrder ==
  ASSUME IInv, Traced, Ordered, LimitsInOrder, [Next]_vars,
         NEW i \in 1..Len(requests'), requests'[i].type = "init-hard"
  PROVE  \/ timers'[TimerOf(requests[i].of.call)'] # "absent"
         \/ Preceded(requests, i, TimerOf(requests[i].of.call))'
<1>0. queue \in Seq(Msg) /\ requests \in Seq(Msg) /\ timer \in [Frames -> Frames]
  BY DEF IInv, TypeOK
<1> DEFINE Behind(c, s, j) == \E t \in Frames :
                                TimerOf(c)' = t /\ (timers'[t] # "absent" \/ Preceded(s, j, t))
<1>1. ASSUME NEW m \in Msg, m.type = "init-hard", In(queue, m) \/ In(requests, m)
      PROVE  /\ m.of.call \in Calls /\ Chained(m.of.call) /\ pc[CallOf(m.of.call)] # "idle"
             /\ \E t \in Frames : t = TimerOf(m.of.call) /\ TimerOf(m.of.call)' = t
  <2>1. /\ m.of.call \in Calls /\ Chained(m.of.call) /\ pc[HardOf(m.of.call)] # "idle"
    BY <1>1, MsgFacts, FrameFacts DEF Ordered, HardIsChained, WellSent
  <2>2. pc[CallOf(m.of.call)] # "idle"
    BY <2>1 DEF IInv, Fresh
  <2>3. QED
    BY <2>1, <2>2, Stays
<1>2. ASSUME NEW j \in 1..Len(requests), requests[j].type = "init-hard"
      PROVE  \E c \in Calls : c = requests[j].of.call /\ Behind(c, requests, j)
  <2>1. requests[j] \in Msg /\ In(requests, requests[j])
    BY <1>0 DEF In
  <2>2. PICK c \in Calls : c = requests[j].of.call
    BY <2>1, MsgFacts, FrameFacts
  <2>3. PICK t \in Frames : t = TimerOf(c) /\ TimerOf(c)' = t
    BY <1>1, <1>2, <2>1, <2>2
  <2>4. timers[t] # "absent" \/ Preceded(requests, j, t)
    BY <1>2, <2>2, <2>3 DEF Ordered, InOrder
  <2>5. timers[t] # "absent" => timers'[t] # "absent"
    BY Stays
  <2>6. QED
    BY <2>2, <2>3, <2>4, <2>5
<1>3. ASSUME NEW c \in Calls, c = requests'[i].of.call, Behind(c, requests', i)
      PROVE  \/ timers'[TimerOf(requests[i].of.call)'] # "absent"
             \/ Preceded(requests, i, TimerOf(requests[i].of.call))'
  <2>1. PICK t \in Frames : TimerOf(c)' = t /\ (timers'[t] # "absent" \/ Preceded(requests', i, t))
    BY <1>3
  <2>2. TimerOf(requests[i].of.call)' = t
    BY <1>3, <2>1 DEF TimerOf
  <2>3. Preceded(requests', i, t) => Preceded(requests, i, TimerOf(requests[i].of.call))'
    BY <2>2 DEF Preceded, InitOf
  <2>4. QED
    BY <2>1, <2>2, <2>3
<1>4. CASE requests' = requests
  <2>1. PICK c \in Calls : c = requests'[i].of.call /\ Behind(c, requests', i)
    BY <1>2, <1>4
  <2>2. QED
    BY <1>3, <2>1
<1>5. CASE Dispatch /\ requests' # requests
  <2>1. /\ queue # <<>> /\ Head(queue) \in Msg /\ requests' = Append(requests, Head(queue))
        /\ In(queue, Head(queue)) /\ timers' = timers
    BY <1>5, Taken
  <2>2. /\ Len(requests') = Len(requests) + 1 /\ Len(requests) \in Nat
        /\ requests'[Len(requests) + 1] = Head(queue)
    BY <1>0, <2>1
  <2>3. CASE i \in 1..Len(requests)
    <3>1. requests'[i] = requests[i] /\ \A t : Preceded(requests, i, t) => Preceded(requests', i, t)
      BY <1>0, <2>1, <2>3, AppendOrder
    <3>2. PICK c \in Calls : c = requests'[i].of.call /\ Behind(c, requests, i)
      BY <1>2, <2>3, <3>1
    <3>3. Behind(c, requests', i)
      BY <3>1, <3>2
    <3>4. QED
      BY <1>3, <3>2, <3>3
  <2>4. CASE i = Len(requests) + 1
    <3>1. Head(queue).type = "init-hard"
      BY <2>2, <2>4
    <3>2. PICK c \in Calls : /\ c = requests'[i].of.call
                             /\ Chained(c) /\ pc[CallOf(c)] # "idle"
                             /\ \E t \in Frames : t = TimerOf(c) /\ TimerOf(c)' = t
      BY <1>1, <2>1, <2>2, <2>4, <3>1
    <3>3. PICK t \in Frames : t = TimerOf(c) /\ TimerOf(c)' = t
      BY <3>2
    <3>4. Made(t)
      BY <3>2, <3>3 DEF Ordered, InOrder
    <3>5. In(requests, InitOf(t)) => Preceded(requests', i, t)
      BY <1>0, <2>1, <2>4, AppendOrder
    <3>6. Behind(c, requests', i)
      BY <2>1, <3>3, <3>4, <3>5 DEF Made
    <3>7. QED
      BY <1>3, <3>2, <3>6
  <2>5. QED
    BY <2>2, <2>3, <2>4
<1>6. CASE ~Dispatch /\ requests' # requests
  <2>1. requests # <<>> /\ requests' = Tail(requests)
    BY <1>6, Sends
  <2>2. /\ i + 1 \in 1..Len(requests) /\ requests'[i] = requests[i + 1]
        /\ \A t : Preceded(requests, i + 1, t) =>
                    Head(requests) = InitOf(t) \/ Preceded(requests', i, t)
    BY <1>0, <2>1, TailOrder
  <2>3. PICK c \in Calls : c = requests'[i].of.call /\ Behind(c, requests, i + 1)
    BY <1>2, <2>2
  <2>4. \A t \in Frames : Head(requests) = InitOf(t) => timers'[t] # "absent"
    BY <1>6, <2>1, TimersMove
  <2>5. Behind(c, requests', i)
    BY <2>2, <2>3, <2>4
  <2>6. QED
    BY <1>3, <2>3, <2>5
<1>7. QED
  BY <1>4, <1>5, <1>6

\* What is chained to a timer stays behind its "init", in every step.
LEMMA InOrderStep ==
  ASSUME IInv, Traced, Ordered, LimitsInOrder, [Next]_vars PROVE InOrder'
BY RunsAfter, QueueInOrder, RequestsInOrder DEF InOrder

\* Only chained calls send "init-hard".
LEMMA HardIsChainedStep ==
  ASSUME IInv, Traced, Ordered, LimitsInOrder, [Next]_vars PROVE HardIsChained'
<1>0. queue \in Seq(Msg) /\ requests \in Seq(Msg)
  BY DEF IInv, TypeOK
<1>1. ASSUME NEW c \in Calls, pc'[HardOf(c)] # "idle" PROVE Chained(c)
  BY <1>1, FrameMoves DEF Ordered, HardIsChained
<1>2. \A m \in Msg : In(queue, m) \/ In(requests, m) => WellSent(m)'
  BY Stays DEF Ordered, HardIsChained
<1>3. \A m \in Msg : In(requests', m) => WellSent(m)'
  BY <1>2, FromQueue
<1>4. ASSUME NEW m \in Msg, In(queue', m) PROVE WellSent(m)'
  <2>1. CASE Dispatch
    <3>1. queue # <<>> /\ queue' = Tail(queue)
      BY <2>1, Taken
    <3>2. In(queue, m)
      BY <1>0, <1>4, <3>1, InTail
    <3>3. QED
      BY <1>2, <3>2
  <2>2. ASSUME NEW e \in Msg, queue' = Append(queue, e), Cause(e) PROVE WellSent(m)'
    <3>1. In(queue, m) \/ m = e
      BY <1>0, <1>4, <2>2, InAppend
    <3>2. WellSent(e)
      BY <2>2, FrameFacts DEF Cause, WellSent, Ordered, HardIsChained
    <3>3. QED
      BY <1>2, <3>1, <3>2, Stays
  <2>3. QED
    BY <1>2, <1>4, <2>1, <2>2, Sends
<1>5. QED
  BY <1>1, <1>3, <1>4 DEF HardIsChained

\* The timer server refuses what it has made and what has fired since.
LEMMA RefusedLateStep ==
  ASSUME IInv, Traced, Ordered, LimitsInOrder, [Next]_vars PROVE RefusedLate'
<1>0. /\ queue \in Seq(Msg) /\ requests \in Seq(Msg) /\ inbox \in [Frames -> Seq(Msg)]
      /\ timer \in [Frames -> Frames] /\ timers \in [Frames -> {"absent", "running", "fired"}]
      /\ outcome \in [Frames -> Outcomes]
  BY DEF IInv, TypeOK
<1>1. ASSUME NEW c \in Calls, pc[CallOf(c)] # "idle", timers[TimerOf(c)] = "fired"
      PROVE  timers'[TimerOf(c)'] = "fired"
  BY <1>1, Stays
<1>2. ASSUME NEW m \in Msg, Refusal(m), In(queue, m) \/ \E f \in Frames : In(inbox[f], m)
      PROVE  timers'[TimerOf(m.of.call)'] = "fired"
  <2>1. m.of.call \in Calls /\ m.of = HardOf(m.of.call) /\ m.of \in Frames /\ m.type = "response"
    BY <1>2, MsgFacts, FrameFacts DEF Refusal
  <2>2. timers[TimerOf(m.of.call)] = "fired"
    BY <1>2 DEF Ordered, RefusedLate
  <2>3. \A f \in Frames : In(inbox[f], m) => f = m.of
    BY <2>1 DEF IInv, Heard
  <2>4. In(queue, m) \/ In(inbox[HardOf(m.of.call)], m)
    BY <1>2, <2>1, <2>3
  <2>5. ~In(<<>>, m)
    BY DEF In
  <2>6. pc[CallOf(m.of.call)] # "idle"
    BY <2>1, <2>4, <2>5 DEF IInv, Fresh
  <2>7. QED
    BY <1>1, <2>1, <2>2, <2>6
<1>3. ASSUME NEW m \in Msg, Refusal(m), In(queue', m)
      PROVE  timers'[TimerOf(m.of.call)'] = "fired"
  <2>1. CASE Dispatch
    <3>1. queue # <<>> /\ queue' = Tail(queue)
      BY <2>1, Taken
    <3>2. In(queue, m)
      BY <1>0, <1>3, <3>1, InTail
    <3>3. QED
      BY <1>2, <1>3, <3>2
  <2>2. ASSUME NEW e \in Msg, queue' = Append(queue, e), Cause(e)
        PROVE  timers'[TimerOf(m.of.call)'] = "fired"
    <3>1. CASE In(queue, m)
      BY <1>2, <1>3, <3>1
    <3>2. CASE m = e
      <4>1. /\ ServeInitHard /\ timers[TimerOf(m.of.call)] # "running"
            /\ Head(requests).type = "init-hard" /\ Head(requests).of = m.of
        BY <1>3, <2>2, <3>2 DEF Cause
      <4>2. requests # <<>>
        BY <4>1 DEF ServeInitHard, Served
      <4>3. 1 \in 1..Len(requests) /\ requests[1] = Head(requests) /\ In(requests, Head(requests))
            /\ Head(requests) \in Msg /\ \A t : ~Preceded(requests, 1, t)
        BY <1>0, <4>2, TailOrder, InTail
      <4>4. timers[TimerOf(m.of.call)] # "absent"
        BY <4>1, <4>3 DEF Ordered, InOrder
      <4>5. m.of.call \in Calls /\ pc[HardOf(m.of.call)] # "idle"
        BY <4>1, <4>3, MsgFacts, FrameFacts DEF Ordered, HardIsChained, WellSent
      <4>6. pc[CallOf(m.of.call)] # "idle" /\ TimerOf(m.of.call) \in Frames
        BY <1>0, <4>5, FrameFacts DEF IInv, Fresh, TimerOf
      <4>7. timers[TimerOf(m.of.call)] = "fired"
        BY <1>0, <4>1, <4>4, <4>6
      <4>8. QED
        BY <1>1, <4>5, <4>6, <4>7
    <3>3. QED
      BY <1>0, <1>3, <2>2, <3>1, <3>2, InAppend
  <2>3. QED
    BY <1>2, <1>3, <2>1, <2>2, Sends
<1>4. ASSUME NEW f \in Frames, NEW m \in Msg, Refusal(m), In(inbox'[f], m)
      PROVE  timers'[TimerOf(m.of.call)'] = "fired"
  BY <1>2, <1>4, FromQueue
<1>5. ASSUME NEW c \in Calls, outcome'[HardOf(c)] = "error"
      PROVE  timers'[TimerOf(c)'] = "fired"
  <2>1. CASE outcome[HardOf(c)] = "error"
    <3>1. timers[TimerOf(c)] = "fired" /\ pc[CallOf(c)] # "idle"
      BY <2>1 DEF Ordered, RefusedLate, IInv, Fresh
    <3>2. QED
      BY <1>1, <3>1
  <2>2. CASE outcome[HardOf(c)] # "error"
    <3>1. ASSUME NEW d \in Calls, EndInitHard(d) PROVE FALSE
      BY <1>0, <1>5, <2>2, <3>1, FrameFacts DEF EndInitHard
    <3>2. PICK f \in Frames : Receive(f)
      <4>1. outcome' # outcome
        BY <1>5, <2>2
      <4>2. QED
        BY <3>1, <4>1
           DEF Next, vars, Frame, Chain, TimerServer, Subscribe, SubscribeHard, Respond, Trigger,
               SendInit, SendRequest, Expire, Dispatch, ServeInit, ServeInitHard, ServeTrigger
    <3>3. f = HardOf(c) /\ inbox[f] # <<>> /\ Head(inbox[f]).type # "done" /\ Head(inbox[f]).err
      BY <1>0, <1>5, <2>2, <3>2, FrameFacts DEF Receive
    <3>4. PICK m \in Msg : m = Head(inbox[f]) /\ In(inbox[f], m)
      BY <1>0, <3>3, InTail
    <3>5. m.type = "response" /\ m.of = HardOf(c)
      BY <3>3, <3>4 DEF IInv, Heard
    <3>6. Refusal(m) /\ m.of.call = c
      BY <3>3, <3>4, <3>5, FrameFacts DEF Refusal, HardOf
    <3>7. QED
      BY <1>2, <3>4, <3>6
  <2>3. QED
    BY <2>1, <2>2
<1>6. QED
  BY <1>3, <1>4, <1>5 DEF RefusedLate, Refusal

\* At the start nothing has been sent.
LEMMA OrderedInit == ASSUME Init PROVE Ordered
<1>1. /\ \A m : ~In(queue, m) /\ ~In(requests, m) /\ \A f \in Frames : ~In(inbox[f], m)
      /\ \A m : Once(queue, m) /\ Once(requests, m)
  BY DEF Init, In, Once
<1>2. MadeOnce /\ SentFirst
  BY <1>1 DEF Init, MadeOnce, SentFirst
<1>3. InOrder
  BY FrameFacts DEF Init, InOrder
<1>4. HardIsChained /\ RefusedLate
  BY <1>1, FrameFacts DEF Init, HardIsChained, RefusedLate
<1>5. QED
  BY <1>2, <1>3, <1>4 DEF Ordered

\* m.Fetch of bus/bus.go is turned down by the timer server only when the operation it belongs
\* to has timed out or was cancelled: its "init-hard" cannot overtake the "init" of its timer.
THEOREM RefusalsAreLate == Spec => []RefusedOnlyWhenOver
<1>1. LimitsInOrder /\ Init => Ordered
  BY OrderedInit
<1>2. LimitsInOrder /\ Ordered /\ IInv /\ Traced /\ [Next]_vars => Ordered'
  BY MadeOnceStep, SentFirstStep, InOrderStep, HardIsChainedStep, RefusedLateStep DEF Ordered
<1>3. (LimitsInOrder => Ordered) => RefusedOnlyWhenOver
  BY DEF RefusedOnlyWhenOver, Ordered, RefusedLate, TimerOf
<1>4. CASE LimitsInOrder
  BY <1>1, <1>2, <1>3, <1>4, FetchInvariant, MessagesAreGenuine, PTL DEF Spec
<1>5. CASE ~LimitsInOrder
  BY <1>3, <1>5, PTL
<1>6. QED
  BY <1>4, <1>5

-----------------------------------------------------------------------------
(***************************************************************************)
(* The USB server. What it holds of a device is no older than the          *)
(* enumerations that have missed it.                                       *)
(***************************************************************************)
MissedFor(d) ==
  /\ usb_devices[d].state = "long" => missed[d] = "long"
  /\ usb_devices[d].state = "just" => missed[d] \in {"just", "long"}

UsbInv == UsbTypeOK /\ \A d \in Devices : MissedFor(d)

\* The condition of NoSpuriousDisconnect on a step.
GoneForLong ==
  \A d \in Ledgers :
    Len(told'[d]) > Len(told[d]) /\ told'[d][Len(told'[d])] = "disconnected"
      => missed[d] = "long" /\ d \notin presented

LEMMA UsbInitially ==
  ASSUME NEW there \in SUBSET Devices, UsbInit(there)
  PROVE  UsbInv
<1>1. <<>> \in Seq({"connected", "disconnected", "late"})
  OBVIOUS
<1>2. usb_devices \in [Devices -> USB_DEV \cup {Unknown}]
  BY DEF UsbInit, USB_DEV
<1>3. \A d \in Devices : MissedFor(d)
  BY DEF UsbInit, MissedFor, Unknown
<1>4. QED
  BY <1>1, <1>2, <1>3 DEF UsbInit, UsbInv, UsbTypeOK

\* What the server holds of one device is replaced.
LEMMA EntryKeeps ==
  ASSUME UsbInv, NEW d, NEW e \in USB_DEV \cup {Unknown},
         d \in Devices => e.state \in {"none", "here", usb_devices[d].state},
         usb_devices' = [usb_devices EXCEPT ![d] = e],
         plugged' \subseteq Devices, operation_mutex' \in Tasks \cup {Loop, Nobody},
         UNCHANGED <<presented, told, missed>>
  PROVE  UsbInv' /\ GoneForLong
<1>1. usb_devices' \in [Devices -> USB_DEV \cup {Unknown}]
  BY DEF UsbInv, UsbTypeOK
<1>2. ASSUME NEW c \in Devices PROVE MissedFor(c)'
  <2>1. MissedFor(c) /\ missed' = missed
    BY DEF UsbInv
  <2>2. CASE c = d
    <3>1. usb_devices'[c] = e
      BY <2>2 DEF UsbInv, UsbTypeOK
    <3>2. QED
      BY <2>1, <2>2, <3>1 DEF MissedFor
  <2>3. CASE c # d
    <3>1. usb_devices'[c] = usb_devices[c]
      BY <2>3 DEF UsbInv, UsbTypeOK
    <3>2. QED
      BY <2>1, <3>1 DEF MissedFor
  <2>4. QED
    BY <2>2, <2>3
<1>3. told \in [Devices -> Seq({"connected", "disconnected", "late"})] /\ Ledgers \subseteq Devices
  BY DEF UsbInv, UsbTypeOK, Devices
<1>4. GoneForLong
  BY <1>3 DEF GoneForLong
<1>5. QED
  BY <1>1, <1>2, <1>4 DEF UsbInv, UsbTypeOK

\* Nothing is heard of the devices but what has been said before.
LEMMA QuietKeeps ==
  ASSUME UsbInv, plugged' \subseteq Devices, operation_mutex' \in Tasks \cup {Loop, Nobody},
         UNCHANGED <<usb_devices, presented, told, missed>>
  PROVE  UsbInv' /\ GoneForLong
<1>1. told \in [Devices -> Seq({"connected", "disconnected", "late"})] /\ Ledgers \subseteq Devices
  BY DEF UsbInv, UsbTypeOK, Devices
<1>2. GoneForLong
  BY <1>1 DEF GoneForLong
<1>3. QED
  BY <1>2 DEF UsbInv, UsbTypeOK, MissedFor

\* The handle of a device changes.
LEMMA HandleKeeps ==
  ASSUME UsbInv, NEW d, NEW h \in {"none", "good", "stale"},
         d \in Devices => (usb_devices[d] = Unknown => h = "none"),
         usb_devices' = [usb_devices EXCEPT ![d].handle = h],
         plugged' \subseteq Devices, operation_mutex' \in Tasks \cup {Loop, Nobody},
         UNCHANGED <<presented, told, missed>>
  PROVE  UsbInv' /\ GoneForLong
<1>1. CASE d \in Devices
  <2> DEFINE e == [usb_devices[d] EXCEPT !.handle = h]
  <2>1. usb_devices[d] \in USB_DEV \cup {Unknown}
    BY <1>1 DEF UsbInv, UsbTypeOK
  <2>2. e \in USB_DEV \cup {Unknown} /\ e.state = usb_devices[d].state
    <3>1. CASE usb_devices[d] \in USB_DEV
      BY <3>1 DEF USB_DEV
    <3>2. CASE usb_devices[d] = Unknown
      BY <1>1, <3>2 DEF Unknown
    <3>3. QED
      BY <2>1, <3>1, <3>2
  <2>3. usb_devices' = [usb_devices EXCEPT ![d] = e]
    OBVIOUS
  <2> HIDE DEF e
  <2>4. QED
    BY <2>2, <2>3, EntryKeeps
<1>2. CASE d \notin Devices
  <2>1. usb_devices' = usb_devices
    BY <1>2 DEF UsbInv, UsbTypeOK
  <2>2. QED
    BY <2>1, QuietKeeps
<1>3. QED
  BY <1>1, <1>2

LEMMA PlugKeeps ==
  ASSUME UsbInv, NEW d \in Devices, Plug(d) \/ Unplug(d)
  PROVE  UsbInv' /\ GoneForLong
<1>1. plugged \subseteq Devices /\ operation_mutex \in Tasks \cup {Loop, Nobody}
  BY DEF UsbInv, UsbTypeOK
<1>2. CASE Plug(d)
  BY <1>1, <1>2, QuietKeeps DEF Plug
<1>3. CASE Unplug(d)
  <2> DEFINE h == IF usb_devices[d].handle = "good" THEN "stale" ELSE usb_devices[d].handle
  <2>1. usb_devices[d] \in USB_DEV \cup {Unknown}
    BY DEF UsbInv, UsbTypeOK
  <2>2. h \in {"none", "good", "stale"} /\ (usb_devices[d] = Unknown => h = "none")
    BY <2>1 DEF USB_DEV, Unknown
  <2>3. /\ usb_devices' = [usb_devices EXCEPT ![d].handle = h]
        /\ plugged' \subseteq Devices /\ operation_mutex' = operation_mutex
        /\ UNCHANGED <<presented, told, missed>>
    BY <1>1, <1>3 DEF Unplug
  <2> HIDE DEF h
  <2>4. QED
    BY <1>1, <2>2, <2>3, HandleKeeps
<1>4. QED
  BY <1>2, <1>3

LEMMA PeriodPassesKeeps ==
  ASSUME UsbInv, NEW d \in Devices, PeriodPasses(d)
  PROVE  UsbInv' /\ GoneForLong
<1> DEFINE u == usb_devices[d]
           s == IF u.state = "just" THEN "long" ELSE u.state
           m == IF missed[d] = "just" THEN "long" ELSE missed[d]
<1>1. /\ usb_devices \in [Devices -> USB_DEV \cup {Unknown}]
      /\ missed \in [Devices -> {"no", "just", "long"}]
      /\ told \in [Devices -> Seq({"connected", "disconnected", "late"})] /\ Ledgers \subseteq Devices
  BY DEF UsbInv, UsbTypeOK, Devices
<1>2. /\ usb_devices' = [usb_devices EXCEPT ![d].state = s]
      /\ missed' = [missed EXCEPT ![d] = m]
      /\ UNCHANGED <<plugged, operation_mutex, presented, told>>
  BY DEF PeriodPasses
<1>3. [u EXCEPT !.state = s] \in USB_DEV \cup {Unknown} /\ [u EXCEPT !.state = s].state = s
  <2>1. CASE u \in USB_DEV
    BY <2>1 DEF USB_DEV
  <2>2. CASE u = Unknown
    BY <2>2 DEF Unknown
  <2>3. QED
    BY <1>1, <2>1, <2>2
<1>4. /\ usb_devices' \in [Devices -> USB_DEV \cup {Unknown}]
      /\ missed' \in [Devices -> {"no", "just", "long"}]
  BY <1>1, <1>2, <1>3
<1>5. ASSUME NEW c \in Devices PROVE MissedFor(c)'
  <2>1. MissedFor(c)
    BY DEF UsbInv
  <2>2. CASE c = d
    <3>1. usb_devices'[d].state = s /\ missed'[d] = m
      BY <1>1, <1>2, <1>3
    <3>2. QED
      BY <1>1, <2>1, <2>2, <3>1 DEF MissedFor
  <2>3. CASE c # d
    BY <1>1, <1>2, <2>1, <2>3 DEF MissedFor
  <2>4. QED
    BY <2>2, <2>3
<1>6. GoneForLong
  BY <1>1, <1>2 DEF GoneForLong
<1>7. QED
  BY <1>2, <1>4, <1>5, <1>6 DEF UsbInv, UsbTypeOK

\* What is told comes after what has been.
LEMMA TellAppends ==
  ASSUME UsbInv, NEW news \in {"connected", "disconnected"}, NEW ds
  PROVE  /\ Tell(news, ds) \in [Devices -> Seq({"connected", "disconnected", "late"})]
         /\ \A d \in Devices :
              LET t == Tell(news, ds)[d]
              IN  /\ d \in ds => Len(t) > 0 /\ t[Len(t)] = news
                  /\ d \notin ds => t = told[d]
<1>1. told \in [Devices -> Seq({"connected", "disconnected", "late"})]
  BY DEF UsbInv, UsbTypeOK
<1>2. ASSUME NEW d \in Devices
      PROVE  /\ Tell(news, ds)[d] = IF d \in ds THEN Append(told[d], news) ELSE told[d]
             /\ Append(told[d], news) \in Seq({"connected", "disconnected", "late"})
             /\ Len(Append(told[d], news)) > 0
             /\ Append(told[d], news)[Len(Append(told[d], news))] = news
  BY <1>1 DEF Tell
<1>3. Tell(news, ds) \in [Devices -> Seq({"connected", "disconnected", "late"})]
  BY <1>1, <1>2 DEF Tell
<1>4. QED
  BY <1>2, <1>3

LEMMA ScanKeeps ==
  ASSUME UsbInv, NEW p \in Tasks \cup {Loop}, EnumerateScan(p)
  PROVE  UsbInv' /\ GoneForLong
<1> DEFINE news == {d \in plugged : usb_devices[d] = Unknown}
<1>1. /\ usb_devices \in [Devices -> USB_DEV \cup {Unknown}]
      /\ missed \in [Devices -> {"no", "just", "long"}]
      /\ told \in [Devices -> Seq({"connected", "disconnected", "late"})]
      /\ Ledgers \subseteq Devices /\ plugged \subseteq Devices
  BY DEF UsbInv, UsbTypeOK, Devices
<1>2. /\ operation_mutex' = p /\ presented' = plugged /\ plugged' = plugged
      /\ usb_devices' = [d \in Devices |->
           IF d \notin plugged THEN usb_devices[d]
           ELSE IF usb_devices[d] = Unknown THEN [state |-> "here", handle |-> "none"]
           ELSE [usb_devices[d] EXCEPT !.state = "here"]]
      /\ told' = Tell("connected", news)
      /\ missed' = [d \in Devices |-> IF d \in plugged THEN "no" ELSE missed[d]]
  BY DEF EnumerateScan
<1> HIDE DEF news
<1>3. ASSUME NEW d \in Devices
      PROVE  usb_devices'[d] \in USB_DEV \cup {Unknown} /\ MissedFor(d)'
  <2>1. MissedFor(d) /\ usb_devices[d] \in USB_DEV \cup {Unknown}
    BY <1>1 DEF UsbInv
  <2>2. CASE d \notin plugged
    BY <1>2, <2>1, <2>2 DEF MissedFor
  <2>3. CASE d \in plugged
    <3>1. usb_devices'[d] \in USB_DEV /\ usb_devices'[d].state = "here"
      BY <1>2, <2>1, <2>3 DEF USB_DEV
    <3>2. QED
      BY <3>1 DEF MissedFor
  <2>4. QED
    BY <2>2, <2>3
<1>4. usb_devices' \in [Devices -> USB_DEV \cup {Unknown}]
      /\ missed' \in [Devices -> {"no", "just", "long"}]
  <2>1. \E f : usb_devices' = [d \in Devices |-> f[d]]
    <3>1. usb_devices' = [d \in Devices |-> usb_devices'[d]]
      BY <1>2
    <3>2. QED
      BY <3>1
  <2>2. QED
    BY <1>1, <1>2, <1>3, <2>1
<1>5. /\ told' \in [Devices -> Seq({"connected", "disconnected", "late"})]
      /\ \A d \in Devices : \/ told'[d] = told[d]
                            \/ told'[d][Len(told'[d])] = "connected"
  <2>1. /\ Tell("connected", news) \in [Devices -> Seq({"connected", "disconnected", "late"})]
        /\ \A d \in Devices :
              LET t == Tell("connected", news)[d]
              IN  /\ d \in news => Len(t) > 0 /\ t[Len(t)] = "connected"
                  /\ d \notin news => t = told[d]
    BY TellAppends
  <2>2. QED
    BY <1>2, <2>1
<1>6. ASSUME NEW c \in Ledgers, Len(told'[c]) > Len(told[c]) PROVE told'[c][Len(told'[c])] # "disconnected"
  <2>1. c \in Devices /\ told[c] \in Seq({"connected", "disconnected", "late"})
    BY <1>1
  <2>2. Len(told[c]) \in Nat
    BY <2>1
  <2>3. told'[c] # told[c]
    BY <1>6, <2>2
  <2>4. told'[c][Len(told'[c])] = "connected"
    BY <1>5, <2>1, <2>3
  <2>5. QED
    BY <2>4
<1>7. GoneForLong
  BY <1>6 DEF GoneForLong
<1>8. QED
  BY <1>1, <1>2, <1>3, <1>4, <1>5, <1>7 DEF UsbInv, UsbTypeOK

LEMMA SweepKeeps ==
  ASSUME UsbInv, NEW p, EnumerateSweep(p)
  PROVE  UsbInv' /\ GoneForLong
<1>1. /\ usb_devices \in [Devices -> USB_DEV \cup {Unknown}]
      /\ missed \in [Devices -> {"no", "just", "long"}]
      /\ told \in [Devices -> Seq({"connected", "disconnected", "late"})]
      /\ Ledgers \subseteq Devices /\ plugged \subseteq Devices
  BY DEF UsbInv, UsbTypeOK, Devices
<1>2. /\ operation_mutex' = Nobody /\ presented' = {} /\ plugged' = plugged
      /\ usb_devices' = [d \in Devices |->
           IF d \in Dropped THEN Unknown
           ELSE IF d \in NotPresented /\ usb_devices[d].state = "here"
                THEN [state |-> "just", handle |-> "none"]
           ELSE usb_devices[d]]
      /\ told' = Tell("disconnected", Dropped)
      /\ missed' = [d \in Devices |-> IF d \notin presented /\ missed[d] = "no" THEN "just"
                                                                          ELSE missed[d]]
  BY DEF EnumerateSweep
<1>3. ASSUME NEW d \in Devices
      PROVE  usb_devices'[d] \in USB_DEV \cup {Unknown} /\ MissedFor(d)'
  <2>1. MissedFor(d) /\ usb_devices[d] \in USB_DEV \cup {Unknown} /\ missed[d] \in {"no", "just", "long"}
    BY <1>1 DEF UsbInv
  <2>2. CASE d \in Dropped
    <3>1. usb_devices'[d] = Unknown
      BY <1>2, <2>2
    <3>2. QED
      BY <3>1 DEF MissedFor, Unknown
  <2>3. CASE d \notin Dropped /\ d \in NotPresented /\ usb_devices[d].state = "here"
    <3>1. usb_devices'[d] = [state |-> "just", handle |-> "none"]
      BY <1>2, <2>3
    <3>2. missed'[d] \in {"just", "long"}
      BY <1>2, <2>1, <2>3 DEF NotPresented
    <3>3. QED
      BY <3>1, <3>2 DEF MissedFor, USB_DEV
  <2>4. CASE d \notin Dropped /\ ~(d \in NotPresented /\ usb_devices[d].state = "here")
    <3>1. usb_devices'[d] = usb_devices[d]
      BY <1>2, <2>4
    <3>2. missed[d] # "no" => missed'[d] = missed[d]
      BY <1>2
    <3>3. QED
      BY <2>1, <3>1, <3>2 DEF MissedFor
  <2>5. QED
    BY <2>2, <2>3, <2>4
<1>4. usb_devices' \in [Devices -> USB_DEV \cup {Unknown}]
      /\ missed' \in [Devices -> {"no", "just", "long"}]
  <2>1. usb_devices' = [d \in Devices |-> usb_devices'[d]]
    BY <1>2
  <2>2. QED
    BY <1>1, <1>2, <1>3, <2>1
<1>5. /\ told' \in [Devices -> Seq({"connected", "disconnected", "late"})]
      /\ \A d \in Devices : told'[d] = told[d] \/ d \in Dropped
  <2>1. /\ Tell("disconnected", Dropped) \in [Devices -> Seq({"connected", "disconnected", "late"})]
        /\ \A d \in Devices :
              LET t == Tell("disconnected", Dropped)[d]
              IN  /\ d \in Dropped => Len(t) > 0 /\ t[Len(t)] = "disconnected"
                  /\ d \notin Dropped => t = told[d]
    BY TellAppends
  <2>2. QED
    BY <1>2, <2>1
<1>6. ASSUME NEW d \in Ledgers, d \in Dropped PROVE missed[d] = "long" /\ d \notin presented
  <2>1. d \in Devices /\ usb_devices[d].state = "long" /\ d \notin presented
    BY <1>1, <1>6 DEF Dropped, NotPresented
  <2>2. QED
    BY <2>1 DEF UsbInv, MissedFor
<1>7. GoneForLong
  BY <1>1, <1>5, <1>6 DEF GoneForLong
<1>8. QED
  BY <1>1, <1>2, <1>3, <1>4, <1>5, <1>7 DEF UsbInv, UsbTypeOK

\* A transfer: the handle is opened, or its device forgotten.
LEMMA OpenKeeps ==
  ASSUME UsbInv, NEW d, CanOpen(d), usb_devices' = OpenDevice(d),
         operation_mutex' \in Tasks \cup {Loop, Nobody},
         UNCHANGED <<plugged, presented, told, missed>>
  PROVE  UsbInv' /\ GoneForLong
<1> DEFINE h == IF usb_devices[d].handle = "none" THEN "good" ELSE usb_devices[d].handle
<1>1. usb_devices \in [Devices -> USB_DEV \cup {Unknown}] /\ plugged' \subseteq Devices
  BY DEF UsbInv, UsbTypeOK
<1>2. CASE d \in Devices
  <2>1. usb_devices[d] \in USB_DEV
    BY <1>1, <1>2 DEF CanOpen
  <2>2. h \in {"none", "good", "stale"} /\ usb_devices' = [usb_devices EXCEPT ![d].handle = h]
    BY <2>1 DEF USB_DEV, OpenDevice
  <2>3. usb_devices[d] # Unknown
    BY DEF CanOpen
  <2> HIDE DEF h
  <2>4. QED
    BY <1>1, <2>2, <2>3, HandleKeeps
<1>3. CASE d \notin Devices
  <2>1. usb_devices' = usb_devices
    BY <1>1, <1>3 DEF OpenDevice
  <2>2. QED
    BY <1>1, <2>1, QuietKeeps
<1>4. QED
  BY <1>2, <1>3

LEMMA ForgetKeeps ==
  ASSUME UsbInv, NEW d, usb_devices' = removeUSBDevice(d),
         operation_mutex' \in Tasks \cup {Loop, Nobody},
         UNCHANGED <<plugged, presented, told, missed>>
  PROVE  UsbInv' /\ GoneForLong
<1>1. plugged' \subseteq Devices /\ Unknown.state = "none"
  BY DEF UsbInv, UsbTypeOK, Unknown
<1>2. QED
  BY <1>1, EntryKeeps DEF removeUSBDevice

LEMMA TransferKeeps ==
  ASSUME UsbInv, NEW d, NEW p \in Tasks,
         \/ Write(p, d) \/ WriteNoDevice(p, d) \/ BeginRead(p, d)
         \/ EndRead(p, d) \/ ReadNoDevice(p, d) \/ CancelRead(p)
  PROVE  UsbInv' /\ GoneForLong
<1>1. plugged \subseteq Devices /\ operation_mutex \in Tasks \cup {Loop, Nobody}
  BY DEF UsbInv, UsbTypeOK
<1>2. CASE Write(p, d) \/ BeginRead(p, d)
  BY <1>1, <1>2, OpenKeeps DEF Write, BeginRead
<1>3. CASE WriteNoDevice(p, d) \/ ReadNoDevice(p, d)
  BY <1>1, <1>3, ForgetKeeps DEF WriteNoDevice, ReadNoDevice
<1>4. CASE EndRead(p, d) \/ CancelRead(p)
  BY <1>1, <1>4, QuietKeeps DEF EndRead, CancelRead
<1>5. QED
  BY <1>2, <1>3, <1>4

\* A message is handled, whichever of those that wait.
HandledOne(d) ==
  /\ \E i \in DOMAIN told[d] : Handled(d, i)
  /\ UNCHANGED <<plugged, usb_devices, operation_mutex, presented, missed>>

LEMMA HandledKeeps ==
  ASSUME UsbInv, NEW d \in Devices, HandledOne(d)
  PROVE  UsbInv' /\ GoneForLong
<1> DEFINE News == {"connected", "disconnected", "late"}
<1>1. told \in [Devices -> Seq(News)] /\ Ledgers \subseteq Devices
  BY DEF UsbInv, UsbTypeOK, Devices
<1>2. PICK i \in DOMAIN told[d] : Handled(d, i)
  BY DEF HandledOne
<1> DEFINE s == told[d]
           still == [j \in DOMAIN s |->
             IF j < i /\ s[i] = "connected" /\ s[j] = "disconnected" THEN "late" ELSE s[j]]
<1>3. s \in Seq(News) /\ i \in 1..Len(s) /\ Len(s) \in Nat
  BY <1>1, <1>2
<1>4. told' = [told EXCEPT ![d] = RemoveAt(still, i)]
  BY <1>2 DEF Handled
<1>5. \A j \in 1..Len(s) : still[j] \in News
  BY <1>3
<1>6. still \in [1..Len(s) -> News]
  BY <1>3, <1>5
<1> HIDE DEF still
<1>7. still \in Seq(News) /\ Len(still) = Len(s)
  <2>1. still \in Seq(News)
    BY <1>3, <1>6, FunctionIsSeq
  <2>2. DOMAIN still = 1..Len(still) /\ DOMAIN still = 1..Len(s) /\ Len(still) \in Nat
    BY <1>6, <2>1
  <2>3. QED
    BY <1>3, <2>1, <2>2
<1>8. RemoveAt(still, i) \in Seq(News) /\ Len(RemoveAt(still, i)) < Len(s)
  BY <1>3, <1>7, RemoveAtElements
<1>9. /\ told' \in [Devices -> Seq(News)]
      /\ \A c \in Devices : told'[c] = told[c] \/ Len(told'[c]) < Len(told[c])
  BY <1>1, <1>4, <1>8
<1>10. ASSUME NEW c \in Ledgers, Len(told'[c]) > Len(told[c]) PROVE FALSE
  <2>1. c \in Devices
    BY <1>1
  <2>2. Len(told[c]) \in Nat /\ Len(told'[c]) \in Nat
    BY <1>1, <1>9, <2>1
  <2>3. told'[c] = told[c] \/ Len(told'[c]) < Len(told[c])
    BY <1>9, <2>1
  <2>4. QED
    BY <1>10, <2>2, <2>3
<1>11. GoneForLong
  BY <1>10 DEF GoneForLong
<1>12. QED
  BY <1>9, <1>11 DEF UsbInv, UsbTypeOK, HandledOne, MissedFor

-----------------------------------------------------------------------------
(***************************************************************************)
(* Whatever the hardware wallet servers, the user and the devices do, it   *)
(* is one of these to the USB server.                                      *)
(***************************************************************************)
LEMMA UsbKeeps ==
  ASSUME UsbInv, [DevicesNext]_deviceVars
  PROVE  UsbInv' /\ GoneForLong
<1>1. plugged \subseteq Devices /\ operation_mutex \in Tasks \cup {Loop, Nobody}
  BY DEF UsbInv, UsbTypeOK
<1>2. ASSUME UNCHANGED usb PROVE UsbInv' /\ GoneForLong
  BY <1>1, <1>2, QuietKeeps DEF usb
<1>3. CASE Environment
  <2>1. PICK d \in Devices : UserPlugs(d) \/ Restart(d) \/ Lock(d) \/ Unlock(d) \/ Period(d)
    BY <1>3 DEF Environment
  <2>2. \/ Plug(d) \/ Unplug(d)
        \/ PeriodPasses(d)
        \/ UNCHANGED usb
    BY <2>1 DEF UserPlugs, Restart, Lock, Unlock, Period
  <2>3. QED
    BY <1>2, <2>2, PlugKeeps, PeriodPassesKeeps
<1>4. CASE Enumerate
  BY <1>4, ScanKeeps, SweepKeeps DEF Enumerate
<1>5. ASSUME NEW d \in Devices, Gone(d)
      PROVE  UsbInv' /\ GoneForLong
  <2>1. HandledOne(d)
    BY <1>5 DEF Gone, LedgerGone, TrezorGone, HandledOne, MessagesOf
  <2>2. QED
    BY <2>1, HandledKeeps
<1>6. ASSUME NEW p \in Tasks, TakeIn(p)
      PROVE  UsbInv' /\ GoneForLong
  <2>1. PICK d \in Devices : HandledOne(d)
    BY <1>6 DEF TakeIn, LedgerConnected, TrezorConnected, HandledOne, MessagesOf
  <2>2. QED
    BY <2>1, HandledKeeps
<1>7. ASSUME NEW p \in Tasks, Transfer(p) PROVE UsbInv' /\ GoneForLong
  <2>1. \/ Write(p, task[p].dev) \/ WriteNoDevice(p, task[p].dev) \/ BeginRead(p, task[p].dev)
        \/ EndRead(p, task[p].dev) \/ ReadNoDevice(p, task[p].dev) \/ CancelRead(p)
        \/ UNCHANGED usb
    BY <1>7 DEF Transfer, WriteCommand, StartRead, NoDevice, ReadTimesOut, NotFound, Fails,
                GivesUp, LedgerReply, TrezorReply, GetReply
  <2>2. QED
    BY <1>2, <2>1, TransferKeeps
<1>8. ASSUME NEW p \in Tasks, Step(p) PROVE UsbInv' /\ GoneForLong
  <2>1. CASE Look(p) \/ Looked(p)
    BY <2>1, ScanKeeps, SweepKeeps DEF Look, Looked
  <2>2. CASE Transfer(p)
    BY <1>7, <2>2
  <2>3. CASE ~(Look(p) \/ Looked(p) \/ Transfer(p))
    <3>1. UNCHANGED usb
      BY <1>8, <2>3 DEF Step, AddLedger, GetName, FindLedger, Hang, RemoveTrezor, AddTrezor,
                        FindTrezor, PaneRequest, PaneTimesOut
    <3>2. QED
      BY <1>2, <3>1
  <2>4. QED
    BY <2>1, <2>2, <2>3
<1>9. ASSUME NEW p \in Tasks, Screen(p) PROVE UsbInv' /\ GoneForLong
  BY <1>2, <1>9 DEF Screen, ClickHidden, CloseHidden, ClickCancelWait, PaneAnswer
<1>10. ASSUME NEW p \in Tasks, NEW r, Ask(p, r) PROVE UsbInv' /\ GoneForLong
  BY <1>2, <1>10 DEF Ask
<1>11. ASSUME NEW p \in Tasks, NEW i, ClickGetName(p, i) PROVE UsbInv' /\ GoneForLong
  BY <1>2, <1>11 DEF ClickGetName
<1>12. CASE UNCHANGED deviceVars
  BY <1>2, <1>12 DEF deviceVars
<1>13. QED
  BY <1>3, <1>4, <1>5, <1>6, <1>8, <1>9, <1>10, <1>11, <1>12 DEF DevicesNext

\* What the USB server holds of the devices, its mutex and what it has told the servers of
\* the hardware wallets keep their types.
THEOREM UsbTypes == DevicesSpec => []UsbTypeOK
<1>1. DevicesInit => UsbInv
  <2> SUFFICES ASSUME DevicesInit PROVE UsbInv
    OBVIOUS
  <2>1. PICK w \in Worlds : UsbInit(w.plugged)
    BY DEF DevicesInit
  <2>2. w.plugged \in SUBSET Devices
    BY WorldsAssumption DEF IsWorld
  <2>3. QED
    BY <2>1, <2>2, UsbInitially
<1>2. UsbInv /\ [DevicesNext]_deviceVars => UsbInv'
  BY UsbKeeps
<1>3. UsbInv => UsbTypeOK
  BY DEF UsbInv
<1>4. QED
  BY <1>1, <1>2, <1>3, PTL DEF DevicesSpec

\* A Ledger restarts when it changes its application: the server says that it has gone
\* only if no enumeration has found it for SHORT_DISCONNECT_PERIOD, however enumerations
\* by the loop and by goroutines, transfers, unplugging and restarts fall together.
THEOREM NoLedgerIsDroppedEarly == DevicesSpec => NoSpuriousDisconnect
<1>1. DevicesInit => UsbInv
  <2> SUFFICES ASSUME DevicesInit PROVE UsbInv
    OBVIOUS
  <2>1. PICK w \in Worlds : UsbInit(w.plugged)
    BY DEF DevicesInit
  <2>2. w.plugged \in SUBSET Devices
    BY WorldsAssumption DEF IsWorld
  <2>3. QED
    BY <2>1, <2>2, UsbInitially
<1>2. UsbInv /\ [DevicesNext]_deviceVars => UsbInv' /\ [GoneForLong]_usb
  BY UsbKeeps
<1>3. [GoneForLong]_usb =>
        [\A d \in Ledgers :
           Len(told'[d]) > Len(told[d]) /\ told'[d][Len(told'[d])] = "disconnected"
             => missed[d] = "long" /\ d \notin presented]_usb
  BY DEF GoneForLong
<1>4. QED
  BY <1>1, <1>2, <1>3, PTL DEF DevicesSpec, NoSpuriousDisconnect

-----------------------------------------------------------------------------
(***************************************************************************)
(* The servers of the hardware wallets. A task that reads or enumerates is *)
(* the one that holds operation_mutex; the task that the pane of a Trezor  *)
(* shows a request of waits for the answer, for that Trezor. So cancelling *)
(* a request never takes a task out of a transfer.                         *)
(***************************************************************************)
Typed(t) == t \in Work /\ (t = Idle \/ t.kind \in Kinds)

Fits(t, mutex, p) ==
  /\ Typed(t)
  /\ t.io \in {"reading", "looking"} <=> mutex = p
  /\ t.io = "append" => t.dev \in Ledgers
  /\ t.io \in {"remove", "add", "get_pin", "get_pass", "pin", "pass", "hidden"} => t.dev \in Trezors

TasksFit(ts, mutex) == ts \in [Tasks -> Work] /\ \A p \in Tasks : Fits(ts[p], mutex, p)

Waiting == [pin |-> {"pin"}, pass |-> {"pass", "hidden"}]

Shows(pn, ts, d, w) ==
  pn[d][w] \in Tasks => ts[pn[d][w]].io \in Waiting[w] /\ ts[pn[d][w]].dev = d

PanesFit(pn, ts) ==
  /\ pn \in [Trezors -> [pin : Tasks \cup {Nobody}, pass : Tasks \cup {Nobody}]]
  /\ \A d \in Trezors : Shows(pn, ts, d, "pin") /\ Shows(pn, ts, d, "pass")

ListsFit ==
  /\ ledgers \in Seq(Entries) /\ trezors \in Seq(Trezors)
  /\ ledgers_mutex \in Tasks \cup {Nobody}

BudgetFits ==
  budget \in [plugs : Nat, locks : Nat, fails : Nat, clicks : Nat, asks : SUBSET Requests]

DevicesInv ==
  /\ UsbInv /\ ListsFit /\ BudgetFits
  /\ TasksFit(task, operation_mutex) /\ PanesFit(pane, task)
  /\ overtaken \subseteq Ledgers

\* What a step does to the rest, but for what UsbKeeps says.
Rest == ListsFit /\ BudgetFits /\ TasksFit(task, operation_mutex) /\ PanesFit(pane, task)

LEMMA IdleTyped == Typed(Idle) /\ Idle.io = "none"
BY DEF Typed, Idle, Work, Io, Wallets

\* What changes of a task in a step, and what does not.
LEMMA IoTyped ==
  ASSUME NEW t, Typed(t), t.io # "none", NEW io \in Io
  PROVE  LET u == [t EXCEPT !.io = io]
         IN  Typed(u) /\ u.io = io /\ u.dev = t.dev
<1>1. t \in Work /\ t.kind \in Kinds
  BY IdleTyped DEF Typed
<1>2. QED
  BY <1>1 DEF Typed, Work

LEMMA TriesTyped ==
  ASSUME NEW t, Typed(t), t.io # "none", NEW io \in {"retry", "looking"}
  PROVE  LET u == [t EXCEPT !.io = io, !.tries = @ + 1]
         IN  Typed(u) /\ u.io = io
<1>1. t \in Work /\ t.kind \in Kinds
  BY IdleTyped DEF Typed
<1>2. t.tries + 1 \in Nat
  BY <1>1 DEF Work
<1>3. QED
  BY <1>1, <1>2 DEF Typed, Work, Io

LEMMA NextPartTyped ==
  ASSUME NEW t, Typed(t), t.io # "none", t.parts > 0
  PROVE  LET u == [t EXCEPT !.parts = @ - 1, !.stage = "ask", !.cmd = "sign", !.io = "call"]
         IN  Typed(u) /\ u.io = "call"
<1>1. t \in Work /\ t.kind \in Kinds
  BY IdleTyped DEF Typed
<1>2. t.parts \in Nat /\ t.parts - 1 \in Nat
  BY <1>1 DEF Work
<1>3. PICK n \in Nat : n = t.parts - 1
  BY <1>2
<1> DEFINE u == [t EXCEPT !.parts = n, !.stage = "ask", !.cmd = "sign", !.io = "call"]
<1>4. u \in Work
  BY <1>1 DEF Work, Io, Commands
<1>5. u.kind = t.kind /\ u.io = "call"
  BY <1>1 DEF Work
<1>6. Typed(u)
  BY <1>1, <1>4, <1>5 DEF Typed
<1>7. QED
  BY <1>3, <1>5, <1>6

LEMMA CancelledTyped ==
  ASSUME NEW t, Typed(t), t.io # "none"
  PROVE  Typed(Cancelled(t)) /\ Cancelled(t).io = "call"
<1>1. t \in Work /\ t.kind \in Kinds
  BY IdleTyped DEF Typed
<1>2. QED
  BY <1>1 DEF Typed, Work, Io, Commands, Cancelled

-----------------------------------------------------------------------------
\* No task but p gets or gives up the mutex.
OnlyBy(p) == \A q \in Tasks \ {p} : operation_mutex' = q <=> operation_mutex = q

\* A task that no pane shows goes on.
LEMMA TaskMoves ==
  ASSUME DevicesInv, NEW p \in Tasks, NEW u, task' = [task EXCEPT ![p] = u],
         Fits(u, operation_mutex', p), OnlyBy(p),
         task[p].io \notin {"pin", "pass", "hidden"}, pane' = pane
  PROVE  TasksFit(task', operation_mutex') /\ PanesFit(pane', task')
<1>1. task \in [Tasks -> Work] /\ u \in Work
  BY DEF DevicesInv, TasksFit, Fits, Typed
<1>2. task' \in [Tasks -> Work] /\ task'[p] = u /\ \A q \in Tasks \ {p} : task'[q] = task[q]
  BY <1>1
<1>3. ASSUME NEW q \in Tasks PROVE Fits(task'[q], operation_mutex', q)
  <2>1. CASE q = p
    BY <1>2, <2>1
  <2>2. CASE q # p
    <3>1. Fits(task[q], operation_mutex, q) /\ task'[q] = task[q]
      BY <1>2, <2>2 DEF DevicesInv, TasksFit
    <3>2. operation_mutex' = q <=> operation_mutex = q
      BY <2>2 DEF OnlyBy
    <3>3. QED
      BY <3>1, <3>2 DEF Fits
  <2>3. QED
    BY <2>1, <2>2
<1>4. ASSUME NEW d \in Trezors, NEW w \in {"pin", "pass"}, Shows(pane, task, d, w)
      PROVE  Shows(pane, task', d, w)
  BY <1>2, <1>4 DEF Shows, Waiting
<1>5. PanesFit(pane, task)
  BY DEF DevicesInv
<1>6. \A d \in Trezors : Shows(pane, task', d, "pin") /\ Shows(pane, task', d, "pass")
  BY <1>4, <1>5 DEF PanesFit
<1>7. QED
  BY <1>2, <1>3, <1>5, <1>6 DEF TasksFit, PanesFit

\* Nothing changes but what the USB server knows and what the devices do.
LEMMA TasksWait ==
  ASSUME DevicesInv, UNCHANGED <<task, pane>>,
         \A q \in Tasks : operation_mutex' = q <=> operation_mutex = q
  PROVE  TasksFit(task', operation_mutex') /\ PanesFit(pane', task')
<1>1. ASSUME NEW q \in Tasks PROVE Fits(task[q], operation_mutex', q)
  BY DEF DevicesInv, TasksFit, Fits
<1>2. QED
  BY <1>1 DEF DevicesInv, TasksFit

LEMMA PaneForgets ==
  ASSUME DevicesInv, NEW d \in Trezors, pane' = [pane EXCEPT ![d] = NoRequests]
  PROVE  PanesFit(pane', task)
<1>1. PanesFit(pane, task)
  BY DEF DevicesInv
<1>2. NoRequests \in [pin : Tasks \cup {Nobody}, pass : Tasks \cup {Nobody}]
      /\ NoRequests.pin = Nobody /\ NoRequests.pass = Nobody
  BY DEF NoRequests
<1>3. pane' \in [Trezors -> [pin : Tasks \cup {Nobody}, pass : Tasks \cup {Nobody}]]
      /\ pane'[d] = NoRequests /\ \A e \in Trezors \ {d} : pane'[e] = pane[e]
  BY <1>1, <1>2 DEF PanesFit
<1>4. ASSUME NEW e \in Trezors PROVE Shows(pane', task, e, "pin") /\ Shows(pane', task, e, "pass")
  <2>1. CASE e = d
    BY <1>2, <1>3, <2>1, GoroutinesAssumption DEF Shows
  <2>2. CASE e # d
    BY <1>1, <1>3, <2>2 DEF PanesFit, Shows
  <2>3. QED
    BY <2>1, <2>2
<1>5. QED
  BY <1>3, <1>4 DEF PanesFit

\* A task goes on to a step at which it holds nothing and no pane shows it.
LEMMA MovesOn ==
  ASSUME DevicesInv, NEW p \in Tasks, NEW u, task' = [task EXCEPT ![p] = u],
         Typed(u), u.io \in {"none", "call", "retry", "read", "look", "wait", "overdue", "getName", "hung", "find"},
         operation_mutex' # p, OnlyBy(p),
         task[p].io \notin {"pin", "pass", "hidden"}, pane' = pane
  PROVE  TasksFit(task', operation_mutex') /\ PanesFit(pane', task')
<1>1. Fits(u, operation_mutex', p)
  BY DEF Fits
<1>2. QED
  BY <1>1, TaskMoves

LEMMA MutexIsKept ==
  ASSUME DevicesInv, NEW p \in Tasks, task[p].io \notin {"reading", "looking"},
         operation_mutex' = operation_mutex
  PROVE  operation_mutex' # p /\ OnlyBy(p)
BY DEF DevicesInv, TasksFit, Fits, OnlyBy

LEMMA MutexIsReleased ==
  ASSUME NEW p \in Tasks, operation_mutex = p, operation_mutex' = Nobody
  PROVE  operation_mutex' # p /\ OnlyBy(p)
BY GoroutinesAssumption DEF OnlyBy

LEMMA MutexIsTaken ==
  ASSUME NEW p \in Tasks, operation_mutex = Nobody, operation_mutex' = p
  PROVE  OnlyBy(p)
BY GoroutinesAssumption DEF OnlyBy

LEMMA TaskFits ==
  ASSUME DevicesInv, NEW p \in Tasks
  PROVE  Fits(task[p], operation_mutex, p) /\ Typed(task[p])
BY DEF DevicesInv, TasksFit, Fits

LEMMA ServersWait ==
  ASSUME DevicesInv, UNCHANGED <<ledgers, ledgers_mutex, trezors>>
  PROVE  ListsFit'
BY DEF DevicesInv, ListsFit

LEMMA BudgetWaits ==
  ASSUME DevicesInv, budget' = budget
  PROVE  BudgetFits'
BY DEF DevicesInv, BudgetFits

-----------------------------------------------------------------------------
LEMMA OutsideKeeps ==
  ASSUME DevicesInv, Environment \/ Enumerate \/ UNCHANGED deviceVars
  PROVE  Rest'
<1>1. CASE UNCHANGED deviceVars
  <2>1. UNCHANGED <<ledgers, ledgers_mutex, trezors, budget, task, pane, operation_mutex>>
    BY <1>1 DEF deviceVars, usb
  <2>2. QED
    BY <2>1, ServersWait, BudgetWaits, TasksWait DEF Rest
<1>2. CASE Enumerate
  <2>1. UNCHANGED <<ledgers, ledgers_mutex, trezors, budget, task, pane>>
        /\ \A q \in Tasks : operation_mutex' = q <=> operation_mutex = q
    BY <1>2, GoroutinesAssumption DEF Enumerate, servers, EnumerateScan, EnumerateSweep
  <2>2. QED
    BY <2>1, ServersWait, BudgetWaits, TasksWait DEF Rest
<1>3. CASE Environment
  <2>1. PICK d \in Devices : UserPlugs(d) \/ Restart(d) \/ Lock(d) \/ Unlock(d) \/ Period(d)
    BY <1>3 DEF Environment
  <2>2. UNCHANGED <<ledgers, ledgers_mutex, trezors, task, pane, operation_mutex>>
    BY <2>1 DEF UserPlugs, Restart, Lock, Unlock, Period, servers, usb, Plug, Unplug, PeriodPasses
  <2>3. BudgetFits'
    <3>1. BudgetFits
      BY DEF DevicesInv
    <3>2. CASE UserPlugs(d)
      <4>1. budget.plugs > 0 /\ budget' = [budget EXCEPT !.plugs = budget.plugs - 1]
        BY <3>2 DEF UserPlugs
      <4>2. budget.plugs - 1 \in Nat
        BY <3>1, <4>1 DEF BudgetFits
      <4>3. QED
        BY <3>1, <4>1, <4>2 DEF BudgetFits
    <3>3. CASE Lock(d)
      <4>1. budget.locks > 0 /\ budget' = [budget EXCEPT !.locks = budget.locks - 1]
        BY <3>3 DEF Lock
      <4>2. budget.locks - 1 \in Nat
        BY <3>1, <4>1 DEF BudgetFits
      <4>3. QED
        BY <3>1, <4>1, <4>2 DEF BudgetFits
    <3>4. CASE Restart(d) \/ Unlock(d) \/ Period(d)
      BY <3>4, BudgetWaits DEF Restart, Unlock, Period
    <3>5. QED
      BY <2>1, <3>2, <3>3, <3>4
  <2>4. QED
    BY <2>2, <2>3, ServersWait, TasksWait DEF Rest
<1>4. QED
  BY <1>1, <1>2, <1>3

\* Messages from the USB server are taken in.
LEMMA EntryRemoved ==
  ASSUME DevicesInv, NEW d
  PROVE  remove(d) \in Seq(Entries)
<1>1. ledgers \in Seq(Entries)
  BY DEF DevicesInv, ListsFit
<1> DEFINE I == {i \in 1..Len(ledgers) : ledgers[i].dev = d}
<1>2. CASE I = {}
  BY <1>1, <1>2 DEF remove, RemoveFirstMatch
<1>3. CASE I # {}
  <2>1. I \subseteq Nat
    OBVIOUS
  <2>2. Min(I) \in I
    BY <1>3, <2>1, LeastElement
  <2>3. remove(d) = RemoveAt(ledgers, Min(I))
    BY <1>3 DEF remove, RemoveFirstMatch, SelectInSeq
  <2>4. QED
    BY <1>1, <2>2, <2>3, RemoveAtElements
<1>4. QED
  BY <1>2, <1>3

LEMMA GoneKeeps ==
  ASSUME DevicesInv,
         NEW d \in Devices, Gone(d)
  PROVE  Rest'
<1>1. ASSUME NEW i, d \in Ledgers, LedgerGone(d, i) PROVE Rest'
  <2>1. /\ ledgers' = remove(d)
        /\ UNCHANGED <<ledgers_mutex, trezors, budget, task, pane, operation_mutex>>
    BY <1>1 DEF LedgerGone
  <2>2. ListsFit'
    BY <2>1, EntryRemoved DEF DevicesInv, ListsFit
  <2>3. QED
    BY <2>1, <2>2, BudgetWaits, TasksWait DEF Rest
<1>2. ASSUME NEW i, d \in Trezors, TrezorGone(d, i) PROVE Rest'
  <2>1. /\ trezors' = RemoveFirst(trezors, d)
        /\ pane' = [pane EXCEPT ![d] = NoRequests]
        /\ UNCHANGED <<ledgers_mutex, ledgers, budget, task, operation_mutex>>
    BY <1>2 DEF TrezorGone
  <2>2. ListsFit'
    BY <2>1, RemoveFirstType DEF DevicesInv, ListsFit
  <2>3. PanesFit(pane', task') /\ TasksFit(task', operation_mutex')
    BY <1>2, <2>1, PaneForgets DEF DevicesInv
  <2>4. QED
    BY <2>1, <2>2, <2>3, BudgetWaits DEF Rest
<1>3. QED
  BY <1>1, <1>2 DEF Gone, Devices

\* A goroutine starts.
LEMMA StartKeeps ==
  ASSUME DevicesInv, NEW p \in Tasks, NEW u, ~Busy(p), task' = [task EXCEPT ![p] = u],
         Typed(u), u.io \in {"append", "call", "getName", "find"},
         u.io = "append" => u.dev \in Ledgers,
         UNCHANGED <<operation_mutex, pane>>
  PROVE  TasksFit(task', operation_mutex') /\ PanesFit(pane', task')
<1>1. task[p].io = "none"
  BY IdleTyped DEF Busy
<1>2. operation_mutex' # p /\ OnlyBy(p)
  BY <1>1, MutexIsKept
<1>3. Fits(u, operation_mutex', p)
  BY <1>2 DEF Fits
<1>4. QED
  BY <1>1, <1>2, <1>3, TaskMoves

LEMMA TakeInKeeps ==
  ASSUME DevicesInv, NEW p \in Tasks, TakeIn(p)
  PROVE  Rest'
<1>1. PICK d \in Devices : \E i \in MessagesOf(d, {"connected"}) :
        IF d \in Ledgers THEN LedgerConnected(p, d, i) ELSE TrezorConnected(p, d, i)
  BY DEF TakeIn
<1>2. CASE d \in Ledgers
  <2> DEFINE u == [Idle EXCEPT !.kind = "naming", !.for = "name", !.dev = d, !.by = p,
                               !.io = "append"]
  <2>1. /\ ~Busy(p) /\ ledgers' = remove(d) /\ task' = [task EXCEPT ![p] = u]
        /\ UNCHANGED <<operation_mutex, ledgers_mutex, trezors, pane, budget>>
    BY <1>1, <1>2 DEF LedgerConnected, Update
  <2>2. Typed(u) /\ u.io = "append" /\ u.dev = d
    BY DEF Typed, Idle, Work, Io, Wallets, Kinds
  <2>3. ListsFit'
    BY <2>1, EntryRemoved DEF DevicesInv, ListsFit
  <2> HIDE DEF u
  <2>4. QED
    BY <1>2, <2>1, <2>2, <2>3, StartKeeps, BudgetWaits DEF Rest
<1>3. CASE d \notin Ledgers
  <2> DEFINE u == [Idle EXCEPT !.kind = "init", !.dev = d, !.cmd = "init", !.io = "call"]
  <2>1. /\ ~Busy(p) /\ task' = [task EXCEPT ![p] = u]
        /\ UNCHANGED <<operation_mutex, ledgers, ledgers_mutex, trezors, pane, budget>>
    BY <1>1, <1>3 DEF TrezorConnected, Update, servers
  <2>2. Typed(u) /\ u.io = "call"
    BY DEF Typed, Idle, Work, Io, Wallets, Kinds, Commands
  <2> HIDE DEF u
  <2>3. QED
    BY <2>1, <2>2, StartKeeps, ServersWait, BudgetWaits DEF Rest
<1>4. QED
  BY <1>2, <1>3

LEMMA AskKeeps ==
  ASSUME DevicesInv, NEW p \in Tasks, NEW r \in budget.asks, Ask(p, r)
  PROVE  Rest'
<1> DEFINE u == [Idle EXCEPT !.kind = r.kind, !.wants = r.wants, !.parts = r.parts, !.io = "find"]
<1>1. BudgetFits
  BY DEF DevicesInv
<1>2. r \in Requests
  BY <1>1 DEF BudgetFits
<1>3. /\ ~Busy(p) /\ task' = [task EXCEPT ![p] = u]
      /\ budget' = [budget EXCEPT !.asks = budget.asks \ {r}]
      /\ UNCHANGED <<operation_mutex, ledgers, ledgers_mutex, trezors, pane>>
  BY DEF Ask, Update, servers, usb
<1>4. Typed(u) /\ u.io = "find"
  BY <1>2 DEF Typed, Idle, Work, Io, Wallets, Kinds, Requests
<1>5. BudgetFits'
  BY <1>1, <1>3 DEF BudgetFits
<1> HIDE DEF u
<1>6. QED
  BY <1>3, <1>4, <1>5, StartKeeps, ServersWait DEF Rest

LEMMA ClickKeeps ==
  ASSUME DevicesInv, NEW p \in Tasks, NEW i \in DOMAIN ledgers, ClickGetName(p, i)
  PROVE  Rest'
<1> DEFINE u == [Idle EXCEPT !.kind = "button", !.for = "name", !.dev = ledgers[i].dev,
                             !.by = ledgers[i].by, !.io = "getName"]
<1>1. BudgetFits /\ ledgers \in Seq(Entries)
  BY DEF DevicesInv, ListsFit
<1>2. ledgers[i] \in Entries
  BY <1>1
<1>3. /\ ~Busy(p) /\ task' = [task EXCEPT ![p] = u]
      /\ budget.clicks > 0 /\ budget' = [budget EXCEPT !.clicks = budget.clicks - 1]
      /\ UNCHANGED <<operation_mutex, ledgers, ledgers_mutex, trezors, pane>>
  BY DEF ClickGetName, Update, servers, usb
<1>4. Typed(u) /\ u.io = "getName"
  BY <1>2 DEF Typed, Idle, Work, Io, Wallets, Kinds, Entries, Devices
<1>5. BudgetFits'
  <2>1. budget.clicks - 1 \in Nat
    BY <1>1, <1>3 DEF BudgetFits
  <2>2. QED
    BY <1>1, <1>3, <2>1 DEF BudgetFits
<1> HIDE DEF u
<1>6. QED
  BY <1>3, <1>4, <1>5, StartKeeps, ServersWait DEF Rest

-----------------------------------------------------------------------------
\* The steps of a task that asks a device, but for what it makes of the reply.
LEMMA EndsKeep ==
  ASSUME DevicesInv, NEW p \in Tasks, End(p), task[p].io \notin {"pin", "pass", "hidden"}, pane' = pane,
         operation_mutex' # p, OnlyBy(p)
  PROVE  TasksFit(task', operation_mutex') /\ PanesFit(pane', task')
BY IdleTyped, MovesOn DEF End, Update

LEMMA GoKeeps ==
  ASSUME DevicesInv, NEW p \in Tasks, NEW io \in {"retry", "read", "look", "wait", "overdue", "getName", "hung"},
         Go(p, io), task[p].io \notin {"none", "pin", "pass", "hidden"}, pane' = pane,
         operation_mutex' # p, OnlyBy(p)
  PROVE  TasksFit(task', operation_mutex') /\ PanesFit(pane', task')
<1> DEFINE u == [task[p] EXCEPT !.io = io]
<1>1. Typed(task[p]) /\ task[p].io # "none" /\ io \in Io
  BY TaskFits DEF Io
<1>2. Typed(u) /\ u.io = io
  BY <1>1, IoTyped
<1>3. task' = [task EXCEPT ![p] = u]
  BY DEF Go, Update
<1> HIDE DEF u
<1>4. QED
  BY <1>2, <1>3, MovesOn

LEMMA WaitsKeeps ==
  ASSUME DevicesInv, NEW p \in Tasks, Waits(p), task[p].io \in {"find", "wait", "overdue"},
         pane' = pane, operation_mutex' # p, OnlyBy(p)
  PROVE  TasksFit(task', operation_mutex') /\ PanesFit(pane', task')
<1>1. PICK io \in {"wait", "overdue"} : Go(p, io)
  BY DEF Waits, Looking
<1>2. QED
  BY <1>1, GoKeeps

LEMMA CallKeeps ==
  ASSUME DevicesInv, NEW p \in Tasks, NEW stage \in {"info", "switch", "ask"}, NEW cmd \in Commands,
         Call(p, stage, cmd), task[p].io \notin {"none", "pin", "pass", "hidden"}, pane' = pane,
         operation_mutex' # p, OnlyBy(p)
  PROVE  TasksFit(task', operation_mutex') /\ PanesFit(pane', task')
<1> DEFINE u == [task[p] EXCEPT !.stage = stage, !.cmd = cmd, !.io = "call", !.tries = 0]
<1>1. Typed(task[p]) /\ task[p].io # "none"
  BY TaskFits
<1>2. Typed(u) /\ u.io = "call"
  <2>1. task[p] \in Work /\ task[p].kind \in Kinds
    BY <1>1, IdleTyped DEF Typed
  <2>2. QED
    BY <2>1 DEF Typed, Work, Io
<1>3. task' = [task EXCEPT ![p] = u]
  BY DEF Call, Update
<1> HIDE DEF u
<1>4. QED
  BY <1>2, <1>3, MovesOn

LEMMA QuestionKeeps ==
  ASSUME DevicesInv, NEW p \in Tasks, Question(p),
         task[p].io \notin {"none", "pin", "pass", "hidden"}, pane' = pane,
         operation_mutex' # p, OnlyBy(p)
  PROVE  TasksFit(task', operation_mutex') /\ PanesFit(pane', task')
<1>1. task[p].for \in {"sign", "name"}
  BY TaskFits DEF Typed, Work
<1>2. QED
  BY <1>1, CallKeeps DEF Question, Commands

LEMMA AsksKeep ==
  ASSUME DevicesInv, NEW p \in Tasks,
         \/ WriteCommand(p) \/ StartRead(p) \/ NoDevice(p) \/ ReadTimesOut(p) \/ NotFound(p)
         \/ Fails(p) \/ GivesUp(p)
  PROVE  Rest'
<1>1. UNCHANGED servers
  BY DEF WriteCommand, StartRead, NoDevice, ReadTimesOut, NotFound, Fails, GivesUp
<1>2. UNCHANGED <<ledgers, ledgers_mutex, trezors, pane>>
  BY <1>1 DEF servers
<1>3. BudgetFits'
  <2>1. BudgetFits
    BY DEF DevicesInv
  <2>2. CASE Fails(p)
    <3>1. budget.fails > 0 /\ budget' = [budget EXCEPT !.fails = budget.fails - 1]
      BY <2>2 DEF Fails
    <3>2. budget.fails - 1 \in Nat
      BY <2>1, <3>1 DEF BudgetFits
    <3>3. QED
      BY <2>1, <3>1, <3>2 DEF BudgetFits
  <2>3. CASE ~Fails(p)
    BY <2>3, BudgetWaits DEF WriteCommand, StartRead, NoDevice, ReadTimesOut, NotFound, GivesUp
  <2>4. QED
    BY <2>2, <2>3
<1>4. TasksFit(task', operation_mutex') /\ PanesFit(pane', task')
  <2>1. CASE WriteCommand(p)
    <3>1. task[p].io \in {"retry", "call"} /\ Go(p, "read") /\ operation_mutex' = operation_mutex
      BY <2>1 DEF WriteCommand, MayWrite, Write
    <3>2. QED
      BY <1>2, <3>1, MutexIsKept, GoKeeps
  <2>2. CASE StartRead(p)
    <3> DEFINE u == [task[p] EXCEPT !.io = "reading"]
    <3>1. /\ task[p].io = "read" /\ operation_mutex = Nobody /\ operation_mutex' = p
          /\ task' = [task EXCEPT ![p] = u]
      BY <2>2 DEF StartRead, BeginRead, Go, Update
    <3>2. Typed(u) /\ u.io = "reading"
      BY <3>1, TaskFits, IoTyped DEF Io
    <3> HIDE DEF u
    <3>3. Fits(u, operation_mutex', p) /\ OnlyBy(p)
      BY <3>1, <3>2, MutexIsTaken DEF Fits
    <3>4. QED
      BY <1>2, <3>1, <3>3, TaskMoves
  <2>3. CASE NoDevice(p)
    <3>1. /\ End(p)
          /\ \/ task[p].io \in {"retry", "call"} /\ operation_mutex' = operation_mutex
             \/ task[p].io = "reading" /\ operation_mutex = p /\ operation_mutex' = Nobody
      BY <2>3 DEF NoDevice, MayWrite, WriteNoDevice, ReadNoDevice
    <3>2. QED
      BY <1>2, <3>1, MutexIsKept, MutexIsReleased, EndsKeep
  <2>4. CASE ReadTimesOut(p)
    <3>1. End(p) /\ task[p].io = "reading" /\ operation_mutex = p /\ operation_mutex' = Nobody
      BY <2>4 DEF ReadTimesOut, CancelRead
    <3>2. QED
      BY <1>2, <3>1, MutexIsReleased, EndsKeep
  <2>5. CASE NotFound(p) \/ Fails(p) \/ GivesUp(p)
    <3>1. /\ End(p) /\ task[p].io \in {"call", "read", "retry", "wait", "look"}
          /\ operation_mutex' = operation_mutex
      BY <2>5 DEF NotFound, Fails, GivesUp, usb
    <3>2. QED
      BY <1>2, <3>1, MutexIsKept, EndsKeep
  <2>6. QED
    BY <2>1, <2>2, <2>3, <2>4, <2>5
<1>5. QED
  BY <1>2, <1>3, <1>4, ServersWait DEF Rest

-----------------------------------------------------------------------------
\* What a task makes of the reply it has read.
LEMMA NextPartKeeps ==
  ASSUME DevicesInv, NEW p \in Tasks, NextPart(p), task[p].parts > 0,
         task[p].io \notin {"none", "pin", "pass", "hidden"}, pane' = pane,
         operation_mutex' # p, OnlyBy(p)
  PROVE  TasksFit(task', operation_mutex') /\ PanesFit(pane', task')
<1> DEFINE u == [task[p] EXCEPT !.parts = @ - 1, !.stage = "ask", !.cmd = "sign", !.io = "call"]
<1>1. Typed(task[p]) /\ task[p].io # "none"
  BY TaskFits
<1>2. Typed(u) /\ u.io = "call"
  BY <1>1, NextPartTyped
<1>3. task' = [task EXCEPT ![p] = u]
  BY DEF NextPart, Update
<1> HIDE DEF u
<1>4. QED
  BY <1>2, <1>3, MovesOn

LEMMA NameKeeps ==
  ASSUME DevicesInv, NEW p \in Tasks, NEW r, SetName(p, r), task[p].dev \in Ledgers
  PROVE  ledgers' \in Seq(Entries)
<1>1. ledgers \in Seq(Entries)
  BY DEF DevicesInv, ListsFit
<1>2. ASSUME NEW i \in DOMAIN ledgers PROVE ledgers'[i] \in Entries
  <2>1. ledgers[i] \in Entries
    BY <1>1
  <2>2. [ledgers[i] EXCEPT !.name = IF r = "name" THEN task[p].dev ELSE "junk"] \in Entries
    BY <2>1 DEF Entries, Devices
  <2>3. QED
    BY <2>1, <2>2 DEF SetName
<1>3. Len(ledgers) \in Nat /\ DOMAIN ledgers = 1..Len(ledgers)
  BY <1>1
<1>4. DOMAIN ledgers' = DOMAIN ledgers /\ ledgers' = [i \in DOMAIN ledgers |-> ledgers'[i]]
  BY DEF SetName
<1>5. ledgers' \in [1..Len(ledgers) -> Entries]
  BY <1>2, <1>3, <1>4
<1>6. QED
  BY <1>3, <1>5, FunctionIsSeq

LEMMA LedgerReplyKeeps ==
  ASSUME DevicesInv, NEW p \in Tasks, LedgerReply(p)
  PROVE  Rest'
<1>1. PICK r \in NextReply(p) :
        /\ task[p].dev \in Ledgers
        /\ GetReply(p)
        /\ \/ LedgerRefuses(p, r) /\ UNCHANGED <<ledgers, signed>>
           \/ /\ r \notin Refusals \cup {"refused"}
              /\ \/ provide_eth_app(p, r) /\ UNCHANGED <<ledgers, signed>>
                 \/ waitForReconnect(p) /\ UNCHANGED <<ledgers, signed>>
                 \/ GivesName(p, r) /\ UNCHANGED signed
                 \/ /\ task[p].stage = "ask" /\ task[p].parts > 0 /\ NextPart(p)
                    /\ UNCHANGED <<ledgers, signed>>
                 \/ GivesSignature(p) /\ UNCHANGED ledgers
        /\ UNCHANGED <<ledgers_mutex, trezors, pane, budget>>
  BY DEF LedgerReply
<1>2. task[p].io = "reading"
  BY DEF NextReply
<1>3. operation_mutex' # p /\ OnlyBy(p)
  BY <1>1, MutexIsReleased DEF GetReply, EndRead
<1>4. pane' = pane
  BY <1>1
<1>5. TasksFit(task', operation_mutex') /\ PanesFit(pane', task')
  <2>1. CASE End(p)
    BY <1>2, <1>3, <1>4, <2>1, EndsKeep
  <2>2. CASE LedgerRefuses(p, r) /\ ~End(p)
    <3> DEFINE u == [task[p] EXCEPT !.io = "retry", !.tries = @ + 1]
    <3>1. task' = [task EXCEPT ![p] = u]
      BY <2>2 DEF LedgerRefuses, Update
    <3>2. Typed(task[p]) /\ task[p].io # "none"
      BY <1>2, TaskFits
    <3>3. Typed(u) /\ u.io = "retry"
      BY <3>2, TriesTyped
    <3> HIDE DEF u
    <3>4. QED
      BY <1>2, <1>3, <1>4, <3>1, <3>3, MovesOn
  <2>3. CASE provide_eth_app(p, r) /\ ~End(p)
    <3>1. CASE Question(p)
      BY <1>2, <1>3, <1>4, <3>1, QuestionKeeps
    <3>2. CASE ~Question(p)
      <4>1. Call(p, "switch", IF task[p].for = "name" THEN "quit" ELSE "launch")
        BY <2>3, <3>2 DEF provide_eth_app
      <4>2. CASE task[p].for = "name"
        BY <1>2, <1>3, <1>4, <4>1, <4>2, CallKeeps DEF Commands
      <4>3. CASE task[p].for # "name"
        BY <1>2, <1>3, <1>4, <4>1, <4>3, CallKeeps DEF Commands
      <4>4. QED
        BY <4>2, <4>3
    <3>3. QED
      BY <3>1, <3>2
  <2>4. CASE waitForReconnect(p)
    BY <1>2, <1>3, <1>4, <2>4, GoKeeps DEF waitForReconnect
  <2>5. CASE task[p].parts > 0 /\ NextPart(p)
    BY <1>2, <1>3, <1>4, <2>5, NextPartKeeps
  <2>6. QED
    BY <1>1, <2>1, <2>2, <2>3, <2>4, <2>5 DEF GivesName, GivesSignature
<1>6. ListsFit'
  <2>1. CASE GivesName(p, r)
    <3>1. ledgers' \in Seq(Entries)
      BY <1>1, <2>1, NameKeeps DEF GivesName
    <3>2. QED
      BY <1>1, <3>1 DEF DevicesInv, ListsFit
  <2>2. CASE ~GivesName(p, r)
    BY <1>1, <2>2, ServersWait
  <2>3. QED
    BY <2>1, <2>2
<1>7. BudgetFits'
  BY <1>1, BudgetWaits
<1>8. QED
  BY <1>5, <1>6, <1>7 DEF Rest

\* A reply of a Trezor may send the task to its pane.
LEMMA TrezorReplyKeeps ==
  ASSUME DevicesInv, NEW p \in Tasks, TrezorReply(p)
  PROVE  Rest'
<1>1. PICK r \in NextReply(p) :
        /\ task[p].dev \in Trezors
        /\ GetReply(p)
        /\ \/ init_trezor(p, r)
           \/ End(p)
           \/ TrezorAsks(p, r)
           \/ TrezorSigns(p, r)
        /\ UNCHANGED <<servers, budget>>
  BY DEF TrezorReply
<1>2. task[p].io = "reading"
  BY DEF NextReply
<1>3. operation_mutex' # p /\ OnlyBy(p)
  BY <1>1, MutexIsReleased DEF GetReply, EndRead
<1>4. UNCHANGED <<ledgers, ledgers_mutex, trezors, pane, budget>>
  BY <1>1 DEF servers
<1>5. ASSUME NEW io \in {"remove", "get_pin", "get_pass"}, Go(p, io)
      PROVE  TasksFit(task', operation_mutex') /\ PanesFit(pane', task')
  <2> DEFINE u == [task[p] EXCEPT !.io = io]
  <2>1. Typed(task[p]) /\ task[p].io # "none" /\ io \in Io
    BY <1>2, TaskFits DEF Io
  <2>2. Typed(u) /\ u.io = io /\ u.dev = task[p].dev
    BY <2>1, IoTyped
  <2>3. task' = [task EXCEPT ![p] = u]
    BY <1>5 DEF Go, Update
  <2> HIDE DEF u
  <2>4. Fits(u, operation_mutex', p)
    BY <1>1, <1>3, <2>2 DEF Fits
  <2>5. QED
    BY <1>2, <1>3, <1>4, <2>3, <2>4, TaskMoves
<1>6. TasksFit(task', operation_mutex') /\ PanesFit(pane', task')
  <2>1. CASE End(p)
    BY <1>2, <1>3, <1>4, <2>1, EndsKeep
  <2>2. CASE Go(p, "remove") \/ Go(p, "get_pin") \/ Go(p, "get_pass")
    BY <1>5, <2>2
  <2>3. CASE Call(p, "ask", "passack") \/ Call(p, "ask", "buttonack")
    BY <1>2, <1>3, <1>4, <2>3, CallKeeps DEF Commands
  <2>4. CASE task[p].parts > 0 /\ NextPart(p)
    BY <1>2, <1>3, <1>4, <2>4, NextPartKeeps
  <2>5. QED
    BY <1>1, <2>1, <2>2, <2>3, <2>4 DEF init_trezor, TrezorAsks, TrezorSigns, SkipPassword
<1>7. QED
  BY <1>4, <1>6, ServersWait, BudgetWaits DEF Rest

-----------------------------------------------------------------------------
\* The other steps of a task.
LEMMA LedgerStepsKeep ==
  ASSUME DevicesInv, NEW p \in Tasks,
         AddLedger(p) \/ GetName(p) \/ FindLedger(p) \/ Hang(p) \/ Look(p) \/ Looked(p)
  PROVE  Rest'
<1>1. BudgetFits'
  BY BudgetWaits DEF AddLedger, GetName, FindLedger, Hang, Look, Looked
<1>2. ListsFit
  BY DEF DevicesInv
<1>3. CASE AddLedger(p)
  <2>1. /\ task[p].io = "append" /\ Go(p, "getName")
        /\ ledgers' = Append(ledgers, [dev |-> task[p].dev, by |-> p, name |-> NoName])
        /\ UNCHANGED <<ledgers_mutex, trezors, pane, operation_mutex>>
    BY <1>3 DEF AddLedger, At, usb
  <2>2. task[p].dev \in Ledgers
    BY <2>1, TaskFits DEF Fits
  <2>3. [dev |-> task[p].dev, by |-> p, name |-> NoName] \in Entries
    BY <2>2 DEF Entries
  <2>4. ListsFit'
    BY <1>2, <2>1, <2>3 DEF ListsFit
  <2>5. QED
    BY <1>1, <2>1, <2>4, GoKeeps, MutexIsKept DEF Rest
<1>4. CASE GetName(p)
  <2>1. /\ task[p].io = "getName" /\ Call(p, "info", "info")
        /\ UNCHANGED <<ledgers, ledgers_mutex, trezors, pane, operation_mutex>>
    BY <1>4 DEF GetName, servers, usb
  <2>2. QED
    BY <1>1, <2>1, CallKeeps, MutexIsKept, ServersWait DEF Rest, Commands
<1>5. CASE FindLedger(p)
  <2> DEFINE named   == {i \in DOMAIN ledgers : ledgers[i].name \in task[p].wants}
             unnamed == {i \in DOMAIN ledgers : ledgers[i].name = NoName}
             t(S)    == [task[p] EXCEPT !.dev = ledgers[First(S)].dev, !.by = ledgers[First(S)].by]
  <2>1. /\ task[p].io \in {"find", "wait", "overdue"}
        /\ UNCHANGED <<ledgers, trezors, pane, operation_mutex>>
    BY <1>5 DEF FindLedger, Looking, usb
  <2>2. operation_mutex' # p /\ OnlyBy(p) /\ pane' = pane
    BY <2>1, MutexIsKept
  <2>3. /\ task[p] \in Work /\ task[p].kind \in Kinds
        /\ task[p].io \notin {"none", "pin", "pass", "hidden"}
    BY <2>1, TaskFits, IdleTyped DEF Typed
  <2>4. ListsFit'
    BY <1>2, <1>5, <2>1 DEF ListsFit, FindLedger
  <2>5. ASSUME NEW S \in SUBSET DOMAIN ledgers, S # {}
        PROVE  t(S) \in Work /\ t(S).kind = task[p].kind
    <3>1. ledgers \in Seq(Entries) /\ S \subseteq Nat
      BY <1>2 DEF ListsFit
    <3>2. First(S) = Min(S)
      BY DEF First, Min
    <3>3. First(S) \in DOMAIN ledgers
      BY <2>5, <3>1, <3>2, LeastElement
    <3>4. ledgers[First(S)] \in Entries
      BY <3>1, <3>3
    <3>5. QED
      BY <2>3, <3>4 DEF Work, Entries, Devices
  <2>6. CASE named # {} /\ Update(p, [t(named) EXCEPT !.for = "sign", !.stage = "info", !.cmd = "info",
                                                      !.io = "call"])
    <3> DEFINE u == [t(named) EXCEPT !.for = "sign", !.stage = "info", !.cmd = "info", !.io = "call"]
    <3>1. t(named) \in Work /\ t(named).kind \in Kinds
      BY <2>3, <2>5, <2>6
    <3>2. Typed(u) /\ u.io = "call"
      <4> HIDE DEF t, named
      <4>1. u \in Work
        BY <3>1 DEF Work, Io, Commands
      <4>2. u.kind = t(named).kind /\ u.io = "call"
        BY <3>1 DEF Work
      <4>3. QED
        BY <3>1, <4>1, <4>2 DEF Typed
    <3>3. task' = [task EXCEPT ![p] = u]
      BY <2>6 DEF Update
    <3> HIDE DEF u
    <3>4. QED
      BY <1>1, <2>2, <2>3, <2>4, <3>2, <3>3, MovesOn DEF Rest
  <2>7. CASE unnamed # {} /\ Update(p, [t(unnamed) EXCEPT !.for = "name", !.io = "getName"])
    <3> DEFINE u == [t(unnamed) EXCEPT !.for = "name", !.io = "getName"]
    <3>1. t(unnamed) \in Work /\ t(unnamed).kind \in Kinds
      BY <2>3, <2>5, <2>7
    <3> HIDE DEF t
    <3>2. Typed(u) /\ u.io = "getName"
      BY <3>1 DEF Typed, Work, Io
    <3>3. task' = [task EXCEPT ![p] = u]
      BY <2>7 DEF Update
    <3> HIDE DEF u
    <3>4. QED
      BY <1>1, <2>2, <2>3, <2>4, <3>2, <3>3, MovesOn DEF Rest
  <2>8. CASE Waits(p)
    BY <1>1, <2>1, <2>2, <2>3, <2>4, <2>8, WaitsKeeps DEF Rest
  <2>9. CASE End(p)
    BY <1>1, <2>2, <2>3, <2>4, <2>9, EndsKeep DEF Rest
  <2>10. QED
    BY <1>5, <2>6, <2>7, <2>8, <2>9 DEF FindLedger, Found
<1>6. CASE Hang(p)
  <2>1. /\ task[p].io = "retry" /\ Go(p, "hung")
        /\ UNCHANGED <<ledgers, ledgers_mutex, trezors, pane, operation_mutex>>
    BY <1>6 DEF Hang, servers, usb
  <2>2. QED
    BY <1>1, <2>1, GoKeeps, MutexIsKept, ServersWait DEF Rest
<1>7. CASE Look(p)
  <2> DEFINE u == [task[p] EXCEPT !.io = "looking", !.tries = @ + 1]
  <2>1. /\ task[p].io = "look" /\ task' = [task EXCEPT ![p] = u]
        /\ operation_mutex = Nobody /\ operation_mutex' = p
        /\ UNCHANGED <<ledgers, ledgers_mutex, trezors, pane>>
    BY <1>7 DEF Look, Update, servers, EnumerateScan
  <2>2. Typed(task[p]) /\ task[p].io # "none"
    BY <2>1, TaskFits
  <2>3. Typed(u) /\ u.io = "looking"
    BY <2>2, TriesTyped
  <2> HIDE DEF u
  <2>4. Fits(u, operation_mutex', p)
    BY <2>1, <2>3 DEF Fits
  <2>5. QED
    BY <1>1, <2>1, <2>4, MutexIsTaken, TaskMoves, ServersWait DEF Rest
<1>8. CASE Looked(p)
  <2>1. /\ task[p].io = "looking" /\ (Question(p) \/ Go(p, "look"))
        /\ operation_mutex = p /\ operation_mutex' = Nobody
        /\ UNCHANGED <<ledgers, ledgers_mutex, trezors, pane>>
    BY <1>8 DEF Looked, servers, EnumerateSweep
  <2>2. operation_mutex' # p /\ OnlyBy(p) /\ task[p].io \notin {"none", "pin", "pass", "hidden"} /\ pane' = pane
    BY <2>1, MutexIsReleased
  <2>3. TasksFit(task', operation_mutex') /\ PanesFit(pane', task')
    BY <2>1, <2>2, QuestionKeeps, GoKeeps
  <2>4. QED
    BY <1>1, <2>1, <2>3, ServersWait DEF Rest
<1>9. QED
  BY <1>3, <1>4, <1>5, <1>6, <1>7, <1>8

LEMMA TrezorStepsKeep ==
  ASSUME DevicesInv, NEW p \in Tasks, RemoveTrezor(p) \/ AddTrezor(p) \/ FindTrezor(p)
  PROVE  Rest'
<1>1. BudgetFits' /\ operation_mutex' = operation_mutex
  BY BudgetWaits DEF RemoveTrezor, AddTrezor, FindTrezor, usb
<1>2. ListsFit
  BY DEF DevicesInv
<1>3. CASE RemoveTrezor(p)
  <2> DEFINE u == [task[p] EXCEPT !.io = "add"]
             d == task[p].dev
  <2>1. /\ task[p].io = "remove" /\ task' = [task EXCEPT ![p] = u]
        /\ trezors' = RemoveFirst(trezors, d) /\ pane' = [pane EXCEPT ![d] = NoRequests]
        /\ UNCHANGED <<ledgers, ledgers_mutex>>
    BY <1>3 DEF RemoveTrezor, Go, Update
  <2>2. Typed(task[p]) /\ task[p].io # "none" /\ d \in Trezors
    BY <2>1, TaskFits DEF Fits
  <2>3. Typed(u) /\ u.io = "add" /\ u.dev = d
    BY <2>2, IoTyped DEF Io
  <2> HIDE DEF u
  <2>4. operation_mutex' # p /\ OnlyBy(p)
    BY <1>1, <2>1, MutexIsKept
  <2>5. Fits(u, operation_mutex', p)
    BY <2>2, <2>3, <2>4 DEF Fits
  <2>6. PanesFit(pane', task)
    BY <2>1, <2>2, PaneForgets
  <2>7. /\ task \in [Tasks -> Work] /\ \A q \in Tasks : Fits(task[q], operation_mutex, q)
    BY DEF DevicesInv, TasksFit
  <2>8. task' \in [Tasks -> Work] /\ task'[p] = u /\ \A q \in Tasks \ {p} : task'[q] = task[q]
    BY <2>1, <2>3, <2>7 DEF Typed
  <2>9. TasksFit(task', operation_mutex')
    BY <1>1, <2>5, <2>7, <2>8 DEF TasksFit
  <2>10. ASSUME NEW e \in Trezors, NEW w \in {"pin", "pass"}, Shows(pane', task, e, w)
         PROVE  Shows(pane', task', e, w)
    BY <2>1, <2>8, <2>10 DEF Shows, Waiting
  <2>11. \A e \in Trezors : Shows(pane', task', e, "pin") /\ Shows(pane', task', e, "pass")
    BY <2>6, <2>10 DEF PanesFit
  <2>12. PanesFit(pane', task')
    BY <2>6, <2>11 DEF PanesFit
  <2>13. ListsFit'
    BY <1>2, <2>1, RemoveFirstType DEF ListsFit
  <2>14. QED
    BY <1>1, <2>9, <2>12, <2>13 DEF Rest
<1>4. CASE AddTrezor(p)
  <2>1. /\ task[p].io = "add" /\ End(p) /\ trezors' = Append(trezors, task[p].dev)
        /\ UNCHANGED <<ledgers, ledgers_mutex, pane>>
    BY <1>4 DEF AddTrezor
  <2>2. task[p].dev \in Trezors
    BY <2>1, TaskFits DEF Fits
  <2>3. ListsFit'
    BY <1>2, <2>1, <2>2 DEF ListsFit
  <2>4. QED
    BY <1>1, <2>1, <2>3, MutexIsKept, EndsKeep DEF Rest
<1>5. CASE FindTrezor(p)
  <2> DEFINE named == {i \in DOMAIN trezors : trezors[i] \in task[p].wants}
             u     == [task[p] EXCEPT !.dev = trezors[First(named)], !.cmd = "sign", !.io = "call"]
  <2>1. /\ task[p].io \in {"find", "wait", "overdue"}
        /\ UNCHANGED <<ledgers, ledgers_mutex, trezors, pane>>
        /\ IF named = {} THEN Waits(p) ELSE End(p) \/ task' = [task EXCEPT ![p] = u]
    BY <1>5 DEF FindTrezor, Looking, Found, servers, Update
  <2>2. operation_mutex' # p /\ OnlyBy(p) /\ pane' = pane
    BY <1>1, <2>1, MutexIsKept
  <2>3. /\ task[p] \in Work /\ task[p].kind \in Kinds
        /\ task[p].io \notin {"none", "pin", "pass", "hidden"}
    BY <2>1, TaskFits, IdleTyped DEF Typed
  <2>4. CASE named = {}
    BY <1>1, <2>1, <2>2, <2>3, <2>4, WaitsKeeps, ServersWait DEF Rest
  <2>5. CASE named # {} /\ ~End(p)
    <3>1. trezors \in Seq(Trezors) /\ named \subseteq Nat
      BY <1>2 DEF ListsFit
    <3>2. First(named) = Min(named)
      BY DEF First, Min
    <3>3. First(named) \in DOMAIN trezors
      BY <2>5, <3>1, <3>2, LeastElement
    <3>4. trezors[First(named)] \in Devices
      BY <3>1, <3>3 DEF Devices
    <3> HIDE DEF named
    <3>5. Typed(u) /\ u.io = "call"
      BY <2>3, <3>4 DEF Typed, Work, Io, Commands
    <3>6. task' = [task EXCEPT ![p] = u]
      BY <2>1, <2>5
    <3> HIDE DEF u
    <3>7. QED
      BY <1>1, <2>1, <2>2, <2>3, <3>5, <3>6, MovesOn, ServersWait DEF Rest
  <2>6. CASE End(p)
    BY <1>1, <2>1, <2>2, <2>3, <2>6, EndsKeep, ServersWait DEF Rest
  <2>7. QED
    BY <2>4, <2>5, <2>6
<1>6. QED
  BY <1>3, <1>4, <1>5

\* The pane shows the request of p now, and p waits for the answer; the task whose request
\* it showed until then waited as well, and asks the device to cancel.
LEMMA PaneRequestKeeps ==
  ASSUME DevicesInv, NEW p \in Tasks, NEW w \in {"pin", "pass"}, PaneRequest(p, w)
  PROVE  Rest'
<1> DEFINE d == task[p].dev
           q == pane[d][w]
           u == [task[p] EXCEPT !.io = w]
<1>1. /\ task[p].io = Get[w] /\ pane' = [pane EXCEPT ![d][w] = p]
      /\ task' = [t \in Tasks |-> IF t = p THEN u
                                  ELSE IF t = q THEN Cancelled(task[t]) ELSE task[t]]
      /\ UNCHANGED <<ledgers, ledgers_mutex, trezors, budget, operation_mutex>>
  BY DEF PaneRequest, usb
<1>2. task[p].io \in {"get_pin", "get_pass"}
  BY <1>1 DEF Get
<1>3. Typed(task[p]) /\ task[p].io # "none" /\ d \in Trezors /\ w \in Io
  BY <1>2, TaskFits DEF Fits, Io
<1>4. Typed(u) /\ u.io = w /\ u.dev = d
  BY <1>3, IoTyped
<1>5. operation_mutex' # p
  BY <1>1, <1>2, MutexIsKept
<1>6. Fits(u, operation_mutex', p)
  BY <1>3, <1>4, <1>5 DEF Fits
<1> HIDE DEF u
<1>7. /\ PanesFit(pane, task) /\ task \in [Tasks -> Work]
      /\ pane \in [Trezors -> [pin : Tasks \cup {Nobody}, pass : Tasks \cup {Nobody}]]
  BY DEF DevicesInv, PanesFit, TasksFit
<1>8. q \in Tasks => task[q].io \in Waiting[w] /\ task[q].dev = d
  BY <1>3, <1>7 DEF PanesFit, Shows
<1>9. ASSUME NEW t \in Tasks
      PROVE  Fits(task'[t], operation_mutex', t) /\ task'[t] \in Work
  <2>1. Fits(task[t], operation_mutex, t) /\ Typed(task[t])
    BY TaskFits
  <2>2. CASE t = p
    BY <1>1, <1>6, <2>2 DEF Fits, Typed
  <2>3. CASE t # p /\ t = q
    <3>1. task'[t] = Cancelled(task[t]) /\ task[t].io \in {"pin", "pass", "hidden"}
      BY <1>1, <1>8, <2>3 DEF Waiting
    <3>2. Typed(task'[t]) /\ task'[t].io = "call"
      BY <2>1, <3>1, CancelledTyped
    <3>3. operation_mutex' # t
      BY <1>1, <2>1, <3>1 DEF Fits
    <3>4. QED
      BY <3>2, <3>3 DEF Fits, Typed
  <2>4. CASE t # p /\ t # q
    BY <1>1, <2>1, <2>4 DEF Fits, Typed
  <2>5. QED
    BY <2>2, <2>3, <2>4
<1>10. TasksFit(task', operation_mutex')
  <2>1. task' = [t \in Tasks |-> task'[t]]
    BY <1>1
  <2>2. task' \in [Tasks -> Work]
    BY <1>9, <2>1
  <2>3. QED
    BY <1>9, <2>2 DEF TasksFit
<1>11. /\ pane' \in [Trezors -> [pin : Tasks \cup {Nobody}, pass : Tasks \cup {Nobody}]]
       /\ pane'[d][w] = p
       /\ \A e \in Trezors, v \in {"pin", "pass"} : e # d \/ v # w => pane'[e][v] = pane[e][v]
  BY <1>1, <1>3, <1>7
<1>12. ASSUME NEW e \in Trezors, NEW v \in {"pin", "pass"} PROVE Shows(pane', task', e, v)
  <2>1. CASE e = d /\ v = w
    BY <1>1, <1>4, <1>11, <2>1 DEF Shows, Waiting
  <2>2. CASE e # d \/ v # w
    <3> DEFINE s == pane[e][v]
    <3>1. pane'[e][v] = s /\ Shows(pane, task, e, v)
      BY <1>7, <1>11, <2>2 DEF PanesFit
    <3>2. s \in Tasks => task[s].io \in Waiting[v] /\ task[s].dev = e
      BY <3>1 DEF Shows
    <3>3. s \in Tasks => s # p /\ s # q
      BY <1>2, <1>8, <2>2, <3>2 DEF Waiting
    <3>4. s \in Tasks => task'[s] = task[s]
      BY <1>1, <3>3
    <3>5. QED
      BY <3>1, <3>2, <3>4 DEF Shows
  <2>3. QED
    BY <2>1, <2>2
<1>13. PanesFit(pane', task')
  BY <1>11, <1>12 DEF PanesFit
<1>14. QED
  BY <1>1, <1>10, <1>13, ServersWait, BudgetWaits DEF Rest

\* An answer or the time limit takes the request of p off its pane.
LEMMA PaneReplyKeeps ==
  ASSUME DevicesInv, NEW p \in Tasks, NEW w \in {"pin", "pass"},
         PaneAnswer(p, w) \/ PaneTimesOut(p, w)
  PROVE  Rest'
<1> DEFINE d == task[p].dev
<1>1. /\ task[p].io \in Waiting[w]
      /\ pane' = [pane EXCEPT ![d][w] = IF pane[d][w] = p THEN Nobody ELSE pane[d][w]]
      /\ UNCHANGED <<ledgers, ledgers_mutex, trezors, budget, operation_mutex>>
  <2>1. CASE PaneTimesOut(p, w)
    BY <2>1 DEF PaneTimesOut, Waiting, usb
  <2>2. CASE PaneAnswer(p, w)
    <3>1. /\ Shown(p, w) \/ (w = "pass" /\ task[p].io = "hidden")
          /\ pane' = [pane EXCEPT ![d][w] = IF pane[d][w] = p THEN Nobody ELSE pane[d][w]]
          /\ UNCHANGED <<ledgers, ledgers_mutex, trezors, budget, operation_mutex>>
      BY <2>2 DEF PaneAnswer, usb
    <3>2. task[p].io \in Waiting[w]
      BY <3>1 DEF Shown, Waiting
    <3>3. QED
      BY <3>1, <3>2
  <2>3. QED
    BY <2>1, <2>2
<1>2. Typed(task[p]) /\ task[p].io \in {"pin", "pass", "hidden"} /\ d \in Trezors
  BY <1>1, TaskFits DEF Fits, Waiting
<1>3. operation_mutex' # p
  BY <1>1, <1>2, MutexIsKept
<1>4. \E u : Typed(u) /\ u.io \in {"call", "none"} /\ task' = [task EXCEPT ![p] = u]
  <2>1. CASE PaneTimesOut(p, w)
    BY <2>1, IdleTyped DEF PaneTimesOut, End, Update
  <2>2. CASE Update(p, Cancelled(task[p]))
    BY <1>2, <2>2, CancelledTyped DEF Update
  <2>3. ASSUME NEW x \in Wallets,
               Update(p, [task[p] EXCEPT !.cmd = Ack[w], !.pass = x, !.io = "call"])
        PROVE  \E u : Typed(u) /\ u.io \in {"call", "none"} /\ task' = [task EXCEPT ![p] = u]
    <3> DEFINE u == [task[p] EXCEPT !.cmd = Ack[w], !.pass = x, !.io = "call"]
    <3>1. Ack[w] \in Commands
      BY DEF Ack, Commands
    <3>2. task[p] \in Work /\ task[p].kind \in Kinds
      BY <1>2, IdleTyped DEF Typed
    <3>3. Typed(u) /\ u.io = "call"
      BY <3>1, <3>2 DEF Typed, Work, Io
    <3> HIDE DEF u
    <3>4. QED
      BY <2>3, <3>3 DEF Update, u
  <2>4. \A x \in IF w = "pass" THEN Wallets ELSE {"asked"} : x \in Wallets
    BY DEF Wallets
  <2>5. QED
    BY <2>1, <2>2, <2>3, <2>4 DEF PaneAnswer
<1>5. PICK u : Typed(u) /\ u.io \in {"call", "none"} /\ task' = [task EXCEPT ![p] = u]
  BY <1>4
<1>6. Fits(u, operation_mutex', p)
  BY <1>3, <1>5 DEF Fits
<1>7. /\ PanesFit(pane, task) /\ task \in [Tasks -> Work]
      /\ pane \in [Trezors -> [pin : Tasks \cup {Nobody}, pass : Tasks \cup {Nobody}]]
  BY DEF DevicesInv, PanesFit, TasksFit
<1>8. task' \in [Tasks -> Work] /\ task'[p] = u /\ \A q \in Tasks \ {p} : task'[q] = task[q]
  BY <1>5, <1>7 DEF Typed
<1>9. TasksFit(task', operation_mutex')
  <2>1. ASSUME NEW t \in Tasks PROVE Fits(task'[t], operation_mutex', t)
    BY <1>1, <1>6, <1>8, TaskFits
  <2>2. QED
    BY <1>8, <2>1 DEF TasksFit
<1>10. /\ pane' \in [Trezors -> [pin : Tasks \cup {Nobody}, pass : Tasks \cup {Nobody}]]
       /\ pane'[d][w] # p
       /\ \A e \in Trezors, v \in {"pin", "pass"} :
            pane'[e][v] = pane[e][v] \/ pane'[e][v] = Nobody
  BY <1>1, <1>2, <1>7, GoroutinesAssumption
<1>11. ASSUME NEW e \in Trezors, NEW v \in {"pin", "pass"} PROVE Shows(pane', task', e, v)
  <2> DEFINE s == pane'[e][v]
  <2> SUFFICES ASSUME s \in Tasks PROVE task'[s].io \in Waiting[v] /\ task'[s].dev = e
    BY DEF Shows
  <2>1. pane[e][v] = s
    BY <1>10, GoroutinesAssumption
  <2>2. task[s].io \in Waiting[v] /\ task[s].dev = e
    BY <1>7, <2>1 DEF PanesFit, Shows
  <2>3. s # p
    BY <1>1, <1>10, <2>2 DEF Waiting
  <2>4. QED
    BY <1>8, <2>2, <2>3
<1>12. PanesFit(pane', task')
  BY <1>10, <1>11 DEF PanesFit
<1>13. QED
  BY <1>1, <1>9, <1>12, ServersWait, BudgetWaits DEF Rest

\* The popup for a passphrase opens or closes: the pane shows the request as before. Or the
\* user has the task not wait for the device.
LEMMA ClicksKeep ==
  ASSUME DevicesInv, NEW p \in Tasks, ClickHidden(p) \/ CloseHidden(p) \/ ClickCancelWait(p)
  PROVE  Rest'
<1>1. UNCHANGED <<ledgers, ledgers_mutex, trezors, pane, budget, operation_mutex>>
  BY DEF ClickHidden, CloseHidden, ClickCancelWait, servers, usb
<1>2. CASE ClickCancelWait(p)
  <2>1. End(p) /\ task[p].io \in {"wait", "overdue"}
    BY <1>2 DEF ClickCancelWait
  <2>2. QED
    BY <1>1, <2>1, MutexIsKept, EndsKeep, ServersWait, BudgetWaits DEF Rest
<1>3. ASSUME NEW io \in {"pass", "hidden"}, task[p].io \in {"pass", "hidden"}, Go(p, io)
      PROVE  Rest'
  <2> DEFINE u == [task[p] EXCEPT !.io = io]
  <2>1. Typed(task[p]) /\ task[p].io # "none" /\ io \in Io /\ task[p].dev \in Trezors
    BY <1>3, TaskFits DEF Io, Fits
  <2>2. Typed(u) /\ u.io = io /\ u.dev = task[p].dev
    BY <2>1, IoTyped
  <2>3. task' = [task EXCEPT ![p] = u]
    BY <1>3 DEF Go, Update
  <2> HIDE DEF u
  <2>4. operation_mutex' # p
    BY <1>1, <1>3, MutexIsKept
  <2>5. Fits(u, operation_mutex', p)
    BY <1>3, <2>1, <2>2, <2>4 DEF Fits
  <2>6. PanesFit(pane, task) /\ task \in [Tasks -> Work]
    BY DEF DevicesInv, TasksFit
  <2>7. task' \in [Tasks -> Work] /\ task'[p] = u /\ \A q \in Tasks \ {p} : task'[q] = task[q]
    BY <2>2, <2>3, <2>6 DEF Typed
  <2>8. ASSUME NEW q \in Tasks PROVE Fits(task'[q], operation_mutex', q)
    BY <1>1, <2>5, <2>7, TaskFits
  <2>9. ASSUME NEW e \in Trezors, NEW w \in {"pin", "pass"}, Shows(pane, task, e, w)
        PROVE  Shows(pane, task', e, w)
    BY <1>3, <2>2, <2>7, <2>9 DEF Shows, Waiting
  <2>10. \A e \in Trezors : Shows(pane, task', e, "pin") /\ Shows(pane, task', e, "pass")
    BY <2>6, <2>9 DEF PanesFit
  <2>11. TasksFit(task', operation_mutex') /\ PanesFit(pane', task')
    BY <1>1, <2>6, <2>7, <2>8, <2>10 DEF TasksFit, PanesFit
  <2>12. QED
    BY <1>1, <2>11, ServersWait, BudgetWaits DEF Rest
<1>4. CASE ClickHidden(p) \/ CloseHidden(p)
  BY <1>3, <1>4 DEF ClickHidden, CloseHidden, Shown
<1>5. QED
  BY <1>2, <1>4

\* Only Ledgers are overtaken.
LEMMA OvertakenKept ==
  ASSUME DevicesInv, [DevicesNext]_deviceVars
  PROVE  overtaken' \subseteq Ledgers
<1>1. overtaken \subseteq Ledgers
  BY DEF DevicesInv
<1>2. ASSUME NEW d \in Devices, Gone(d) PROVE overtaken' \subseteq Ledgers
  BY <1>1, <1>2 DEF Gone, LedgerGone, TrezorGone
<1>3. ASSUME NEW p \in Tasks, TakeIn(p) PROVE overtaken' \subseteq Ledgers
  BY <1>1, <1>3 DEF TakeIn, LedgerConnected, TrezorConnected, servers
<1>4. ASSUME NEW p \in Tasks, Step(p) PROVE overtaken' = overtaken
  BY <1>4 DEF Step, Transfer, WriteCommand, StartRead, NoDevice, ReadTimesOut, NotFound, Fails,
              GivesUp, LedgerReply, TrezorReply, AddLedger, GetName, FindLedger, Hang, Look,
              Looked, RemoveTrezor, AddTrezor, FindTrezor, PaneRequest, PaneTimesOut, servers
<1>5. ASSUME NEW p \in Tasks, Screen(p) PROVE overtaken' = overtaken
  BY <1>5 DEF Screen, ClickHidden, CloseHidden, ClickCancelWait, PaneAnswer, servers
<1>6. ASSUME NEW p \in Tasks, (\E r \in budget.asks : Ask(p, r))
                               \/ \E i \in DOMAIN ledgers : ClickGetName(p, i)
      PROVE  overtaken' = overtaken
  BY <1>6 DEF Ask, ClickGetName, servers
<1>7. CASE Environment \/ Enumerate
  BY <1>1, <1>7 DEF Environment, UserPlugs, Restart, Lock, Unlock, Period, Enumerate, servers
<1>8. CASE UNCHANGED deviceVars
  BY <1>1, <1>8 DEF deviceVars
<1>9. QED
  BY <1>1, <1>2, <1>3, <1>4, <1>5, <1>6, <1>7, <1>8 DEF DevicesNext

-----------------------------------------------------------------------------
LEMMA ListedAtStart ==
  ASSUME NEW S, IsFiniteSet(S)
  PROVE  SetToSeq(S) \in Seq(S)
<1>1. Cardinality(S) \in Nat /\ ExistsBijection(1..Cardinality(S), S)
  BY FS_CardinalityType
<1>2. \E f \in [1..Cardinality(S) -> S] : IsInjective(f)
  BY <1>1 DEF ExistsBijection, Bijection, Injection, IsInjective
<1>3. SetToSeq(S) \in [1..Cardinality(S) -> S]
  BY <1>2 DEF SetToSeq
<1>4. QED
  BY <1>1, <1>3, FunctionIsSeq

LEMMA DevicesInitially ==
  ASSUME DevicesInit
  PROVE  DevicesInv
<1>1. PICK w \in Worlds :
        /\ UsbInit(w.plugged)
        /\ LET s == SetToSeq(w.plugged \cap Ledgers)
           IN  ledgers = [i \in DOMAIN s |-> [dev |-> s[i], by |-> Nobody, name |-> s[i]]]
        /\ trezors = SetToSeq(w.plugged \cap Trezors)
        /\ budget = w.budget
  BY DEF DevicesInit
<1>2. /\ ledgers_mutex = Nobody /\ task = [p \in Tasks |-> Idle] /\ overtaken = {}
      /\ pane = [d \in Trezors |-> NoRequests]
  BY DEF DevicesInit
<1>3. IsWorld(w)
  BY WorldsAssumption
<1>4. UsbInv
  BY <1>1, <1>3, UsbInitially DEF IsWorld
<1>5. operation_mutex = Nobody
  BY <1>1 DEF UsbInit
<1>6. ListsFit
  <2> DEFINE L == w.plugged \cap Ledgers  T == w.plugged \cap Trezors  s == SetToSeq(L)
  <2>1. IsFiniteSet(L) /\ IsFiniteSet(T)
    BY DevicesAssumption, FS_Subset
  <2>2. s \in Seq(L) /\ SetToSeq(T) \in Seq(T)
    BY <2>1, ListedAtStart
  <2>3. trezors \in Seq(Trezors)
    <3>1. T \subseteq Trezors /\ trezors = SetToSeq(T)
      BY <1>1
    <3> HIDE DEF T
    <3>2. QED
      BY <2>2, <3>1, SeqOfMore
  <2>4. ledgers \in Seq(Entries)
    <3>1. ledgers = [i \in DOMAIN s |-> [dev |-> s[i], by |-> Nobody, name |-> s[i]]]
      BY <1>1
    <3>2. L \subseteq Ledgers
      OBVIOUS
    <3> HIDE DEF s, L
    <3>3. Len(s) \in Nat /\ DOMAIN s = 1..Len(s) /\ \A i \in 1..Len(s) : s[i] \in Ledgers
      BY <2>2, <3>2
    <3>4. ledgers \in [1..Len(s) -> Entries]
      BY <3>1, <3>3 DEF Entries, Devices
    <3>5. QED
      BY <3>3, <3>4, FunctionIsSeq
  <2>5. QED
    BY <1>2, <2>3, <2>4 DEF ListsFit
<1>7. BudgetFits
  BY <1>1, <1>3 DEF IsWorld, BudgetFits
<1>8. TasksFit(task, operation_mutex)
  <2>1. ASSUME NEW p \in Tasks PROVE Fits(task[p], operation_mutex, p) /\ task[p] \in Work
    BY <1>2, <1>5, IdleTyped, GoroutinesAssumption DEF Fits, Typed
  <2>2. QED
    BY <1>2, <2>1 DEF TasksFit
<1>9. PanesFit(pane, task)
  BY <1>2, GoroutinesAssumption DEF PanesFit, Shows, NoRequests
<1>10. QED
  BY <1>2, <1>4, <1>6, <1>7, <1>8, <1>9 DEF DevicesInv

LEMMA DevicesKeep ==
  ASSUME DevicesInv, [DevicesNext]_deviceVars
  PROVE  DevicesInv'
<1>1. UsbInv' /\ overtaken' \subseteq Ledgers
  BY UsbKeeps, OvertakenKept DEF DevicesInv
<1>2. ASSUME NEW p \in Tasks, Step(p) PROVE Rest'
  BY <1>2, AsksKeep, LedgerReplyKeeps, TrezorReplyKeeps, LedgerStepsKeep, TrezorStepsKeep,
     PaneRequestKeeps, PaneReplyKeeps
     DEF Step, Transfer
<1>3. ASSUME NEW p \in Tasks, Screen(p) PROVE Rest'
  BY <1>3, ClicksKeep, PaneReplyKeeps DEF Screen
<1>4. Rest'
  BY <1>2, <1>3, OutsideKeeps, GoneKeeps, TakeInKeeps, AskKeeps, ClickKeeps DEF DevicesNext
<1>5. QED
  BY <1>1, <1>4 DEF DevicesInv, Rest

\* The lists of the servers, the goroutines, the panes and the USB server keep their
\* types, and a goroutine reads or enumerates exactly while it holds operation_mutex: no
\* answer, time limit or lost device leaves it with one who has gone on.
THEOREM DeviceTypes == DevicesSpec => []DevicesTypeOK
<1>1. DevicesInv => DevicesTypeOK
  <2> SUFFICES ASSUME DevicesInv PROVE DevicesTypeOK
    OBVIOUS
  <2>1. \A p \in Tasks : /\ task[p] = Idle \/ task[p].kind \in Kinds
                         /\ task[p].io \in {"reading", "looking"} <=> operation_mutex = p
    BY DEF DevicesInv, TasksFit, Fits, Typed
  <2>2. QED
    BY <2>1 DEF DevicesInv, UsbInv, ListsFit, TasksFit, PanesFit, DevicesTypeOK
<1>2. QED
  BY <1>1, DevicesInitially, DevicesKeep, PTL DEF DevicesSpec
=============================================================================
