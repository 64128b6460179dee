------------------------------- MODULE BusProofs -------------------------------
(***************************************************************************)
(* The bus keeps what Broadcast promises, for any processes and topics and *)
(* channels of any capacity. What makes it hold is who has the mutex: at a *)
(* send to In, and from the look at the subscribers until the last of them *)
(* is served, nobody else changes what is promised.                        *)
(*                                                                         *)
(* Then the timer server, a subscriber of the bus, for every set of ids,   *)
(* of grants and of bounds. Every request applies one helper to the table  *)
(* and then updateTimers, so that proof is in two layers: UpdateLemma says *)
(* what updateTimers establishes for any table, and one lemma per helper   *)
(* says that what it leaves in the table is sound.                         *)
(***************************************************************************)
EXTENDS Bus, TimerServer, SequenceLemmas, FiniteSetTheorems

\* The mutex is held by the one who stands between its lock and its unlock.
MutexHeld ==
  /\ \A p \in Procs : pc[p] = "push" <=> mutex = p
  /\ dpc = "deliver" <=> mutex = Dispatcher

\* ProcessMessages has a message in hand, and subscribers left to serve, all different.
InHand ==
  /\ dpc # "receive" => cur \in Msg
  /\ dpc # "deliver" => todo = <<>>
  /\ Distinct(todo)

\* A process that sends has a topic, and ids are left; one that leaves has a channel.
Calls ==
  /\ \A p \in Procs : /\ pc[p] \in {"lock", "push"} => sending[p] \in Topics
                      /\ pc[p] = "push" => nextID > 0
                      /\ pc[p] = "leave" => depth[p] > 0
  /\ nextID + Cardinality(Sending) <= MaxMsgs

OneChannel == \A t \in Topics : Distinct(subscribers[t])

\* The channels a process holds, and no others, are subscribed.
Held == \A p \in Procs, l \in Nat \ {0} : Subscribed(<<p, l>>) # {} <=> l <= depth[p]

IInv == TypeOK /\ MutexHeld /\ InHand /\ Calls /\ OneChannel /\ Held /\ NoSendOnClosed

-----------------------------------------------------------------------------
\* The calls of Send under way can be counted.
LEMMA SendingFinite == IsFiniteSet(Sending) /\ Cardinality(Sending) \in Nat
<1>1. Sending \subseteq Procs
  BY DEF Sending
<1>2. QED
  BY <1>1, ProcsAssumption, FS_Subset, FS_CardinalityType


\* What a channel is.
LEMMA ChansAre ==
  /\ \A p \in Procs, l \in Nat : l > 0 /\ l <= Nesting[p] => <<p, l>> \in Chans
  /\ \A c \in Chans : \E p \in Procs, l \in Nat : l > 0 /\ l <= Nesting[p] /\ c = <<p, l>>
<1>1. ASSUME NEW p \in Procs, NEW l \in Nat, l > 0, l <= Nesting[p] PROVE <<p, l>> \in Chans
  <2>1. l \in 1..Nesting[p]
    BY <1>1, NestingAssumption
  <2>2. <<p, l>> \in {p} \X (1..Nesting[p])
    BY <2>1
  <2>3. QED
    BY <2>2 DEF Chans
<1>2. ASSUME NEW c \in Chans
      PROVE  \E p \in Procs, l \in Nat : l > 0 /\ l <= Nesting[p] /\ c = <<p, l>>
  <2>1. PICK p \in Procs : c \in {p} \X (1..Nesting[p])
    BY DEF Chans
  <2>2. PICK l \in 1..Nesting[p] : c = <<p, l>>
    BY <2>1
  <2>3. QED
    BY <2>2, NestingAssumption
<1>3. QED
  BY <1>1, <1>2

\* The channel that a process reads, and the one it would have next.
LEMMA ItsChannels ==
  ASSUME TypeOK, NEW p \in Procs
  PROVE  /\ depth[p] > 0 => Innermost(p) \in Chans
         /\ depth[p] < Nesting[p] => <<p, depth[p] + 1>> \in Chans
BY ChansAre, NestingAssumption DEF TypeOK, Innermost

\* The bus starts with nobody subscribed, nothing sent and the mutex free.
LEMMA InitLemma == Init => IInv
<1> SUFFICES ASSUME Init PROVE IInv
  OBVIOUS
<1>1. Sending = {}
  BY DEF Init, Sending
<1>2. Cardinality(Sending) = 0
  BY <1>1, FS_EmptySet
<1>3. TypeOK
  BY MaxMsgsAssumption, NestingAssumption DEF Init, TypeOK
<1>4. MutexHeld
  BY NobodyAssumption DEF Init, MutexHeld
<1>5. InHand /\ OneChannel /\ NoSendOnClosed
  BY DEF Init, InHand, OneChannel, NoSendOnClosed, Distinct
<1>6. Calls
  BY <1>2, MaxMsgsAssumption DEF Init, Calls
<1>7. Held
  BY DEF Init, Held, Subscribed, Contains
<1>8. QED
  BY <1>3, <1>4, <1>5, <1>6, <1>7 DEF IInv

\* Each step of a process and of ProcessMessages keeps the bus right.
LEMMA StepLemma == IInv /\ [Next]_vars => IInv'
<1> SUFFICES ASSUME IInv, [Next]_vars PROVE IInv'
  OBVIOUS
<1>0. TypeOK /\ MutexHeld /\ InHand /\ Calls /\ OneChannel /\ Held /\ NoSendOnClosed
  BY DEF IInv
<1>1. CASE UNCHANGED vars
  <2>1. TypeOK'
    BY <1>0, <1>1 DEF vars, dispatcher, TypeOK
  <2>2. MutexHeld' /\ InHand' /\ OneChannel' /\ NoSendOnClosed'
    BY <1>0, <1>1 DEF vars, dispatcher, MutexHeld, InHand, OneChannel, NoSendOnClosed
  <2>3. Sending' = Sending /\ \A q : Subscribed(q)' = Subscribed(q)
    BY <1>1 DEF vars, Sending, Subscribed
  <2>4. Calls'
    BY <1>0, <1>1, <2>3 DEF vars, Calls
  <2>5. Held'
    BY <1>0, <1>1, <2>3 DEF vars, Held
  <2>6. QED
    BY <2>1, <2>2, <2>4, <2>5 DEF IInv
<1>2. ASSUME NEW p \in Procs, NEW t \in Topics, CallSend(p, t) PROVE IInv'
  <2>1. TypeOK'
    BY <1>0, <1>2 DEF CallSend, dispatcher, TypeOK
  <2>2. MutexHeld' /\ InHand' /\ OneChannel' /\ NoSendOnClosed'
    BY <1>0, <1>2 DEF CallSend, dispatcher, TypeOK, MutexHeld, InHand, OneChannel, NoSendOnClosed
  <2>3. Sending' = Sending \cup {p} /\ p \notin Sending
    BY <1>0, <1>2 DEF CallSend, TypeOK, Sending
  <2>4. Cardinality(Sending') = Cardinality(Sending) + 1
    BY <2>3, SendingFinite, FS_AddElement
  <2>5. nextID' + Cardinality(Sending)' <= MaxMsgs
    BY <1>0, <1>2, <2>4, SendingFinite, MaxMsgsAssumption DEF CallSend, TypeOK
  <2>6. \A q : Subscribed(q)' = Subscribed(q)
    BY <1>2 DEF CallSend, Subscribed
  <2>7. Calls'
    BY <1>0, <1>2, <2>5, <2>6 DEF CallSend, TypeOK, Calls
  <2>8. Held'
    BY <1>0, <1>2, <2>6 DEF CallSend, Held
  <2>9. QED
    BY <2>1, <2>2, <2>7, <2>8 DEF IInv
<1>3. ASSUME NEW p \in Procs, LockSend(p) PROVE IInv'
  <2>1. Sending' = Sending \ {p} /\ p \in Sending
    BY <1>0, <1>3 DEF LockSend, TypeOK, Sending
  <2>2. Cardinality(Sending') = Cardinality(Sending) - 1 /\ Cardinality(Sending) > 0
    <3>1. Cardinality(Sending') = Cardinality(Sending) - 1
      BY <2>1, SendingFinite, FS_RemoveElement
    <3>2. Cardinality(Sending) # 0
      BY <2>1, SendingFinite, FS_EmptySet
    <3>3. QED
      BY <3>1, <3>2, SendingFinite
  <2>3. nextID' = nextID + 1 /\ nextID' + Cardinality(Sending)' <= MaxMsgs
    BY <1>0, <1>3, <2>2, SendingFinite, MaxMsgsAssumption DEF LockSend, TypeOK, Calls
  <2>4. nextID' \in 0..MaxMsgs
    BY <1>0, <2>2, <2>3, SendingFinite, MaxMsgsAssumption DEF TypeOK
  <2>5. TypeOK'
    BY <1>0, <1>3, <2>4 DEF LockSend, dispatcher, TypeOK
  <2>6. MutexHeld'
    BY <1>0, <1>3, NobodyAssumption DEF LockSend, dispatcher, TypeOK, MutexHeld
  <2>7. InHand' /\ OneChannel' /\ NoSendOnClosed'
    BY <1>0, <1>3 DEF LockSend, dispatcher, InHand, OneChannel, NoSendOnClosed
  <2>8. \A q : Subscribed(q)' = Subscribed(q)
    BY <1>3 DEF LockSend, Subscribed
  <2>9. Calls'
    <3>1. nextID' > 0
      BY <1>0, <2>3 DEF TypeOK
    <3>2. QED
      BY <1>0, <1>3, <2>3, <2>8, <3>1 DEF LockSend, TypeOK, Calls
  <2>10. Held'
    BY <1>0, <1>3, <2>8 DEF LockSend, Held
  <2>11. QED
    BY <2>5, <2>6, <2>7, <2>9, <2>10 DEF IInv
<1>4. ASSUME NEW p \in Procs, PushSend(p) PROVE IInv'
  <2>1. [id |-> nextID, topic |-> sending[p]] \in Msg
    BY <1>0, <1>4, MaxMsgsAssumption DEF PushSend, TypeOK, Calls, Msg
  <2>2. in' \in Seq(Msg)
    BY <1>0, <1>4, <2>1 DEF PushSend, TypeOK
  <2>3. TypeOK'
    BY <1>0, <1>4, <2>2 DEF PushSend, dispatcher, TypeOK
  <2>4. MutexHeld'
    BY <1>0, <1>4, NobodyAssumption DEF PushSend, dispatcher, TypeOK, MutexHeld
  <2>5. InHand' /\ OneChannel' /\ NoSendOnClosed'
    BY <1>0, <1>4 DEF PushSend, dispatcher, InHand, OneChannel, NoSendOnClosed
  <2>6. Sending' = Sending /\ \A q : Subscribed(q)' = Subscribed(q)
    BY <1>0, <1>4 DEF PushSend, TypeOK, Sending, Subscribed
  <2>7. Calls'
    BY <1>0, <1>4, <2>6 DEF PushSend, TypeOK, Calls
  <2>8. Held'
    BY <1>0, <1>4, <2>6 DEF PushSend, Held
  <2>9. QED
    BY <2>3, <2>4, <2>5, <2>7, <2>8 DEF IInv
<1>5. ASSUME NEW p \in Procs, NEW ts \in Interests, Subscribe(p, ts) PROVE IInv'
  <2>1. PICK c \in Chans : c = <<p, depth[p] + 1>>
    BY <1>0, <1>5, ItsChannels DEF Subscribe
  <2>2. \A t \in Topics : ~Contains(subscribers[t], c)
    <3>1. depth[p] \in Nat
      BY <1>0 DEF TypeOK
    <3>2. Subscribed(<<p, depth[p] + 1>>) = {}
      BY <1>0, <3>1 DEF Held
    <3>3. QED
      BY <2>1, <3>2 DEF Subscribed
  <2>3. \A t \in Topics : subscribers[t] \in Seq(Chans) /\ Distinct(subscribers[t])
    BY <1>0 DEF TypeOK, OneChannel
  <2>4. ASSUME NEW t \in Topics
        PROVE  /\ subscribers'[t] \in Seq(Chans) /\ Distinct(subscribers'[t])
               /\ \A x : Contains(subscribers'[t], x)
                           <=> Contains(subscribers[t], x) \/ (t \in ts /\ x = c)
    <3>1. subscribers'[t] = IF t \in ts THEN Append(subscribers[t], c) ELSE subscribers[t]
      BY <1>5, <2>1 DEF Subscribe
    <3>2. QED
      BY <2>2, <2>3, <3>1, AppendContains
  <2>5. subscribers' \in [Topics -> Seq(Chans)]
    BY <1>5, <2>4 DEF Subscribe
  <2>6. TypeOK'
    <3>1. depth' \in [Procs -> Nat] /\ \A q \in Procs : depth'[q] <= Nesting[q]
      <4>1. /\ depth \in [Procs -> Nat] /\ depth' = [depth EXCEPT ![p] = depth[p] + 1]
            /\ \A q \in Procs : depth[q] <= Nesting[q]
            /\ depth[p] < Nesting[p]
        BY <1>0, <1>5 DEF Subscribe, TypeOK
      <4>2. \A q \in Procs : Nesting[q] \in Nat
        BY NestingAssumption
      <4>3. QED
        BY <4>1, <4>2
    <3>2. QED
      BY <1>0, <1>5, <2>5, <3>1 DEF Subscribe, dispatcher, TypeOK
  <2>7. MutexHeld' /\ InHand' /\ OneChannel'
    BY <1>0, <1>5, <2>4 DEF Subscribe, dispatcher, MutexHeld, InHand, OneChannel
  <2>8. NoSendOnClosed'
    <3>1. mutex # Dispatcher
      BY <1>5, NobodyAssumption DEF Subscribe
    <3>2. todo' = <<>>
      BY <1>0, <1>5, <3>1 DEF Subscribe, dispatcher, MutexHeld, InHand
    <3>3. QED
      BY <3>2 DEF NoSendOnClosed
  <2>9. Sending' = Sending
    BY <1>5 DEF Subscribe, Sending
  <2>10. Calls'
    BY <1>0, <1>5, <2>9 DEF Subscribe, Calls, TypeOK
  <2>11. Held'
    <3>1. PICK u \in Topics : u \in ts
      <4>1. ts \in (SUBSET Topics) \ {{}}
        BY InterestsAssumption
      <4>2. QED
        BY <4>1
    <3>2. ASSUME NEW q \in Procs, NEW l \in Nat \ {0}
          PROVE  Subscribed(<<q, l>>)' # {} <=> Subscribed(<<q, l>>) # {} \/ <<q, l>> = c
      BY <2>4, <3>1, InterestsAssumption DEF Subscribed
    <3>3. \A q \in Procs, l \in Nat \ {0} : <<q, l>> = c <=> q = p /\ l = depth[p] + 1
      BY <2>1
    <3>4. /\ depth \in [Procs -> Nat]
          /\ depth' = [depth EXCEPT ![p] = depth[p] + 1]
      BY <1>0, <1>5 DEF Subscribe, TypeOK
    <3>5. ASSUME NEW q \in Procs, NEW l \in Nat \ {0}
          PROVE  l <= depth'[q] <=> l <= depth[q] \/ (q = p /\ l = depth[p] + 1)
      BY <3>4
    <3>6. QED
      BY <1>0, <3>2, <3>3, <3>5 DEF Held
  <2>12. QED
    BY <2>6, <2>7, <2>8, <2>10, <2>11 DEF IInv
<1>6. ASSUME NEW p \in Procs, CallUnsubscribe(p) PROVE IInv'
  <2>1. TypeOK'
    BY <1>0, <1>6 DEF CallUnsubscribe, dispatcher, TypeOK
  <2>2. MutexHeld' /\ InHand' /\ OneChannel' /\ NoSendOnClosed'
    BY <1>0, <1>6
       DEF CallUnsubscribe, dispatcher, TypeOK, MutexHeld, InHand, OneChannel, NoSendOnClosed
  <2>3. Sending' = Sending /\ \A q : Subscribed(q)' = Subscribed(q)
    BY <1>0, <1>6 DEF CallUnsubscribe, TypeOK, Sending, Subscribed
  <2>4. Calls'
    BY <1>0, <1>6, <2>3 DEF CallUnsubscribe, TypeOK, Calls
  <2>5. Held'
    BY <1>0, <1>6, <2>3 DEF CallUnsubscribe, Held
  <2>6. QED
    BY <2>1, <2>2, <2>4, <2>5 DEF IInv
<1>7. ASSUME NEW p \in Procs, Unsubscribe(p) PROVE IInv'
  <2>0. depth[p] > 0 /\ depth \in [Procs -> Nat] /\ depth' = [depth EXCEPT ![p] = depth[p] - 1]
    BY <1>0, <1>7 DEF Unsubscribe, Calls, TypeOK
  <2>1. PICK c \in Chans : c = <<p, depth[p]>> /\ c = Innermost(p)
    BY <1>0, <2>0, ItsChannels DEF Innermost
  <2>2. ASSUME NEW t \in Topics
        PROVE  /\ subscribers'[t] \in Seq(Chans) /\ Distinct(subscribers'[t])
               /\ \A x : Contains(subscribers'[t], x) <=> Contains(subscribers[t], x) /\ x # c
    <3>1. subscribers'[t] = RemoveFirst(subscribers[t], c)
      BY <1>7, <2>1 DEF Unsubscribe
    <3>2. subscribers[t] \in Seq(Chans) /\ Distinct(subscribers[t])
      BY <1>0 DEF TypeOK, OneChannel
    <3>3. QED
      BY <3>1, <3>2, RemoveFirstType, RemoveFirstElements
  <2>3. subscribers' \in [Topics -> Seq(Chans)]
    BY <1>7, <2>2 DEF Unsubscribe
  <2>4. TypeOK'
    <3>1. depth' \in [Procs -> Nat] /\ \A q \in Procs : depth'[q] <= Nesting[q]
      <4>1. \A q \in Procs : Nesting[q] \in Nat /\ depth[q] <= Nesting[q]
        BY <1>0, NestingAssumption DEF TypeOK
      <4>2. QED
        BY <2>0, <4>1
    <3>2. ch' \in [Chans -> Seq(Msg)]
      <4>1. <<>> \in Seq(Msg)
        OBVIOUS
      <4>2. ch' = [ch EXCEPT ![c] = <<>>] /\ ch \in [Chans -> Seq(Msg)]
        BY <1>0, <1>7, <2>1 DEF Unsubscribe, TypeOK
      <4>3. QED
        BY <4>1, <4>2
    <3>3. QED
      BY <1>0, <1>7, <2>3, <3>1, <3>2 DEF Unsubscribe, dispatcher, TypeOK
  <2>5. MutexHeld' /\ InHand' /\ OneChannel'
    BY <1>0, <1>7, <2>2 DEF Unsubscribe, dispatcher, TypeOK, MutexHeld, InHand, OneChannel
  <2>6. NoSendOnClosed'
    <3>1. mutex # Dispatcher
      BY <1>7, NobodyAssumption DEF Unsubscribe
    <3>2. todo' = <<>>
      BY <1>0, <1>7, <3>1 DEF Unsubscribe, dispatcher, MutexHeld, InHand
    <3>3. QED
      BY <3>2 DEF NoSendOnClosed
  <2>7. Sending' = Sending
    BY <1>0, <1>7 DEF Unsubscribe, TypeOK, Sending
  <2>8. Calls'
    BY <1>0, <1>7, <2>0, <2>7 DEF Unsubscribe, TypeOK, Calls
  <2>9. Held'
    <3>1. ASSUME NEW q \in Procs, NEW l \in Nat \ {0}
          PROVE  Subscribed(<<q, l>>)' # {} <=> Subscribed(<<q, l>>) # {} /\ <<q, l>> # c
      BY <2>2 DEF Subscribed
    <3>2. \A q \in Procs, l \in Nat \ {0} : <<q, l>> = c <=> q = p /\ l = depth[p]
      BY <2>1
    <3>3. ASSUME NEW q \in Procs, NEW l \in Nat \ {0}
          PROVE  l <= depth'[q] <=> l <= depth[q] /\ ~(q = p /\ l = depth[p])
      BY <2>0
    <3>4. QED
      BY <1>0, <3>1, <3>2, <3>3 DEF Held
  <2>10. QED
    BY <2>4, <2>5, <2>6, <2>8, <2>9 DEF IInv
<1>8. ASSUME NEW p \in Procs, Receive(p) PROVE IInv'
  <2>1. PICK c \in Chans : c = Innermost(p)
    BY <1>0, <1>8, ItsChannels DEF Receive
  <2>2. ch[c] \in Seq(Msg) /\ ch[c] # <<>> /\ Tail(ch[c]) \in Seq(Msg)
    BY <1>0, <1>8, <2>1 DEF Receive, TypeOK
  <2>3. TypeOK'
    BY <1>0, <1>8, <2>1, <2>2 DEF Receive, dispatcher, TypeOK
  <2>4. MutexHeld' /\ InHand' /\ OneChannel' /\ NoSendOnClosed'
    BY <1>0, <1>8 DEF Receive, dispatcher, MutexHeld, InHand, OneChannel, NoSendOnClosed
  <2>5. Sending' = Sending /\ \A q : Subscribed(q)' = Subscribed(q)
    BY <1>8 DEF Receive, Sending, Subscribed
  <2>6. Calls'
    BY <1>0, <1>8, <2>5 DEF Receive, Calls
  <2>7. Held'
    BY <1>0, <1>8, <2>5 DEF Receive, Held
  <2>8. QED
    BY <2>3, <2>4, <2>6, <2>7 DEF IInv
<1>9. CASE TakeMessage
  <2>1. Head(in) \in Msg /\ Tail(in) \in Seq(Msg)
    BY <1>0, <1>9 DEF TakeMessage, TypeOK
  <2>2. TypeOK'
    BY <1>0, <1>9, <2>1 DEF TakeMessage, TypeOK
  <2>3. MutexHeld' /\ InHand' /\ OneChannel' /\ NoSendOnClosed'
    BY <1>0, <1>9, <2>1
       DEF TakeMessage, MutexHeld, InHand, OneChannel, NoSendOnClosed
  <2>4. Sending' = Sending /\ \A q : Subscribed(q)' = Subscribed(q)
    BY <1>9 DEF TakeMessage, Sending, Subscribed
  <2>5. Calls'
    BY <1>0, <1>9, <2>4 DEF TakeMessage, Calls
  <2>6. Held'
    BY <1>0, <1>9, <2>4 DEF TakeMessage, Held
  <2>7. QED
    BY <2>2, <2>3, <2>5, <2>6 DEF IInv
<1>10. CASE LockDispatch
  <2>1. cur \in Msg
    BY <1>0, <1>10 DEF LockDispatch, InHand
  <2>2. cur.topic \in Topics
    BY <2>1 DEF Msg
  <2>3. todo' \in Seq(Chans) /\ Distinct(todo')
    BY <1>0, <1>10, <2>2 DEF LockDispatch, TypeOK, OneChannel
  <2>4. TypeOK'
    BY <1>0, <1>10, <2>3 DEF LockDispatch, TypeOK
  <2>5. MutexHeld'
    BY <1>0, <1>10, NobodyAssumption DEF LockDispatch, MutexHeld, TypeOK
  <2>6. InHand' /\ OneChannel'
    BY <1>0, <1>10, <2>1, <2>3 DEF LockDispatch, InHand, OneChannel
  <2>7. NoSendOnClosed'
    BY <1>10 DEF LockDispatch, NoSendOnClosed, Contains
  <2>8. Sending' = Sending /\ \A q : Subscribed(q)' = Subscribed(q)
    BY <1>10 DEF LockDispatch, Sending, Subscribed
  <2>9. Calls'
    BY <1>0, <1>10, <2>8 DEF LockDispatch, Calls
  <2>10. Held'
    BY <1>0, <1>10, <2>8 DEF LockDispatch, Held
  <2>11. QED
    BY <2>4, <2>5, <2>6, <2>7, <2>9, <2>10 DEF IInv
<1>11. CASE Deliver
  <2>1. todo \in Seq(Chans) /\ todo # <<>> /\ Distinct(todo) /\ cur \in Msg
    BY <1>0, <1>11 DEF Deliver, TypeOK, InHand
  <2>2. /\ Tail(todo) \in Seq(Chans) /\ Head(todo) \in Chans
        /\ Distinct(Tail(todo))
    BY <2>1, TailContains
  <2>3. ch' \in [Chans -> Seq(Msg)]
    BY <1>0, <1>11, <2>1, <2>2 DEF Deliver, TypeOK
  <2>4. TypeOK'
    BY <1>0, <1>11, <2>2, <2>3 DEF Deliver, TypeOK
  <2>5. MutexHeld' /\ InHand' /\ OneChannel'
    BY <1>0, <1>11, <2>2 DEF Deliver, MutexHeld, InHand, OneChannel
  <2>6. NoSendOnClosed'
    <3>1. Len(Tail(todo)) = Len(todo) - 1
          /\ \A i \in 1..(Len(todo) - 1) : Tail(todo)[i] = todo[i + 1]
      BY <2>1
    <3>2. \A i \in 1..(Len(todo) - 1) : i + 1 \in 1..Len(todo)
      BY <2>1
    <3>3. QED
      BY <1>0, <1>11, <3>1, <3>2 DEF Deliver, NoSendOnClosed
  <2>7. Sending' = Sending /\ \A q : Subscribed(q)' = Subscribed(q)
    BY <1>11 DEF Deliver, Sending, Subscribed
  <2>8. Calls'
    BY <1>0, <1>11, <2>7 DEF Deliver, Calls
  <2>9. Held'
    BY <1>0, <1>11, <2>7 DEF Deliver, Held
  <2>10. QED
    BY <2>4, <2>5, <2>6, <2>8, <2>9 DEF IInv
<1>12. CASE UnlockDispatch
  <2>1. TypeOK'
    BY <1>0, <1>12 DEF UnlockDispatch, TypeOK
  <2>2. MutexHeld'
    BY <1>0, <1>12, NobodyAssumption DEF UnlockDispatch, MutexHeld, TypeOK
  <2>3. InHand' /\ OneChannel' /\ NoSendOnClosed'
    BY <1>0, <1>12 DEF UnlockDispatch, InHand, OneChannel, NoSendOnClosed
  <2>4. Sending' = Sending /\ \A q : Subscribed(q)' = Subscribed(q)
    BY <1>12 DEF UnlockDispatch, Sending, Subscribed
  <2>5. Calls'
    BY <1>0, <1>12, <2>4 DEF UnlockDispatch, Calls
  <2>6. Held'
    BY <1>0, <1>12, <2>4 DEF UnlockDispatch, Held
  <2>7. QED
    BY <2>1, <2>2, <2>3, <2>5, <2>6 DEF IInv
<1>13. QED
  BY <1>1, <1>2, <1>3, <1>4, <1>5, <1>6, <1>7, <1>8, <1>9, <1>10, <1>11, <1>12
     DEF Next, ProcessMessages, Client

-----------------------------------------------------------------------------
\* The invariant of the bus in all its parts; the properties below follow from it.
THEOREM BusInvariant == Spec => []IInv
BY InitLemma, StepLemma, PTL DEF Spec

\* Types of the bus.
THEOREM TypeCorrect == Spec => []TypeOK
<1>1. IInv => TypeOK
  BY DEF IInv
<1>2. QED
  BY <1>1, BusInvariant, PTL

\* ProcessMessages of bus/bus.go never sends to a channel that Unsubscribe has closed.
THEOREM ChannelsStayOpen == Spec => []NoSendOnClosed
<1>1. IInv => NoSendOnClosed
  BY DEF IInv
<1>2. QED
  BY <1>1, BusInvariant, PTL

-----------------------------------------------------------------------------
(***************************************************************************)
(* The refinement of Broadcast. The values the state stands for:           *)
(***************************************************************************)
Pushing == \E p \in Procs : pc[p] = "push"
Sent == IF Pushing THEN nextID - 1 ELSE nextID
Waiting == (IF dpc = "lock" THEN <<cur>> ELSE <<>>) \o in
Due(p) == IF Contains(todo, p) THEN <<cur>> ELSE <<>>
Inbox == [c \in Chans |-> ch[c] \o Due(c)]
Joined == [c \in Chans |-> Subscribed(c)]

Stutter == UNCHANGED <<Sent, Waiting, Joined, Inbox>>

\* The state of Broadcast that a state of the bus stands for.
LEMMA Mapping ==
  /\ B!BInit <=> /\ Sent = 0 /\ Waiting = <<>>
                 /\ Joined = [p \in Chans |-> {}] /\ Inbox = [p \in Chans |-> <<>>]
  /\ B!bvars = <<Sent, Waiting, Joined, Inbox>>
  /\ Stutter <=> B!bvars' = B!bvars
BY DEF B!BInit, B!bvars, Stutter, Sent, Waiting, Joined, Inbox, Due, Pushing

\* The bus starts as Broadcast does.
LEMMA InitRefines == Init => B!BInit
<1> SUFFICES ASSUME Init PROVE B!BInit
  OBVIOUS
<1>1. ~Pushing /\ Sent = 0
  BY DEF Init, Pushing, Sent
<1>2. Waiting = <<>>
  BY DEF Init, Waiting
<1>3. Joined = [p \in Chans |-> {}]
  BY DEF Init, Joined, Subscribed, Contains
<1>4. Inbox = [p \in Chans |-> <<>>]
  BY DEF Init, Inbox, Due, Contains
<1>5. QED
  BY <1>1, <1>2, <1>3, <1>4, Mapping

\* Sequences as the mapping puts them together.
LEMMA AppendIn ==
  ASSUME NEW S, NEW s \in Seq(S), NEW r \in Seq(S), NEW e \in S
  PROVE  /\ s \o Append(r, e) = Append(s \o r, e)
         /\ s \o <<e>> = Append(s, e)
         /\ s \o <<>> = s /\ <<>> \o s = s
         /\ s # <<>> => s \o r # <<>> /\ Tail(s \o r) = Tail(s) \o r /\ Head(s \o r) = Head(s)
OBVIOUS

\* The actions of Broadcast, of the state that a state of the bus stands for.
LEMMA MappedActions ==
  /\ \A t \in Topics :
       B!Publish(t) <=>
         /\ Sent < MaxMsgs /\ Sent' = Sent + 1
         /\ Waiting' = Append(Waiting, [id |-> Sent + 1, topic |-> t])
         /\ UNCHANGED <<Joined, Inbox>>
  /\ B!Dispatch <=>
       /\ Waiting # <<>> /\ Waiting' = Tail(Waiting)
       /\ Inbox' = [p \in Chans |-> IF Head(Waiting).topic \in Joined[p]
                                   THEN Append(Inbox[p], Head(Waiting)) ELSE Inbox[p]]
       /\ UNCHANGED <<Sent, Joined>>
  /\ \A p \in Chans, ts \in (SUBSET Topics) \ {{}} :
       B!Join(p, ts) <=>
         /\ Joined[p] = {} /\ Joined' = [Joined EXCEPT ![p] = ts]
         /\ UNCHANGED <<Sent, Waiting, Inbox>>
  /\ \A p \in Chans :
       B!Leave(p) <=>
         /\ Joined[p] # {} /\ Joined' = [Joined EXCEPT ![p] = {}]
         /\ Inbox' = [Inbox EXCEPT ![p] = <<>>]
         /\ UNCHANGED <<Sent, Waiting>>
  /\ \A p \in Chans :
       B!Take(p) <=>
         /\ Inbox[p] # <<>> /\ Inbox' = [Inbox EXCEPT ![p] = Tail(@)]
         /\ UNCHANGED <<Sent, Waiting, Joined>>
<1>1. \A t \in Topics :
       B!Publish(t) <=>
         /\ Sent < MaxMsgs /\ Sent' = Sent + 1
         /\ Waiting' = Append(Waiting, [id |-> Sent + 1, topic |-> t])
         /\ UNCHANGED <<Joined, Inbox>>
  BY DEF B!Publish, Sent, Waiting, Joined, Inbox, Due, Pushing
<1>2. B!Dispatch <=>
       /\ Waiting # <<>> /\ Waiting' = Tail(Waiting)
       /\ Inbox' = [p \in Chans |-> IF Head(Waiting).topic \in Joined[p]
                                   THEN Append(Inbox[p], Head(Waiting)) ELSE Inbox[p]]
       /\ UNCHANGED <<Sent, Joined>>
  BY DEF B!Dispatch, Sent, Waiting, Joined, Inbox, Due, Pushing
<1>3. \A p \in Chans, ts \in (SUBSET Topics) \ {{}} :
       B!Join(p, ts) <=>
         /\ Joined[p] = {} /\ Joined' = [Joined EXCEPT ![p] = ts]
         /\ UNCHANGED <<Sent, Waiting, Inbox>>
  BY DEF B!Join, Sent, Waiting, Joined, Inbox, Due, Pushing
<1>4. \A p \in Chans :
       B!Leave(p) <=>
         /\ Joined[p] # {} /\ Joined' = [Joined EXCEPT ![p] = {}]
         /\ Inbox' = [Inbox EXCEPT ![p] = <<>>]
         /\ UNCHANGED <<Sent, Waiting>>
  BY DEF B!Leave, Sent, Waiting, Joined, Inbox, Due, Pushing
<1>5. \A p \in Chans :
       B!Take(p) <=>
         /\ Inbox[p] # <<>> /\ Inbox' = [Inbox EXCEPT ![p] = Tail(@)]
         /\ UNCHANGED <<Sent, Waiting, Joined>>
  BY DEF B!Take, Sent, Waiting, Joined, Inbox, Due, Pushing
<1>6. QED
  BY <1>1, <1>2, <1>3, <1>4, <1>5

\* Each step of the bus is one of Broadcast, or changes nothing that Broadcast has.
LEMMA StepRefines == IInv /\ IInv' /\ [Next]_vars => [B!BNext]_B!bvars
<1> SUFFICES ASSUME IInv, IInv', [Next]_vars PROVE B!BNext \/ Stutter
  BY Mapping
<1>0. TypeOK /\ MutexHeld /\ InHand /\ Calls /\ OneChannel /\ Held /\ NoSendOnClosed
  BY DEF IInv
<1>1. CASE UNCHANGED vars
  BY <1>1 DEF vars, dispatcher, Stutter, Sent, Waiting, Joined, Inbox, Due, Pushing, Subscribed
<1>2. ASSUME NEW p \in Procs, NEW t \in Topics, CallSend(p, t) PROVE Stutter
  <2>1. Pushing' = Pushing
    BY <1>0, <1>2 DEF CallSend, TypeOK, Pushing
  <2>2. QED
    BY <1>2, <2>1
       DEF CallSend, dispatcher, Stutter, Sent, Waiting, Joined, Inbox, Due, Subscribed
<1>3. ASSUME NEW p \in Procs, LockSend(p) PROVE Stutter
  <2>1. ~Pushing /\ Pushing'
    BY <1>0, <1>3, NobodyAssumption DEF LockSend, TypeOK, MutexHeld, Pushing
  <2>2. Sent' = Sent
    BY <1>0, <1>3, <2>1 DEF LockSend, TypeOK, Sent
  <2>3. QED
    BY <1>3, <2>2
       DEF LockSend, dispatcher, Stutter, Waiting, Joined, Inbox, Due, Subscribed
<1>4. ASSUME NEW p \in Procs, PushSend(p) PROVE B!BNext
  <2> DEFINE m == [id |-> nextID, topic |-> sending[p]]
  <2>1. Pushing /\ ~Pushing'
    BY <1>0, <1>4, NobodyAssumption DEF PushSend, TypeOK, MutexHeld, Pushing
  <2>2. nextID \in 0..MaxMsgs /\ sending[p] \in Topics
    BY <1>0, <1>4 DEF PushSend, TypeOK, Calls
  <2>3. Sent = nextID - 1 /\ Sent' = Sent + 1 /\ Sent < MaxMsgs /\ Sent + 1 = nextID
    BY <1>4, <2>1, <2>2, MaxMsgsAssumption DEF PushSend, Sent
  <2>4. Waiting' = Append(Waiting, m)
    <3>1. in \in Seq(Msg) /\ m \in Msg /\ in' = Append(in, m)
      BY <1>0, <1>4, <2>2, MaxMsgsAssumption DEF PushSend, TypeOK, Msg, Calls
    <3>2. dpc' = dpc /\ cur' = cur /\ (dpc = "lock" => cur \in Msg)
      BY <1>0, <1>4 DEF PushSend, dispatcher, InHand
    <3> HIDE DEF m
    <3>3. CASE dpc = "lock"
      <4>1. <<cur>> \in Seq(Msg)
        BY <3>2, <3>3
      <4>2. QED
        BY <3>1, <3>2, <3>3, <4>1, AppendIn DEF Waiting
    <3>4. CASE dpc # "lock"
      <4>1. <<>> \in Seq(Msg)
        OBVIOUS
      <4>2. QED
        BY <3>1, <3>2, <3>4, <4>1, AppendIn DEF Waiting
    <3>5. QED
      BY <3>3, <3>4
  <2>5. UNCHANGED <<Joined, Inbox>>
    BY <1>4 DEF PushSend, dispatcher, Joined, Inbox, Due, Subscribed
  <2>6. PICK t \in Topics : t = sending[p]
    BY <2>2
  <2>7. Waiting' = Append(Waiting, [id |-> Sent + 1, topic |-> t])
    BY <2>3, <2>4, <2>6
  <2>8. B!Publish(t)
    BY <2>3, <2>5, <2>7, MappedActions
  <2>9. QED
    BY <2>8 DEF B!BNext
<1>5. ASSUME NEW p \in Procs, NEW ts \in Interests, Subscribe(p, ts) PROVE B!BNext
  <2>1. PICK c \in Chans : c = <<p, depth[p] + 1>>
    BY <1>0, <1>5, ItsChannels DEF Subscribe
  <2>2. Subscribed(c) = {}
    <3>1. depth[p] \in Nat
      BY <1>0 DEF TypeOK
    <3>2. QED
      BY <1>0, <2>1, <3>1 DEF Held
  <2>3. ASSUME NEW t \in Topics, NEW q \in Chans
        PROVE  Contains(subscribers'[t], q) <=> Contains(subscribers[t], q) \/ (t \in ts /\ q = c)
    <3>1. subscribers'[t] = IF t \in ts THEN Append(subscribers[t], c) ELSE subscribers[t]
      BY <1>5, <2>1 DEF Subscribe
    <3>2. subscribers[t] \in Seq(Chans)
      BY <1>0 DEF TypeOK
    <3>3. QED
      BY <3>1, <3>2, AppendContains
  <2>4. Joined' = [Joined EXCEPT ![c] = ts]
    <3>1. ASSUME NEW q \in Chans PROVE Subscribed(q)' = IF q = c THEN ts ELSE Subscribed(q)
      BY <2>2, <2>3, InterestsAssumption DEF Subscribed
    <3>2. QED
      BY <3>1 DEF Joined
  <2>5. UNCHANGED <<Sent, Waiting, Inbox>>
    BY <1>5 DEF Subscribe, dispatcher, Sent, Pushing, Waiting, Inbox, Due
  <2>6. ts \in (SUBSET Topics) \ {{}}
    BY InterestsAssumption
  <2>7. B!Join(c, ts)
    BY <2>2, <2>4, <2>5, <2>6, MappedActions DEF Joined
  <2>8. QED
    BY <2>6, <2>7 DEF B!BNext
<1>6. ASSUME NEW p \in Procs, CallUnsubscribe(p) PROVE Stutter
  <2>1. Pushing' = Pushing
    BY <1>0, <1>6 DEF CallUnsubscribe, TypeOK, Pushing
  <2>2. QED
    BY <1>6, <2>1
       DEF CallUnsubscribe, dispatcher, Stutter, Sent, Waiting, Joined, Inbox, Due, Subscribed
<1>7. ASSUME NEW p \in Procs, Unsubscribe(p) PROVE B!BNext
  <2>0. depth[p] > 0 /\ depth[p] \in Nat
    BY <1>0, <1>7 DEF Unsubscribe, Calls, TypeOK
  <2>1. PICK c \in Chans : c = <<p, depth[p]>> /\ c = Innermost(p)
    BY <1>0, <2>0, ItsChannels DEF Innermost
  <2>2. Subscribed(c) # {}
    BY <1>0, <2>0, <2>1 DEF Held
  <2>3. ASSUME NEW t \in Topics
        PROVE  \A x : Contains(subscribers'[t], x) <=> Contains(subscribers[t], x) /\ x # c
    <3>1. subscribers'[t] = RemoveFirst(subscribers[t], c)
      BY <1>7, <2>1 DEF Unsubscribe
    <3>2. subscribers[t] \in Seq(Chans) /\ Distinct(subscribers[t])
      BY <1>0 DEF TypeOK, OneChannel
    <3>3. QED
      BY <3>1, <3>2, RemoveFirstElements
  <2>4. Joined' = [Joined EXCEPT ![c] = {}]
    <3>1. ASSUME NEW q \in Chans PROVE Subscribed(q)' = IF q = c THEN {} ELSE Subscribed(q)
      BY <2>3 DEF Subscribed
    <3>2. QED
      BY <3>1 DEF Joined
  <2>5. todo = <<>> /\ todo' = <<>>
    BY <1>0, <1>7, NobodyAssumption DEF Unsubscribe, dispatcher, MutexHeld, InHand
  <2>6. Inbox' = [Inbox EXCEPT ![c] = <<>>]
    <3>1. \A q \in Chans : Due(q) = <<>> /\ Due(q)' = <<>>
      BY <2>5 DEF Due, Contains
    <3>2. ch \in [Chans -> Seq(Msg)] /\ ch' = [ch EXCEPT ![c] = <<>>]
      BY <1>0, <1>7, <2>1 DEF Unsubscribe, TypeOK
    <3>3. \A q \in Chans : ch[q] \o <<>> = ch[q] /\ ch'[q] \o <<>> = ch'[q]
      BY <3>2, AppendIn
    <3>4. Inbox = ch /\ Inbox' = ch'
      BY <3>1, <3>2, <3>3 DEF Inbox
    <3>5. QED
      BY <3>2, <3>4
  <2>7. UNCHANGED <<Sent, Waiting>>
    <3>1. Pushing' = Pushing
      BY <1>0, <1>7 DEF Unsubscribe, TypeOK, Pushing
    <3>2. QED
      BY <1>7, <3>1 DEF Unsubscribe, dispatcher, Sent, Waiting
  <2>8. B!Leave(c)
    BY <2>2, <2>4, <2>6, <2>7, MappedActions DEF Joined
  <2>9. QED
    BY <2>8 DEF B!BNext
<1>8. ASSUME NEW p \in Procs, Receive(p) PROVE B!BNext
  <2>1. PICK c \in Chans : c = Innermost(p)
    BY <1>0, <1>8, ItsChannels DEF Receive
  <2>2. /\ ch \in [Chans -> Seq(Msg)] /\ ch[c] \in Seq(Msg) /\ ch[c] # <<>>
        /\ ch' = [ch EXCEPT ![c] = Tail(ch[c])]
        /\ todo' = todo /\ cur' = cur
    BY <1>0, <1>8, <2>1 DEF Receive, dispatcher, TypeOK
  <2>3. \A q \in Chans : Due(q)' = Due(q)
    BY <2>2 DEF Due
  <2>4. Due(c) \in Seq(Msg)
    <3>1. Contains(todo, c) => dpc = "deliver"
      BY <1>0 DEF InHand, Contains
    <3>2. Contains(todo, c) => cur \in Msg
      BY <1>0, <3>1 DEF InHand
    <3>3. QED
      BY <3>2 DEF Due
  <2>5. Inbox[c] # <<>> /\ Tail(Inbox[c]) = Tail(ch[c]) \o Due(c)
    BY <2>2, <2>4, AppendIn DEF Inbox
  <2>6. Inbox' = [Inbox EXCEPT ![c] = Tail(Inbox[c])]
    BY <2>2, <2>3, <2>5 DEF Inbox
  <2>7. UNCHANGED <<Sent, Waiting, Joined>>
    BY <1>8 DEF Receive, dispatcher, Sent, Pushing, Waiting, Joined, Subscribed
  <2>8. B!Take(c)
    BY <2>5, <2>6, <2>7, MappedActions
  <2>9. QED
    BY <2>8 DEF B!BNext
<1>9. CASE TakeMessage
  <2>1. in \in Seq(Msg) /\ in # <<>> /\ <<Head(in)>> \o Tail(in) = in /\ <<>> \o in = in
    BY <1>0, <1>9 DEF TakeMessage, TypeOK
  <2>2. Waiting' = Waiting
    BY <1>9, <2>1 DEF TakeMessage, Waiting
  <2>3. \A q \in Chans : Due(q) = <<>> /\ Due(q)' = <<>>
    BY <1>0, <1>9 DEF TakeMessage, InHand, Due, Contains
  <2>4. Inbox' = Inbox
    BY <1>9, <2>3 DEF TakeMessage, Inbox
  <2>5. QED
    BY <1>9, <2>2, <2>4 DEF TakeMessage, Stutter, Sent, Pushing, Joined, Subscribed
<1>10. CASE LockDispatch
  <2>1. cur \in Msg /\ cur.topic \in Topics /\ in \in Seq(Msg)
    BY <1>0, <1>10 DEF LockDispatch, InHand, Msg, TypeOK
  <2>2. Waiting = <<cur>> \o in /\ Waiting' = <<>> \o in
    BY <1>10 DEF LockDispatch, Waiting
  <2>3. Waiting # <<>> /\ Head(Waiting) = cur /\ Waiting' = Tail(Waiting)
    BY <2>1, <2>2
  <2>4. ASSUME NEW q \in Chans
        PROVE  Inbox'[q] = IF Head(Waiting).topic \in Joined[q]
                           THEN Append(Inbox[q], Head(Waiting)) ELSE Inbox[q]
    <3>1. Due(q) = <<>>
      BY <1>0, <1>10 DEF LockDispatch, InHand, Due, Contains
    <3>2. Due(q)' = IF Contains(subscribers[cur.topic], q) THEN <<cur>> ELSE <<>>
      BY <1>10 DEF LockDispatch, Due
    <3>3. cur.topic \in Joined[q] <=> Contains(subscribers[cur.topic], q)
      BY <2>1 DEF Joined, Subscribed
    <3>4. ch[q] \in Seq(Msg) /\ Inbox[q] = ch[q] \o Due(q) /\ Inbox'[q] = ch[q] \o Due(q)'
      BY <1>0, <1>10 DEF LockDispatch, TypeOK, Inbox
    <3>5. ch[q] \o <<>> = ch[q] /\ ch[q] \o <<cur>> = Append(ch[q], cur)
      BY <2>1, <3>4, AppendIn
    <3>6. QED
      BY <2>3, <3>1, <3>2, <3>3, <3>4, <3>5
  <2>5. Inbox' = [q \in Chans |-> IF Head(Waiting).topic \in Joined[q]
                                  THEN Append(Inbox[q], Head(Waiting)) ELSE Inbox[q]]
    BY <2>4 DEF Inbox
  <2>6. UNCHANGED <<Sent, Joined>>
    BY <1>10 DEF LockDispatch, Sent, Pushing, Joined, Subscribed
  <2>7. B!Dispatch
    BY <2>3, <2>5, <2>6, MappedActions
  <2>8. QED
    BY <2>7 DEF B!BNext
<1>11. CASE Deliver
  <2> DEFINE h == Head(todo)
  <2>1. /\ todo \in Seq(Chans) /\ todo # <<>> /\ Distinct(todo) /\ cur \in Msg
        /\ ch \in [Chans -> Seq(Msg)]
    BY <1>0, <1>11 DEF Deliver, TypeOK, InHand
  <2>2. /\ h \in Chans /\ Contains(todo, h)
        /\ \A x : Contains(Tail(todo), x) <=> Contains(todo, x) /\ x # h
    BY <2>1, TailContains
  <2>3. ch' = [ch EXCEPT ![h] = Append(ch[h], cur)] /\ todo' = Tail(todo) /\ cur' = cur
    BY <1>11 DEF Deliver
  <2> HIDE DEF h
  <2>4. ASSUME NEW q \in Chans PROVE ch'[q] \o Due(q)' = ch[q] \o Due(q)
    <3>1. CASE q = h
      <4>1. Due(q) = <<cur>> /\ Due(q)' = <<>>
        BY <2>2, <2>3, <3>1 DEF Due
      <4>2. ch'[q] = Append(ch[q], cur) /\ ch[q] \in Seq(Msg)
        BY <2>1, <2>3, <3>1
      <4>3. Append(ch[q], cur) \in Seq(Msg)
        BY <2>1, <4>2
      <4>4. Append(ch[q], cur) \o <<>> = Append(ch[q], cur)
            /\ ch[q] \o <<cur>> = Append(ch[q], cur)
        BY <2>1, <4>2, <4>3, AppendIn
      <4>5. QED
        BY <4>1, <4>2, <4>4
    <3>2. CASE q # h
      BY <2>1, <2>2, <2>3, <3>2 DEF Due
    <3>3. QED
      BY <3>1, <3>2
  <2>5. Inbox' = Inbox
    BY <2>4 DEF Inbox
  <2>6. QED
    BY <1>11, <2>5 DEF Deliver, Stutter, Sent, Pushing, Waiting, Joined, Subscribed
<1>12. CASE UnlockDispatch
  <2>1. \A q \in Chans : Due(q) = <<>> /\ Due(q)' = <<>>
    BY <1>12 DEF UnlockDispatch, Due, Contains
  <2>2. QED
    BY <1>12, <2>1
       DEF UnlockDispatch, Stutter, Sent, Pushing, Waiting, Inbox, Joined, Subscribed
<1>13. QED
  BY <1>1, <1>2, <1>3, <1>4, <1>5, <1>6, <1>7, <1>8, <1>9, <1>10, <1>11, <1>12
     DEF Next, ProcessMessages, Client

\* The bus of bus/bus.go implements Broadcast: one total order, and each message once to
\* each channel subscribed when its turn comes, whatever blocks in between.
THEOREM BusImplementsBroadcast == Spec => ImplementsBroadcast
<1>1. IInv /\ IInv' /\ [Next]_vars => [B!BNext]_B!bvars
  BY StepRefines
<1>2. QED
  BY <1>1, InitRefines, BusInvariant, PTL DEF Spec, ImplementsBroadcast, B!BSpec

-----------------------------------------------------------------------------
(* The timer server. *)

\* What is true of one timer, given the last grant for it and the time used
\* before the last reset.
Sound(t, grant, used_before) ==
  /\ t.paused => t.run = 0
  /\ Elapsed(t) <= t.limit + MaxLate
  /\ grant.limit <= grant.hard =>
       /\ t.limit <= t.hard
       /\ used_before + t.hard = grant.hard

AllSound ==
  \A id \in Known(timers) : Sound(timers[id], granted[id], spent[id])

NotLate == armed => checkIn >= -MaxLate

TimersInv == TimersOK /\ AllSound /\ CheckCovers /\ NotLate /\ NeverRevived

-----------------------------------------------------------------------------
\* What has elapsed of a timer is a natural, what is left an integer.
LEMMA ElapsedType ==
  ASSUME NEW t \in Timer
  PROVE  Elapsed(t) \in Nat /\ Left(t) \in Int
BY DEF Timer, Elapsed, Left

\* A known entry of a table is a timer.
LEMMA KnownType ==
  ASSUME NEW ts \in Tables, NEW id \in Ids
  PROVE  /\ id \in Known(ts) <=> ts[id] \in Timer
         /\ id \in Running(ts) <=> ts[id] \in Timer /\ ~ts[id].paused
BY NoTimerAssumption DEF Tables, Known, Running

\* updateTimers keeps the timers that are paused or have time left, as they
\* were, and sends "done" for known timers only.
LEMMA SurvivorsLemma ==
  ASSUME NEW ts \in Tables
  PROVE  /\ Survivors(ts) \in Tables
         /\ \A id \in Known(Survivors(ts)) : /\ id \in Known(ts)
                                             /\ Survivors(ts)[id] = ts[id]
                                             /\ id \notin Expired(ts)
         /\ \A id \in Running(Survivors(ts)) : Left(Survivors(ts)[id]) > 0
         /\ Expired(ts) \subseteq Known(ts)
<1>1. Survivors(ts) \in Tables
  BY DEF Survivors, Tables
<1>2. ASSUME NEW id \in Known(Survivors(ts))
      PROVE  /\ id \in Known(ts)
             /\ Survivors(ts)[id] = ts[id]
             /\ id \notin Expired(ts)
  BY <1>2 DEF Survivors, Known
<1>3. ASSUME NEW id \in Running(Survivors(ts))
      PROVE  Left(Survivors(ts)[id]) > 0
  <2>1. id \in Ids /\ id \in Known(Survivors(ts)) /\ ~Survivors(ts)[id].paused
    BY <1>3 DEF Running, Known
  <2>2. ts[id] \in Timer /\ id \in Running(ts) /\ id \notin Expired(ts)
    BY <2>1, <1>2, KnownType DEF Running
  <2>3. ~(Left(ts[id]) <= 0)
    BY <2>2 DEF Expired
  <2>4. QED
    BY <2>1, <2>2, <2>3, <1>2, ElapsedType
<1>4. Expired(ts) \subseteq Known(ts)
  BY DEF Expired, Running
<1>5. QED
  BY <1>1, <1>2, <1>3, <1>4

\* What updateTimers establishes, whatever the handler left in the table.
LEMMA UpdateLemma ==
  ASSUME NEW ts \in Tables, UpdateTimers(ts), BoundsAssumption
  PROVE  /\ timers' \in Tables
         /\ timers' = Survivors(ts)
         /\ armed' \in BOOLEAN
         /\ checkIn' \in Int
         /\ fired' = fired \cup Expired(ts)
         /\ CheckCovers'
         /\ NotLate'
<1>1. timers' = Survivors(ts) /\ fired' = fired \cup Expired(ts)
  BY DEF UpdateTimers
<1>2. timers' \in Tables
  BY <1>1, SurvivorsLemma
<1>3. CASE Running(timers') = {}
  <2>1. armed' = FALSE /\ checkIn' = 0
    BY <1>1, <1>3 DEF UpdateTimers
  <2>2. armed' \in BOOLEAN /\ NotLate'
    BY <2>1 DEF NotLate
  <2>3. CheckCovers'
    BY <1>3 DEF CheckCovers
  <2>4. checkIn' \in Int
    BY <2>1
  <2>5. QED
    BY <1>1, <1>2, <2>2, <2>3, <2>4
<1>4. CASE Running(timers') # {}
  <2>1. armed' = TRUE
    BY <1>1, <1>4 DEF UpdateTimers
  <2>2. /\ checkIn' \in Waits(timers')
        /\ \A v \in Waits(timers') : checkIn' <= v
    BY <1>1, <1>4 DEF UpdateTimers
  <2>3. ASSUME NEW v \in Waits(timers')
        PROVE  v \in Int /\ v > 0
    <3>1. CASE v = MaxWait
      BY <3>1, BoundsAssumption
    <3>2. ASSUME NEW id \in Running(timers'), v = Left(timers'[id])
          PROVE  v \in Int /\ v > 0
      <4>1. timers'[id] \in Timer
        BY <1>2, KnownType DEF Running, Known
      <4>2. QED
        BY <3>2, <4>1, <1>1, SurvivorsLemma, ElapsedType
    <3>3. QED
      BY <2>3, <3>1, <3>2 DEF Waits
  <2>4. \A id \in Running(timers') : checkIn' <= Left(timers'[id])
    BY <2>2 DEF Waits
  <2>5. checkIn' \in Int /\ checkIn' > 0
    BY <2>2, <2>3
  <2>6. QED
    BY <1>1, <1>2, <2>1, <2>4, <2>5, BoundsAssumption DEF CheckCovers, NotLate
<1>5. QED
  BY <1>3, <1>4

-----------------------------------------------------------------------------
(* The step lemma: a request may change one entry, histories included, as  *)
(* long as what it leaves there is a sound timer, or one that has reached  *)
(* its limit and so is gone after updateTimers.                            *)

\* What the helper left at id is allowed: nothing, or a timer that is about
\* to expire, or a sound one.
Allowed(t, grant, used_before) ==
  \/ t = NoTimer
  \/ t \in Timer /\ ~t.paused /\ Left(t) <= 0
  \/ t \in Timer /\ Sound(t, grant, used_before)

\* A request keeps TimersInv when what its helper leaves in the table is sound.
LEMMA TableStep ==
  ASSUME TimersInv, BoundsAssumption,
         NEW ts \in Tables, UpdateTimers(ts),
         used' \in SUBSET Ids, used \subseteq used', Known(ts) \subseteq used',
         granted' \in [Ids -> Grant], spent' \in [Ids -> Nat],
         chain' \in [Ids -> Nat],
         fired \cap Known(ts) = {},
         \A id \in Ids : Allowed(ts[id], granted'[id], spent'[id])
  PROVE  TimersInv'
<1>1. /\ timers' \in Tables
      /\ timers' = Survivors(ts)
      /\ armed' \in BOOLEAN
      /\ checkIn' \in Int
      /\ fired' = fired \cup Expired(ts)
      /\ CheckCovers'
      /\ NotLate'
  BY UpdateLemma
<1>2. ASSUME NEW id \in Known(timers')
      PROVE  /\ id \in Ids /\ id \in Known(ts) /\ id \notin Expired(ts)
             /\ timers'[id] = ts[id]
  BY <1>1, <1>2, SurvivorsLemma DEF Known
<1>3. AllSound'
  <2>1. ASSUME NEW id \in Known(timers')
        PROVE  Sound(timers'[id], granted'[id], spent'[id])
    <3>1. id \in Ids /\ ts[id] \in Timer /\ id \notin Expired(ts)
      BY <2>1, <1>2, KnownType
    <3>2. ~(~ts[id].paused /\ Left(ts[id]) <= 0)
      BY <3>1, KnownType DEF Expired
    <3>3. ts[id] # NoTimer
      BY <3>1, NoTimerAssumption
    <3>4. Sound(ts[id], granted'[id], spent'[id])
      BY <3>1, <3>2, <3>3 DEF Allowed
    <3>5. QED
      BY <3>4, <2>1, <1>2
  <2>2. QED
    BY <2>1 DEF AllSound
<1>4. NeverRevived'
  BY <1>1, <1>2 DEF NeverRevived
<1>5. TimersOK'
  <2>1. Known(timers') \subseteq used'
    BY <1>2
  <2>2. fired' \in SUBSET used'
    BY <1>1, SurvivorsLemma DEF TimersInv, TimersOK
  <2>3. QED
    BY <1>1, <2>1, <2>2 DEF TimersOK
<1>6. QED
  BY <1>1, <1>3, <1>4, <1>5 DEF TimersInv

\* One entry changed, histories of the others kept.
LEMMA OneEntry ==
  ASSUME TimersInv, BoundsAssumption,
         NEW id \in Ids, NEW t \in Timer \cup {NoTimer},
         UpdateTimers([timers EXCEPT ![id] = t]),
         used' \in SUBSET Ids, used \subseteq used',
         t # NoTimer => id \in used' /\ id \notin fired,
         granted' \in [Ids -> Grant], spent' \in [Ids -> Nat],
         chain' \in [Ids -> Nat],
         \A i \in Ids \ {id} : granted'[i] = granted[i] /\ spent'[i] = spent[i],
         Allowed(t, granted'[id], spent'[id])
  PROVE  TimersInv'
<1> DEFINE ts == [timers EXCEPT ![id] = t]
<1>1. ts \in Tables
  BY DEF TimersInv, TimersOK, Tables
<1>2. ASSUME NEW i \in Ids
      PROVE  ts[i] = IF i = id THEN t ELSE timers[i]
  BY DEF TimersInv, TimersOK, Tables
<1>3. \A i \in Known(ts) : i \in Ids /\ (i \in Known(timers) \/ (i = id /\ t # NoTimer))
  BY <1>2 DEF Known
<1>4. Known(ts) \subseteq used'
  BY <1>3 DEF TimersInv, TimersOK
<1>5. fired \cap Known(ts) = {}
  BY <1>3 DEF TimersInv, NeverRevived
<1>6. ASSUME NEW i \in Ids
      PROVE  Allowed(ts[i], granted'[i], spent'[i])
  <2>1. CASE i = id
    BY <2>1, <1>2
  <2>2. CASE i # id /\ i \notin Known(timers)
    BY <2>2, <1>2 DEF Known, Allowed
  <2>3. CASE i # id /\ i \in Known(timers)
    <3>1. timers[i] \in Timer
      BY <2>3, KnownType DEF TimersInv, TimersOK
    <3>2. Sound(timers[i], granted'[i], spent'[i])
      BY <2>3 DEF TimersInv, AllSound
    <3>3. QED
      BY <2>3, <3>1, <3>2, <1>2 DEF Allowed
  <2>4. QED
    BY <2>1, <2>2, <2>3
<1>7. UpdateTimers(ts)
  OBVIOUS
<1> HIDE DEF ts
<1>8. QED
  BY <1>1, <1>4, <1>5, <1>6, <1>7, TableStep

\* The table is left alone (a refused or reading request, a check).
LEMMA NoEntry ==
  ASSUME TimersInv, BoundsAssumption, UpdateTimers(timers),
         used' \in SUBSET Ids, used \subseteq used',
         granted' \in [Ids -> Grant], spent' \in [Ids -> Nat],
         chain' \in [Ids -> Nat],
         \A i \in Known(timers) : granted'[i] = granted[i] /\ spent'[i] = spent[i]
  PROVE  TimersInv'
<1>1. ASSUME NEW i \in Ids
      PROVE  Allowed(timers[i], granted'[i], spent'[i])
  <2>1. CASE i \in Known(timers)
    BY <2>1, KnownType DEF TimersInv, TimersOK, AllSound, Allowed
  <2>2. CASE i \notin Known(timers)
    BY <2>2 DEF Known, Allowed
  <2>3. QED
    BY <2>1, <2>2
<1>2. /\ timers \in Tables
      /\ Known(timers) \subseteq used'
      /\ fired \cap Known(timers) = {}
  BY DEF TimersInv, TimersOK, NeverRevived
<1>3. QED
  BY <1>1, <1>2, TableStep

-----------------------------------------------------------------------------
\* The program starts in the invariant.
LEMMA InitIInv == ASSUME BoundsAssumption, TimersInit PROVE TimersInv
<1>1. /\ timers \in Tables
      /\ Known(timers) = {} /\ Running(timers) = {}
  BY DEF TimersInit, Tables, Known, Running
<1>2. TimersOK
  BY <1>1 DEF TimersInit, TimersOK, Grant
<1>3. AllSound /\ CheckCovers /\ NeverRevived
  BY <1>1 DEF AllSound, CheckCovers, NeverRevived
<1>4. NotLate
  BY BoundsAssumption DEF TimersInit, NotLate
<1>5. QED
  BY <1>2, <1>3, <1>4 DEF TimersInv

\* Time passing keeps nextCheckTimer ahead of every timer, because both move
\* by the same amount.
LEMMA TickStep == ASSUME TimersInv, BoundsAssumption, Tick PROVE TimersInv'
<1> USE DEF TimersInv, TimersOK
<1>1. timers' \in Tables
  <2>1. ASSUME NEW i \in Running(timers)
        PROVE  [timers[i] EXCEPT !.run = @ + 1] \in Timer
    BY <2>1, KnownType DEF Running, Known, Timer
  <2>2. QED
    BY <2>1 DEF Tick, Advance, Tables
<1>2. ASSUME NEW i \in Ids
      PROVE  timers'[i] = IF i \in Running(timers)
                          THEN [timers[i] EXCEPT !.run = @ + 1] ELSE timers[i]
  BY DEF Tick, Advance
<1>3. ASSUME NEW i \in Running(timers)
      PROVE  /\ i \in Ids /\ timers[i] \in Timer /\ timers'[i] \in Timer
             /\ ~timers[i].paused /\ ~timers'[i].paused
             /\ timers'[i].limit = timers[i].limit
             /\ timers'[i].hard = timers[i].hard
             /\ Elapsed(timers'[i]) = Elapsed(timers[i]) + 1
             /\ Left(timers'[i]) = Left(timers[i]) - 1
  <2>1. i \in Ids /\ timers[i] \in Timer /\ ~timers[i].paused
    BY <1>3, KnownType DEF Running, Known
  <2>2. timers'[i] = [timers[i] EXCEPT !.run = @ + 1]
    BY <1>2, <1>3, <2>1
  <2>3. QED
    BY <2>1, <2>2 DEF Timer, Elapsed, Left
<1>4. ASSUME NEW i \in Ids, i \notin Running(timers)
      PROVE  timers'[i] = timers[i]
  BY <1>2, <1>4
<1>5. Known(timers') = Known(timers) /\ Running(timers') = Running(timers)
  <2>1. ASSUME NEW i \in Ids
        PROVE  /\ i \in Known(timers') <=> i \in Known(timers)
               /\ i \in Running(timers') <=> i \in Running(timers)
    BY <1>1, <1>3, <1>4, KnownType
  <2>2. QED
    BY <2>1 DEF Known, Running
<1>6. checkIn' \in Int /\ armed' \in BOOLEAN /\ NotLate'
  BY BoundsAssumption DEF Tick, NotLate
<1>7. CheckCovers'
  BY <1>3, <1>5, ElapsedType DEF CheckCovers, Tick
<1>8. AllSound'
  <2>1. ASSUME NEW i \in Known(timers')
        PROVE  Sound(timers'[i], granted'[i], spent'[i])
    <3>1. /\ i \in Ids /\ timers[i] \in Timer
          /\ Sound(timers[i], granted[i], spent[i])
          /\ granted'[i] = granted[i] /\ spent'[i] = spent[i]
      BY <2>1, <1>5, KnownType DEF Known, AllSound, Tick, Histories
    <3>2. CASE i \in Running(timers)
      <4>1. armed /\ checkIn <= Left(timers[i]) /\ checkIn > -MaxLate
        BY <3>2 DEF CheckCovers, Tick
      <4>2. Elapsed(timers[i]) + 1 <= timers[i].limit + MaxLate
        BY <3>1, <4>1, ElapsedType, BoundsAssumption DEF Left, Timer
      <4>3. QED
        BY <3>1, <3>2, <4>2, <1>3 DEF Sound
    <3>3. CASE i \notin Running(timers)
      BY <3>1, <3>3, <1>4
    <3>4. QED
      BY <3>2, <3>3
  <2>2. QED
    BY <2>1 DEF AllSound
<1>9. NeverRevived' /\ TimersOK'
  BY <1>1, <1>5, <1>6 DEF NeverRevived, Tick, Histories
<1>10. QED
  BY <1>6, <1>7, <1>8, <1>9

-----------------------------------------------------------------------------
\* "init" makes a sound timer or is refused.
LEMMA InitTimerStep ==
  ASSUME TimersInv, BoundsAssumption, GrantsAssumption,
         NEW id \in Ids, NEW grant \in Grants, NEW start \in BOOLEAN,
         InitTimer(id, grant, start)
  PROVE  TimersInv'
<1>1. /\ grant \in Grant /\ id \notin used
      /\ used' = used \cup {id}
      /\ granted' = [granted EXCEPT ![id] = grant]
      /\ spent' = [spent EXCEPT ![id] = 0] /\ chain' = chain
      /\ UpdateTimers(TimerInit(timers, id, grant, start))
  BY GrantsAssumption DEF InitTimer
<1>2. /\ used' \in SUBSET Ids /\ used \subseteq used'
      /\ granted' \in [Ids -> Grant] /\ spent' \in [Ids -> Nat]
      /\ chain' \in [Ids -> Nat]
      /\ granted'[id] = grant /\ spent'[id] = 0
      /\ \A i \in Ids \ {id} : granted'[i] = granted[i] /\ spent'[i] = spent[i]
      /\ id \notin Known(timers) /\ id \notin fired
  BY <1>1 DEF TimersInv, TimersOK
<1>3. CASE InitRefused(timers, id, grant)
  BY <1>1, <1>2, <1>3, NoEntry DEF TimerInit, Known
<1>4. CASE ~InitRefused(timers, id, grant)
  <2> DEFINE t == Fresh(grant, ~start)
  <2>1. t \in Timer /\ grant.limit <= grant.hard
    BY <1>1, <1>2, <1>4 DEF Fresh, Timer, Grant, InitRefused
  <2>2. Sound(t, grant, 0)
    BY <1>1, <2>1, BoundsAssumption DEF Fresh, Sound, Elapsed, Grant
  <2>3. Allowed(t, granted'[id], spent'[id])
    BY <1>2, <2>1, <2>2 DEF Allowed
  <2>4. UpdateTimers([timers EXCEPT ![id] = t])
    BY <1>1, <1>4 DEF TimerInit
  <2> HIDE DEF t
  <2>5. id \in used'
    BY <1>1
  <2>6. QED
    BY <1>2, <2>1, <2>3, <2>4, <2>5, OneEntry
<1>5. QED
  BY <1>3, <1>4

\* "init-hard" replaces a known timer by a sound one or is refused.
LEMMA InitHardStep ==
  ASSUME TimersInv, BoundsAssumption, GrantsAssumption,
         NEW id \in Ids, NEW grant \in Grants, InitHard(id, grant)
  PROVE  TimersInv'
<1>1. /\ grant \in Grant /\ used' = used
      /\ UpdateTimers(TimerInitHard(timers, id, grant))
  BY GrantsAssumption DEF InitHard
<1>2. CASE id \notin Known(timers)
  <2>1. UpdateTimers(timers) /\ UNCHANGED Histories
    BY <1>1, <1>2 DEF TimerInitHard, InitHard
  <2>2. QED
    BY <1>1, <2>1, NoEntry DEF Histories, TimersInv, TimersOK
<1>3. CASE id \in Known(timers)
  <2> DEFINE t == Fresh(grant, FALSE)
  <2>1. /\ granted' = [granted EXCEPT ![id] = grant]
        /\ spent' = [spent EXCEPT ![id] = 0]
        /\ chain' = [chain EXCEPT ![id] = @ + 1]
    BY <1>3 DEF InitHard
  <2>2. /\ granted' \in [Ids -> Grant] /\ spent' \in [Ids -> Nat]
        /\ chain' \in [Ids -> Nat]
        /\ granted'[id] = grant /\ spent'[id] = 0
        /\ \A i \in Ids \ {id} : granted'[i] = granted[i] /\ spent'[i] = spent[i]
    BY <1>1, <2>1 DEF TimersInv, TimersOK
  <2>3. t \in Timer
    BY <1>1 DEF Fresh, Timer, Grant
  <2>4. Sound(t, grant, 0)
    BY <1>1, BoundsAssumption DEF Fresh, Sound, Elapsed, Grant
  <2>5. Allowed(t, granted'[id], spent'[id])
    BY <2>2, <2>3, <2>4 DEF Allowed
  <2>6. UpdateTimers([timers EXCEPT ![id] = t])
    BY <1>1, <1>3 DEF TimerInitHard
  <2>7. id \in used' /\ id \notin fired /\ used' \in SUBSET Ids
    BY <1>1, <1>3 DEF TimersInv, TimersOK, NeverRevived
  <2> HIDE DEF t
  <2>8. QED
    BY <1>1, <2>2, <2>3, <2>5, <2>6, <2>7, OneEntry
<1>4. QED
  BY <1>2, <1>3

\* A request that keeps the histories and leaves t at id.
LEMMA QuietEntry ==
  ASSUME TimersInv, BoundsAssumption, NEW id \in Ids, id \in Known(timers),
         NEW t \in Timer \cup {NoTimer},
         UpdateTimers([timers EXCEPT ![id] = t]), UNCHANGED <<used, Histories>>,
         Allowed(t, granted[id], spent[id])
  PROVE  TimersInv'
<1>1. /\ granted' = granted /\ spent' = spent /\ chain' = chain /\ used' = used
      /\ id \in used /\ id \notin fired
  BY DEF Histories, TimersInv, TimersOK, NeverRevived
<1>2. QED
  BY <1>1, OneEntry DEF TimersInv, TimersOK

\* A request that leaves the table and the histories alone keeps TimersInv.
LEMMA QuietTable ==
  ASSUME TimersInv, BoundsAssumption, UpdateTimers(timers),
         UNCHANGED <<used, Histories>>
  PROVE  TimersInv'
BY NoEntry DEF Histories, TimersInv, TimersOK

\* "start" and "resume" change nothing but paused.
LEMMA StartStep ==
  ASSUME TimersInv, BoundsAssumption, NEW id \in Ids, StartTimer(id)
  PROVE  TimersInv'
<1>1. UpdateTimers(TimerStart(timers, id)) /\ UNCHANGED <<used, Histories>>
  BY DEF StartTimer
<1>2. CASE StartRefused(timers, id)
  BY <1>1, <1>2, QuietTable DEF TimerStart
<1>3. CASE ~StartRefused(timers, id)
  <2> DEFINE t == [timers[id] EXCEPT !.paused = FALSE]
  <2>1. id \in Known(timers) /\ timers[id] \in Timer
    BY <1>3, KnownType DEF StartRefused, TimersInv, TimersOK
  <2>2. t \in Timer
    BY <2>1 DEF Timer
  <2>3. Sound(t, granted[id], spent[id])
    BY <2>1 DEF TimersInv, AllSound, Sound, Timer, Elapsed
  <2>4. [timers EXCEPT ![id].paused = FALSE] = [timers EXCEPT ![id] = t]
    BY DEF TimersInv, TimersOK, Tables
  <2>5. UpdateTimers([timers EXCEPT ![id] = t])
    BY <1>1, <1>3, <2>4 DEF TimerStart
  <2>6. Allowed(t, granted[id], spent[id])
    BY <2>2, <2>3 DEF Allowed
  <2> HIDE DEF t
  <2>7. QED
    BY <1>1, <2>1, <2>2, <2>5, <2>6, QuietEntry
<1>4. QED
  BY <1>2, <1>3

\* "pause" moves the running time to lapsed, so what has elapsed is the same.
LEMMA PauseStep ==
  ASSUME TimersInv, BoundsAssumption, NEW id \in Ids, PauseTimer(id)
  PROVE  TimersInv'
<1>1. UpdateTimers(TimerPause(timers, id)) /\ UNCHANGED <<used, Histories>>
  BY DEF PauseTimer
<1>2. CASE id \notin Running(timers)
  BY <1>1, <1>2, QuietTable DEF TimerPause
<1>3. CASE id \in Running(timers)
  <2> DEFINE t == [timers[id] EXCEPT !.paused = TRUE,
                                    !.lapsed = Elapsed(timers[id]), !.run = 0]
  <2>1. id \in Known(timers) /\ timers[id] \in Timer
    BY <1>3, KnownType DEF Running, TimersInv, TimersOK
  <2>2. t \in Timer /\ Elapsed(t) = Elapsed(timers[id])
    <3>1. Elapsed(timers[id]) \in Nat
      BY <2>1, ElapsedType
    <3>2. /\ t \in Timer /\ t.lapsed = Elapsed(timers[id]) /\ t.run = 0
      BY <2>1, <3>1 DEF Timer
    <3> HIDE DEF t
    <3>3. Elapsed(t) = t.lapsed + t.run
      BY DEF Elapsed
    <3>4. QED
      BY <3>1, <3>2, <3>3
  <2>3. Sound(t, granted[id], spent[id])
    <3>1. /\ t.run = 0 /\ t.limit = timers[id].limit /\ t.hard = timers[id].hard
      BY <2>1 DEF Timer
    <3> HIDE DEF t
    <3>2. QED
      BY <2>1, <2>2, <3>1 DEF TimersInv, AllSound, Sound
  <2>4. UpdateTimers([timers EXCEPT ![id] = t])
    BY <1>1, <1>3 DEF TimerPause, TimersInv, TimersOK, Tables
  <2>5. Allowed(t, granted[id], spent[id])
    BY <2>2, <2>3 DEF Allowed
  <2>6. t \in Timer \cup {NoTimer}
    BY <2>2
  <2> HIDE DEF t
  <2>7. QED
    BY <1>1, <2>1, <2>4, <2>5, <2>6, QuietEntry
<1>4. QED
  BY <1>2, <1>3

\* "reset" moves what has elapsed from the hard limit to spent.
LEMMA ResetStep ==
  ASSUME TimersInv, BoundsAssumption, NEW id \in Ids, ResetTimer(id)
  PROVE  TimersInv'
<1>1. /\ UpdateTimers(TimerReset(timers, id))
      /\ used' = used /\ granted' = granted /\ chain' = chain
  BY DEF ResetTimer
<1>2. CASE ResetRefused(timers, id)
  <2>1. UpdateTimers(timers) /\ spent' = spent
    BY <1>1, <1>2 DEF TimerReset, ResetTimer
  <2>2. QED
    BY <1>1, <2>1, NoEntry DEF TimersInv, TimersOK
<1>3. CASE ~ResetRefused(timers, id)
  <2> DEFINE e    == Elapsed(timers[id])
             rest == timers[id].hard - e
             lim  == IF timers[id].limit > rest THEN rest ELSE timers[id].limit
             t    == [timers[id] EXCEPT !.lapsed = 0, !.run = 0, !.hard = rest,
                                        !.limit = lim]
  <2>1. id \in Known(timers) /\ timers[id] \in Timer
    BY <1>3, KnownType DEF ResetRefused, TimersInv, TimersOK
  <2>2. e \in Nat /\ e < timers[id].hard
    <3>1. e \in Nat /\ ~(e >= timers[id].hard) /\ timers[id].hard \in Nat
      BY <1>3, <2>1, ElapsedType DEF ResetRefused, Timer
    <3>2. QED
      BY <3>1
  <2> HIDE DEF e
  <2>3. rest \in Nat /\ lim \in Nat /\ lim <= rest
    BY <2>1, <2>2 DEF Timer
  <2>4. /\ spent' = [spent EXCEPT ![id] = @ + e]
        /\ spent' \in [Ids -> Nat]
        /\ spent'[id] = spent[id] + e
        /\ \A i \in Ids \ {id} : spent'[i] = spent[i]
    BY <1>3, <2>2 DEF ResetTimer, TimersInv, TimersOK, e
  <2>5. /\ t \in Timer /\ t.run = 0 /\ t.lapsed = 0 /\ t.hard = rest
        /\ t.limit = lim
    BY <2>1, <2>3 DEF Timer
  <2>6. UpdateTimers([timers EXCEPT ![id] = t])
    BY <1>1, <1>3 DEF TimerReset, e
  <2> HIDE DEF t
  <2>7. Sound(t, granted[id], spent'[id])
    <3>1. /\ spent[id] \in Nat /\ timers[id].hard \in Nat
          /\ granted[id].limit <= granted[id].hard
               => spent[id] + timers[id].hard = granted[id].hard
      BY <2>1 DEF TimersInv, TimersOK, AllSound, Sound, Timer
    <3>2. Elapsed(t) = 0
      BY <2>5 DEF Elapsed
    <3>3. Elapsed(t) <= t.limit + MaxLate
      BY <3>2, <2>3, <2>5, BoundsAssumption
    <3>4. granted[id].limit <= granted[id].hard
             => spent'[id] + t.hard = granted[id].hard
      BY <3>1, <2>2, <2>4, <2>5
    <3>5. QED
      BY <2>3, <2>5, <3>3, <3>4 DEF Sound
  <2>8. Allowed(t, granted'[id], spent'[id])
    BY <1>1, <2>5, <2>7 DEF Allowed
  <2>9. id \in used /\ id \notin fired
    BY <2>1 DEF TimersInv, TimersOK, NeverRevived
  <2>10. QED
    BY <1>1, <2>4, <2>5, <2>6, <2>8, <2>9, OneEntry DEF TimersInv, TimersOK
<1>4. QED
  BY <1>2, <1>3

\* "trigger" makes a timer that is exactly at its limit, and running.
LEMMA TriggerStep ==
  ASSUME TimersInv, BoundsAssumption, NEW id \in Ids, TriggerTimer(id)
  PROVE  TimersInv'
<1>1. UpdateTimers(TimerTrigger(timers, id)) /\ UNCHANGED <<used, Histories>>
  BY DEF TriggerTimer
<1>2. CASE id \notin Known(timers)
  BY <1>1, <1>2, QuietTable DEF TimerTrigger
<1>3. CASE id \in Known(timers)
  <2> DEFINE t == [timers[id] EXCEPT !.lapsed = timers[id].limit, !.paused = FALSE]
  <2>1. timers[id] \in Timer
    BY <1>3, KnownType DEF TimersInv, TimersOK
  <2>2. t \in Timer /\ ~t.paused /\ Left(t) <= 0
    <3>1. /\ t \in Timer /\ ~t.paused
          /\ t.lapsed = t.limit
      BY <2>1 DEF Timer
    <3>2. t.lapsed \in Nat /\ t.run \in Nat
      BY <3>1 DEF Timer
    <3> HIDE DEF t
    <3>3. QED
      BY <3>1, <3>2 DEF Left, Elapsed
  <2>3. UpdateTimers([timers EXCEPT ![id] = t])
    BY <1>1, <1>3 DEF TimerTrigger, TimersInv, TimersOK, Tables
  <2> HIDE DEF t
  <2>4. QED
    BY <1>1, <1>3, <2>2, <2>3, QuietEntry DEF Allowed
<1>4. QED
  BY <1>2, <1>3

\* "delete" leaves fewer timers to speak of.
LEMMA DeleteStep ==
  ASSUME TimersInv, BoundsAssumption, NEW id \in Ids, DeleteTimer(id)
  PROVE  TimersInv'
<1>1. UpdateTimers([timers EXCEPT ![id] = NoTimer]) /\ UNCHANGED <<used, Histories>>
  BY DEF DeleteTimer, TimerDelete
<1>2. CASE id \in Known(timers)
  BY <1>1, <1>2, QuietEntry DEF Allowed
<1>3. CASE id \notin Known(timers)
  <2>1. [timers EXCEPT ![id] = NoTimer] = timers
    BY <1>3 DEF Known, TimersInv, TimersOK, Tables
  <2>2. QED
    BY <1>1, <2>1, QuietTable
<1>4. QED
  BY <1>2, <1>3

\* Every request keeps TimersInv.
LEMMA RequestStep ==
  ASSUME TimersInv, BoundsAssumption, GrantsAssumption, Request
  PROVE  TimersInv'
<1>1. CASE \E id \in Ids, grant \in Grants, start \in BOOLEAN :
             InitTimer(id, grant, start)
  BY <1>1, InitTimerStep
<1>2. CASE \E id \in Ids, grant \in Grants : InitHard(id, grant)
  BY <1>2, InitHardStep
<1>3. CASE \E id \in Ids : StartTimer(id)
  BY <1>3, StartStep
<1>4. CASE \E id \in Ids : PauseTimer(id)
  BY <1>4, PauseStep
<1>5. CASE \E id \in Ids : ResetTimer(id)
  BY <1>5, ResetStep
<1>6. CASE \E id \in Ids : TriggerTimer(id)
  BY <1>6, TriggerStep
<1>7. CASE \E id \in Ids : DeleteTimer(id)
  BY <1>7, DeleteStep
<1>8. CASE OtherRequest
  BY <1>8, QuietTable DEF OtherRequest
<1>9. QED
  BY <1>1, <1>2, <1>3, <1>4, <1>5, <1>6, <1>7, <1>8 DEF Request

\* The invariant of which all that follows is a consequence.
THEOREM TimerInvariant == TimersSpec => []TimersInv
<1>1. TimersInit => TimersInv
  BY InitIInv, BoundsAssumption
<1>2. TimersInv /\ [TimersNext]_timerVars => TimersInv'
  <2> SUFFICES ASSUME TimersInv, [TimersNext]_timerVars PROVE TimersInv'
    OBVIOUS
  <2>1. CASE Request
    BY <2>1, RequestStep, BoundsAssumption, GrantsAssumption
  <2>2. CASE CheckFires
    BY <2>2, QuietTable, BoundsAssumption DEF CheckFires
  <2>3. CASE Tick
    BY <2>3, TickStep, BoundsAssumption
  <2>4. CASE UNCHANGED timerVars
    BY <2>4 DEF timerVars, TimersInv, TimersOK, AllSound, CheckCovers, NotLate, NeverRevived,
                Known, Running, Sound, Elapsed, Left
  <2>5. QED
    BY <2>1, <2>2, <2>3, <2>4 DEF TimersNext
<1>3. QED
  BY <1>1, <1>2, PTL DEF TimersSpec

\* The state of timer_server.go is well typed: every entry of the table was
\* made by a handled "init" and "done" is only ever sent for such an id.
THEOREM TimersCorrect == TimersSpec => []TimersOK
<1>1. TimersInv => TimersOK
  BY DEF TimersInv
<1>2. QED
  BY <1>1, TimerInvariant, PTL

\* updateTimers re-arms nextCheckTimer early enough after every request.
THEOREM CheckAlwaysCovers == TimersSpec => []CheckCovers
<1>1. TimersInv => CheckCovers
  BY DEF TimersInv
<1>2. QED
  BY <1>1, TimerInvariant, PTL

\* No running timer is overdue by more than ProcessTimers lags.
THEOREM TimeoutsArePunctual == TimersSpec => []Punctual
<1>1. TimersInv => Punctual
  <2> SUFFICES ASSUME TimersInv, NEW id \in Running(timers)
               PROVE  Elapsed(timers[id]) <= timers[id].limit + MaxLate
    BY DEF Punctual
  <2>1. id \in Known(timers)
    BY DEF Running
  <2>2. QED
    BY <2>1 DEF TimersInv, AllSound, Sound
<1>2. QED
  BY <1>1, TimerInvariant, PTL

\* An id that has timed out stays out of the table.
THEOREM FiredTimersStayGone == TimersSpec => []NeverRevived
<1>1. TimersInv => NeverRevived
  BY DEF TimersInv
<1>2. QED
  BY <1>1, TimerInvariant, PTL

\* Resets never extend a timer past the hard limit it was granted.
THEOREM ResetsRespectHardLimit == TimersSpec => []HardDeadline
<1>1. TimersInv => HardDeadline
  <2> SUFFICES ASSUME TimersInv, NEW id \in Known(timers),
                      granted[id].limit <= granted[id].hard
               PROVE  spent[id] + Elapsed(timers[id]) <= granted[id].hard + MaxLate
    BY DEF HardDeadline
  <2>1. id \in Ids /\ timers[id] \in Timer
    BY KnownType DEF TimersInv, TimersOK, Known
  <2>2. /\ timers[id].limit \in Nat /\ timers[id].hard \in Nat
        /\ spent[id] \in Nat /\ granted[id].hard \in Nat
        /\ Elapsed(timers[id]) \in Nat
    BY <2>1, ElapsedType DEF TimersInv, TimersOK, Timer, Grant
  <2>3. /\ Elapsed(timers[id]) <= timers[id].limit + MaxLate
        /\ timers[id].limit <= timers[id].hard
        /\ spent[id] + timers[id].hard = granted[id].hard
    BY <2>1 DEF TimersInv, AllSound, Sound
  <2>4. QED
    BY <2>2, <2>3, BoundsAssumption
<1>2. QED
  BY <1>1, TimerInvariant, PTL

=============================================================================
