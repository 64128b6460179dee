--------------------------------- MODULE Bus ---------------------------------
(***************************************************************************)
(* bus/bus.go: one mutex, one bounded channel In, one bounded channel per  *)
(* subscriber, and the goroutine ProcessMessages that moves messages from  *)
(* In to the subscribers.  SendEx sends to In while it holds the mutex and *)
(* ProcessMessages sends to the subscribers while it holds the mutex, so   *)
(* both can block with the mutex held; these are the steps kept apart      *)
(* here.  Subscribe and Unsubscribe do not block once they have the mutex  *)
(* and are one step each, taken when it is free.                           *)
(*                                                                         *)
(* A process may hold several channels, one inside the other: a chained    *)
(* FetchEx keeps its own while the nested Fetch of "init-hard" has         *)
(* another, and a loop over a channel that calls Fetch does the same.  It  *)
(* reads the innermost only.                                               *)
(***************************************************************************)
EXTENDS Integers, FiniteSets, Sequences, SequencesExt

CONSTANTS
  Procs,      \* goroutines that use the bus
  Topics,
  Interests,  \* the sets of topics a channel is subscribed to
  Nesting,    \* bound: how many channels each process holds one inside the other
  MaxMsgs,    \* bound: the number of messages sent
  InCap,      \* capacity of In (1000)
  ChCap,      \* capacity of a subscriber's channel (1000)
  Nobody      \* not a process: the mutex is free, no message is in hand

ASSUME CapAssumption == InCap \in Nat \ {0} /\ ChCap \in Nat \ {0}
ASSUME MaxMsgsAssumption == MaxMsgs \in Nat
ASSUME InterestsAssumption == Interests \subseteq (SUBSET Topics) \ {{}}
ASSUME NestingAssumption == Nesting \in [Procs -> Nat]
ASSUME ProcsAssumption == IsFiniteSet(Procs)

VARIABLES
  nextID,       \* Bus.NextID
  in,           \* Bus.In
  subscribers,  \* Bus.Subscribers: for each topic its channels, in order
  ch,           \* the contents of each channel
  depth,        \* the number of channels each process holds
  mutex,        \* who holds Bus.M
  dpc,          \* where ProcessMessages is
  cur,          \* the message ProcessMessages has taken from In
  todo,         \* the subscribers it has still to send cur to
  pc,           \* where each process is
  sending       \* the topic of the message a process is about to send

vars == <<nextID, in, subscribers, ch, depth, mutex, dpc, cur, todo, pc, sending>>
dispatcher == <<dpc, cur, todo>>

Dispatcher == "ProcessMessages"

ASSUME NobodyAssumption == Dispatcher \notin Procs /\ Nobody \notin Procs \cup {Dispatcher}

Msg == [id : 1..MaxMsgs, topic : Topics]

NoMsg == [id |-> 0, topic |-> Nobody]

\* The channels, named by their owner and by their place among those it holds.
Chans == UNION {{p} \X (1..Nesting[p]) : p \in Procs}

\* The one a process reads, if it has any.
Innermost(p) == <<p, depth[p]>>

Subscribed(c) == {t \in Topics : Contains(subscribers[t], c)}

\* Processes that have called SendEx and not yet got an id.
Sending == {p \in Procs : pc[p] = "lock"}

-----------------------------------------------------------------------------
Init ==
  /\ nextID = 0
  /\ in = <<>>
  /\ subscribers = [t \in Topics |-> <<>>]
  /\ ch = [c \in Chans |-> <<>>]
  /\ depth = [p \in Procs |-> 0]
  /\ mutex = Nobody
  /\ dpc = "receive"
  /\ cur = NoMsg
  /\ todo = <<>>
  /\ pc = [p \in Procs |-> "idle"]
  /\ sending = [p \in Procs |-> Nobody]

\* A process calls Send, Respond or the SendEx of a Fetch ...
CallSend(p, topic) ==
  /\ pc[p] = "idle"
  /\ nextID + Cardinality(Sending) < MaxMsgs
  /\ pc' = [pc EXCEPT ![p] = "lock"]
  /\ sending' = [sending EXCEPT ![p] = topic]
  /\ UNCHANGED <<nextID, in, subscribers, ch, depth, mutex, dispatcher>>

\* ... gets the mutex and the next id ...
LockSend(p) ==
  /\ pc[p] = "lock"
  /\ mutex = Nobody
  /\ mutex' = p
  /\ nextID' = nextID + 1
  /\ pc' = [pc EXCEPT ![p] = "push"]
  /\ UNCHANGED <<in, subscribers, ch, depth, dispatcher, sending>>

\* ... and sends to In, which blocks while In is full.
PushSend(p) ==
  /\ pc[p] = "push"
  /\ Len(in) < InCap
  /\ in' = Append(in, [id |-> nextID, topic |-> sending[p]])
  /\ mutex' = Nobody
  /\ pc' = [pc EXCEPT ![p] = "idle"]
  /\ sending' = [sending EXCEPT ![p] = Nobody]
  /\ UNCHANGED <<nextID, subscribers, ch, depth, dispatcher>>

\* A new channel, appended to the subscribers of each topic.
Subscribe(p, ts) ==
  /\ pc[p] = "idle"
  /\ depth[p] < Nesting[p]
  /\ mutex = Nobody
  /\ depth' = [depth EXCEPT ![p] = @ + 1]
  /\ subscribers' = [t \in Topics |-> IF t \in ts
                                      THEN Append(subscribers[t], <<p, depth[p] + 1>>)
                                      ELSE subscribers[t]]
  /\ UNCHANGED <<nextID, in, ch, mutex, dispatcher, pc, sending>>

\* The process stops reading and calls Unsubscribe.
CallUnsubscribe(p) ==
  /\ pc[p] = "idle"
  /\ depth[p] > 0
  /\ pc' = [pc EXCEPT ![p] = "leave"]
  /\ UNCHANGED <<nextID, in, subscribers, ch, depth, mutex, dispatcher, sending>>

\* Variant: the channel is closed without the mutex.
UnsubscribeUnlocked(p) ==
  /\ pc[p] = "leave"
  /\ subscribers' = [t \in Topics |-> RemoveFirst(subscribers[t], Innermost(p))]
  /\ ch' = [ch EXCEPT ![Innermost(p)] = <<>>]
  /\ depth' = [depth EXCEPT ![p] = @ - 1]
  /\ pc' = [pc EXCEPT ![p] = "idle"]
  /\ UNCHANGED <<nextID, in, mutex, dispatcher, sending>>

\* A channel is in the list of a topic once. What is left in it when it is closed is
\* never read.
Unsubscribe(p) ==
  /\ pc[p] = "leave"
  /\ mutex = Nobody
  /\ subscribers' = [t \in Topics |-> RemoveFirst(subscribers[t], Innermost(p))]
  /\ ch' = [ch EXCEPT ![Innermost(p)] = <<>>]
  /\ depth' = [depth EXCEPT ![p] = @ - 1]
  /\ pc' = [pc EXCEPT ![p] = "idle"]
  /\ UNCHANGED <<nextID, in, mutex, dispatcher, sending>>

Receive(p) ==
  /\ pc[p] = "idle"
  /\ depth[p] > 0
  /\ ch[Innermost(p)] # <<>>
  /\ ch' = [ch EXCEPT ![Innermost(p)] = Tail(@)]
  /\ UNCHANGED <<nextID, in, subscribers, depth, mutex, dispatcher, pc, sending>>

\* for msg := range cb.In
TakeMessage ==
  /\ dpc = "receive"
  /\ in # <<>>
  /\ cur' = Head(in)
  /\ in' = Tail(in)
  /\ dpc' = "lock"
  /\ UNCHANGED <<nextID, subscribers, ch, depth, mutex, todo, pc, sending>>

LockDispatch ==
  /\ dpc = "lock"
  /\ mutex = Nobody
  /\ mutex' = Dispatcher
  /\ todo' = subscribers[cur.topic]
  /\ dpc' = "deliver"
  /\ UNCHANGED <<nextID, in, subscribers, ch, depth, cur, pc, sending>>

\* subscriber <- msg, which blocks while the subscriber's channel is full.
Deliver ==
  /\ dpc = "deliver"
  /\ todo # <<>>
  /\ Len(ch[Head(todo)]) < ChCap
  /\ ch' = [ch EXCEPT ![Head(todo)] = Append(@, cur)]
  /\ todo' = Tail(todo)
  /\ UNCHANGED <<nextID, in, subscribers, depth, mutex, dpc, cur, pc, sending>>

\* Variant: the loop over the subscribers may end early.
UnlockDispatchEarly ==
  /\ dpc = "deliver"
  /\ mutex' = Nobody
  /\ cur' = NoMsg
  /\ todo' = <<>>
  /\ dpc' = "receive"
  /\ UNCHANGED <<nextID, in, subscribers, ch, depth, pc, sending>>

\* Variant: the mutex is not released.
UnlockDispatchKeepsLock ==
  /\ dpc = "deliver"
  /\ todo = <<>>
  /\ cur' = NoMsg
  /\ dpc' = "receive"
  /\ UNCHANGED <<nextID, in, subscribers, ch, depth, mutex, todo, pc, sending>>

UnlockDispatch ==
  /\ dpc = "deliver"
  /\ todo = <<>>
  /\ mutex' = Nobody
  /\ cur' = NoMsg
  /\ dpc' = "receive"
  /\ UNCHANGED <<nextID, in, subscribers, ch, depth, todo, pc, sending>>

ProcessMessages == TakeMessage \/ LockDispatch \/ Deliver \/ UnlockDispatch

Client(p) ==
  \/ \E t \in Topics : CallSend(p, t)
  \/ LockSend(p)
  \/ PushSend(p)
  \/ \E ts \in Interests : Subscribe(p, ts)
  \/ CallUnsubscribe(p)
  \/ Unsubscribe(p)
  \/ Receive(p)

Next == ProcessMessages \/ \E p \in Procs : Client(p)

Spec == Init /\ [][Next]_vars

\* sync.Mutex hands a released lock to a goroutine that has waited for it, so
\* a step that takes it is strongly fair; the others only need to be left
\* enabled.  Nothing obliges a process to send, subscribe or unsubscribe.
Fairness ==
  /\ WF_vars(TakeMessage) /\ SF_vars(LockDispatch)
  /\ WF_vars(Deliver) /\ WF_vars(UnlockDispatch)
  /\ \A p \in Procs : /\ SF_vars(LockSend(p)) /\ WF_vars(PushSend(p))
                      /\ SF_vars(Unsubscribe(p)) /\ WF_vars(Receive(p))

FairSpec == Spec /\ Fairness

-----------------------------------------------------------------------------
TypeOK ==
  /\ nextID \in 0..MaxMsgs
  /\ in \in Seq(Msg)
  /\ subscribers \in [Topics -> Seq(Chans)]
  /\ ch \in [Chans -> Seq(Msg)]
  /\ depth \in [Procs -> Nat] /\ \A p \in Procs : depth[p] <= Nesting[p]
  /\ mutex \in Procs \cup {Nobody, Dispatcher}
  /\ dpc \in {"receive", "lock", "deliver"}
  /\ cur \in Msg \cup {NoMsg}
  /\ todo \in Seq(Chans)
  /\ pc \in [Procs -> {"idle", "lock", "push", "leave"}]
  /\ sending \in [Procs -> Topics \cup {Nobody}]

\* The channel a message is being sent to is never closed under the sender:
\* what ProcessMessages still has to serve is subscribed to the topic.
NoSendOnClosed ==
  \A i \in 1..Len(todo) : Contains(subscribers[cur.topic], todo[i])

\* The ways the bus locks up for good.  A sender holds the mutex in front of a
\* full In while ProcessMessages, a message in hand, waits for the mutex.
SenderStuck ==
  /\ dpc = "lock"
  /\ Len(in) = InCap
  /\ \E p \in Procs : pc[p] = "push"

\* ProcessMessages holds the mutex in front of a full channel whose owner waits
\* for the mutex, to send or to unsubscribe, or reads another channel that it
\* holds inside this one, which it cannot leave without the mutex.
DispatcherStuck ==
  /\ dpc = "deliver"
  /\ todo # <<>>
  /\ Len(ch[Head(todo)]) = ChCap
  /\ \E p \in Procs : /\ Head(todo) \in {p} \X (1..depth[p])
                      /\ pc[p] \in {"lock", "leave"} \/ Head(todo) # Innermost(p)

Stuck == SenderStuck \/ DispatcherStuck

\* A message on its way to In or in it is dispatched to the subscribers, unless
\* the bus locks up: in one of these ways, for there is no other, and then for
\* ever, for no step undoes it.
InFlight(i) ==
  \/ \E p \in Procs : pc[p] = "push" /\ nextID = i
  \/ \E k \in 1..Len(in) : in[k].id = i
  \/ cur.id = i

Dispatched == \A i \in 1..MaxMsgs : InFlight(i) ~> (~InFlight(i) \/ []Stuck)

-----------------------------------------------------------------------------
\* The bus implements Broadcast: a message is sent when it enters In and is
\* dispatched to all its subscribers when ProcessMessages gets the mutex.  The
\* clients of Broadcast are the channels.
B == INSTANCE Broadcast WITH
       Procs  <- Chans,
       nextID <- IF \E p \in Procs : pc[p] = "push" THEN nextID - 1 ELSE nextID,
       queue  <- (IF dpc = "lock" THEN <<cur>> ELSE <<>>) \o in,
       topics <- [c \in Chans |-> Subscribed(c)],
       inbox  <- [c \in Chans |->
                    ch[c] \o (IF Contains(todo, c) THEN <<cur>> ELSE <<>>)]

ImplementsBroadcast == B!BSpec
=============================================================================
