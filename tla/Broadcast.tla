------------------------------ MODULE Broadcast ------------------------------
(***************************************************************************)
(* What the message bus promises its clients: every message that is sent   *)
(* is put in one total order and reaches, in that order and once, each     *)
(* client that is subscribed to its topic when its turn comes; a client    *)
(* that unsubscribes drops what it has not read.  Nothing blocks.  Bus is  *)
(* the implementation with its mutex and its bounded channels, Fetch is    *)
(* built on the promise.                                                   *)
(***************************************************************************)
EXTENDS Integers, Sequences

CONSTANTS
  Procs,    \* the clients, each with one channel at most
  Topics,
  MaxMsgs   \* bound: the number of messages sent

VARIABLES
  nextID,   \* number of messages sent so far; a message's id is its rank
  queue,    \* messages sent and not yet dispatched
  topics,   \* the topics each process is subscribed to ({}: no channel)
  inbox     \* what waits in each process's channel

bvars == <<nextID, queue, topics, inbox>>

Msg == [id : 1..MaxMsgs, topic : Topics]

BInit ==
  /\ nextID = 0
  /\ queue = <<>>
  /\ topics = [p \in Procs |-> {}]
  /\ inbox = [p \in Procs |-> <<>>]

Publish(topic) ==
  /\ nextID < MaxMsgs
  /\ nextID' = nextID + 1
  /\ queue' = Append(queue, [id |-> nextID + 1, topic |-> topic])
  /\ UNCHANGED <<topics, inbox>>

Dispatch ==
  /\ queue # <<>>
  /\ queue' = Tail(queue)
  /\ inbox' = [p \in Procs |-> IF Head(queue).topic \in topics[p]
                               THEN Append(inbox[p], Head(queue)) ELSE inbox[p]]
  /\ UNCHANGED <<nextID, topics>>

Join(p, ts) ==
  /\ topics[p] = {}
  /\ topics' = [topics EXCEPT ![p] = ts]
  /\ UNCHANGED <<nextID, queue, inbox>>

Leave(p) ==
  /\ topics[p] # {}
  /\ topics' = [topics EXCEPT ![p] = {}]
  /\ inbox' = [inbox EXCEPT ![p] = <<>>]
  /\ UNCHANGED <<nextID, queue>>

Take(p) ==
  /\ inbox[p] # <<>>
  /\ inbox' = [inbox EXCEPT ![p] = Tail(@)]
  /\ UNCHANGED <<nextID, queue, topics>>

BNext ==
  \/ \E t \in Topics : Publish(t)
  \/ Dispatch
  \/ \E p \in Procs, ts \in (SUBSET Topics) \ {{}} : Join(p, ts)
  \/ \E p \in Procs : Leave(p) \/ Take(p)

BSpec == BInit /\ [][BNext]_bvars
=============================================================================
