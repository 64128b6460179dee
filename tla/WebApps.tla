-------------------------------- MODULE WebApps --------------------------------
(***************************************************************************)
(* The websocket server (ws/) and the access of one website to the wallet  *)
(* (the origins of cmn/wallet.go).  Each connection has a handler, which   *)
(* serves one request at a time and asks the user for consent with a hail; *)
(* commands change the origin under the wallet's mutex and send an event;  *)
(* one goroutine, loop, starts and stops the server and tells subscribers  *)
(* about each event, over connections whose handlers may be writing.       *)
(*                                                                         *)
(* w.Origins has one origin at most for a website.  A handler holds a      *)
(* pointer to it, which goes on pointing to an origin that was removed, or *)
(* to one that AddOrigin refused because another handler had added one.    *)
(***************************************************************************)
EXTENDS Integers, Sequences, SequencesExt, Functions

CONSTANTS
  Conns,       \* connections from a browser, each made once
  Chains,
  Addresses,
  None,
  MaxRequests, \* bound: requests of the website
  MaxChanges   \* bound: changes of its origin by the user

ASSUME BoundsAssumption == MaxRequests \in Nat /\ MaxChanges \in Nat

Events == {"chainChanged", "accountsChanged"}

\* What an origin says about each event.
Origin == [chainChanged : Chains,
           accountsChanged : {s \in Seq(Addresses) : IsInjective(s)}]
MakeOrigin(chain, addresses) ==
  [chainChanged |-> chain, accountsChanged |-> addresses]

\* A broadcast.
Telling == [event : Events, value : Chains \cup Seq(Addresses), live : BOOLEAN,
            shared : BOOLEAN]

ASSUME NoneAssumption ==
  None \notin Conns /\ None \notin Chains /\ None \notin Origin /\ None \notin Telling

VARIABLES
  up,       \* the program has not panicked
  server,   \* wsRunning
  routed,   \* http.HandleFunc("/ws") was called
  listed,   \* WSConnections
  pc,       \* where the handler of each connection is
  alive,    \* the connections that are not closed
  stale,    \* the handlers whose pointer is to an origin that was removed
  subs,     \* the events each connection subscribes to
  heard,    \* history: what the subscriber was told last about each event, at
            \* first what the wallet says when it subscribes, None if nothing
  origin,   \* the origin of the website in w.Origins, or None
  stuck,    \* a goroutine waits for the write mutex it holds
  queue,    \* the events the loop has not read
  jobs,     \* the broadcasts it has still to begin for an event
  told,     \* the broadcast under way, or None: its event, the value, whether that
            \* is read in the wallet for each connection (live), and whether the
            \* array it ranges over is still that of WSConnections (shared)
  view,     \* the array of connections it ranges over
  turn,     \* the next index of it
  writing,  \* the connection it writes to, or None
  requests, \* counts the requests
  changes,  \* counts the changes
  switched, \* history: switchEthereumChain changed the chain, and no event came
  skipped   \* history: the events under whose last broadcast WSConnections shrank

serverVars == <<server, routed>>
handlers == <<pc, alive, stale>>
wallet == <<origin, stuck>>
subscriptions == <<subs, heard>>
loop == <<jobs, told, view, turn, writing>>
counts == <<requests, changes>>
webHistory == <<switched, skipped>>
webVars == <<up, serverVars, listed, handlers, subscriptions, wallet, queue, loop,
             counts, webHistory>>

-----------------------------------------------------------------------------
WebInit ==
  /\ up = TRUE /\ server \in BOOLEAN /\ routed = server
  /\ listed = <<>>
  /\ pc = [c \in Conns |-> "none"] /\ alive = {} /\ stale = {}
  /\ subs = [c \in Conns |-> {}] /\ heard = [c \in Conns |-> [e \in Events |-> None]]
  /\ origin = None /\ stuck = FALSE
  /\ queue = <<>> /\ jobs = <<>> /\ told = None /\ view = <<>> /\ turn = 1
  /\ writing = None /\ requests = 0 /\ changes = 0 /\ switched = FALSE /\ skipped = {}

At(c, label) == up /\ pc[c] = label
Goto(c, label) == pc' = [pc EXCEPT ![c] = label]

-----------------------------------------------------------------------------
(* The server.                                                             *)

Idle == up /\ jobs = <<>> /\ told = None

\* The second call of HandleFunc for a path panics, which ends the program.
StartWS ==
  /\ Idle /\ ~server
  /\ IF routed
     THEN up' = FALSE /\ UNCHANGED <<server, routed>>
     ELSE server' = TRUE /\ routed' = TRUE /\ UNCHANGED up
  /\ UNCHANGED <<listed, handlers, subscriptions, wallet, queue, loop, counts, webHistory>>

\* Shutdown waits for five seconds, and leaves the handlers that still ask for
\* consent.
StopWS ==
  /\ Idle /\ server
  /\ server' = FALSE
  /\ alive' = alive \ ToSet(listed)
  /\ listed' = <<>>
  /\ UNCHANGED <<up, routed, pc, stale, subscriptions, wallet, queue, loop, counts,
                 webHistory>>

\* ListenAndServe fails.
ServeFails ==
  /\ up /\ server /\ server' = FALSE
  /\ UNCHANGED <<up, routed, listed, handlers, subscriptions, wallet, queue, loop,
                 counts, webHistory>>

\* web3Handler asks for consent, unless the browser (there is one) was blocked.
Connect(c) ==
  /\ At(c, "none")
  /\ server /\ \A d \in Conns : pc[d] # "blocked"
  /\ Goto(c, "consent")
  /\ UNCHANGED <<up, serverVars, listed, alive, stale, subscriptions, wallet, queue,
                 loop, counts, webHistory>>

\* Ok, then Upgrade and AddConnection: append puts it in the array of a
\* broadcast when that has room, which is sure when a connection was removed.
Allow(c) ==
  /\ At(c, "consent")
  /\ Goto(c, "read")
  /\ alive' = alive \cup {c}
  /\ listed' = Append(listed, c)
  /\ IF told # None /\ told.shared
     THEN IF Len(listed) < Len(view)
          THEN view' = [view EXCEPT ![Len(listed) + 1] = c] /\ UNCHANGED told
          ELSE told' \in {told, [told EXCEPT !.shared = FALSE]} /\ UNCHANGED view
     ELSE UNCHANGED <<told, view>>
  /\ UNCHANGED <<up, serverVars, stale, subscriptions, wallet, queue, jobs, turn,
                 writing, counts, webHistory>>

\* Cancel or the time limit, or Block for session.
Deny(c) ==
  /\ At(c, "consent")
  /\ Goto(c, "over") \/ Goto(c, "blocked")
  /\ UNCHANGED <<up, serverVars, listed, alive, stale, subscriptions, wallet, queue,
                 loop, counts, webHistory>>

\* The browser goes away.
Disconnect(c) ==
  /\ up /\ c \in alive
  /\ alive' = alive \ {c}
  /\ UNCHANGED <<up, serverVars, listed, pc, stale, subscriptions, wallet, queue, loop,
                 counts, webHistory>>

\* append(WSConnections[:i], WSConnections[i+1:]...) in an array that begins
\* with the list: its elements after c shift, and the last one is there twice.
ShiftOut(array, c) ==
  [i \in DOMAIN array |->
     IF i < Len(listed) /\ Contains(SubSeq(listed, 1, i), c)
     THEN listed[i + 1] ELSE array[i]]

\* Variant: the connection stays listed.
CloseForgets(c) ==
  /\ At(c, "read") /\ c \notin alive
  /\ Goto(c, "over")
  /\ UNCHANGED <<up, serverVars, listed, alive, stale, subscriptions, wallet, queue,
                 loop, counts, webHistory>>

\* ReadMessage fails; the deferred RemoveConnection and Close run.
Close(c) ==
  /\ At(c, "read") /\ c \notin alive
  /\ Goto(c, "over")
  /\ listed' = RemoveFirst(listed, c)
  /\ IF told # None /\ told.shared /\ Contains(listed, c)
     THEN view' = ShiftOut(view, c) /\ skipped' = skipped \cup {told.event}
     ELSE UNCHANGED <<view, skipped>>
  /\ UNCHANGED <<up, serverVars, alive, stale, subscriptions, wallet, queue, jobs, told,
                 turn, writing, counts, switched>>

-----------------------------------------------------------------------------
(* The handler of a connection.                                            *)

\* A request of eth_ arrives, which asks for consent to the website unless it
\* is in the wallet.
ReadEth(c) ==
  /\ At(c, "read") /\ c \in alive /\ requests < MaxRequests
  /\ requests' = requests + 1
  /\ Goto(c, IF origin = None THEN "connect" ELSE "serve")
  /\ UNCHANGED <<up, serverVars, listed, alive, stale, subscriptions, wallet, queue,
                 loop, changes, webHistory>>

\* switchEthereumChain fails when the website is not in the wallet.
ReadSwitch(c) ==
  /\ At(c, "read") /\ c \in alive /\ requests < MaxRequests
  /\ requests' = requests + 1
  /\ Goto(c, IF origin = None THEN "reply" ELSE "switch")
  /\ stale' = stale \ {c}
  /\ UNCHANGED <<up, serverVars, listed, alive, subscriptions, wallet, queue, loop,
                 changes, webHistory>>

\* Variant: no event for the new origin.
ConnectOkSilent(c, chain, a) ==
  /\ At(c, "connect") /\ ~stuck
  /\ IF origin = None
     THEN origin' = MakeOrigin(chain, <<a>>) /\ switched' = FALSE
     ELSE UNCHANGED <<origin, switched>>
  /\ Goto(c, "serve")
  /\ UNCHANGED <<up, serverVars, listed, alive, stale, subscriptions, stuck, queue,
                 loop, counts, skipped>>

\* OnOk of "Connect Web Application": a new origin with the current chain and
\* address.  AddOrigin refuses a second one, and the request is served as well.
ConnectOk(c, chain, a) ==
  /\ At(c, "connect") /\ ~stuck
  /\ IF origin = None
     THEN /\ origin' = MakeOrigin(chain, <<a>>)
          /\ queue' = Append(queue, Events)
          /\ switched' = FALSE
     ELSE UNCHANGED <<origin, queue, switched>>
  /\ Goto(c, "serve")
  /\ UNCHANGED <<up, serverVars, listed, alive, stale, subscriptions, stuck, loop,
                 counts, skipped>>

\* OnOk of "Switch Chain" sets the chain through the pointer, without the mutex
\* and without an event; the wallet is saved under the mutex.
SwitchOk(c, chain) ==
  /\ At(c, "switch")
  /\ IF c \in stale
     THEN UNCHANGED <<origin, switched>>
     ELSE /\ origin' = [origin EXCEPT !.chainChanged = chain]
          /\ switched' = (switched \/ chain # origin.chainChanged)
  /\ IF stuck THEN UNCHANGED pc ELSE Goto(c, "reply")
  /\ UNCHANGED <<up, serverVars, listed, alive, stale, subscriptions, stuck, queue,
                 loop, counts, skipped>>

\* The user cancels the hail, or its time limit is reached.
Refused(c) ==
  /\ At(c, "connect") \/ At(c, "switch")
  /\ Goto(c, "reply")
  /\ UNCHANGED <<up, serverVars, listed, alive, stale, subscriptions, wallet, queue,
                 loop, counts, webHistory>>

\* The method runs: a subscription is made or removed; the rest reads the
\* origin, or makes a request of its own over the bus.
Serve(c) ==
  /\ At(c, "serve")
  /\ \/ UNCHANGED subscriptions
     \/ \E e \in subs[c] :
          /\ subs' = [subs EXCEPT ![c] = @ \ {e}]
          /\ heard' = [heard EXCEPT ![c][e] = None]
     \/ \E e \in Events \ subs[c] :
          /\ subs' = [subs EXCEPT ![c] = @ \cup {e}]
          /\ heard' = [heard EXCEPT ![c][e] = IF origin = None THEN None ELSE origin[e]]
  /\ Goto(c, "reply")
  /\ UNCHANGED <<up, serverVars, listed, alive, stale, wallet, queue, loop, counts,
                 webHistory>>

\* con.send(response): a connection allows one writer at a time.  A panic in a
\* handler is recovered, and its deferred calls run.
Reply(c) ==
  /\ At(c, "reply")
  /\ \/ Goto(c, "write") /\ UNCHANGED alive
     \/ writing = c /\ Goto(c, "read") /\ alive' = alive \ {c}
  /\ UNCHANGED <<up, serverVars, listed, stale, subscriptions, wallet, queue, loop,
                 counts, webHistory>>

Written(c) ==
  /\ At(c, "write")
  /\ Goto(c, "read")
  /\ UNCHANGED <<up, serverVars, listed, alive, stale, subscriptions, wallet, queue,
                 loop, counts, webHistory>>

-----------------------------------------------------------------------------
(* The commands of the user, each under the wallet's mutex.                *)

Change(value, events) ==
  /\ up /\ ~stuck /\ origin # None /\ changes < MaxChanges
  /\ changes' = changes + 1
  /\ origin' = value
  /\ queue' = Append(queue, events)
  /\ switched' = (switched /\ "chainChanged" \notin events)
  /\ UNCHANGED <<up, serverVars, listed, pc, alive, subscriptions, requests, skipped>>

SetAddresses(s) == [origin EXCEPT !.accountsChanged = s]

SetOriginChain(chain) ==
  /\ Change([origin EXCEPT !.chainChanged = chain], {"chainChanged"})
  /\ UNCHANGED <<stale, stuck, loop>>

AddOriginAddress(a) ==
  /\ Change(SetAddresses(IF Contains(origin.accountsChanged, a) THEN origin.accountsChanged
                         ELSE Append(origin.accountsChanged, a)),
            {"accountsChanged"})
  /\ UNCHANGED <<stale, stuck, loop>>

PromoteOriginAddress(a) ==
  /\ origin # None /\ Contains(origin.accountsChanged, a)
  /\ Change(SetAddresses(<<a>> \o RemoveFirst(origin.accountsChanged, a)),
            {"accountsChanged"})
  /\ UNCHANGED <<stale, stuck, loop>>

\* An address that is not the last one.
RemoveOriginAddress(a) ==
  /\ origin # None /\ origin.accountsChanged # <<a>>
  /\ Change(SetAddresses(RemoveFirst(origin.accountsChanged, a)), {"accountsChanged"})
  /\ UNCHANGED <<stale, stuck, loop>>

\* RemoveOrigin is called with the mutex held, and waits for it.
RemoveLastAddress ==
  /\ up /\ ~stuck /\ origin # None /\ Len(origin.accountsChanged) = 1
  /\ origin' = SetAddresses(<<>>)
  /\ stuck' = TRUE
  /\ UNCHANGED <<up, serverVars, listed, handlers, subscriptions, queue, loop, counts,
                 webHistory>>

\* The pointers that handlers and a broadcast have to it stay.
RemoveOrigin ==
  /\ Change(None, Events)
  /\ stale' = {c \in Conns : pc[c] = "switch"}
  /\ told' = IF told = None \/ ~told.live THEN told
             ELSE [told EXCEPT !.value = origin[told.event], !.live = FALSE]
  /\ UNCHANGED <<stuck, jobs, view, turn, writing>>

-----------------------------------------------------------------------------
(* The loop.                                                               *)

\* "origin-changed" is about both; the chain is broadcast first.
TakeEvent ==
  /\ Idle /\ queue # <<>>
  /\ jobs' = (IF "chainChanged" \in Head(queue) THEN <<"chainChanged">> ELSE <<>>)
              \o (IF "accountsChanged" \in Head(queue) THEN <<"accountsChanged">> ELSE <<>>)
  /\ queue' = Tail(queue)
  /\ UNCHANGED <<up, serverVars, listed, handlers, subscriptions, wallet, told, view,
                 turn, writing, counts, webHistory>>

\* An origin that was removed meanwhile is not told about.  The addresses are
\* read now, the chain for each connection.
Broadcast ==
  /\ up /\ jobs # <<>> /\ told = None
  /\ jobs' = Tail(jobs)
  /\ LET e == Head(jobs)
     IN  IF origin = None
         THEN UNCHANGED <<told, view, turn, skipped>>
         ELSE /\ told' = [event |-> e, value |-> origin[e], live |-> e = "chainChanged",
                          shared |-> TRUE]
              /\ view' = listed /\ turn' = 1
              /\ skipped' = skipped \ {e}
  /\ UNCHANGED <<up, serverVars, listed, handlers, subscriptions, wallet, queue,
                 writing, counts, switched>>

\* conn.send to a subscriber; a panic in the loop ends the program.
Tell ==
  /\ up /\ told # None /\ writing = None /\ turn <= Len(view)
  /\ LET c == view[turn]
         e == told.event
     IN  IF e \notin subs[c]
         THEN UNCHANGED <<up, heard, writing>>
         ELSE /\ heard' = [heard EXCEPT ![c][e] = IF told.live THEN origin[e] ELSE told.value]
              /\ up' \in IF pc[c] = "write" THEN BOOLEAN ELSE {TRUE}
              /\ writing' = c
  /\ turn' = turn + 1
  /\ UNCHANGED <<serverVars, listed, handlers, subs, wallet, queue, jobs, told, view,
                 counts, webHistory>>

Sent ==
  /\ up /\ writing # None
  /\ writing' = None
  /\ UNCHANGED <<up, serverVars, listed, handlers, subscriptions, wallet, queue, jobs,
                 told, view, turn, counts, webHistory>>

\* The range is over.
Told ==
  /\ up /\ told # None /\ writing = None /\ turn > Len(view)
  /\ told' = None /\ view' = <<>> /\ turn' = 1
  /\ UNCHANGED <<up, serverVars, listed, handlers, subscriptions, wallet, queue, jobs,
                 writing, counts, webHistory>>

-----------------------------------------------------------------------------
Handler(c) ==
  \/ Refused(c) \/ Serve(c) \/ Reply(c) \/ Written(c) \/ Close(c)

User(c) ==
  \/ Connect(c) \/ Allow(c) \/ Deny(c) \/ Disconnect(c)
  \/ ReadEth(c) \/ ReadSwitch(c)
  \/ \E chain \in Chains : \/ \E a \in Addresses : ConnectOk(c, chain, a)
                          \/ SwitchOk(c, chain)

Command ==
  \/ \E chain \in Chains : SetOriginChain(chain)
  \/ \E a \in Addresses : \/ AddOriginAddress(a) \/ PromoteOriginAddress(a)
                          \/ RemoveOriginAddress(a)
  \/ RemoveLastAddress \/ RemoveOrigin

Loop == TakeEvent \/ Broadcast \/ Tell \/ Sent \/ Told

WebNext ==
  \/ \E c \in Conns : Handler(c) \/ User(c)
  \/ Command
  \/ Loop
  \/ StartWS \/ StopWS \/ ServeFails

WebSpec == WebInit /\ [][WebNext]_webVars

-----------------------------------------------------------------------------
\* Types of the state; an origin lists no address twice.
WebTypeOK ==
  /\ {up, server, routed, stuck, switched} \subseteq BOOLEAN
  /\ listed \in Seq(Conns) /\ view \in Seq(Conns) /\ turn \in 1..(Len(view) + 1)
  /\ alive \subseteq Conns /\ stale \subseteq Conns
  /\ pc \in [Conns -> {"none", "consent", "blocked", "over", "read", "connect", "switch",
                       "serve", "reply", "write"}]
  /\ subs \in [Conns -> SUBSET Events] /\ skipped \subseteq Events
  /\ origin = None \/ origin \in Origin
  /\ heard \in [Conns -> [Events -> Chains \cup Seq(Addresses) \cup {None}]]
  /\ told = None \/ told \in Telling
  /\ requests \in 0..MaxRequests /\ changes \in 0..MaxChanges
  /\ queue \in Seq(SUBSET Events) /\ jobs \in Seq(Events)
  /\ writing \in Conns \cup {None}

\* A connection is in WSConnections at most once, and only while its handler is
\* there to remove it, whatever is stopped, closed or removed at once.
ListedOnce ==
  /\ \A i, j \in DOMAIN listed : listed[i] = listed[j] => i = j
  /\ \A i \in DOMAIN listed : pc[listed[i]] \notin {"none", "consent", "blocked", "over"}

Quiet == Idle /\ ~stuck /\ queue = <<>>

\* When all events are read, each subscriber was told last what the wallet says:
\* no change during a broadcast is lost or overtaken by an older value.  Two
\* defects are left out: a connection that ends under a broadcast can make
\* another be skipped, and a website that switches its chain causes no event.
SubscribersUpToDate ==
  Quiet /\ origin # None =>
    \A i \in DOMAIN listed :
      LET c == listed[i]
      IN  \A e \in subs[c] \ skipped :
            heard[c][e] = origin[e] \/ (e = "chainChanged" /\ switched)
=============================================================================
