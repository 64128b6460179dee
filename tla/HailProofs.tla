------------------------------- MODULE HailProofs -------------------------------
(***************************************************************************)
(* Every hail is answered once and no more, for any hails, however the     *)
(* goroutines of the pane, of the clicks and of the time limits meet; and  *)
(* the pane shows the head of the queue. Every popup that is asked for,    *)
(* from a hail too, is shown and closed, for any popups.                   *)
(***************************************************************************)
EXTENDS Hail, Dialogues, SequenceLemmas, FiniteSetTheorems

\* The goroutines that have taken h off the queue and are about to answer it.
Closers(h) == {t \in Threads : pc[t] = "close" /\ target[t] = h}

Ahead(h) == pc[Thread("add", h)] = "add" \/ Queued(h)

\* A hail is on its way to the queue or in it, or one goroutine has taken it, or it has its
\* answer.
Lives(h) ==
  IF Ahead(h) THEN answers[h] = 0 /\ Closers(h) = {}
  ELSE \/ answers[h] = 0 /\ \E t \in Threads : Closers(h) = {t}
       \/ answers[h] = 1 /\ Closers(h) = {}

QueuedOnce ==
  /\ Distinct(queue)
  /\ \A h \in Hails : pc[Thread("add", h)] = "add" => ~Queued(h)

\* OnCancel has not run while FetchEx waits.
CancelsLater == \A h \in Hails : fetch[h] = "waiting" => pc[Thread("cancel", h)] = "idle"

IInv == TypeOK /\ QueuedOnce /\ CancelsLater /\ \A h \in Hails : Lives(h)

-----------------------------------------------------------------------------
\* The goroutines of one hail are told apart by their job and by the hail.
LEMMA ThreadsType ==
  /\ \A h \in Hails : /\ Thread("add", h) \in Threads
                      /\ Thread("cancel", h) \in Threads
                      /\ Thread("ok", h) \in Threads
                      /\ h \in Blockable => Thread("block", h) \in Threads
  /\ \A t \in Threads : t.of \in Hails
  /\ \A g, h \in Hails, j \in {"add", "cancel", "ok", "block"},
         k \in {"add", "cancel", "ok", "block"} :
       Thread(k, g) = Thread(j, h) => j = k /\ g = h
BY BlockableAssumption DEF Thread, Threads

\* At the start each hail is on its way to the queue, and none has been answered.
LEMMA InitLemma == Init => IInv
<1> SUFFICES ASSUME Init PROVE IInv
  OBVIOUS
<1>1. TypeOK
  <2>1. /\ pc = [t \in Threads |-> IF t.job = "add" THEN "add" ELSE "idle"]
        /\ target = [t \in Threads |-> t.of]
    BY DEF Init
  <2>2. pc \in [Threads -> {"add", "idle"}] /\ target \in [Threads -> Hails]
    BY <2>1, ThreadsType
  <2>3. \A t \in Threads : pc[t] \in {"add", "idle"}
    BY <2>2
  <2>4. pc \in [Threads -> {"add", "idle", "onok", "over", "panic", "set", "top",
                         "remove", "close", "check", "compare", "clear", "next",
                         "hide", "open", "activate", "show"}]
    BY <2>1, <2>3
  <2>5. queue \in Seq(Hails) /\ active \in Hails \cup {None}
    BY DEF Init
  <2>6. suspended \subseteq Hails /\ onCancel \subseteq Hails
    BY DEF Init
  <2>7. shown \in BOOLEAN /\ overlapped \in BOOLEAN
    BY DEF Init
  <2>8. /\ fetch \in [Hails -> {"waiting", "replied", "cancelled", "timedout"}]
        /\ answers \in [Hails -> Nat]
    BY DEF Init
  <2>9. QED
    BY <2>2, <2>4, <2>5, <2>6, <2>7, <2>8 DEF TypeOK
<1>2. ASSUME NEW h \in Hails
      PROVE  ~Queued(h) /\ pc[Thread("add", h)] = "add" /\ pc[Thread("cancel", h)] = "idle"
  <2>1. ~Queued(h)
    BY DEF Init, Queued, Contains
  <2>2. /\ Thread("add", h) \in Threads /\ Thread("add", h).job = "add"
        /\ Thread("cancel", h) \in Threads /\ Thread("cancel", h).job = "cancel"
    BY ThreadsType DEF Thread
  <2>3. QED
    BY <2>1, <2>2 DEF Init
<1>3. ASSUME NEW h \in Hails PROVE Closers(h) = {}
  BY DEF Init, Closers
<1>4. QueuedOnce /\ CancelsLater
  BY <1>2 DEF Init, QueuedOnce, CancelsLater, Distinct
<1>5. ASSUME NEW h \in Hails PROVE Lives(h)
  BY <1>2, <1>3 DEF Init, Lives, Ahead
<1>6. QED
  BY <1>1, <1>4, <1>5 DEF IInv

\* t goes on to l, neither touches the queue nor answers, and takes no hail off the queue.
GoesOn(t, l) ==
  /\ queue' = queue /\ answers' = answers
  /\ pc[t] \notin {"close", "add"} /\ l \notin {"close", "add"}
  /\ pc' = [pc EXCEPT ![t] = l]
  /\ \A u \in Threads \ {t} : target'[u] = target[u]
  /\ \A g \in Hails : fetch'[g] = "waiting" =>
       fetch[g] = "waiting" /\ (pc[t] = "idle" => t # Thread("cancel", g))

\* A goroutine that goes on so keeps the hails as they are.
LEMMA GoesOnLemma ==
  ASSUME IInv, TypeOK', NEW t \in Threads, NEW l, GoesOn(t, l)
  PROVE  IInv'
<1>0. /\ pc'[t] = l /\ l \notin {"close", "add"} /\ pc[t] \notin {"close", "add"}
      /\ \A u \in Threads \ {t} : pc'[u] = pc[u]
  BY DEF IInv, TypeOK, GoesOn
<1>1. \A h \in Hails : Queued(h)' = Queued(h)
  BY DEF Queued, GoesOn
<1>2. \A h \in Hails : pc[Thread("add", h)] = "add" <=> pc'[Thread("add", h)] = "add"
  BY <1>0, ThreadsType
<1>3. \A h \in Hails : Closers(h)' = Closers(h)
  BY <1>0 DEF Closers, GoesOn
<1>4. CancelsLater'
  BY <1>0, ThreadsType DEF IInv, CancelsLater, GoesOn
<1>5. QueuedOnce'
  BY <1>1, <1>2 DEF IInv, QueuedOnce, GoesOn
<1>6. \A h \in Hails : Lives(h)'
  BY <1>1, <1>2, <1>3 DEF IInv, Lives, Ahead, GoesOn
<1>7. QED
  BY <1>4, <1>5, <1>6 DEF IInv

\* Each step of a goroutine, of FetchEx and of the user keeps the hails right.
LEMMA StepLemma == IInv /\ [Next]_vars => IInv'
<1> SUFFICES ASSUME IInv, [Next]_vars PROVE IInv'
  OBVIOUS
<1>0. TypeOK /\ QueuedOnce /\ CancelsLater
  BY DEF IInv
<1>1. CASE UNCHANGED vars
  <2>1. TypeOK'
    BY <1>0, <1>1 DEF vars, pane, request, TypeOK
  <2>2. \A h \in Hails : Queued(h)' = Queued(h) /\ Closers(h)' = Closers(h)
    BY <1>1 DEF vars, pane, request, Queued, Closers
  <2>3. QED
    BY <1>1, <2>1, <2>2
       DEF vars, pane, request, IInv, QueuedOnce, CancelsLater, Lives, Ahead
<1>2. ASSUME NEW h \in Hails, HqAdd(h) PROVE IInv'
  <2> DEFINE t == Thread("add", h)
  <2>1. t \in Threads /\ pc[t] = "add" /\ pc' = [pc EXCEPT ![t] = "set"]
    BY <1>2, ThreadsType DEF HqAdd, At, Goto
  <2>2. /\ target' = target /\ answers' = answers
        /\ queue' = <<h>> \o queue \/ queue' = Append(queue, h)
        /\ fetch' = fetch
    BY <1>2 DEF HqAdd, request
  <2>3. queue \in Seq(Hails) /\ Distinct(queue) /\ ~Contains(queue, h)
    BY <1>0, <2>1 DEF TypeOK, QueuedOnce, Queued
  <2>4. /\ queue' \in Seq(Hails) /\ Distinct(queue')
        /\ \A x : Contains(queue', x) <=> Contains(queue, x) \/ x = h
    <3>1. CASE queue' = Append(queue, h)
      BY <2>3, <3>1, AppendContains
    <3>2. CASE queue' = <<h>> \o queue
      BY <2>3, <3>2, ConsContains
    <3>3. QED
      BY <2>2, <3>1, <3>2
  <2> HIDE DEF t
  <2>5. TypeOK'
    BY <1>0, <1>2, <2>1, <2>4 DEF HqAdd, Enter, pane, request, TypeOK
  <2>6. \A g \in Hails : pc'[Thread("add", g)] = IF g = h THEN "set" ELSE pc[Thread("add", g)]
    BY <1>0, <2>1, ThreadsType DEF t, TypeOK
  <2>7. \A g \in Hails : Closers(g)' = Closers(g)
    BY <1>0, <2>1, <2>2 DEF Closers, TypeOK
  <2>8. \A g \in Hails : Ahead(g)' = Ahead(g)
    BY <2>1, <2>4, <2>6 DEF Ahead, Queued, t
  <2>9. QueuedOnce'
    BY <1>0, <2>4, <2>6 DEF QueuedOnce, Queued
  <2>10. CancelsLater'
    BY <1>0, <2>1, <2>2, ThreadsType DEF CancelsLater, TypeOK, t
  <2>11. QED
    BY <2>2, <2>5, <2>7, <2>8, <2>9, <2>10 DEF IInv, Lives
<1>3. ASSUME NEW h \in Hails, SetOnCancel(h) \/ CheckTop(h) PROVE IInv'
  <2> DEFINE t == Thread("add", h)
  <2>1. t \in Threads
    BY ThreadsType
  <2>2. /\ queue' = queue /\ answers' = answers /\ target' = target
        /\ pc[t] \in {"set", "top"}
        /\ \E l \in {"top", "panic", "open", "over"} : pc' = [pc EXCEPT ![t] = l]
    BY <1>3 DEF SetOnCancel, CheckTop, At, Goto, request
  <2>3. onCancel' \subseteq Hails /\ UNCHANGED <<pane, fetch, overlapped>>
    BY <1>0, <1>3 DEF SetOnCancel, CheckTop, request, TypeOK
  <2> HIDE DEF t
  <2>4. TypeOK'
    BY <1>0, <2>1, <2>2, <2>3 DEF TypeOK, pane
  <2>5. PICK l \in {"top", "panic", "open", "over"} : pc' = [pc EXCEPT ![t] = l]
    BY <2>2
  <2>6. GoesOn(t, l)
    BY <2>2, <2>3, <2>5 DEF GoesOn
  <2>7. QED
    BY <2>1, <2>4, <2>6, GoesOnLemma
<1>4. ASSUME NEW t \in Threads, HqRemove(t) PROVE IInv'
  <2>0. PICK h \in Hails : h = target[t]
    BY <1>0 DEF TypeOK
  <2>1. pc[t] = "remove"
    BY <1>4 DEF HqRemove, At
  <2>2. UNCHANGED <<pane, request, target, overlapped>>
    BY <1>4 DEF HqRemove
  <2>3. CASE ~Queued(h)
    <3>1. queue' = queue /\ pc' = [pc EXCEPT ![t] = "over"]
      BY <1>4, <2>0, <2>3 DEF HqRemove, Goto
    <3>2. TypeOK'
      BY <1>0, <2>2, <3>1 DEF TypeOK, pane, request
    <3>3. GoesOn(t, "over")
      BY <2>1, <2>2, <3>1 DEF GoesOn, request
    <3>4. QED
      BY <3>2, <3>3, GoesOnLemma
  <2>4. CASE Queued(h)
    <3>1. queue' = RemoveFirst(queue, h) /\ pc' = [pc EXCEPT ![t] = "close"]
      BY <1>4, <2>0, <2>4 DEF HqRemove, Goto
    <3>2. /\ queue' \in Seq(Hails) /\ Distinct(queue')
          /\ \A x : Contains(queue', x) <=> Contains(queue, x) /\ x # h
      BY <1>0, <3>1, RemoveFirstType, RemoveFirstElements DEF TypeOK, QueuedOnce
    <3>3. TypeOK'
      BY <1>0, <2>2, <3>1, <3>2 DEF TypeOK, pane, request
    <3>4. \A g \in Hails : pc'[Thread("add", g)] = "add" <=> pc[Thread("add", g)] = "add"
      BY <1>0, <2>1, <3>1, ThreadsType DEF TypeOK
    <3>5. QueuedOnce' /\ CancelsLater'
      <4>1. QueuedOnce'
        BY <1>0, <3>2, <3>4 DEF QueuedOnce, Queued
      <4>2. CancelsLater'
        BY <1>0, <2>1, <2>2, <3>1, ThreadsType DEF CancelsLater, TypeOK, request
      <4>3. QED
        BY <4>1, <4>2
    <3>6. \A g \in Hails : Closers(g)' = IF g = h THEN Closers(g) \cup {t} ELSE Closers(g)
      BY <1>0, <2>0, <2>1, <2>2, <3>1 DEF Closers, TypeOK
    <3>7. ASSUME NEW g \in Hails PROVE Lives(g)'
      <4>1. CASE g = h
        <5>1. Ahead(h) /\ pc[Thread("add", h)] # "add"
          BY <1>0, <2>4 DEF Ahead, QueuedOnce
        <5>2. answers'[h] = 0 /\ Closers(h) = {}
          BY <2>2, <5>1 DEF IInv, Lives, request
        <5>3. ~Ahead(h)'
          <6>1. ~Queued(h)'
            BY <3>2 DEF Queued
          <6>2. pc'[Thread("add", h)] # "add"
            BY <1>0, <3>4, <5>1
          <6>3. QED
            BY <6>1, <6>2 DEF Ahead
        <5>4. Closers(h)' = {t}
          BY <3>6, <5>2
        <5>5. QED
          BY <4>1, <5>2, <5>3, <5>4 DEF Lives
      <4>2. CASE g # h
        <5>1. Ahead(g)' <=> Ahead(g)
          BY <3>2, <3>4, <4>2 DEF Ahead, Queued
        <5>2. Closers(g)' = Closers(g) /\ answers'[g] = answers[g]
          BY <2>2, <3>6, <4>2 DEF request
        <5>3. QED
          BY <5>1, <5>2 DEF IInv, Lives
      <4>3. QED
        BY <4>1, <4>2
    <3>8. QED
      BY <3>3, <3>5, <3>7 DEF IInv
  <2>5. QED
    BY <2>3, <2>4
<1>5. ASSUME NEW t \in Threads, CloseHail(t) PROVE IInv'
  <2>0. PICK h \in Hails : h = target[t]
    BY <1>0 DEF TypeOK
  <2>1. pc[t] = "close" /\ t \in Closers(h)
    BY <1>5, <2>0 DEF CloseHail, At, Closers
  <2>2. /\ UNCHANGED <<queue, pane, onCancel, fetch, target, overlapped>>
        /\ answers' = [answers EXCEPT ![h] = answers[h] + 1]
        /\ pc' = [pc EXCEPT ![t] = "check"]
    BY <1>5, <2>0 DEF CloseHail, Goto
  <2>3. TypeOK'
    BY <1>0, <2>1, <2>2 DEF TypeOK, pane
  <2>4. \A g \in Hails : pc'[Thread("add", g)] = "add" <=> pc[Thread("add", g)] = "add"
    BY <1>0, <2>1, <2>2, ThreadsType DEF TypeOK
  <2>5. QueuedOnce' /\ CancelsLater'
    <3>1. QueuedOnce'
      BY <1>0, <2>2, <2>4 DEF QueuedOnce, Queued
    <3>2. CancelsLater'
      BY <1>0, <2>1, <2>2, ThreadsType DEF CancelsLater, TypeOK
    <3>3. QED
      BY <3>1, <3>2
  <2>6. \A g \in Hails : Closers(g)' = IF g = h THEN Closers(g) \ {t} ELSE Closers(g)
    BY <1>0, <2>0, <2>1, <2>2 DEF Closers, TypeOK
  <2>7. ASSUME NEW g \in Hails PROVE Lives(g)'
    <3>1. Ahead(g)' <=> Ahead(g)
      BY <2>2, <2>4 DEF Ahead, Queued
    <3>2. CASE g = h
      <4>1. ~Ahead(h) /\ answers[h] = 0 /\ Closers(h) = {t}
        BY <2>0, <2>1 DEF IInv, Lives
      <4>2. answers'[h] = 1
        BY <1>0, <2>0, <2>2, <4>1 DEF TypeOK
      <4>3. Closers(h)' = {}
        BY <2>0, <2>6, <4>1
      <4>4. QED
        BY <2>0, <3>1, <3>2, <4>1, <4>2, <4>3 DEF Lives
    <3>3. CASE g # h
      <4>1. Closers(g)' = Closers(g) /\ answers'[g] = answers[g]
        BY <1>0, <2>2, <2>6, <3>3 DEF TypeOK
      <4>2. QED
        BY <3>1, <4>1 DEF IInv, Lives
    <3>4. QED
      BY <3>2, <3>3
  <2>8. QED
    BY <2>3, <2>5, <2>7 DEF IInv
<1>6. ASSUME NEW t \in Threads,
             \/ CheckActive(t) \/ CompareActive(t) \/ ClearActive(t) \/ HideHail(t) \/ Open(t)
      PROVE  IInv'
  <2>1. /\ queue' = queue /\ answers' = answers /\ target' = target
        /\ UNCHANGED <<request, overlapped>>
        /\ pc[t] \in {"check", "compare", "clear", "hide", "open", "activate", "show"}
        /\ \E l \in {"over", "compare", "panic", "clear", "next", "activate", "show"} :
             pc' = [pc EXCEPT ![t] = l]
    BY <1>6 DEF CheckActive, CompareActive, ClearActive, HideHail, Open, Suspend, Activate,
                ShowHail, At, Goto, request, pane
  <2>2. active' \in Hails \cup {None} /\ shown' \in BOOLEAN /\ suspended' \subseteq Hails
    BY <1>0, <1>6
       DEF CheckActive, CompareActive, ClearActive, HideHail, Open, Suspend, Activate,
           ShowHail, pane, TypeOK
  <2>3. TypeOK'
    BY <1>0, <2>1, <2>2 DEF TypeOK, request
  <2>4. PICK l \in {"over", "compare", "panic", "clear", "next", "activate", "show"} :
          pc' = [pc EXCEPT ![t] = l]
    BY <2>1
  <2>5. GoesOn(t, l)
    BY <2>1, <2>4 DEF GoesOn, request
  <2>6. QED
    BY <2>3, <2>5, GoesOnLemma
<1>7. ASSUME NEW t \in Threads, HqGetTop(t) PROVE IInv'
  <2>1. /\ queue' = queue /\ answers' = answers /\ UNCHANGED <<pane, request, overlapped>>
        /\ pc[t] = "next"
        /\ \E l \in {"hide", "open"} : pc' = [pc EXCEPT ![t] = l]
        /\ \A u \in Threads \ {t} : target'[u] = target[u]
    BY <1>0, <1>7 DEF HqGetTop, At, Goto, request, TypeOK
  <2>2. target' \in [Threads -> Hails]
    BY <1>0, <1>7 DEF HqGetTop, TypeOK
  <2>3. TypeOK'
    BY <1>0, <2>1, <2>2 DEF TypeOK, request, pane
  <2>4. PICK l \in {"hide", "open"} : pc' = [pc EXCEPT ![t] = l]
    BY <2>1
  <2>5. GoesOn(t, l)
    BY <2>1, <2>4 DEF GoesOn, request
  <2>6. QED
    BY <2>3, <2>5, GoesOnLemma
<1>8. ASSUME NEW h \in Hails, User(h) PROVE IInv'
  <2>0. \A g \in Hails : /\ Thread("ok", h) # Thread("cancel", g)
                         /\ Thread("block", h) # Thread("cancel", g)
    BY DEF Thread
  <2>1. PICK t \in Threads :
          /\ pc[t] \in {"idle", "onok"} /\ \A g \in Hails : t # Thread("cancel", g)
          /\ \E l \in {"onok", "over", "remove"} : pc' = [pc EXCEPT ![t] = l]
          /\ \A u \in Threads \ {t} : target'[u] = target[u]
          /\ target' \in [Threads -> Hails]
    <3>1. CASE ClickOk(h)
      BY <1>0, <2>0, <3>1, ThreadsType DEF ClickOk, At, Goto, TypeOK
    <3>2. CASE OkReturns(h)
      <4>1. Thread("ok", h) \in Threads
        BY ThreadsType
      <4>2. \/ target' = target
            \/ active \in Hails /\ target' = [target EXCEPT ![Thread("ok", h)] = active]
        BY <1>0, <3>2 DEF OkReturns, TypeOK
      <4>3. QED
        BY <1>0, <2>0, <3>2, <4>1, <4>2 DEF OkReturns, At, Goto, TypeOK
    <3>3. CASE ClickBlock(h)
      BY <1>0, <2>0, <3>3, ThreadsType DEF ClickBlock, At, Goto, TypeOK
    <3>4. QED
      BY <1>8, <3>1, <3>2, <3>3 DEF User
  <2>2. /\ queue' = queue /\ UNCHANGED <<pane, request>> /\ overlapped' \in BOOLEAN
    BY <1>0, <1>8 DEF User, ClickOk, OkReturns, ClickBlock, Enter, TypeOK
  <2>3. TypeOK'
    BY <1>0, <2>1, <2>2 DEF TypeOK, pane, request
  <2>4. PICK l \in {"onok", "over", "remove"} : pc' = [pc EXCEPT ![t] = l]
    BY <2>1
  <2>5. GoesOn(t, l)
    BY <2>1, <2>2, <2>4 DEF GoesOn, request
  <2>6. QED
    BY <2>3, <2>5, GoesOnLemma
<1>9. ASSUME NEW h \in Hails, TimedOut(h) PROVE IInv'
  <2> DEFINE t == Thread("cancel", h)
  <2>1. t \in Threads
    BY ThreadsType
  <2>2. CASE h \in onCancel
    <3>1. fetch' = [fetch EXCEPT ![h] = "cancelled"] /\ pc' = [pc EXCEPT ![t] = "remove"]
      BY <1>9, <2>2 DEF TimedOut, Goto
    <3>2. UNCHANGED <<queue, pane, onCancel, answers, target>> /\ overlapped' \in BOOLEAN
      BY <1>0, <1>9, <2>2 DEF TimedOut, Enter, TypeOK
    <3>3. pc[t] = "idle" /\ fetch'[h] # "waiting"
      BY <1>0, <1>9, <3>1 DEF TimedOut, CancelsLater, TypeOK
    <3>6. \A g \in Hails : fetch'[g] = "waiting" => fetch[g] = "waiting" /\ t # Thread("cancel", g)
      BY <1>0, <3>1, <3>3, ThreadsType DEF TypeOK
    <3>4. TypeOK'
      BY <1>0, <2>1, <3>1, <3>2 DEF TypeOK, pane
    <3>7. GoesOn(t, "remove")
      BY <3>1, <3>2, <3>3, <3>6 DEF GoesOn
    <3>8. QED
      BY <2>1, <3>4, <3>7, GoesOnLemma
  <2>3. CASE h \notin onCancel
    <3>1. /\ UNCHANGED <<queue, pane, onCancel, answers, pc, target, overlapped>>
          /\ fetch' = [fetch EXCEPT ![h] = "timedout"]
      BY <1>9, <2>3 DEF TimedOut
    <3>2. TypeOK'
      BY <1>0, <3>1 DEF TypeOK, pane
    <3>3. \A g \in Hails : Queued(g)' = Queued(g) /\ Closers(g)' = Closers(g)
      BY <3>1 DEF Queued, Closers
    <3>4. CancelsLater'
      BY <1>0, <3>1 DEF CancelsLater, TypeOK
    <3>5. QED
      BY <3>1, <3>2, <3>3, <3>4 DEF IInv, QueuedOnce, Lives, Ahead
  <2>4. QED
    BY <2>2, <2>3
<1>10. ASSUME NEW h \in Hails, Replied(h) PROVE IInv'
  <2>1. /\ UNCHANGED <<queue, pane, onCancel, answers, pc, target, overlapped>>
        /\ fetch' = [fetch EXCEPT ![h] = "replied"]
    BY <1>10 DEF Replied
  <2>2. TypeOK'
    BY <1>0, <2>1 DEF TypeOK, pane
  <2>3. \A g \in Hails : Queued(g)' = Queued(g) /\ Closers(g)' = Closers(g)
    BY <2>1 DEF Queued, Closers
  <2>4. CancelsLater'
    BY <1>0, <2>1 DEF CancelsLater, TypeOK
  <2>5. QED
    BY <2>1, <2>2, <2>3, <2>4 DEF IInv, QueuedOnce, Lives, Ahead
<1>11. QED
  BY <1>1, <1>2, <1>3, <1>4, <1>5, <1>6, <1>7, <1>8, <1>9, <1>10
     DEF Next, Add, Removal

-----------------------------------------------------------------------------
\* The invariant of the hails in all its parts.
THEOREM HailInvariant == Spec => []IInv
BY InitLemma, StepLemma, PTL DEF Spec

\* A hail of ui/pane_hail.go is closed and answered once it has left the queue, and by one
\* goroutine only, however the buttons, the time limits and other hails meet.
THEOREM HailsAnsweredOnce == Spec => []AnsweredOnce
<1>1. IInv => AnsweredOnce
  <2> SUFFICES ASSUME IInv, NEW h \in Hails
               PROVE  answers[h] + Cardinality(Closers(h)) = IF Ahead(h) THEN 0 ELSE 1
    BY DEF AnsweredOnce, Closers, Ahead
  <2>1. Lives(h)
    BY DEF IInv
  <2>2. CASE Closers(h) = {}
    <3>1. Cardinality(Closers(h)) = 0
      BY <2>2, FS_EmptySet
    <3>2. QED
      BY <2>1, <2>2, <3>1 DEF Lives
  <2>3. CASE Closers(h) # {}
    <3>1. PICK t \in Threads : Closers(h) = {t}
      BY <2>1, <2>3 DEF Lives
    <3>2. Cardinality({t}) = 1
      BY FS_Singleton
    <3>3. QED
      BY <2>1, <2>3, <3>1, <3>2 DEF Lives
  <2>4. QED
    BY <2>2, <2>3
<1>2. QED
  BY <1>1, HailInvariant, PTL
-----------------------------------------------------------------------------
\* The pane is right when nobody works on it: the first hail is active, on the screen and
\* not suspended.
Lit == (shown <=> active # None) /\ active \notin suspended
Top == IF queue = <<>> THEN None ELSE Head(queue)
Shows == active = Top /\ Lit

\* What is so between two steps of a goroutine that works on it alone.
Stage(t) ==
  /\ pc[t] # "panic"
  /\ pc[t] \in {"set", "top"} =>
       /\ t.job = "add" /\ target[t] = t.of /\ Queued(t.of)
       /\ Lit /\ (Head(queue) = t.of \/ active = Head(queue))
  /\ pc[t] = "remove" => Shows
  /\ pc[t] \in {"close", "check", "compare"} => active # None /\ (active = target[t] \/ Shows)
  /\ pc[t] \in {"next", "hide"} => active = None
  /\ pc[t] = "hide" => queue = <<>>
  /\ pc[t] \in {"open", "activate", "show"} => queue # <<>> /\ target[t] = Head(queue)
  /\ pc[t] = "open" => active = None \/ (shown /\ active \notin suspended)
  /\ pc[t] = "show" => active = target[t]

AddsItself == \A h \in Hails : pc[Thread("add", h)] = "add" => target[Thread("add", h)] = h

\* As long as no two have overlapped, one works at most, and leaves the pane right.
Follows ==
  /\ AddsItself
  /\ ~overlapped => /\ \A t, u \in Threads : Busy(t) /\ Busy(u) => t = u
                    /\ Quiet => Shows
                    /\ \A t \in Threads : Stage(t)

\* Nothing that the pane rests on has changed.
LEMMA PaneUntouched ==
  ASSUME Follows, UNCHANGED <<queue, active, shown, suspended, pc, target, overlapped>>
  PROVE  Follows'
BY DEF Follows, AddsItself, Stage, Shows, Lit, Top, Busy, Quiet, Queued

\* A goroutine that is not at work and does not begin leaves it as it is.
LEMMA RestLemma ==
  ASSUME TypeOK, Follows, NEW t \in Threads, NEW l, pc' = [pc EXCEPT ![t] = l],
         pc[t] \in {"idle", "onok"}, l \in {"onok", "over"},
         UNCHANGED <<queue, active, shown, suspended, target, overlapped>>
  PROVE  Follows'
<1>1. pc'[t] = l /\ \A u \in Threads \ {t} : pc'[u] = pc[u]
  BY DEF TypeOK
<1>2. \A u \in Threads : Busy(u)' <=> Busy(u)
  BY <1>1 DEF Busy
<1>3. Quiet' <=> Quiet
  BY <1>2 DEF Quiet
<1>4. Shows' <=> Shows
  BY DEF Shows, Lit, Top
<1>5. AddsItself'
  BY <1>1, ThreadsType DEF Follows, AddsItself
<1>6. ASSUME ~overlapped, NEW u \in Threads PROVE Stage(u)'
  <2>1. CASE u = t
    BY <1>1, <2>1 DEF Stage
  <2>2. CASE u # t
    <3>1. Stage(u) /\ pc'[u] = pc[u]
      BY <1>1, <1>6, <2>2 DEF Follows
    <3>2. QED
      BY <3>1 DEF Stage, Shows, Lit, Top, Queued
  <2>3. QED
    BY <2>1, <2>2
<1>7. QED
  BY <1>2, <1>3, <1>4, <1>5, <1>6 DEF Follows

\* A goroutine works alone: it is enough to look at where it gets.
LEMMA WorkLemma ==
  ASSUME TypeOK, Follows, NEW t \in Threads, NEW l, pc' = [pc EXCEPT ![t] = l], l # "add",
         \A u \in Threads \ {t} : target'[u] = target[u],
         ~overlapped' => /\ \A u \in Threads \ {t} : ~Busy(u)
                         /\ Stage(t)'
                         /\ l \in {"idle", "onok", "over"} => Shows'
  PROVE  Follows'
<1>1. pc'[t] = l /\ \A u \in Threads \ {t} : pc'[u] = pc[u]
  BY DEF TypeOK
<1>2. AddsItself'
  BY <1>1, ThreadsType DEF Follows, AddsItself
<1>3. ASSUME ~overlapped', NEW u \in Threads \ {t} PROVE ~Busy(u)' /\ Stage(u)'
  <2>1. pc'[u] \in {"add", "idle", "onok", "over"}
    BY <1>1, <1>3 DEF Busy
  <2>2. QED
    BY <2>1 DEF Busy, Stage
<1>4. ASSUME ~overlapped' PROVE Quiet' => Shows'
  BY <1>1, <1>4 DEF Quiet, Busy
<1>5. QED
  BY <1>2, <1>3, <1>4 DEF Follows

\* A goroutine that is at work is alone, and what is so for it is so.
LEMMA AloneLemma ==
  ASSUME Follows, ~overlapped, NEW t \in Threads, Busy(t)
  PROVE  Stage(t) /\ \A u \in Threads \ {t} : ~Busy(u)
BY DEF Follows

\* One that begins without an overlap finds the pane right, and nobody at work.
LEMMA EnterLemma ==
  ASSUME Follows, Enter, ~overlapped'
  PROVE  ~overlapped /\ Shows /\ \A u \in Threads : ~Busy(u)
BY DEF Follows, Enter, Quiet

\* No hail is shown at the start.
LEMMA FollowsInit == ASSUME Init PROVE Follows
<1>1. \A h \in Hails : target[Thread("add", h)] = h
  <2>1. target = [t \in Threads |-> t.of]
    BY DEF Init
  <2>2. \A h \in Hails : Thread("add", h) \in Threads
    BY ThreadsType
  <2>3. \A h \in Hails : Thread("add", h).of = h
    BY DEF Thread
  <2>4. QED
    BY <2>1, <2>2, <2>3
<1>2. \A t \in Threads : pc[t] \in {"add", "idle"}
  BY DEF Init
<1>3. Shows
  BY NoneAssumption DEF Init, Shows, Lit, Top
<1>4. QED
  BY <1>1, <1>2, <1>3 DEF Follows, AddsItself, Busy, Stage

\* The pane goes on showing the head of the queue, whichever goroutine moves.
LEMMA FollowsStep == ASSUME IInv, TypeOK', Follows, [Next]_vars PROVE Follows'
<1>0. TypeOK /\ QueuedOnce /\ None \notin Hails
  BY NoneAssumption DEF IInv
<1>1. CASE UNCHANGED vars
  BY <1>1, PaneUntouched DEF vars, pane
<1>2. ASSUME NEW h \in Hails, HqAdd(h) PROVE Follows'
  <2> DEFINE t == Thread("add", h)
  <2>1. t \in Threads /\ t.job = "add" /\ t.of = h /\ pc[t] = "add"
        /\ pc' = [pc EXCEPT ![t] = "set"]
    BY <1>2, ThreadsType DEF HqAdd, At, Goto, Thread
  <2>2. /\ Enter /\ UNCHANGED <<active, shown, suspended, target>>
        /\ queue' = <<h>> \o queue \/ queue' = Append(queue, h)
    BY <1>2 DEF HqAdd, pane
  <2>3. target[t] = h /\ pc'[t] = "set"
    BY <1>0, <2>1 DEF Follows, AddsItself, TypeOK
  <2>4. Contains(queue', h) /\ (Head(queue') = h \/ (queue # <<>> /\ Head(queue') = Head(queue)))
    <3>0. queue \in Seq(Hails)
      BY <1>0 DEF TypeOK
    <3>1. CASE queue' = <<h>> \o queue
      <4>1. Contains(queue', h)
        BY <3>0, <3>1, ConsContains
      <4>2. Head(queue') = h
        BY <3>0, <3>1
      <4>3. QED
        BY <4>1, <4>2
    <3>2. CASE queue' = Append(queue, h)
      <4>1. Contains(queue', h)
        BY <3>0, <3>2, AppendContains
      <4>2. CASE queue = <<>>
        BY <3>2, <4>1, <4>2
      <4>3. CASE queue # <<>>
        <5>1. Head(queue') = Head(queue)
          BY <3>0, <3>2, <4>3
        <5>2. QED
          BY <4>1, <4>3, <5>1
      <4>4. QED
        BY <4>2, <4>3
    <3>3. QED
      BY <2>2, <3>1, <3>2
  <2> HIDE DEF t
  <2>6. ASSUME ~overlapped' PROVE Stage(t)' /\ \A u \in Threads : ~Busy(u)
    <3>1. Shows /\ \A u \in Threads : ~Busy(u)
      BY <2>2, <2>6, EnterLemma
    <3>2. Lit' /\ (Head(queue') = h \/ active' = Head(queue'))
      BY <2>2, <2>4, <3>1 DEF Shows, Lit, Top
    <3>3. QED
      BY <2>1, <2>2, <2>3, <2>4, <3>1, <3>2 DEF Stage, Queued
  <2>7. QED
    BY <1>0, <2>1, <2>2, <2>6, WorkLemma
<1>3. ASSUME NEW h \in Hails, SetOnCancel(h) PROVE Follows'
  <2> DEFINE t == Thread("add", h)
  <2>1. t \in Threads /\ pc[t] = "set" /\ pc' = [pc EXCEPT ![t] = "top"] /\ pc'[t] = "top"
    BY <1>0, <1>3, ThreadsType DEF SetOnCancel, At, Goto, TypeOK
  <2>2. UNCHANGED <<queue, active, shown, suspended, target, overlapped>>
    BY <1>3 DEF SetOnCancel, pane
  <2> HIDE DEF t
  <2>3. ASSUME ~overlapped' PROVE Stage(t)' /\ \A u \in Threads \ {t} : ~Busy(u)
    <3>1. Busy(t) /\ ~overlapped
      BY <2>1, <2>2, <2>3 DEF Busy
    <3>2. Stage(t) /\ \A u \in Threads \ {t} : ~Busy(u)
      BY <2>1, <3>1, AloneLemma
    <3>3. Stage(t)'
      BY <2>1, <2>2, <3>2 DEF Stage, Queued, Lit
    <3>4. QED
      BY <3>2, <3>3
  <2>4. QED
    BY <1>0, <2>1, <2>2, <2>3, WorkLemma
<1>4. ASSUME NEW h \in Hails, CheckTop(h) PROVE Follows'
  <2> DEFINE t == Thread("add", h)
             l == IF queue = <<>> THEN "panic" ELSE IF Head(queue) = h THEN "open" ELSE "over"
  <2>1. t \in Threads /\ pc[t] = "top" /\ pc' = [pc EXCEPT ![t] = l] /\ pc'[t] = l /\ t.of = h
    BY <1>0, <1>4, ThreadsType DEF CheckTop, At, Goto, TypeOK, Thread
  <2>2. UNCHANGED <<queue, active, shown, suspended, target, overlapped>>
    BY <1>4 DEF CheckTop, pane
  <2> HIDE DEF t
  <2>3. ASSUME ~overlapped'
        PROVE  Stage(t)' /\ (l = "over" => Shows') /\ \A u \in Threads \ {t} : ~Busy(u)
    <3>1. Busy(t) /\ ~overlapped
      BY <2>1, <2>2, <2>3 DEF Busy
    <3>2. Stage(t) /\ \A u \in Threads \ {t} : ~Busy(u)
      BY <2>1, <3>1, AloneLemma
    <3>3. /\ target[t] = h /\ Queued(h) /\ Lit /\ (Head(queue) = h \/ active = Head(queue))
      BY <2>1, <3>2 DEF Stage
    <3>4. queue # <<>>
      BY <3>3 DEF Queued, Contains
    <3>5. CASE Head(queue) = h
      <4>1. pc'[t] = "open"
        BY <2>1, <3>4, <3>5
      <4>2. target'[t] = Head(queue') /\ queue' # <<>>
        BY <2>2, <3>3, <3>4, <3>5
      <4>3. active' = None \/ (shown' /\ active' \notin suspended')
        BY <2>2, <3>3 DEF Lit
      <4>4. Stage(t)'
        BY <4>1, <4>2, <4>3 DEF Stage
      <4>5. QED
        BY <2>1, <3>2, <4>1, <4>4
    <3>6. CASE Head(queue) # h
      BY <2>1, <2>2, <3>2, <3>3, <3>4, <3>6 DEF Stage, Shows, Lit, Top
    <3>7. QED
      BY <3>5, <3>6
  <2>4. l # "add" /\ l \notin {"idle", "onok"}
    OBVIOUS
  <2> HIDE DEF l
  <2>5. QED
    BY <1>0, <2>1, <2>2, <2>3, <2>4, WorkLemma
<1>5. ASSUME NEW t \in Threads, HqRemove(t) PROVE Follows'
  <2>1. pc[t] = "remove" /\ UNCHANGED <<active, shown, suspended, target, overlapped>>
    BY <1>5 DEF HqRemove, At, pane
  <2>2. CASE ~Queued(target[t])
    <3>1. queue' = queue /\ pc' = [pc EXCEPT ![t] = "over"] /\ pc'[t] = "over"
      BY <1>0, <1>5, <2>2 DEF HqRemove, Goto, TypeOK
    <3>2. ASSUME ~overlapped'
          PROVE  Stage(t)' /\ Shows' /\ \A u \in Threads \ {t} : ~Busy(u)
      <4>1. Busy(t) /\ ~overlapped
        BY <2>1, <3>2 DEF Busy
      <4>2. Stage(t) /\ \A u \in Threads \ {t} : ~Busy(u)
        BY <4>1, AloneLemma
      <4>3. Shows
        BY <2>1, <4>2 DEF Stage
      <4>4. Shows'
        BY <2>1, <3>1, <4>3 DEF Shows, Lit, Top
      <4>5. QED
        BY <3>1, <4>2, <4>4 DEF Stage
    <3>3. QED
      BY <1>0, <2>1, <3>1, <3>2, WorkLemma
  <2>3. CASE Queued(target[t])
    <3>1. /\ queue' = RemoveFirst(queue, target[t])
          /\ pc' = [pc EXCEPT ![t] = "close"] /\ pc'[t] = "close"
      BY <1>0, <1>5, <2>3 DEF HqRemove, Goto, TypeOK
    <3>2. ASSUME ~overlapped' PROVE Stage(t)' /\ \A u \in Threads \ {t} : ~Busy(u)
      <4>1. Busy(t) /\ ~overlapped
        BY <2>1, <3>2 DEF Busy
      <4>2. Stage(t) /\ \A u \in Threads \ {t} : ~Busy(u)
        BY <4>1, AloneLemma
      <4>3. Shows /\ queue \in Seq(Hails)
        BY <1>0, <2>1, <4>2 DEF Stage, TypeOK
      <4>4. queue # <<>> /\ active = Head(queue) /\ active # None
        <5>1. queue # <<>>
          BY <2>3 DEF Queued, Contains
        <5>2. Head(queue) \in Hails
          BY <4>3, <5>1
        <5>3. QED
          BY <1>0, <4>3, <5>1, <5>2 DEF Shows, Top
      <4>5. active' = target'[t] \/ Shows'
        <5>1. CASE active # target[t]
          <6>1. queue' # <<>> /\ Head(queue') = Head(queue)
            BY <2>3, <3>1, <4>3, <4>4, <5>1, RemoveFirstHead DEF Queued
          <6>2. QED
            BY <2>1, <4>3, <4>4, <6>1 DEF Shows, Lit, Top
        <5>2. QED
          BY <2>1, <5>1
      <4>6. QED
        BY <2>1, <3>1, <4>2, <4>4, <4>5 DEF Stage
    <3>3. QED
      BY <1>0, <2>1, <3>1, <3>2, WorkLemma
  <2>4. QED
    BY <2>2, <2>3
<1>6. ASSUME NEW t \in Threads, CloseHail(t) PROVE Follows'
  <2>1. /\ pc[t] = "close" /\ pc' = [pc EXCEPT ![t] = "check"] /\ pc'[t] = "check"
        /\ UNCHANGED <<queue, active, shown, suspended, target, overlapped>>
    BY <1>0, <1>6 DEF CloseHail, At, Goto, pane, TypeOK
  <2>2. ASSUME ~overlapped' PROVE Stage(t)' /\ \A u \in Threads \ {t} : ~Busy(u)
    <3>1. Busy(t) /\ ~overlapped
      BY <2>1, <2>2 DEF Busy
    <3>2. Stage(t) /\ \A u \in Threads \ {t} : ~Busy(u)
      BY <3>1, AloneLemma
    <3>3. Stage(t)'
      BY <2>1, <3>2 DEF Stage, Shows, Lit, Top
    <3>4. QED
      BY <3>2, <3>3
  <2>3. QED
    BY <1>0, <2>1, <2>2, WorkLemma
<1>7. ASSUME NEW t \in Threads, CheckActive(t) \/ CompareActive(t) PROVE Follows'
  <2>1. /\ pc[t] \in {"check", "compare"}
        /\ UNCHANGED <<queue, active, shown, suspended, target, overlapped>>
        /\ \E l \in {"over", "compare", "panic", "clear"} :
             /\ pc' = [pc EXCEPT ![t] = l]
             /\ l = "over" => active = None \/ active # target[t]
             /\ l = "panic" => active = None
    BY <1>7 DEF CheckActive, CompareActive, At, Goto, pane
  <2>2. PICK l \in {"over", "compare", "panic", "clear"} :
             /\ pc' = [pc EXCEPT ![t] = l]
             /\ l = "over" => active = None \/ active # target[t]
             /\ l = "panic" => active = None
    BY <2>1
  <2>3. pc'[t] = l
    BY <1>0, <2>2 DEF TypeOK
  <2>4. ASSUME ~overlapped'
        PROVE  Stage(t)' /\ (l = "over" => Shows') /\ \A u \in Threads \ {t} : ~Busy(u)
    <3>1. Busy(t) /\ ~overlapped
      BY <2>1, <2>4 DEF Busy
    <3>2. Stage(t) /\ \A u \in Threads \ {t} : ~Busy(u)
      BY <3>1, AloneLemma
    <3>3. active # None /\ (active = target[t] \/ Shows)
      BY <2>1, <3>2 DEF Stage
    <3>4. Stage(t)' /\ (l = "over" => Shows')
      BY <2>1, <2>2, <2>3, <3>3 DEF Stage, Shows, Lit, Top
    <3>5. QED
      BY <3>2, <3>4
  <2>5. QED
    BY <1>0, <2>1, <2>2, <2>4, WorkLemma
<1>8. ASSUME NEW t \in Threads, ClearActive(t) PROVE Follows'
  <2>1. /\ pc[t] = "clear" /\ pc' = [pc EXCEPT ![t] = "next"] /\ pc'[t] = "next"
        /\ active' = None /\ UNCHANGED <<target, overlapped>>
    BY <1>0, <1>8 DEF ClearActive, At, Goto, TypeOK
  <2>2. ASSUME ~overlapped' PROVE Stage(t)' /\ \A u \in Threads \ {t} : ~Busy(u)
    BY <2>1, <2>2, AloneLemma DEF Busy, Stage
  <2>3. QED
    BY <1>0, <2>1, <2>2, WorkLemma
<1>9. ASSUME NEW t \in Threads, HqGetTop(t) PROVE Follows'
  <2>1. /\ pc[t] = "next" /\ UNCHANGED <<queue, active, shown, suspended, overlapped>>
        /\ \A u \in Threads \ {t} : target'[u] = target[u]
        /\ \/ queue = <<>> /\ pc' = [pc EXCEPT ![t] = "hide"]
           \/ queue # <<>> /\ pc' = [pc EXCEPT ![t] = "open"] /\ target'[t] = Head(queue)
    BY <1>0, <1>9 DEF HqGetTop, At, Goto, pane, TypeOK
  <2>2. PICK l \in {"hide", "open"} :
          /\ pc' = [pc EXCEPT ![t] = l]
          /\ l = "hide" => queue = <<>>
          /\ l = "open" => queue # <<>> /\ target'[t] = Head(queue)
    BY <2>1
  <2>3. pc'[t] = l
    BY <1>0, <2>2 DEF TypeOK
  <2>4. ASSUME ~overlapped' PROVE Stage(t)' /\ \A u \in Threads \ {t} : ~Busy(u)
    <3>1. Busy(t) /\ ~overlapped
      BY <2>1, <2>4 DEF Busy
    <3>2. Stage(t) /\ \A u \in Threads \ {t} : ~Busy(u)
      BY <3>1, AloneLemma
    <3>3. active = None
      BY <2>1, <3>2 DEF Stage
    <3>4. Stage(t)'
      BY <2>1, <2>2, <2>3, <3>3 DEF Stage
    <3>5. QED
      BY <3>2, <3>4
  <2>5. QED
    BY <1>0, <2>1, <2>2, <2>4, WorkLemma
<1>10. ASSUME NEW t \in Threads, HideHail(t) PROVE Follows'
  <2>1. /\ pc[t] = "hide" /\ pc' = [pc EXCEPT ![t] = "over"] /\ pc'[t] = "over"
        /\ shown' = FALSE /\ UNCHANGED <<queue, active, suspended, target, overlapped>>
    BY <1>0, <1>10 DEF HideHail, At, Goto, TypeOK
  <2>2. ASSUME ~overlapped'
        PROVE  Stage(t)' /\ Shows' /\ \A u \in Threads \ {t} : ~Busy(u)
    <3>1. Busy(t) /\ ~overlapped
      BY <2>1, <2>2 DEF Busy
    <3>2. Stage(t) /\ \A u \in Threads \ {t} : ~Busy(u)
      BY <3>1, AloneLemma
    <3>3. active = None /\ queue = <<>>
      BY <2>1, <3>2 DEF Stage
    <3>4. active' \notin suspended'
      BY <1>0, <2>1, <3>3 DEF TypeOK
    <3>5. Shows'
      BY <2>1, <3>3, <3>4 DEF Shows, Lit, Top
    <3>6. QED
      BY <2>1, <3>2, <3>5 DEF Stage
  <2>3. QED
    BY <1>0, <2>1, <2>2, WorkLemma
<1>11. ASSUME NEW t \in Threads, Suspend(t) PROVE Follows'
  <2> DEFINE l == IF active = target[t] THEN "over" ELSE "activate"
  <2>1. /\ pc[t] = "open" /\ pc' = [pc EXCEPT ![t] = l] /\ pc'[t] = l
        /\ suspended' = IF active \in {None, target[t]} THEN suspended ELSE suspended \cup {active}
        /\ UNCHANGED <<queue, active, shown, target, overlapped>>
    BY <1>0, <1>11 DEF Suspend, At, Goto, TypeOK
  <2>2. ASSUME ~overlapped'
        PROVE  Stage(t)' /\ (l = "over" => Shows') /\ \A u \in Threads \ {t} : ~Busy(u)
    <3>1. Busy(t) /\ ~overlapped
      BY <2>1, <2>2 DEF Busy
    <3>2. Stage(t) /\ \A u \in Threads \ {t} : ~Busy(u)
      BY <3>1, AloneLemma
    <3>3. /\ queue # <<>> /\ target[t] = Head(queue) /\ target[t] # None
          /\ active = None \/ (shown /\ active \notin suspended)
      BY <1>0, <2>1, <3>2 DEF Stage, TypeOK
    <3>4. CASE active = target[t]
      <4>1. Shows' /\ pc'[t] = "over"
        BY <2>1, <3>3, <3>4 DEF Shows, Lit, Top
      <4>2. QED
        BY <3>2, <4>1 DEF Stage
    <3>5. CASE active # target[t]
      <4>1. pc'[t] = "activate" /\ l # "over"
        BY <2>1, <3>5
      <4>2. QED
        BY <2>1, <3>2, <3>3, <4>1 DEF Stage
    <3>6. QED
      BY <3>4, <3>5
  <2>3. l # "add" /\ l \notin {"idle", "onok"}
    OBVIOUS
  <2> HIDE DEF l
  <2>4. QED
    BY <1>0, <2>1, <2>2, <2>3, WorkLemma
<1>12. ASSUME NEW t \in Threads, Activate(t) PROVE Follows'
  <2>1. /\ pc[t] = "activate" /\ pc' = [pc EXCEPT ![t] = "show"] /\ pc'[t] = "show"
        /\ active' = target[t] /\ UNCHANGED <<queue, shown, suspended, target, overlapped>>
    BY <1>0, <1>12 DEF Activate, At, Goto, TypeOK
  <2>2. ASSUME ~overlapped' PROVE Stage(t)' /\ \A u \in Threads \ {t} : ~Busy(u)
    <3>1. Busy(t) /\ ~overlapped
      BY <2>1, <2>2 DEF Busy
    <3>2. Stage(t) /\ \A u \in Threads \ {t} : ~Busy(u)
      BY <3>1, AloneLemma
    <3>3. Stage(t)'
      BY <2>1, <3>2 DEF Stage
    <3>4. QED
      BY <3>2, <3>3
  <2>3. QED
    BY <1>0, <2>1, <2>2, WorkLemma
<1>13. ASSUME NEW t \in Threads, ShowHail(t) PROVE Follows'
  <2>1. /\ pc[t] = "show" /\ pc' = [pc EXCEPT ![t] = "over"] /\ pc'[t] = "over"
        /\ shown' = TRUE /\ suspended' = suspended \ {target[t]}
        /\ UNCHANGED <<queue, active, target, overlapped>>
    BY <1>0, <1>13 DEF ShowHail, At, Goto, TypeOK
  <2>2. ASSUME ~overlapped'
        PROVE  Stage(t)' /\ Shows' /\ \A u \in Threads \ {t} : ~Busy(u)
    <3>1. Busy(t) /\ ~overlapped
      BY <2>1, <2>2 DEF Busy
    <3>2. Stage(t) /\ \A u \in Threads \ {t} : ~Busy(u)
      BY <3>1, AloneLemma
    <3>3. queue # <<>> /\ target[t] = Head(queue) /\ active = target[t] /\ target[t] # None
      BY <1>0, <2>1, <3>2 DEF Stage, TypeOK
    <3>4. Shows'
      BY <2>1, <3>3 DEF Shows, Lit, Top
    <3>5. QED
      BY <2>1, <3>2, <3>4 DEF Stage
  <2>3. QED
    BY <1>0, <2>1, <2>2, WorkLemma
<1>14. ASSUME NEW h \in Hails, ClickOk(h) PROVE Follows'
  <2>1. Thread("ok", h) \in Threads
    BY ThreadsType
  <2>2. /\ pc[Thread("ok", h)] = "idle" /\ pc' = [pc EXCEPT ![Thread("ok", h)] = "onok"]
        /\ UNCHANGED <<queue, active, shown, suspended, target, overlapped>>
    BY <1>14 DEF ClickOk, At, Goto, pane
  <2>3. QED
    BY <1>0, <2>1, <2>2, RestLemma
<1>15. ASSUME NEW h \in Hails, OkReturns(h) PROVE Follows'
  <2> DEFINE t == Thread("ok", h)
  <2>1. t \in Threads /\ pc[t] = "onok" /\ UNCHANGED <<queue, active, shown, suspended>>
    BY <1>15, ThreadsType DEF OkReturns, At, pane
  <2>2. CASE Goto(t, "over") /\ UNCHANGED <<target, overlapped>>
    <3>1. pc' = [pc EXCEPT ![t] = "over"]
      BY <2>2 DEF Goto
    <3> HIDE DEF t
    <3>2. QED
      BY <1>0, <2>1, <2>2, <3>1, RestLemma
  <2>3. CASE Enter /\ target' = [target EXCEPT ![t] = active] /\ Goto(t, "remove")
    <3>1. pc' = [pc EXCEPT ![t] = "remove"]
      BY <2>3 DEF Goto
    <3> HIDE DEF t
    <3>2. pc'[t] = "remove" /\ \A u \in Threads \ {t} : target'[u] = target[u]
      BY <1>0, <2>1, <2>3, <3>1 DEF TypeOK
    <3>3. ASSUME ~overlapped' PROVE Stage(t)' /\ \A u \in Threads : ~Busy(u)
      <4>1. Shows /\ \A u \in Threads : ~Busy(u)
        BY <2>3, <3>3, EnterLemma
      <4>2. Shows'
        BY <2>1, <4>1 DEF Shows, Lit, Top
      <4>3. QED
        BY <3>2, <4>1, <4>2 DEF Stage
    <3>4. QED
      BY <1>0, <2>1, <3>1, <3>2, <3>3, WorkLemma
  <2>4. QED
    BY <1>15, <2>2, <2>3 DEF OkReturns
<1>16. ASSUME NEW t \in Threads, pc' = [pc EXCEPT ![t] = "remove"], Enter,
              UNCHANGED <<queue, active, shown, suspended, target>>
       PROVE  Follows'
  <2>1. pc'[t] = "remove"
    BY <1>0, <1>16 DEF TypeOK
  <2>2. ASSUME ~overlapped' PROVE Stage(t)' /\ \A u \in Threads : ~Busy(u)
    <3>1. Shows /\ \A u \in Threads : ~Busy(u)
      BY <1>16, <2>2, EnterLemma
    <3>2. Shows'
      BY <1>16, <3>1 DEF Shows, Lit, Top
    <3>3. QED
      BY <2>1, <3>1, <3>2 DEF Stage
  <2>3. QED
    BY <1>0, <1>16, <2>2, WorkLemma
<1>17. ASSUME NEW h \in Hails, ClickBlock(h) PROVE Follows'
  BY <1>16, <1>17, ThreadsType DEF ClickBlock, Goto, pane
<1>18. ASSUME NEW h \in Hails, TimedOut(h) PROVE Follows'
  <2>1. CASE h \in onCancel
    BY <1>16, <1>18, <2>1, ThreadsType DEF TimedOut, Goto, pane
  <2>2. CASE h \notin onCancel
    BY <1>18, <2>2, PaneUntouched DEF TimedOut, pane
  <2>3. QED
    BY <2>1, <2>2
<1>19. ASSUME NEW h \in Hails, Replied(h) PROVE Follows'
  BY <1>19, PaneUntouched DEF Replied, pane
<1>20. QED
  BY <1>1, <1>2, <1>3, <1>4, <1>5, <1>6, <1>7, <1>8, <1>9, <1>10, <1>11, <1>12, <1>13,
     <1>14, <1>15, <1>17, <1>18, <1>19 DEF Next, Add, Removal, Open, User

\* As long as no two goroutines of ui/pane_hail.go have overlapped, the pane shows the first
\* hail of the queue, whatever has priority and whatever is taken out of the middle, and none
\* of them indexes an empty queue or follows a nil ActiveRequest.
THEOREM PaneFollowsQueue == Spec => []HeadIsShown
<1>1. Init => Follows
  BY FollowsInit
<1>2. IInv /\ IInv' /\ Follows /\ [Next]_vars => Follows'
  BY FollowsStep DEF IInv
<1>3. Follows => HeadIsShown
  <2>1. ASSUME Follows, ~overlapped PROVE ~Panicked
    BY <2>1 DEF Follows, Stage, Panicked
  <2>2. ASSUME Follows, ~overlapped, Quiet
        PROVE  /\ active = IF queue = <<>> THEN None ELSE Head(queue)
               /\ shown <=> active # None
               /\ active \notin suspended
    BY <2>2 DEF Follows, Shows, Lit, Top
  <2>3. QED
    BY <2>1, <2>2 DEF HeadIsShown
<1>4. QED
  BY <1>1, <1>2, <1>3, HailInvariant, PTL DEF Spec

-----------------------------------------------------------------------------
(* The popups.                                                             *)

\* The goroutines by what they may be at.
Placed ==
  /\ \A p \in Popup :
       /\ at[Ask(p)] \in {"idle", "pause", "look", "queue", "show", "over", "refused"}
       /\ takes[Ask(p)] = p
  /\ \A t \in PopupThreads : t.job # "ask" =>
       /\ at[t] \in {"idle", "act", "check", "hide", "resume", "close", "pop", "post",
                     "delete", "clear", "over", "fault", "panic"}
       /\ at[t] \in {"resume", "close", "post"} => takes[t] \in Popup
  /\ at[Esc] \notin {"act", "check"}

\* A click works on the popup that is open, and nobody else but ESC is about to close it.
ClicksAlone ==
  \A t \in PopupThreads : t # Esc /\ Answering(t) =>
    /\ popup # NoPopup /\ popup \in laid /\ popup = t.of
    /\ \A u \in PopupThreads : ~Closing(u) /\ (Answering(u) => u \in {t, Esc})

EscFinds == at[Esc] = "hide" => popup \in laid \cup {NoPopup}

\* One goroutine closes the popup, and meanwhile it stays.
OneCloses ==
  \A t \in PopupThreads : Closing(t) =>
    /\ popup # NoPopup /\ popup \in laid
    /\ at[t] \in {"resume", "close"} => takes[t] = popup
    /\ at[t] = "clear" => view = NoPopup
    /\ t # Esc => popup = t.of
    /\ \A u \in PopupThreads : Closing(u) => u = t
    /\ \A p \in Popup : at[Ask(p)] # "queue" /\ (at[Ask(p)] = "show" => from[p] = "trezor")

\* Somebody comes and takes a popup off the queue: whoever closes the open popup, or a posted
\* one, that is not of a Trezor.
Serving ==
  \/ popup # NoPopup /\ from[popup] # "trezor"
     /\ \A t \in PopupThreads : at[t] \notin {"delete", "clear"}
  \/ \E i \in 1..Len(events) : from[events[i]] # "trezor"

QueueMoves ==
  /\ \A p \in Popup : at[Ask(p)] = "queue" =>
       popup # NoPopup /\ (from[popup] = "trezor" => p \in stranded)
  /\ \A p \in Popup : Contains(popupQueue, p) => Serving \/ p \in stranded

\* The popup of a Trezor is not queued, and is not posted behind another one.
TrezorAlone ==
  /\ \A i \in 1..Len(events) : from[events[i]] = "trezor" => i = 1 /\ popup = NoPopup
  /\ \A p \in Popup : at[Ask(p)] \in {"look", "queue"} \/ Contains(popupQueue, p) =>
       from[p] # "trezor"
  /\ \A t \in PopupThreads : at[t] = "post" => from[takes[t]] # "trezor"

Posted(p) == \E t \in PopupThreads : at[t] = "post" /\ takes[t] = p

\* A popup is on its way to the screen.
OnItsWay(p) == Contains(popupQueue, p) \/ Contains(events, p) \/ Posted(p)

\* A popup that was not asked for is nowhere.
Unasked ==
  \A p \in Popup : at[Ask(p)] \in {"idle", "pause"} =>
    ~OnItsWay(p) /\ popup # p /\ p \notin paused

Waiting(p) == at[Ask(p)] \in {"pause", "look", "queue", "show"} \/ OnItsWay(p)

\* A popup that has something to give back will do so when it is closed.
Owing ==
  \A p \in Popup :
    /\ p \in paused =>
         \/ Waiting(p)
         \/ popup = p /\ \A t \in PopupThreads : Closing(t) => at[t] = "resume"
    /\ at[Ask(p)] = "over" /\ served[p] = 0 =>
         \/ Waiting(p)
         \/ popup = p /\ \A t \in PopupThreads : Closing(t) =>
              at[t] \in {"resume", "close"} \/ (from[p] = "trezor" /\ t # Esc)
         \/ from[p] = "trezor" /\ p \in stranded

Orderly ==
  /\ \A t \in PopupThreads : at[t] # "panic"
  /\ view \in {NoPopup, popup}
  /\ ClicksAlone /\ EscFinds /\ OneCloses /\ QueueMoves /\ TrezorAlone /\ Unasked /\ Owing

PopupInv == PopupTypeOK /\ Placed /\ (~crossed => Orderly)

-----------------------------------------------------------------------------
(* Goroutines and types.                                                   *)

\* The kinds of goroutines.
LEMMA Kinds ==
  /\ Esc \in PopupThreads /\ Esc.job = "esc" /\ Esc.of = NoPopup
  /\ \A p \in Popup : Ask(p) \in PopupThreads /\ Ask(p).job = "ask" /\ Ask(p).of = p
                      /\ p # NoPopup
  /\ \A p, q \in Popup : Ask(p) = Ask(q) => p = q
  /\ \A t \in PopupThreads :
       /\ t.job = "ask" => t.of \in Popup /\ t = Ask(t.of)
       /\ t.job = "esc" <=> t = Esc
       /\ t.job \in {"ask", "click", "again", "esc"}
       /\ t.job \in {"click", "again"} => t.of \in Popup
<1>1. Esc \in PopupThreads /\ Esc.job = "esc" /\ Esc.of = NoPopup
  BY DEF PopupThreads, Esc
<1>2. \A p \in Popup : Ask(p) \in PopupThreads /\ Ask(p).job = "ask" /\ Ask(p).of = p
                       /\ p # NoPopup
  BY PopupAssumption DEF PopupThreads, Ask, NoPopup
<1>3. \A t \in PopupThreads :
       /\ t.job = "ask" => t.of \in Popup /\ t = Ask(t.of)
       /\ t.job = "esc" <=> t = Esc
       /\ t.job \in {"ask", "click", "again", "esc"}
       /\ t.job \in {"click", "again"} => t.of \in Popup
  <2> SUFFICES ASSUME NEW t \in PopupThreads
               PROVE  /\ t.job = "ask" => t.of \in Popup /\ t = Ask(t.of)
                      /\ t.job = "esc" <=> t = Esc
                      /\ t.job \in {"ask", "click", "again", "esc"}
                      /\ t.job \in {"click", "again"} => t.of \in Popup
    OBVIOUS
  <2>1. CASE t \in [job : {"ask", "click"}, of : Popup]
    BY <2>1 DEF Ask, Esc
  <2>2. CASE t \in [job : {"again"}, of : Twice]
    <3>1. t.job = "again" /\ t.of \in Popup
      BY <2>2, PopupAssumption
    <3>2. t # Esc
      BY <3>1 DEF Esc
    <3>3. QED
      BY <3>1, <3>2
  <2>3. CASE t = Esc
    BY <2>3 DEF Esc
  <2>4. QED
    BY <2>1, <2>2, <2>3 DEF PopupThreads
<1>4. QED
  BY <1>1, <1>2, <1>3

\* What "signer", "address" and the other commands ask for.
Asks(p, by) ==
  /\ Asked(p, by)
  /\ by \in {"command", "operation", "trezor"}
  /\ UNCHANGED <<screen, popupQueue, takes, paused, served, stranded, crossed>>

\* The function of a dialogue, whatever it does to the wallet.
Acts(t) ==
  /\ Is(t, "act") \/ Is(t, "check")
  /\ \E l \in {"check", "hide", "over", "fault"} : Step(t, l)
  /\ UNCHANGED <<from, screen, popupQueue, takes, paused, served, stranded, crossed>>

\* What the dialogues do to popups.
LEMMA DialoguesAct ==
  ASSUME DialogueNext
  PROVE  \/ UNCHANGED popupVars
         \/ \E p \in Popup : \/ \E by : Asks(p, by)
                             \/ Pause(p) \/ Look(p) \/ Queue(p)
         \/ TakeEvent \/ Layout \/ PressEsc
         \/ \E t \in PopupThreads :
              \/ Click(t) \/ Acts(t) \/ ShowPopup(t) \/ HidePopup(t) \/ Resume(t)
              \/ OnClose(t) \/ PopQueue(t) \/ DeleteView(t) \/ ClearPopup(t)
<1>1. ASSUME NEW p \in Popup, Command(p) PROVE \E by : Asks(p, by)
  BY <1>1 DEF Command, Asks
<1>2. ASSUME ListAddresses PROVE UNCHANGED popupVars
  BY <1>2 DEF ListAddresses
<1>3. ASSUME NEW t, Save(t) PROVE Step(t, "hide") \/ Step(t, "over")
  BY <1>3 DEF Save
<1>4. ASSUME NEW t, NEW k, Acting(t, k),
             \E l \in {"check", "hide", "over", "fault"} : Step(t, l)
      PROVE  Acts(t)
  BY <1>4 DEF Acting, Acts
<1>5. ASSUME NEW t, OK(t) \/ Cancel(t) PROVE Acts(t)
  <2>1. CASE RemoveSigner(t) \/ RemoveCopy(t)
    BY <1>3, <1>4, <2>1 DEF RemoveSigner, RemoveCopy, Fault
  <2>2. CASE Promote(t) \/ EditSigner(t)
    BY <1>3, <1>4, <2>2 DEF Promote, EditSigner, Fault
  <2>3. CASE CheckSigner(t) \/ CheckAddress(t)
    BY <1>4, <2>3 DEF CheckSigner, CheckAddress, Stay
  <2>4. CASE AddSigner(t) \/ AddAddress(t)
    BY <1>3, <2>4 DEF AddSigner, AddAddress, Acts
  <2>5. CASE RemoveAddress(t) \/ EditAddress(t)
    BY <1>3, <1>4, <2>5 DEF RemoveAddress, EditAddress, Fault
  <2>6. CASE Other(t) \/ Cancel(t)
    BY <2>6 DEF Other, Cancel, Acts
  <2>7. QED
    BY <1>5, <2>1, <2>2, <2>3, <2>4, <2>5, <2>6 DEF OK
<1>6. QED
  BY <1>1, <1>2, <1>5 DEF DialogueNext, Process, MainLoop, UserCloses, Works, Hides

\* Where the goroutines are after a step of one.
LEMMA StepDoes ==
  ASSUME PopupTypeOK, NEW t \in PopupThreads, NEW l, Step(t, l)
  PROVE  \A u \in PopupThreads : at'[u] = IF u = t THEN l ELSE at[u]
BY DEF PopupTypeOK, Step

Labels == {"idle", "pause", "look", "queue", "show", "act", "check", "hide", "resume",
           "close", "pop", "post", "delete", "clear", "over", "refused", "panic", "fault"}

\* A step to another place.
LEMMA StepType ==
  ASSUME PopupTypeOK, NEW t \in PopupThreads, NEW l \in Labels, Step(t, l)
  PROVE  at' \in [PopupThreads -> Labels]
BY DEF PopupTypeOK, Step, Labels

\* The types, and the places of goroutines, after a step of one that asks.
LEMMA AskTypes ==
  ASSUME PopupTypeOK, Placed, NEW p \in Popup,
         (\E by : Asks(p, by)) \/ Pause(p) \/ Look(p) \/ Queue(p)
  PROVE  PopupTypeOK' /\ Placed'
<1>1. Ask(p) \in PopupThreads /\ Ask(p).job = "ask"
  BY Kinds
<1>2. \E l \in {"look", "pause", "show", "refused", "queue", "over"} : Step(Ask(p), l)
  BY DEF Asks, Asked, Pause, Look, Queue
<1>3. at' \in [PopupThreads -> Labels]
  BY <1>1, <1>2, StepType DEF Labels
<1>4. /\ takes' = takes /\ served' = served /\ UNCHANGED screen
      /\ from' \in [Popup -> {"command", "operation", "trezor"}]
  BY DEF Asks, Asked, Pause, Look, Queue, PopupTypeOK
<1>5. /\ popupQueue' \in Seq(Popup) /\ paused' \subseteq Popup /\ crossed' \in BOOLEAN
      /\ stranded' \subseteq Popup
  <2>1. popupQueue' = popupQueue \/ popupQueue' = Append(popupQueue, p)
    BY DEF Asks, Asked, Pause, Look, Queue
  <2>2. paused' \subseteq paused \cup {p}
    BY DEF Asks, Asked, Pause, Look, Queue
  <2>3. crossed' \in BOOLEAN
    BY DEF Asks, Asked, Pause, Look, Queue, Crossed, PopupTypeOK
  <2>4. stranded' \subseteq stranded \cup {p}
    BY DEF Asks, Asked, Pause, Look, Queue
  <2>5. QED
    <3>1. popupQueue \in Seq(Popup) /\ paused \subseteq Popup /\ stranded \subseteq Popup
      BY DEF PopupTypeOK
    <3>2. popupQueue' \in Seq(Popup)
      BY <2>1, <3>1
    <3>3. QED
      BY <2>2, <2>3, <2>4, <3>1, <3>2
<1>6. PopupTypeOK'
  BY <1>3, <1>4, <1>5 DEF PopupTypeOK, Labels, screen
<1>7. PICK l \in {"look", "pause", "show", "refused", "queue", "over"} :
        \A u \in PopupThreads : at'[u] = IF u = Ask(p) THEN l ELSE at[u]
  BY <1>1, <1>2, StepDoes
<1>8. Placed'
  BY <1>1, <1>4, <1>7, Kinds DEF Placed
<1>9. QED
  BY <1>6, <1>8

\* How a goroutine that shows, closes or is clicked goes on: to where, and with which popup.
Goes(t, l, p) ==
  /\ l \in Labels /\ Step(t, l)
  /\ (takes' = takes /\ p = takes[t]) \/ takes' = [takes EXCEPT ![t] = p]
  /\ p \in Popup \cup {NoPopup}
  /\ t.job = "ask" => l = "over" /\ p = takes[t]
  /\ t.job # "ask" => /\ l \in {"idle", "act", "check", "hide", "resume", "close", "pop",
                                "post", "delete", "clear", "over", "fault", "panic"}
                      /\ l \in {"resume", "close", "post"} => p \in Popup
  /\ t = Esc => l \notin {"act", "check"}

\* It keeps the types and the places, if all else does.
LEMMA GoesTypes ==
  ASSUME PopupTypeOK, Placed, NEW t \in PopupThreads, NEW l, NEW p, Goes(t, l, p),
         popup' \in Popup \cup {NoPopup}, view' \in Popup \cup {NoPopup}, laid' = laid,
         events' \in Seq(Popup), popupQueue' \in Seq(Popup), paused' \subseteq Popup,
         served' \in [Popup -> Nat], stranded' \subseteq Popup, crossed' \in BOOLEAN,
         from' = from
  PROVE  PopupTypeOK' /\ Placed'
<1>1. at' \in [PopupThreads -> Labels]
  BY StepType DEF Goes
<1>2. takes' \in [PopupThreads -> Popup \cup {NoPopup}]
  BY DEF Goes, PopupTypeOK
<1>3. PopupTypeOK'
  BY <1>1, <1>2 DEF PopupTypeOK, Labels
<1>4. \A u \in PopupThreads : at'[u] = IF u = t THEN l ELSE at[u]
  BY StepDoes DEF Goes
<1>5. \A u \in PopupThreads : takes'[u] = IF u = t THEN p ELSE takes[u]
  BY DEF Goes, PopupTypeOK
<1>6. Placed'
  <2>1. ASSUME NEW q \in Popup
        PROVE  /\ at'[Ask(q)] \in {"idle", "pause", "look", "queue", "show", "over", "refused"}
               /\ takes'[Ask(q)] = q
    BY <1>4, <1>5, Kinds DEF Placed, Goes
  <2>2. ASSUME NEW u \in PopupThreads, u.job # "ask"
        PROVE  /\ at'[u] \in {"idle", "act", "check", "hide", "resume", "close", "pop", "post",
                              "delete", "clear", "over", "fault", "panic"}
               /\ at'[u] \in {"resume", "close", "post"} => takes'[u] \in Popup
    BY <1>4, <1>5, <2>2 DEF Placed, Goes
  <2>3. at'[Esc] \notin {"act", "check"}
    BY <1>4, Kinds DEF Placed, Goes
  <2>4. QED
    BY <2>1, <2>2, <2>3 DEF Placed
<1>7. QED
  BY <1>3, <1>6

\* The types and the places, after its step.
LEMMA ThreadTypes ==
  ASSUME PopupTypeOK, Placed, NEW t \in PopupThreads,
         \/ Click(t) \/ Acts(t) \/ ShowPopup(t) \/ HidePopup(t) \/ Resume(t)
         \/ OnClose(t) \/ PopQueue(t) \/ DeleteView(t) \/ ClearPopup(t)
  PROVE  PopupTypeOK' /\ Placed'
<1>1. t.job = "ask" => t.of \in Popup /\ t = Ask(t.of)
  BY Kinds
<1>2. /\ t.job = "ask" => /\ at[t] \in {"idle", "pause", "look", "queue", "show", "over",
                                       "refused"}
                          /\ takes[t] \in Popup
      /\ t.job # "ask" => /\ at[t] \in {"idle", "act", "check", "hide", "resume", "close",
                                       "pop", "post", "delete", "clear", "over", "fault",
                                       "panic"}
                          /\ at[t] \in {"resume", "close", "post"} => takes[t] \in Popup
      /\ t = Esc => at[t] \notin {"act", "check"}
  BY <1>1 DEF Placed
<1>3. /\ popup \in Popup \cup {NoPopup} /\ popupQueue \in Seq(Popup) /\ events \in Seq(Popup)
      /\ takes[t] \in Popup \cup {NoPopup} /\ paused \subseteq Popup
      /\ served \in [Popup -> Nat] /\ crossed \in BOOLEAN /\ view \in Popup \cup {NoPopup}
      /\ stranded \subseteq Popup
  BY DEF PopupTypeOK
<1>4. crossed' \in BOOLEAN
  BY <1>3 DEF Click, Acts, ShowPopup, HidePopup, Resume, OnClose, PopQueue, DeleteView,
              ClearPopup, Crossed
<1>5. CASE Click(t) \/ Acts(t)
  <2>1. \E l, p : Goes(t, l, p)
    BY <1>2, <1>3, <1>5, Kinds DEF Click, Acts, Goes, Labels, Is
  <2>2. QED
    BY <1>3, <1>4, <1>5, <2>1, GoesTypes DEF Click, Acts, screen, PopupTypeOK
<1>6. CASE ShowPopup(t)
  <2>1. /\ t.job = "ask" => Step(t, "over")
        /\ t.job # "ask" => Step(t, "delete")
        /\ takes' = takes /\ takes[t] \in Popup
    BY <1>2, <1>6 DEF ShowPopup, Is
  <2>2. Goes(t, IF t.job = "ask" THEN "over" ELSE "delete", takes[t])
    BY <2>1, Kinds DEF Goes, Labels
  <2>3. events' \in Seq(Popup)
    BY <1>3, <1>6, <2>1 DEF ShowPopup
  <2>4. QED
    BY <1>3, <1>4, <1>6, <2>2, <2>3, GoesTypes DEF ShowPopup, PopupTypeOK
<1>7. CASE HidePopup(t)
  <2>1. t.job # "ask"
    BY <1>2, <1>7 DEF HidePopup, Is
  <2>2. \E l, p : Goes(t, l, p)
    <3>1. CASE popup = NoPopup
      <4>1. Goes(t, IF t = Esc THEN "idle" ELSE "over", takes[t])
        BY <1>3, <1>7, <2>1, <3>1 DEF HidePopup, Goes, Labels, Ended
      <4>2. QED
        BY <4>1
    <3>2. CASE popup # NoPopup
      <4>1. Goes(t, IF popup \in laid THEN "resume" ELSE "panic", popup)
        BY <1>3, <1>7, <2>1, <3>2 DEF HidePopup, Goes, Labels
      <4>2. QED
        BY <4>1
    <3>3. QED
      BY <3>1, <3>2
  <2>3. QED
    BY <1>3, <1>4, <1>7, <2>2, GoesTypes DEF HidePopup, screen, PopupTypeOK
<1>8. CASE Resume(t)
  <2>1. Goes(t, "close", takes[t])
    BY <1>2, <1>3, <1>8 DEF Resume, Goes, Labels, Is
  <2>2. paused' \subseteq Popup
    BY <1>3, <1>8 DEF Resume
  <2>3. QED
    BY <1>3, <1>4, <1>8, <2>1, <2>2, GoesTypes DEF Resume, screen, PopupTypeOK
<1>9. CASE OnClose(t)
  <2>1. Goes(t, IF from[takes[t]] = "trezor" THEN "delete" ELSE "pop", takes[t])
    BY <1>2, <1>3, <1>9 DEF OnClose, Goes, Labels, Is
  <2>2. served' \in [Popup -> Nat] /\ stranded' \subseteq Popup
    <3>1. takes[t] \in Popup
      BY <1>2, <1>9, Kinds DEF OnClose, Is
    <3>2. served' \in [Popup -> Nat]
      BY <1>3, <1>9, <3>1 DEF OnClose
    <3>3. stranded' \subseteq stranded \cup {takes[t]}
      BY <1>9 DEF OnClose
    <3>4. QED
      BY <1>3, <3>1, <3>2, <3>3
  <2>3. QED
    BY <1>3, <1>4, <1>9, <2>1, <2>2, GoesTypes DEF OnClose, screen, PopupTypeOK
<1>10. CASE PopQueue(t)
  <2>1. t.job # "ask"
    BY <1>2, <1>10 DEF PopQueue, Is
  <2>2. CASE popupQueue = <<>>
    <3>1. Goes(t, "delete", takes[t])
      BY <1>3, <1>10, <2>1, <2>2 DEF PopQueue, Goes, Labels
    <3>2. QED
      BY <1>3, <1>4, <1>10, <2>2, <3>1, GoesTypes DEF PopQueue, screen, PopupTypeOK
  <2>3. CASE popupQueue # <<>>
    <3>1. Head(popupQueue) \in Popup /\ Tail(popupQueue) \in Seq(Popup)
      BY <1>3, <2>3
    <3>2. Goes(t, "post", Head(popupQueue))
      BY <1>10, <2>1, <2>3, <3>1 DEF PopQueue, Goes, Labels
    <3>3. QED
      BY <1>3, <1>4, <1>10, <2>3, <3>1, <3>2, GoesTypes DEF PopQueue, screen, PopupTypeOK
  <2>4. QED
    BY <2>2, <2>3
<1>11. CASE DeleteView(t) \/ ClearPopup(t)
  <2>1. t.job # "ask"
    BY <1>2, <1>11 DEF DeleteView, ClearPopup, Is
  <2>2. \E l : Goes(t, l, takes[t])
    <3>1. PICK l \in {"clear", "panic", "idle", "over"} : Step(t, l)
      BY <1>11 DEF DeleteView, ClearPopup, Ended
    <3>2. takes' = takes
      BY <1>11 DEF DeleteView, ClearPopup
    <3>3. Goes(t, l, takes[t])
      BY <1>3, <2>1, <3>1, <3>2 DEF Goes, Labels
    <3>4. QED
      BY <3>3
  <2>3. served' \in [Popup -> Nat]
    BY <1>3, <1>11 DEF DeleteView, ClearPopup
  <2>4. QED
    BY <1>3, <1>4, <1>11, <2>2, <2>3, GoesTypes DEF DeleteView, ClearPopup, PopupTypeOK
<1>12. QED
  BY <1>5, <1>6, <1>7, <1>8, <1>9, <1>10, <1>11

\* The types and the places, after a step of the main loop.
LEMMA MainTypes ==
  ASSUME PopupTypeOK, Placed, TakeEvent \/ Layout \/ PressEsc
  PROVE  PopupTypeOK' /\ Placed'
<1>1. CASE TakeEvent
  <2>1. popup' \in Popup /\ events' \in Seq(Popup) /\ crossed' \in BOOLEAN
    BY <1>1 DEF TakeEvent, PopupTypeOK, Crossed
  <2>2. QED
    BY <1>1, <2>1 DEF TakeEvent, PopupTypeOK, Placed
<1>2. CASE Layout
  <2>1. at' = at \/ Step(Esc, "panic")
    BY <1>2 DEF Layout
  <2>2. CASE at' = at
    BY <1>2, <2>2 DEF Layout, PopupTypeOK, Placed, Crossed
  <2>3. CASE Step(Esc, "panic")
    <3>1. Goes(Esc, "panic", takes[Esc])
      BY <1>2, <2>3, Kinds DEF Layout, Goes, Labels, PopupTypeOK
    <3>2. (laid' = laid /\ view' = view) \/ at' = at
      BY <1>2 DEF Layout
    <3>3. QED
      BY <1>2, <2>2, <3>1, <3>2, Kinds, GoesTypes DEF Layout, PopupTypeOK, Crossed
  <2>4. QED
    BY <2>1, <2>2, <2>3
<1>3. CASE PressEsc
  <2>1. Goes(Esc, "hide", takes[Esc])
    BY <1>3, Kinds DEF PressEsc, Goes, Labels, PopupTypeOK
  <2>2. QED
    BY <1>3, <2>1, Kinds, GoesTypes DEF PressEsc, screen, PopupTypeOK
<1>4. QED
  BY <1>1, <1>2, <1>3

-----------------------------------------------------------------------------
(* What each action keeps of the order.                                    *)

\* Where a popup that waits may be.
LEMMA OnItsWayIs ==
  ASSUME NEW p \in Popup
  PROVE  /\ Waiting(p) <=> \/ at[Ask(p)] \in {"pause", "look", "queue", "show"}
                           \/ Contains(popupQueue, p) \/ Contains(events, p)
                           \/ \E t \in PopupThreads : at[t] = "post" /\ takes[t] = p
         /\ Waiting(p)' <=> \/ at'[Ask(p)] \in {"pause", "look", "queue", "show"}
                            \/ Contains(popupQueue', p) \/ Contains(events', p)
                            \/ \E t \in PopupThreads : at'[t] = "post" /\ takes'[t] = p
BY DEF Waiting, OnItsWay, Posted

\* A popup is asked for that was nowhere.
LEMMA AsksKeeps ==
  ASSUME PopupTypeOK, Placed, Orderly, NEW p \in Popup, NEW by, Asks(p, by)
  PROVE  Orderly'
<1>1. PICK l \in {"look", "pause"} :
        /\ \A u \in PopupThreads : at'[u] = IF u = Ask(p) THEN l ELSE at[u]
        /\ by # "command" => l = "pause"
  BY Kinds, StepDoes DEF Asks, Asked
<1>2. /\ at[Ask(p)] = "idle"
      /\ \A q \in Popup : from'[q] = IF q = p THEN by ELSE from[q]
  BY DEF Asks, Asked, Is, PopupTypeOK
<1>3. UNCHANGED <<popup, view, laid, events, popupQueue, takes, paused, served, stranded>>
  BY DEF Asks, screen
<1>4. /\ ~Contains(popupQueue, p) /\ ~Contains(events, p) /\ popup # p /\ p \notin paused
      /\ \A t \in PopupThreads : at[t] = "post" => takes[t] # p
  BY <1>2 DEF Orderly, Unasked, OnItsWay, Posted
<1>5. (\A t \in PopupThreads : at[t] # "panic")' /\ (view \in {NoPopup, popup})'
  BY <1>1, <1>3 DEF Orderly
<1>6. ClicksAlone' /\ EscFinds' /\ OneCloses'
  <2>1. \A t \in PopupThreads : /\ Answering(t)' <=> Answering(t)
                                /\ Closing(t)' <=> Closing(t)
    BY <1>1, <1>2 DEF Answering, Closing
  <2>2. ClicksAlone'
    BY <1>3, <2>1 DEF Orderly, ClicksAlone
  <2>3. EscFinds'
    BY <1>1, <1>2, <1>3, Kinds DEF Orderly, EscFinds
  <2>4. OneCloses'
    BY <1>1, <1>2, <1>3, <2>1, Kinds DEF Orderly, OneCloses
  <2>5. QED
    BY <2>2, <2>3, <2>4
<1>7. QueueMoves'
  <2>1. Serving => Serving'
    <3>1. ASSUME NEW i \in 1..Len(events) PROVE from'[events'[i]] = from[events[i]]
      <4>1. events[i] \in Popup /\ events[i] # p
        BY <1>4 DEF Contains, PopupTypeOK
      <4>2. QED
        BY <1>2, <1>3, <4>1
    <3>2. popup # NoPopup => from'[popup] = from[popup]
      BY <1>2, <1>4 DEF PopupTypeOK
    <3>3. \A t \in PopupThreads : at'[t] \in {"delete", "clear"} => at[t] \in {"delete", "clear"}
      BY <1>1
    <3>4. QED
      BY <1>3, <3>1, <3>2, <3>3 DEF Serving
  <2>2. QED
    BY <1>1, <1>2, <1>3, <1>4, <2>1, Kinds DEF Orderly, QueueMoves, PopupTypeOK
<1>8. TrezorAlone'
  <2>1. \A i \in 1..Len(events) : events[i] \in Popup /\ events[i] # p
    BY <1>4 DEF Contains, PopupTypeOK
  <2>2. TrezorAlone /\ popup \in Popup \cup {NoPopup}
    BY DEF Orderly, PopupTypeOK
  <2>4. (\A i \in 1..Len(events) : from[events[i]] = "trezor" => i = 1 /\ popup = NoPopup)'
    BY <1>2, <1>3, <2>1, <2>2 DEF TrezorAlone
  <2>5. (\A q \in Popup : at[Ask(q)] \in {"look", "queue"} \/ Contains(popupQueue, q) =>
           from[q] # "trezor")'
    BY <1>1, <1>2, <1>3, <1>4, <2>2, Kinds DEF TrezorAlone
  <2>6. (\A t \in PopupThreads : at[t] = "post" => from[takes[t]] # "trezor")'
    <3>1. ASSUME NEW t \in PopupThreads, at'[t] = "post" PROVE from'[takes'[t]] # "trezor"
      <4>1. at[t] = "post" /\ takes[t] \in Popup /\ takes[t] # p
        BY <1>1, <1>4, <3>1, Kinds DEF Placed
      <4>2. QED
        BY <1>2, <1>3, <2>2, <4>1 DEF TrezorAlone
    <3>2. QED
      BY <3>1
  <2>7. QED
    BY <2>4, <2>5, <2>6 DEF TrezorAlone
<1>9. Unasked'
  BY <1>1, <1>2, <1>3, Kinds DEF Orderly, Unasked, OnItsWay, Posted
<1>10. Owing'
  BY <1>1, <1>2, <1>3, OnItsWayIs, Kinds DEF Orderly, Owing, Closing
<1>11. QED
  BY <1>5, <1>6, <1>7, <1>8, <1>9, <1>10 DEF Orderly

\* Its operation is given a pause, or refused one.
LEMMA PauseKeeps ==
  ASSUME PopupTypeOK, Placed, Orderly, NEW p \in Popup, Pause(p)
  PROVE  Orderly'
<1>1. PICK l \in {"show", "look", "refused"} :
        /\ \A u \in PopupThreads : at'[u] = IF u = Ask(p) THEN l ELSE at[u]
        /\ \/ paused' = paused \cup {p} /\ l = IF from[p] = "trezor" THEN "show" ELSE "look"
           \/ paused' = paused /\ l = "refused"
  <2> DEFINE next == IF from[p] = "trezor" THEN "show" ELSE "look"
  <2>1. next \in {"show", "look"}
    OBVIOUS
  <2>2. CASE paused' = paused \cup {p} /\ Step(Ask(p), next)
    BY <2>1, <2>2, Kinds, StepDoes
  <2>3. CASE paused' = paused /\ Step(Ask(p), "refused")
    BY <2>3, Kinds, StepDoes
  <2>4. QED
    BY <2>2, <2>3 DEF Pause
<1>2. at[Ask(p)] = "pause"
  BY DEF Pause, Is
<1>3. UNCHANGED <<from, popup, view, laid, events, popupQueue, takes, served, stranded>>
  BY DEF Pause, screen
<1>4. /\ ~Contains(popupQueue, p) /\ ~Contains(events, p) /\ popup # p /\ p \notin paused
      /\ \A t \in PopupThreads : at[t] = "post" => takes[t] # p
  BY <1>2 DEF Orderly, Unasked, OnItsWay, Posted
<1>5. (\A t \in PopupThreads : at[t] # "panic")' /\ (view \in {NoPopup, popup})'
  BY <1>1, <1>3 DEF Orderly
<1>6. ClicksAlone' /\ EscFinds' /\ OneCloses'
  <2>1. \A t \in PopupThreads : /\ Answering(t)' <=> Answering(t)
                                /\ Closing(t)' <=> Closing(t)
    BY <1>1, <1>2 DEF Answering, Closing
  <2>2. ClicksAlone'
    BY <1>3, <2>1 DEF Orderly, ClicksAlone
  <2>3. EscFinds'
    BY <1>1, <1>2, <1>3, Kinds DEF Orderly, EscFinds
  <2>4. OneCloses'
    BY <1>1, <1>2, <1>3, <2>1, Kinds DEF Orderly, OneCloses
  <2>5. QED
    BY <2>2, <2>3, <2>4
<1>7. QueueMoves'
  <2>1. Serving => Serving'
    BY <1>1, <1>3 DEF Serving
  <2>2. QED
    BY <1>1, <1>2, <1>3, <2>1, Kinds DEF Orderly, QueueMoves
<1>8. TrezorAlone'
  BY <1>1, <1>2, <1>3, Kinds DEF Orderly, TrezorAlone
<1>9. Unasked'
  BY <1>1, <1>2, <1>3, Kinds DEF Orderly, Unasked, OnItsWay, Posted
<1>10. Owing'
  BY <1>1, <1>2, <1>3, <1>4, OnItsWayIs, Kinds DEF Orderly, Owing, Closing
<1>11. QED
  BY <1>5, <1>6, <1>7, <1>8, <1>9, <1>10 DEF Orderly

\* It finds a popup open, or none, and nobody at work on one.
LEMMA LookKeeps ==
  ASSUME PopupTypeOK, Placed, Orderly, NEW p \in Popup, Look(p), ~crossed'
  PROVE  Orderly'
<1>1. \A u \in PopupThreads :
        at'[u] = IF u = Ask(p) THEN IF popup = NoPopup THEN "show" ELSE "queue" ELSE at[u]
  BY Kinds, StepDoes DEF Look
<1>2. /\ at[Ask(p)] = "look"
      /\ \A t \in PopupThreads : ~Closing(t)
      /\ stranded \subseteq stranded'
      /\ popup # NoPopup /\ from[popup] = "trezor" => p \in stranded'
  BY DEF Look, Is, Crossed
<1>3. UNCHANGED <<from, popup, view, laid, events, popupQueue, takes, paused, served>>
  BY DEF Look, screen
<1>4. (\A t \in PopupThreads : at[t] # "panic")' /\ (view \in {NoPopup, popup})'
  BY <1>1, <1>3 DEF Orderly
<1>5. \A t \in PopupThreads : (Answering(t)' <=> Answering(t)) /\ ~Closing(t)'
  BY <1>1, <1>2 DEF Answering, Closing
<1>6. ClicksAlone'
  BY <1>3, <1>5 DEF Orderly, ClicksAlone
<1>7. EscFinds'
  BY <1>1, <1>2, <1>3, Kinds DEF Orderly, EscFinds
<1>8. OneCloses'
  BY <1>5 DEF OneCloses
<1>9. QueueMoves'
  <2>1. Serving => Serving'
    BY <1>1, <1>3 DEF Serving
  <2>2. QED
    BY <1>1, <1>2, <1>3, <2>1, Kinds DEF Orderly, QueueMoves
<1>10. TrezorAlone'
  BY <1>1, <1>2, <1>3, Kinds DEF Orderly, TrezorAlone
<1>11. Unasked'
  BY <1>1, <1>2, <1>3, Kinds DEF Orderly, Unasked, OnItsWay, Posted
<1>12. Owing'
  BY <1>1, <1>2, <1>3, <1>5, OnItsWayIs, Kinds DEF Orderly, Owing
<1>13. QED
  BY <1>4, <1>6, <1>7, <1>8, <1>9, <1>10, <1>11, <1>12 DEF Orderly

\* It is queued while a popup is open that nobody closes.
LEMMA QueueKeeps ==
  ASSUME PopupTypeOK, Placed, Orderly, NEW p \in Popup, Queue(p)
  PROVE  Orderly'
<1>1. \A u \in PopupThreads : at'[u] = IF u = Ask(p) THEN "over" ELSE at[u]
  BY Kinds, StepDoes DEF Queue
<1>2. /\ at[Ask(p)] = "queue"
      /\ popup # NoPopup /\ from[p] # "trezor"
      /\ from[popup] = "trezor" => p \in stranded
      /\ \A t \in PopupThreads : ~Closing(t)
  BY DEF Queue, Is, Orderly, QueueMoves, OneCloses, TrezorAlone
<1>3. UNCHANGED <<from, popup, view, laid, events, takes, paused, served, stranded>>
  BY DEF Queue, screen
<1>4. \A q \in Popup : Contains(popupQueue', q) <=> Contains(popupQueue, q) \/ q = p
  BY AppendContains DEF Queue, PopupTypeOK
<1>5. (\A t \in PopupThreads : at[t] # "panic")' /\ (view \in {NoPopup, popup})'
  BY <1>1, <1>3 DEF Orderly
<1>6. \A t \in PopupThreads : (Answering(t)' <=> Answering(t)) /\ ~Closing(t)'
  BY <1>1, <1>2 DEF Answering, Closing
<1>7. ClicksAlone'
  BY <1>3, <1>6 DEF Orderly, ClicksAlone
<1>8. EscFinds'
  BY <1>1, <1>2, <1>3, Kinds DEF Orderly, EscFinds
<1>9. OneCloses'
  BY <1>6 DEF OneCloses
<1>10. QueueMoves'
  <2>1. Serving => Serving'
    BY <1>1, <1>3 DEF Serving
  <2>2. from[popup] # "trezor" => Serving'
    BY <1>2, <1>3, <1>6 DEF Serving, Closing
  <2>3. QED
    BY <1>1, <1>2, <1>3, <1>4, <2>1, <2>2, Kinds DEF Orderly, QueueMoves
<1>11. TrezorAlone'
  BY <1>1, <1>2, <1>3, <1>4, Kinds DEF Orderly, TrezorAlone
<1>12. Unasked'
  BY <1>1, <1>2, <1>3, <1>4, Kinds DEF Orderly, Unasked, OnItsWay, Posted
<1>13. Owing'
  BY <1>1, <1>2, <1>3, <1>4, <1>6, OnItsWayIs, Kinds DEF Orderly, Owing
<1>14. QED
  BY <1>5, <1>7, <1>8, <1>9, <1>10, <1>11, <1>12, <1>13 DEF Orderly

\* A popup is posted: by the goroutine that asked, or by the one that closed another.
LEMMA ShowKeeps ==
  ASSUME PopupTypeOK, Placed, Orderly, NEW t \in PopupThreads, ShowPopup(t), ~crossed'
  PROVE  Orderly'
<1>1. /\ UNCHANGED <<from, popup, view, laid, popupQueue, takes, paused, served, stranded>>
      /\ events' = Append(events, takes[t]) /\ events \in Seq(Popup)
  BY DEF ShowPopup, PopupTypeOK
<1>2. \/ t.job = "ask" /\ at[t] = "show"
      \/ t.job # "ask" /\ at[t] = "post"
  BY Kinds DEF ShowPopup, Is, Placed
<1>3. takes[t] \in Popup /\ (t.job = "ask" => t = Ask(takes[t]) /\ t.of = takes[t])
  BY <1>2, Kinds DEF Placed
<1>4. \A u \in PopupThreads :
        at'[u] = IF u = t THEN IF t.job = "ask" THEN "over" ELSE "delete" ELSE at[u]
  <2>1. CASE t.job = "ask"
    BY <2>1, StepDoes DEF ShowPopup
  <2>2. CASE t.job # "ask"
    BY <2>2, StepDoes DEF ShowPopup
  <2>3. QED
    BY <2>1, <2>2
<1>5. /\ \A q \in Popup : Contains(events', q) <=> Contains(events, q) \/ q = takes[t]
      /\ events' # <<>> /\ Len(events') = Len(events) + 1
      /\ events'[Len(events) + 1] = takes[t]
      /\ \A i \in 1..Len(events) : events'[i] = events[i]
  BY <1>1, <1>3, AppendContains, AppendProperties
<1>6. from[takes[t]] = "trezor" =>
        t.job = "ask" /\ popup = NoPopup /\ events = <<>>
  <2>1. t.job = "ask" /\ from[takes[t]] = "trezor" => popup = NoPopup /\ events = <<>>
    BY <1>3, Kinds DEF ShowPopup, Crossed
  <2>2. t.job # "ask" => from[takes[t]] # "trezor"
    BY <1>2 DEF Orderly, TrezorAlone
  <2>3. QED
    BY <2>1, <2>2
<1>7. t.job = "ask" => \A u \in PopupThreads : ~Closing(u)
  <2>1. ASSUME t.job = "ask", NEW u \in PopupThreads, Closing(u) PROVE FALSE
    <3>1. popup # NoPopup /\ from[takes[t]] = "trezor"
      BY <1>2, <1>3, <2>1 DEF Orderly, OneCloses
    <3>2. QED
      BY <1>6, <3>1
  <2>2. QED
    BY <2>1
<1>8. (\A u \in PopupThreads : at[u] # "panic")' /\ (view \in {NoPopup, popup})'
  BY <1>1, <1>4 DEF Orderly
<1>9. \A u \in PopupThreads : /\ Answering(u)' <=> Answering(u)
                              /\ Closing(u)' <=> Closing(u)
  BY <1>2, <1>4 DEF Answering, Closing
<1>10. ClicksAlone'
  BY <1>1, <1>9 DEF Orderly, ClicksAlone
<1>11. EscFinds'
  BY <1>1, <1>4, Kinds DEF Orderly, EscFinds
<1>12. OneCloses'
  <2>1. CASE t.job = "ask"
    BY <1>7, <1>9, <2>1 DEF OneCloses
  <2>2. CASE t.job # "ask"
    <3>1. Closing(t) /\ \A p \in Popup : at'[Ask(p)] = at[Ask(p)]
      BY <1>2, <1>4, <2>2, Kinds DEF Closing
    <3>2. QED
      BY <1>1, <1>2, <1>4, <1>5, <1>9, <2>2, <3>1 DEF Orderly, OneCloses
  <2>3. QED
    BY <2>1, <2>2
<1>13. QueueMoves'
  <2>1. Serving => Serving'
    <3>1. ASSUME NEW i \in 1..Len(events), from[events[i]] # "trezor" PROVE Serving'
      <4>1. i \in 1..Len(events') /\ from'[events'[i]] # "trezor"
        BY <1>1, <1>5, <3>1
      <4>2. QED
        BY <4>1 DEF Serving
    <3>2. CASE t.job = "ask"
      <4>1. \A u \in PopupThreads : at'[u] \in {"delete", "clear"} =>
                                    at[u] \in {"delete", "clear"}
        BY <1>4, <3>2
      <4>2. QED
        BY <1>1, <3>1, <4>1 DEF Serving
    <3>3. CASE t.job # "ask"
      <4>1. Len(events) + 1 \in 1..Len(events') /\ from'[events'[Len(events) + 1]] # "trezor"
        BY <1>1, <1>5, <1>6, <3>3
      <4>2. QED
        BY <4>1 DEF Serving
    <3>4. QED
      BY <3>2, <3>3
  <2>2. QED
    BY <1>1, <1>4, <1>5, <2>1, Kinds DEF Orderly, QueueMoves
<1>14. TrezorAlone'
  <2>1. TrezorAlone
    BY DEF Orderly
  <2>3. (\A i \in 1..Len(events) : from[events[i]] = "trezor" => i = 1 /\ popup = NoPopup)'
    <3>1. ASSUME NEW i \in 1..(Len(events) + 1), from[events'[i]] = "trezor"
          PROVE  i = 1 /\ popup = NoPopup
      <4>1. CASE i \in 1..Len(events)
        BY <1>5, <2>1, <3>1, <4>1 DEF TrezorAlone
      <4>2. CASE i = Len(events) + 1
        <5>1. events'[i] = takes[t] /\ from[takes[t]] = "trezor"
          BY <1>5, <3>1, <4>2
        <5>2. Len(events) = 0
          BY <1>6, <5>1
        <5>3. QED
          BY <1>6, <4>2, <5>1, <5>2
      <4>3. i \in 1..Len(events) \/ i = Len(events) + 1
        BY <1>1, <3>1
      <4>4. QED
        BY <4>1, <4>2, <4>3
    <3>2. QED
      BY <1>1, <1>5, <3>1
  <2>4. (\A q \in Popup : at[Ask(q)] \in {"look", "queue"} \/ Contains(popupQueue, q) =>
           from[q] # "trezor")'
    BY <1>1, <1>4, <2>1, Kinds DEF TrezorAlone
  <2>5. (\A u \in PopupThreads : at[u] = "post" => from[takes[u]] # "trezor")'
    BY <1>1, <1>4, <2>1 DEF TrezorAlone
  <2>6. QED
    BY <2>3, <2>4, <2>5 DEF TrezorAlone
<1>15. Unasked'
  <2>1. ASSUME NEW q \in Popup, at'[Ask(q)] \in {"idle", "pause"} PROVE q # takes[t]
    <3>1. at[Ask(q)] \in {"idle", "pause"} /\ (t.job = "ask" => t # Ask(q))
      BY <1>4, <2>1, Kinds
    <3>2. CASE t.job = "ask"
      BY <1>3, <3>1, <3>2
    <3>3. CASE t.job # "ask"
      BY <1>2, <3>1, <3>3 DEF Orderly, Unasked, OnItsWay, Posted
    <3>4. QED
      BY <3>2, <3>3
  <2>2. QED
    BY <1>1, <1>2, <1>4, <1>5, <2>1, Kinds DEF Orderly, Unasked, OnItsWay, Posted
<1>16. Owing'
  <2>1. ASSUME NEW q \in Popup, Waiting(q) PROVE Waiting(q)'
    BY <1>1, <1>2, <1>3, <1>4, <1>5, <2>1, OnItsWayIs, Kinds
  <2>2. \A q \in Popup : at'[Ask(q)] = "over" => at[Ask(q)] = "over" \/ Waiting(q)'
    BY <1>3, <1>4, <1>5, OnItsWayIs, Kinds
  <2>3. t.job # "ask" => Closing(t) /\ at[t] = "post"
    BY <1>2 DEF Closing
  <2>4. \A u \in PopupThreads : u # t => at'[u] = at[u]
    BY <1>4
  <2>5. QED
    BY <1>1, <1>7, <1>9, <2>1, <2>2, <2>3, <2>4 DEF Orderly, Owing
<1>17. QED
  BY <1>8, <1>10, <1>11, <1>12, <1>13, <1>14, <1>15, <1>16 DEF Orderly

\* The main loop takes the first popup posted; none is open.
LEMMA TakeKeeps ==
  ASSUME PopupTypeOK, Placed, Orderly, TakeEvent, ~crossed'
  PROVE  Orderly'
<1>1. /\ UNCHANGED <<from, view, laid, popupQueue, at, takes, paused, served, stranded>>
      /\ popup' = Head(events) /\ events' = Tail(events)
      /\ events # <<>> /\ events \in Seq(Popup)
  BY DEF TakeEvent, PopupTypeOK
<1>2. popup = NoPopup /\ (\A t \in PopupThreads : ~Closing(t)) /\ at[Esc] = "idle"
  BY DEF TakeEvent, Crossed, MainBusy
<1>3. /\ popup' \in Popup /\ popup' = events[1] /\ 1 \in 1..Len(events)
      /\ \A q \in Popup : Contains(events, q) <=> q = popup' \/ Contains(events', q)
      /\ Len(events') = Len(events) - 1
      /\ \A i \in 1..(Len(events) - 1) : events'[i] = events[i + 1]
  <2>1. Head(events) \in Popup /\ Head(events) = events[1] /\ 1 \in 1..Len(events)
    BY <1>1
  <2>2. /\ Len(Tail(events)) = Len(events) - 1
        /\ \A i \in 1..(Len(events) - 1) : Tail(events)[i] = events[i + 1]
    BY <1>1
  <2>3. \A q : Contains(events, q) <=> q = Head(events) \/ Contains(Tail(events), q)
    BY <1>1, TailHolds
  <2>4. QED
    BY <1>1, <2>1, <2>2, <2>3
<1>4. popup' # NoPopup /\ view' = NoPopup
  BY <1>1, <1>2, <1>3, Kinds DEF Orderly
<1>5. (\A t \in PopupThreads : at[t] # "panic")' /\ (view \in {NoPopup, popup})'
  BY <1>1, <1>4 DEF Orderly
<1>6. \A t \in PopupThreads : ~Closing(t)' /\ (Answering(t)' <=> Answering(t))
  BY <1>1, <1>2 DEF Closing, Answering
<1>7. ClicksAlone'
  BY <1>2, <1>6 DEF Orderly, ClicksAlone
<1>8. EscFinds' /\ OneCloses'
  BY <1>1, <1>2, <1>6 DEF EscFinds, OneCloses
<1>9. QueueMoves'
  <2>1. Serving => Serving'
    <3>1. ASSUME NEW i \in 1..Len(events), from[events[i]] # "trezor" PROVE Serving'
      <4>1. CASE i = 1
        BY <1>1, <1>2, <1>3, <1>4, <1>6, <3>1, <4>1 DEF Serving, Closing
      <4>2. CASE i # 1
        <5>1. /\ i - 1 \in 1..(Len(events) - 1) /\ i - 1 \in 1..Len(events')
              /\ events'[i - 1] = events[i]
          <6>1. Len(events) \in Nat
            BY <1>1
          <6>2. i - 1 \in 1..(Len(events) - 1) /\ (i - 1) + 1 = i
            BY <4>2, <6>1
          <6>3. QED
            BY <1>3, <6>2
        <5>2. QED
          BY <1>1, <3>1, <5>1 DEF Serving
      <4>3. QED
        BY <4>1, <4>2
    <3>2. QED
      BY <1>2, <3>1 DEF Serving
  <2>2. QED
    BY <1>1, <1>2, <1>4, <2>1 DEF Orderly, QueueMoves
<1>10. TrezorAlone'
  <2>1. TrezorAlone
    BY DEF Orderly
  <2>3. ASSUME NEW i \in 1..Len(events') PROVE from[events'[i]] # "trezor"
    <3>1. i + 1 \in 1..Len(events) /\ i + 1 # 1 /\ events'[i] = events[i + 1]
      BY <1>1, <1>3
    <3>2. QED
      BY <2>1, <3>1 DEF TrezorAlone
  <2>4. QED
    BY <1>1, <2>1, <2>3 DEF TrezorAlone
<1>11. Unasked'
  BY <1>1, <1>3 DEF Orderly, Unasked, OnItsWay, Posted
<1>12. Owing'
  <2>1. ASSUME NEW q \in Popup, Waiting(q) PROVE Waiting(q)' \/ popup' = q
    BY <1>1, <1>3, <2>1, OnItsWayIs
  <2>2. QED
    BY <1>1, <1>2, <1>6, <2>1, Kinds DEF Orderly, Owing
<1>13. QED
  BY <1>5, <1>7, <1>8, <1>9, <1>10, <1>11, <1>12 DEF Orderly

\* The open popup gets its view.
LEMMA LayoutKeeps ==
  ASSUME PopupTypeOK, Placed, Orderly, Layout, ~crossed'
  PROVE  Orderly'
<1>1. /\ UNCHANGED <<from, popup, events, popupQueue, at, takes, paused, served, stranded>>
      /\ view' = popup /\ laid \subseteq laid'
  BY DEF Layout, Orderly
<1>2. \A t \in PopupThreads : ~Closing(t)
  BY DEF Layout, Crossed
<1>3. \A t \in PopupThreads : ~Closing(t)' /\ (Answering(t)' <=> Answering(t))
  BY <1>1, <1>2 DEF Closing, Answering
<1>4. ClicksAlone' /\ OneCloses'
  BY <1>1, <1>3 DEF Orderly, ClicksAlone, OneCloses
<1>5. EscFinds' /\ QueueMoves' /\ TrezorAlone'
  BY <1>1 DEF Orderly, EscFinds, QueueMoves, Serving, TrezorAlone
<1>6. Unasked'
  BY <1>1 DEF Orderly, Unasked, OnItsWay, Posted
<1>7. Owing'
  BY <1>1, <1>2, <1>3, OnItsWayIs DEF Orderly, Owing
<1>8. QED
  BY <1>1, <1>4, <1>5, <1>6, <1>7 DEF Orderly

\* A goroutine that is asked to close the popup, that works for a click, or that ends its
\* work, and nothing else.
LEMMA AnswerKeeps ==
  ASSUME PopupTypeOK, Placed, Orderly, NEW t \in PopupThreads, t.job # "ask",
         NEW l \in {"act", "check", "hide", "over", "fault"},
         at[t] \in {"idle", "act", "check"}, Step(t, l),
         UNCHANGED <<from, screen, popupQueue, takes, paused, served, stranded>>,
         \/ t = Esc /\ l = "hide" /\ popup \in laid
         \/ t # Esc /\ ClicksAlone'
  PROVE  Orderly'
<1>1. \A u \in PopupThreads : at'[u] = IF u = t THEN l ELSE at[u]
  BY StepDoes
<1>2. UNCHANGED <<from, popup, view, laid, events, popupQueue, takes, paused, served, stranded>>
  BY DEF screen
<1>3. \A p \in Popup : at'[Ask(p)] = at[Ask(p)]
  BY <1>1, Kinds
<1>4. \A u \in PopupThreads : /\ Closing(u)' <=> Closing(u)
                              /\ at'[u] = "post" <=> at[u] = "post"
  BY <1>1 DEF Closing
<1>5. \A u \in PopupThreads : Closing(u) => at'[u] = at[u]
  BY <1>1 DEF Closing
<1>6. (\A u \in PopupThreads : at[u] # "panic")' /\ (view \in {NoPopup, popup})'
  BY <1>1, <1>2 DEF Orderly
<1>7. ClicksAlone'
  <2>1. CASE t = Esc
    <3>1. \A u \in PopupThreads \ {Esc} : Answering(u)' <=> Answering(u)
      BY <1>1, <2>1 DEF Answering
    <3>2. QED
      BY <1>2, <1>4, <3>1, Kinds DEF Orderly, ClicksAlone
  <2>2. QED
    BY <2>1
<1>8. EscFinds'
  BY <1>1, <1>2, Kinds DEF Orderly, EscFinds
<1>9. OneCloses'
  BY <1>2, <1>3, <1>4, <1>5 DEF Orderly, OneCloses
<1>10. QueueMoves' /\ TrezorAlone'
  <2>1. Serving => Serving'
    BY <1>1, <1>2 DEF Serving
  <2>2. QED
    BY <1>2, <1>3, <1>4, <2>1 DEF Orderly, QueueMoves, TrezorAlone
<1>11. Unasked'
  BY <1>2, <1>3, <1>4 DEF Orderly, Unasked, OnItsWay, Posted
<1>12. Owing'
  BY <1>2, <1>3, <1>4, <1>5, OnItsWayIs DEF Orderly, Owing
<1>13. QED
  BY <1>6, <1>7, <1>8, <1>9, <1>10, <1>11, <1>12 DEF Orderly

\* A click on the open popup, while no other one is answered.
LEMMA ClickKeeps ==
  ASSUME PopupTypeOK, Placed, Orderly, NEW t \in PopupThreads, Click(t), ~crossed'
  PROVE  Orderly'
<1>1. /\ t.job # "ask" /\ t # Esc /\ at[t] = "idle" /\ Step(t, "act")
      /\ popup # NoPopup /\ popup \in laid /\ popup = t.of
  BY Kinds DEF Click, Is
<1>2. UNCHANGED <<from, screen, popupQueue, takes, paused, served, stranded>>
  BY DEF Click
<1>3. /\ \A u \in PopupThreads : ~Answering(u) /\ ~Closing(u)
      /\ \A u \in PopupThreads : at'[u] = IF u = t THEN "act" ELSE at[u]
  BY <1>1, StepDoes DEF Click, Crossed
<1>4. \A u \in PopupThreads : (Answering(u)' => u = t) /\ ~Closing(u)'
  BY <1>3 DEF Answering, Closing
<1>5. ClicksAlone'
  BY <1>1, <1>2, <1>4 DEF ClicksAlone, screen
<1>6. QED
  BY <1>1, <1>2, <1>5, AnswerKeeps

\* What a dialogue does leaves popups alone.
LEMMA ActsKeeps ==
  ASSUME PopupTypeOK, Placed, Orderly, NEW t \in PopupThreads, Acts(t)
  PROVE  Orderly'
<1>1. PICK l \in {"check", "hide", "over", "fault"} : Step(t, l)
  BY DEF Acts
<1>2. /\ t.job # "ask" /\ t # Esc /\ at[t] \in {"act", "check"}
      /\ UNCHANGED <<from, screen, popupQueue, takes, paused, served, stranded>>
  BY Kinds DEF Acts, Is, Placed
<1>3. \A u \in PopupThreads : at'[u] = IF u = t THEN l ELSE at[u]
  BY <1>1, StepDoes
<1>4. \A u \in PopupThreads : (Answering(u)' => Answering(u)) /\ (Closing(u)' => Closing(u))
  BY <1>2, <1>3 DEF Answering, Closing
<1>5. ClicksAlone'
  BY <1>2, <1>4 DEF Orderly, ClicksAlone, screen
<1>6. QED
  BY <1>1, <1>2, <1>5, AnswerKeeps

\* ESC, with the popup laid out.
LEMMA EscKeeps ==
  ASSUME PopupTypeOK, Placed, Orderly, PressEsc
  PROVE  Orderly'
<1>1. /\ Esc \in PopupThreads /\ Esc.job # "ask" /\ at[Esc] = "idle" /\ Step(Esc, "hide")
      /\ popup \in laid /\ UNCHANGED <<from, screen, popupQueue, takes, paused, served, stranded>>
  BY Kinds DEF PressEsc, Is
<1>2. QED
  BY <1>1, AnswerKeeps

\* A goroutine begins to close the popup, and is the only one at work.
LEMMA HideKeeps ==
  ASSUME PopupTypeOK, Placed, Orderly, NEW t \in PopupThreads, HidePopup(t), ~crossed'
  PROVE  Orderly'
<1>1. /\ UNCHANGED <<from, popup, view, laid, events, popupQueue, paused, served, stranded>>
      /\ at[t] = "hide"
  BY DEF HidePopup, Is, screen
<1>2. /\ t.job # "ask" /\ events = <<>>
      /\ \A u \in PopupThreads : ~Closing(u) /\ (u # t => ~Deciding(u) /\ ~Answering(u))
  <2>1. t.job # "ask"
    BY <1>1, Kinds DEF Placed
  <2>2. /\ \A u \in PopupThreads : u # t => ~Closing(u) /\ ~Deciding(u) /\ ~Answering(u)
        /\ events = <<>>
    BY DEF HidePopup, Crossed
  <2>3. ~Closing(t)
    BY <1>1 DEF Closing
  <2>4. QED
    BY <2>1, <2>2, <2>3
<1>3. popup # NoPopup => popup \in laid /\ (t # Esc => popup = t.of)
  <2>1. CASE t = Esc
    BY <1>1, <2>1 DEF Orderly, EscFinds
  <2>2. CASE t # Esc
    BY <1>1, <2>2 DEF Orderly, ClicksAlone, Answering
  <2>3. QED
    BY <2>1, <2>2
<1>4. PICK l \in {"resume", "over", "idle"} :
        /\ \A u \in PopupThreads : at'[u] = IF u = t THEN l ELSE at[u]
        /\ popup # NoPopup <=> l = "resume"
  <2>1. CASE popup = NoPopup
    <3>1. PICK l \in {"over", "idle"} : Step(t, l)
      BY <2>1 DEF HidePopup, Ended
    <3>2. QED
      BY <2>1, <3>1, StepDoes
  <2>2. CASE popup # NoPopup
    <3>1. Step(t, "resume")
      BY <1>3, <2>2 DEF HidePopup
    <3>2. QED
      BY <2>2, <3>1, StepDoes
  <2>3. QED
    BY <2>1, <2>2
<1>5. /\ \A u \in PopupThreads : u # t => takes'[u] = takes[u]
      /\ popup # NoPopup => takes'[t] = popup
  BY DEF HidePopup, PopupTypeOK
<1>6. \A p \in Popup : /\ at'[Ask(p)] = at[Ask(p)] /\ takes'[Ask(p)] = takes[Ask(p)]
                       /\ at[Ask(p)] \notin {"show", "queue"}
  BY <1>2, <1>4, <1>5, Kinds DEF Deciding
<1>7. /\ \A u \in PopupThreads : Closing(u)' => u = t /\ at'[t] = "resume" /\ popup # NoPopup
      /\ \A u \in PopupThreads : ~Answering(u)'
  BY <1>2, <1>4 DEF Closing, Answering
<1>8. \A u \in PopupThreads : at[u] # "post" /\ at'[u] # "post"
  BY <1>2, <1>4 DEF Closing
<1>9. (\A u \in PopupThreads : at[u] # "panic")' /\ (view \in {NoPopup, popup})'
  BY <1>1, <1>4 DEF Orderly
<1>10. ClicksAlone'
  BY <1>7 DEF ClicksAlone
<1>11. EscFinds'
  BY <1>1, <1>4, Kinds DEF Orderly, EscFinds
<1>12. OneCloses'
  BY <1>1, <1>3, <1>5, <1>6, <1>7 DEF OneCloses
<1>13. QueueMoves' /\ TrezorAlone'
  <2>1. Serving => Serving'
    BY <1>1, <1>4 DEF Serving
  <2>2. QED
    BY <1>1, <1>6, <1>8, <2>1 DEF Orderly, QueueMoves, TrezorAlone
<1>14. Unasked'
  BY <1>1, <1>6, <1>8 DEF Orderly, Unasked, OnItsWay, Posted
<1>15. Owing'
  <2>1. \A q \in Popup : Waiting(q)' <=> Waiting(q)
    BY <1>1, <1>6, <1>8, OnItsWayIs
  <2>2. QED
    BY <1>1, <1>6, <1>7, <2>1 DEF Orderly, Owing
<1>16. QED
  BY <1>9, <1>10, <1>11, <1>12, <1>13, <1>14, <1>15 DEF Orderly

\* The goroutine that closes a popup, from one step to the next.
LEMMA CloserGoes ==
  ASSUME PopupTypeOK, Placed, Orderly, NEW t \in PopupThreads, Closing(t),
         NEW l \in {"close", "delete", "pop", "post", "clear", "over", "idle"}, Step(t, l)
  PROVE  /\ t.job # "ask" /\ popup # NoPopup /\ popup \in laid
         /\ at[t] \in {"resume", "close"} => takes[t] = popup
         /\ at[t] = "clear" => view = NoPopup
         /\ t # Esc => popup = t.of
         /\ \A u \in PopupThreads : at'[u] = IF u = t THEN l ELSE at[u]
         /\ at'[t] = l /\ \A u \in PopupThreads : u # t => at'[u] = at[u]
         /\ \A u \in PopupThreads : u # t => ~Closing(u) /\ ~Closing(u)'
         /\ \A u \in PopupThreads : ~Answering(u)' \/ u = Esc
         /\ \A p \in Popup : /\ at'[Ask(p)] = at[Ask(p)] /\ t # Ask(p)
                             /\ at[Ask(p)] # "queue"
                             /\ at[Ask(p)] = "show" => from[p] = "trezor"
         /\ ClicksAlone'
         /\ (\A u \in PopupThreads : at[u] # "panic")'
         /\ at'[Esc] = "hide" => popup \in laid
<1>1. t.job # "ask"
  BY Kinds DEF Closing, Placed
<1>2. /\ popup # NoPopup /\ popup \in laid
      /\ at[t] \in {"resume", "close"} => takes[t] = popup
      /\ at[t] = "clear" => view = NoPopup
      /\ t # Esc => popup = t.of
      /\ \A u \in PopupThreads : Closing(u) => u = t
      /\ \A p \in Popup : at[Ask(p)] # "queue" /\ (at[Ask(p)] = "show" => from[p] = "trezor")
  BY DEF Orderly, OneCloses
<1>3. \A u \in PopupThreads : at'[u] = IF u = t THEN l ELSE at[u]
  BY StepDoes
<1>4. \A u \in PopupThreads : u # t => ~Closing(u) /\ ~Closing(u)'
  BY <1>2, <1>3 DEF Closing
<1>5. \A u \in PopupThreads : ~Answering(u)' \/ u = Esc
  <2>1. \A u \in PopupThreads : ~Answering(u) \/ u = Esc
    BY DEF Orderly, ClicksAlone
  <2>2. QED
    BY <1>3, <2>1 DEF Answering
<1>6. ClicksAlone'
  BY <1>5 DEF ClicksAlone
<1>7. (\A u \in PopupThreads : at[u] # "panic")'
  BY <1>3 DEF Orderly
<1>8. \A p \in Popup : at'[Ask(p)] = at[Ask(p)] /\ t # Ask(p)
  BY <1>1, <1>3, Kinds
<1>9. at'[t] = l /\ \A u \in PopupThreads : u # t => at'[u] = at[u]
  BY <1>3
<1>10. QED
  BY <1>1, <1>2, <1>3, <1>4, <1>5, <1>6, <1>7, <1>8, <1>9

\* The operation of the popup that is closed gets its time back.
LEMMA ResumeKeeps ==
  ASSUME PopupTypeOK, Placed, Orderly, NEW t \in PopupThreads, Resume(t)
  PROVE  Orderly'
<1>1. at[t] = "resume" /\ Closing(t) /\ Step(t, "close")
  BY DEF Resume, Is, Closing
<1>2. /\ UNCHANGED <<from, popup, view, laid, events, popupQueue, takes, served, stranded>>
      /\ paused' = paused \ {takes[t]}
  BY DEF Resume, screen
<1>3. /\ popup # NoPopup /\ popup \in laid /\ takes[t] = popup /\ at'[t] = "close"
      /\ \A u \in PopupThreads : u # t => at'[u] = at[u] /\ ~Closing(u) /\ ~Closing(u)'
      /\ \A p \in Popup : at'[Ask(p)] = at[Ask(p)] /\ at[Ask(p)] # "queue"
                          /\ (at[Ask(p)] = "show" => from[p] = "trezor")
      /\ ClicksAlone' /\ (\A u \in PopupThreads : at[u] # "panic")'
  BY <1>1, CloserGoes
<1>4. EscFinds' /\ (view \in {NoPopup, popup})'
  BY <1>2, <1>3 DEF Orderly, EscFinds
<1>5. OneCloses'
  BY <1>1, <1>2, <1>3 DEF Orderly, OneCloses
<1>6. QueueMoves' /\ TrezorAlone' /\ Unasked'
  <2>1. \A u \in PopupThreads : at'[u] = "post" <=> at[u] = "post"
    BY <1>1, <1>3
  <2>2. Serving => Serving'
    BY <1>2, <1>3 DEF Serving
  <2>3. QED
    BY <1>2, <1>3, <2>1, <2>2 DEF Orderly, QueueMoves, TrezorAlone, Unasked, OnItsWay, Posted
<1>7. Owing'
  <2>1. \A q \in Popup : Waiting(q)' <=> Waiting(q)
    BY <1>1, <1>2, <1>3, OnItsWayIs
  <2>2. QED
    BY <1>2, <1>3, <2>1 DEF Orderly, Owing
<1>8. QED
  BY <1>3, <1>4, <1>5, <1>6, <1>7 DEF Orderly

\* The message of the popup that is closed is answered.
LEMMA OnCloseKeeps ==
  ASSUME PopupTypeOK, Placed, Orderly, NEW t \in PopupThreads, OnClose(t)
  PROVE  Orderly'
<1> DEFINE l == IF from[takes[t]] = "trezor" THEN "delete" ELSE "pop"
<1>1. at[t] = "close" /\ Closing(t) /\ Step(t, l) /\ l \in {"delete", "pop"}
  BY DEF OnClose, Is, Closing
<1>2. UNCHANGED <<from, popup, view, laid, events, popupQueue, takes, paused>>
  BY DEF OnClose, screen
<1>3. /\ l = "delete" => /\ from[takes[t]] = "trezor" /\ served' = served
                         /\ stranded \subseteq stranded'
                         /\ t = Esc => takes[t] \in stranded'
      /\ l = "pop" => /\ from[takes[t]] # "trezor" /\ stranded' = stranded
                      /\ served' = [served EXCEPT ![takes[t]] = @ + 1]
  BY DEF OnClose
<1> HIDE DEF l
<1>4. /\ popup # NoPopup /\ popup \in laid /\ takes[t] = popup /\ at'[t] = l
      /\ t # Esc => popup = t.of
      /\ \A u \in PopupThreads : u # t => at'[u] = at[u] /\ ~Closing(u) /\ ~Closing(u)'
      /\ \A p \in Popup : at'[Ask(p)] = at[Ask(p)] /\ at[Ask(p)] # "queue"
                          /\ (at[Ask(p)] = "show" => from[p] = "trezor")
      /\ ClicksAlone' /\ (\A u \in PopupThreads : at[u] # "panic")'
  BY <1>1, CloserGoes
<1>5. EscFinds' /\ (view \in {NoPopup, popup})'
  BY <1>1, <1>2, <1>4 DEF Orderly, EscFinds
<1>6. OneCloses'
  BY <1>1, <1>2, <1>4 DEF OneCloses
<1>7. \A u \in PopupThreads : at'[u] = "post" <=> at[u] = "post"
  BY <1>1, <1>4
<1>8. QueueMoves' /\ TrezorAlone' /\ Unasked'
  <2>1. stranded \subseteq stranded'
    BY <1>1, <1>3
  <2>2. Serving => Serving'
    BY <1>1, <1>2, <1>3, <1>4 DEF Serving
  <2>3. QED
    BY <1>2, <1>4, <1>7, <2>1, <2>2 DEF Orderly, QueueMoves, TrezorAlone, Unasked, OnItsWay,
                                       Posted
<1>9. Owing'
  <2>1. \A q \in Popup : Waiting(q)' <=> Waiting(q)
    BY <1>2, <1>4, <1>7, OnItsWayIs
  <2>2. /\ popup \in Popup /\ (l = "pop" => served'[popup] # 0)
        /\ \A q \in Popup : q # popup => served'[q] = served[q]
        /\ stranded \subseteq stranded'
    BY <1>1, <1>3, <1>4 DEF PopupTypeOK
  <2>3. Closing(t) /\ at[t] = "close"
    BY <1>1
  <2>4. ASSUME NEW q \in Popup, q \in paused' PROVE Waiting(q)'
    BY <1>2, <2>1, <2>3, <2>4 DEF Orderly, Owing
  <2>5. ASSUME NEW q \in Popup, at'[Ask(q)] = "over", served'[q] = 0, q # popup
        PROVE  Waiting(q)' \/ (from'[q] = "trezor" /\ q \in stranded')
    BY <1>2, <1>4, <2>1, <2>2, <2>5 DEF Orderly, Owing
  <2>6. ASSUME served'[popup] = 0
        PROVE  \/ from'[popup] = "trezor" /\ popup \in stranded'
               \/ \A u \in PopupThreads : Closing(u)' => from'[popup] = "trezor" /\ u # Esc
    BY <1>1, <1>2, <1>3, <1>4, <2>2, <2>6
  <2>7. QED
    BY <1>2, <2>4, <2>5, <2>6 DEF Owing
<1>10. QED
  BY <1>4, <1>5, <1>6, <1>8, <1>9 DEF Orderly

\* The next popup leaves the queue for the goroutine that will show it.
LEMMA PopKeeps ==
  ASSUME PopupTypeOK, Placed, Orderly, NEW t \in PopupThreads, PopQueue(t)
  PROVE  Orderly'
<1> DEFINE l == IF popupQueue = <<>> THEN "delete" ELSE "post"
<1>1. at[t] = "pop" /\ Closing(t) /\ Step(t, l) /\ l \in {"delete", "post"}
  BY DEF PopQueue, Is, Closing
<1>2. UNCHANGED <<from, popup, view, laid, events, paused, served, stranded>>
  BY DEF PopQueue, screen
<1>3. l = "delete" <=> popupQueue = <<>>
  OBVIOUS
<1>4. /\ l = "delete" => popupQueue' = popupQueue /\ takes' = takes
      /\ l = "post" => /\ popupQueue' = Tail(popupQueue) /\ takes'[t] = Head(popupQueue)
                       /\ \A u \in PopupThreads : u # t => takes'[u] = takes[u]
  BY DEF PopQueue, PopupTypeOK
<1> HIDE DEF l
<1>5. /\ popup # NoPopup /\ popup \in laid /\ at'[t] = l
      /\ t # Esc => popup = t.of
      /\ \A u \in PopupThreads : u # t => at'[u] = at[u] /\ ~Closing(u) /\ ~Closing(u)'
      /\ \A p \in Popup : at'[Ask(p)] = at[Ask(p)] /\ at[Ask(p)] # "queue"
                          /\ (at[Ask(p)] = "show" => from[p] = "trezor")
      /\ ClicksAlone' /\ (\A u \in PopupThreads : at[u] # "panic")'
  BY <1>1, CloserGoes
<1>6. \A u \in PopupThreads : (at'[u] = "post" => u = t) /\ at[u] # "post"
  BY <1>1, <1>5 DEF Closing
<1>7. /\ l = "post" => Head(popupQueue) \in Popup
      /\ \A q \in Popup : Contains(popupQueue, q) <=>
           (l = "post" /\ q = Head(popupQueue)) \/ Contains(popupQueue', q)
  <2>1. CASE popupQueue = <<>>
    BY <1>3, <1>4, <2>1, <1>1
  <2>2. CASE popupQueue # <<>>
    <3>1. popupQueue \in Seq(Popup) /\ l = "post"
      BY <1>1, <1>3, <2>2 DEF PopupTypeOK
    <3>2. \A q : Contains(popupQueue, q) <=>
                 q = Head(popupQueue) \/ Contains(Tail(popupQueue), q)
      BY <2>2, <3>1, TailHolds
    <3>3. Head(popupQueue) \in Popup
      BY <2>2, <3>1
    <3>4. popupQueue' = Tail(popupQueue)
      BY <1>4, <3>1
    <3>5. QED
      BY <3>1, <3>2, <3>3, <3>4
  <2>3. QED
    BY <2>1, <2>2
<1>8. EscFinds' /\ (view \in {NoPopup, popup})'
  BY <1>1, <1>2, <1>5 DEF Orderly, EscFinds
<1>9. OneCloses'
  BY <1>1, <1>2, <1>3, <1>4, <1>5 DEF OneCloses
<1>10. QueueMoves'
  <2>1. l = "post" => (Serving => Serving')
    BY <1>2, <1>5 DEF Serving
  <2>2. l = "delete" => \A q \in Popup : ~Contains(popupQueue', q)
    BY <1>3, <1>4 DEF Contains
  <2>3. QED
    BY <1>1, <1>2, <1>5, <1>7, <2>1, <2>2 DEF Orderly, QueueMoves
<1>11. TrezorAlone'
  <2>1. TrezorAlone
    BY DEF Orderly
  <2>3. \A i \in 1..Len(events) : from[events[i]] # "trezor"
    BY <1>5, <2>1 DEF TrezorAlone
  <2>4. (\A q \in Popup : at[Ask(q)] \in {"look", "queue"} \/ Contains(popupQueue, q) =>
           from[q] # "trezor")'
    BY <1>2, <1>5, <1>7, <2>1 DEF TrezorAlone
  <2>5. ASSUME NEW u \in PopupThreads, at'[u] = "post" PROVE from'[takes'[u]] # "trezor"
    <3>1. u = t /\ l = "post" /\ takes'[u] = Head(popupQueue)
      BY <1>4, <1>5, <1>6, <2>5
    <3>2. Contains(popupQueue, Head(popupQueue)) /\ Head(popupQueue) \in Popup
      BY <1>7, <3>1
    <3>3. QED
      BY <1>2, <2>1, <3>1, <3>2 DEF TrezorAlone
  <2>6. QED
    BY <1>2, <2>3, <2>4, <2>5 DEF TrezorAlone
<1>12. Unasked'
  <2>1. \A q \in Popup : Posted(q)' => Contains(popupQueue, q)
    BY <1>4, <1>5, <1>6, <1>7 DEF Posted
  <2>2. QED
    BY <1>2, <1>5, <1>7, <2>1 DEF Orderly, Unasked, OnItsWay
<1>13. Owing'
  <2>1. ASSUME NEW q \in Popup, Waiting(q) PROVE Waiting(q)'
    <3>1. \/ at[Ask(q)] \in {"pause", "look", "queue", "show"}
          \/ Contains(popupQueue, q) \/ Contains(events, q)
      BY <1>6, <2>1, OnItsWayIs
    <3>2. l = "post" /\ q = Head(popupQueue) => at'[t] = "post" /\ takes'[t] = q
      BY <1>4, <1>5
    <3>3. QED
      BY <1>2, <1>5, <1>7, <3>1, <3>2, OnItsWayIs
  <2>2. ASSUME NEW q \in Popup, q \in paused' PROVE Waiting(q)'
    BY <1>1, <1>2, <2>1, <2>2 DEF Orderly, Owing
  <2>3. ASSUME NEW q \in Popup, at'[Ask(q)] = "over", served'[q] = 0
        PROVE  \/ Waiting(q)'
               \/ popup' = q /\ \A u \in PopupThreads :
                                 Closing(u)' => from'[q] = "trezor" /\ u # Esc
               \/ from'[q] = "trezor" /\ q \in stranded'
    BY <1>1, <1>2, <1>5, <2>1, <2>3 DEF Orderly, Owing
  <2>4. QED
    BY <2>2, <2>3 DEF Owing
<1>14. QED
  BY <1>5, <1>8, <1>9, <1>10, <1>11, <1>12, <1>13 DEF Orderly

\* The view of the popup that is closed goes.
LEMMA DeleteKeeps ==
  ASSUME PopupTypeOK, Placed, Orderly, NEW t \in PopupThreads, DeleteView(t)
  PROVE  Orderly'
<1>1. at[t] = "delete" /\ Closing(t)
  BY DEF DeleteView, Is, Closing
<1>2. UNCHANGED <<from, popup, laid, events, popupQueue, takes, paused, served, stranded>>
  BY DEF DeleteView
<1>3. popup \in laid /\ view' = NoPopup /\ Step(t, "clear")
  BY <1>1 DEF Orderly, OneCloses, DeleteView
<1>4. /\ popup # NoPopup /\ popup \in laid /\ at'[t] = "clear"
      /\ t # Esc => popup = t.of
      /\ \A u \in PopupThreads : u # t => at'[u] = at[u] /\ ~Closing(u) /\ ~Closing(u)'
      /\ \A p \in Popup : at'[Ask(p)] = at[Ask(p)] /\ at[Ask(p)] # "queue"
                          /\ (at[Ask(p)] = "show" => from[p] = "trezor")
      /\ ClicksAlone' /\ (\A u \in PopupThreads : at[u] # "panic")'
  BY <1>1, <1>3, CloserGoes
<1>5. EscFinds' /\ (view \in {NoPopup, popup})'
  BY <1>2, <1>3, <1>4 DEF Orderly, EscFinds
<1>6. OneCloses'
  BY <1>2, <1>3, <1>4 DEF OneCloses
<1>7. \A u \in PopupThreads : at'[u] = "post" <=> at[u] = "post"
  BY <1>1, <1>4
<1>8. QueueMoves' /\ TrezorAlone' /\ Unasked'
  <2>1. Serving => Serving'
    BY <1>1, <1>2 DEF Serving
  <2>2. QED
    BY <1>2, <1>4, <1>7, <2>1 DEF Orderly, QueueMoves, TrezorAlone, Unasked, OnItsWay, Posted
<1>9. Owing'
  <2>1. \A q \in Popup : Waiting(q)' <=> Waiting(q)
    BY <1>2, <1>4, <1>7, OnItsWayIs
  <2>2. ASSUME NEW q \in Popup, q \in paused' PROVE Waiting(q)'
    BY <1>1, <1>2, <2>1, <2>2 DEF Orderly, Owing
  <2>3. ASSUME NEW q \in Popup, at'[Ask(q)] = "over", served'[q] = 0
        PROVE  \/ Waiting(q)'
               \/ popup' = q /\ \A u \in PopupThreads :
                                 Closing(u)' => from'[q] = "trezor" /\ u # Esc
               \/ from'[q] = "trezor" /\ q \in stranded'
    BY <1>1, <1>2, <1>4, <2>1, <2>3 DEF Orderly, Owing
  <2>4. QED
    BY <2>2, <2>3 DEF Owing
<1>10. QED
  BY <1>4, <1>5, <1>6, <1>8, <1>9 DEF Orderly

\* The popup is closed, with the next one posted or none queued.
LEMMA ClearKeeps ==
  ASSUME PopupTypeOK, Placed, Orderly, NEW t \in PopupThreads, ClearPopup(t)
  PROVE  Orderly'
<1> DEFINE l == IF t = Esc THEN "idle" ELSE "over"
<1>1. at[t] = "clear" /\ Closing(t) /\ l \in {"idle", "over"}
  BY DEF ClearPopup, Is, Closing
<1>2. UNCHANGED <<from, view, laid, events, popupQueue, takes, paused, stranded>>
  BY DEF ClearPopup
<1>3. /\ popup # NoPopup /\ popup' = NoPopup /\ Step(t, l)
      /\ served' = IF t # Esc /\ from[t.of] = "trezor"
                   THEN [served EXCEPT ![t.of] = @ + 1] ELSE served
  BY <1>1 DEF Orderly, OneCloses, ClearPopup, Ended
<1> HIDE DEF l
<1>4. /\ view = NoPopup /\ at'[t] = l /\ (t # Esc => popup = t.of)
      /\ \A u \in PopupThreads : u # t => at'[u] = at[u] /\ ~Closing(u)'
      /\ \A p \in Popup : at'[Ask(p)] = at[Ask(p)] /\ at[Ask(p)] # "queue"
      /\ ClicksAlone' /\ (\A u \in PopupThreads : at[u] # "panic")'
  BY <1>1, <1>3, CloserGoes
<1>5. \A u \in PopupThreads : ~Closing(u)'
  BY <1>1, <1>4 DEF Closing
<1>6. EscFinds' /\ OneCloses' /\ QueueMoves' /\ (view \in {NoPopup, popup})'
  <2>1. Serving => Serving'
    BY <1>1, <1>2 DEF Serving
  <2>2. QED
    BY <1>2, <1>3, <1>4, <1>5, <2>1 DEF Orderly, EscFinds, OneCloses, QueueMoves
<1>7. \A u \in PopupThreads : at'[u] = "post" <=> at[u] = "post"
  BY <1>1, <1>4
<1>8. TrezorAlone'
  BY <1>2, <1>3, <1>4, <1>7 DEF Orderly, TrezorAlone
<1>9. Unasked'
  BY <1>2, <1>3, <1>4, <1>7, Kinds DEF Orderly, Unasked, OnItsWay, Posted
<1>10. Owing'
  <2>1. \A q \in Popup : Waiting(q)' <=> Waiting(q)
    BY <1>2, <1>4, <1>7, OnItsWayIs
  <2>2. ASSUME NEW q \in Popup, q \in paused' PROVE Waiting(q)'
    BY <1>1, <1>2, <2>1, <2>2 DEF Orderly, Owing
  <2>3. served \in [Popup -> Nat] /\ popup \in Popup
    BY <1>3 DEF PopupTypeOK
  <2>4. /\ \A q \in Popup : served[q] # 0 => served'[q] # 0
        /\ t # Esc /\ from[popup] = "trezor" => served'[popup] # 0
    <3>1. CASE t # Esc /\ from[t.of] = "trezor"
      <4>1. served' = [served EXCEPT ![popup] = @ + 1]
        BY <1>3, <1>4, <3>1
      <4>2. QED
        BY <2>3, <4>1
    <3>2. CASE ~(t # Esc /\ from[t.of] = "trezor")
      BY <1>3, <1>4, <3>2
    <3>3. QED
      BY <3>1, <3>2
  <2>5. ASSUME NEW q \in Popup, at'[Ask(q)] = "over", served'[q] = 0
        PROVE  Waiting(q)' \/ (from'[q] = "trezor" /\ q \in stranded')
    BY <1>1, <1>2, <1>4, <2>1, <2>4, <2>5 DEF Orderly, Owing
  <2>6. QED
    BY <2>2, <2>5 DEF Owing
<1>11. QED
  BY <1>3, <1>4, <1>6, <1>8, <1>9, <1>10 DEF Orderly

-----------------------------------------------------------------------------
(* The invariant of the popups.                                            *)

\* At the start nobody has asked for a popup.
LEMMA PopupInvInit == PopupInit => PopupInv
<1> SUFFICES ASSUME PopupInit PROVE PopupInv
  OBVIOUS
<1>1. /\ \A p \in Popup : from[p] = "command" /\ served[p] = 0
      /\ popup = NoPopup /\ view = NoPopup /\ laid = {} /\ events = <<>> /\ popupQueue = <<>>
      /\ paused = {} /\ crossed = FALSE /\ stranded = {}
      /\ \A t \in PopupThreads : at[t] = "idle" /\ takes[t] = t.of
  BY DEF PopupInit
<1>2. \A t \in PopupThreads : t.of \in Popup \cup {NoPopup}
  BY Kinds
<1>3. PopupTypeOK
  <2>1. /\ from \in [Popup -> {"command", "operation", "trezor"}] /\ served \in [Popup -> Nat]
        /\ takes \in [PopupThreads -> Popup \cup {NoPopup}]
    BY <1>2 DEF PopupInit
  <2>2. at \in [PopupThreads -> Labels]
    BY DEF PopupInit, Labels
  <2>3. events \in Seq(Popup) /\ popupQueue \in Seq(Popup)
    BY <1>1
  <2>4. crossed \in BOOLEAN
    BY <1>1
  <2>5. QED
    BY <1>1, <2>1, <2>2, <2>3, <2>4 DEF PopupTypeOK, Labels
<1>4. Placed
  BY <1>1, Kinds DEF Placed
<1>5. \A t \in PopupThreads : ~Closing(t) /\ ~Answering(t)
  BY <1>1 DEF Closing, Answering
<1>6. \A p \in Popup : ~Contains(<<>>, p)
  BY DEF Contains
<1>7. ClicksAlone /\ EscFinds /\ OneCloses /\ QueueMoves /\ TrezorAlone
  BY <1>1, <1>5, <1>6, Kinds DEF ClicksAlone, EscFinds, OneCloses, QueueMoves, TrezorAlone
<1>8. Unasked
  BY <1>1, <1>6, Kinds DEF Unasked, OnItsWay, Posted
<1>9. Owing
  BY <1>1, Kinds DEF Owing
<1>10. QED
  BY <1>1, <1>3, <1>4, <1>7, <1>8, <1>9 DEF PopupInv, Orderly

\* No step takes back that two goroutines have met.
LEMMA CrossedStays ==
  ASSUME PopupTypeOK, DialogueNext, ~crossed'
  PROVE  ~crossed
<1>1. ASSUME NEW p \in Popup, (\E by : Asks(p, by)) \/ Pause(p) \/ Look(p) \/ Queue(p)
      PROVE  crossed => crossed'
  BY <1>1 DEF Asks, Pause, Look, Queue, Crossed
<1>2. ASSUME TakeEvent \/ Layout \/ PressEsc PROVE crossed => crossed'
  BY <1>2 DEF TakeEvent, Layout, PressEsc, Crossed
<1>3. ASSUME NEW t \in PopupThreads,
             \/ Click(t) \/ Acts(t) \/ ShowPopup(t) \/ HidePopup(t) \/ Resume(t)
             \/ OnClose(t) \/ PopQueue(t) \/ DeleteView(t) \/ ClearPopup(t)
      PROVE  crossed => crossed'
  BY <1>3 DEF Click, Acts, ShowPopup, HidePopup, Resume, OnClose, PopQueue, DeleteView,
              ClearPopup, Crossed
<1>4. UNCHANGED popupVars => crossed' = crossed
  BY DEF popupVars
<1>5. QED
  BY <1>1, <1>2, <1>3, <1>4, DialoguesAct

\* Every step keeps it.
LEMMA PopupInvStep == PopupInv /\ [DialogueNext]_dialogueVars => PopupInv'
<1> SUFFICES ASSUME PopupInv, [DialogueNext]_dialogueVars PROVE PopupInv'
  OBVIOUS
<1>1. CASE UNCHANGED popupVars
  <2>1. UNCHANGED <<from, popup, view, laid, events, popupQueue, at, takes, paused, served,
                    stranded, crossed>>
    BY <1>1 DEF popupVars, screen
  <2>2. PopupTypeOK' /\ Placed'
    BY <2>1 DEF PopupInv, PopupTypeOK, Placed
  <2>3. Orderly' <=> Orderly
    BY <2>1 DEF Orderly, ClicksAlone, EscFinds, OneCloses, QueueMoves, TrezorAlone, Unasked,
                Owing, Closing, Answering, Waiting, OnItsWay, Posted, Serving
  <2>4. QED
    BY <2>1, <2>2, <2>3 DEF PopupInv
<1>2. CASE DialogueNext
  <2>1. PopupTypeOK /\ Placed /\ (~crossed' => Orderly)
    BY <1>2, CrossedStays DEF PopupInv
  <2>2. ASSUME NEW p \in Popup, (\E by : Asks(p, by)) \/ Pause(p) \/ Look(p) \/ Queue(p)
        PROVE  PopupInv'
    <3>1. PopupTypeOK' /\ Placed'
      BY <2>1, <2>2, AskTypes
    <3>2. ~crossed' => Orderly'
      BY <2>1, <2>2, AsksKeeps, PauseKeeps, LookKeeps, QueueKeeps
    <3>3. QED
      BY <3>1, <3>2 DEF PopupInv
  <2>3. ASSUME TakeEvent \/ Layout \/ PressEsc PROVE PopupInv'
    <3>1. PopupTypeOK' /\ Placed'
      BY <2>1, <2>3, MainTypes
    <3>2. ~crossed' => Orderly'
      BY <2>1, <2>3, TakeKeeps, LayoutKeeps, EscKeeps
    <3>3. QED
      BY <3>1, <3>2 DEF PopupInv
  <2>4. ASSUME NEW t \in PopupThreads,
               \/ Click(t) \/ Acts(t) \/ ShowPopup(t) \/ HidePopup(t) \/ Resume(t)
               \/ OnClose(t) \/ PopQueue(t) \/ DeleteView(t) \/ ClearPopup(t)
        PROVE  PopupInv'
    <3>1. PopupTypeOK' /\ Placed'
      BY <2>1, <2>4, ThreadTypes
    <3>2. ~crossed' => Orderly'
      BY <2>1, <2>4, ClickKeeps, ActsKeeps, ShowKeeps, HideKeeps, ResumeKeeps, OnCloseKeeps,
         PopKeeps, DeleteKeeps, ClearKeeps
    <3>3. QED
      BY <3>1, <3>2 DEF PopupInv
  <2>5. QED
    BY <1>1, <1>2, <2>2, <2>3, <2>4, DialoguesAct
<1>3. QED
  BY <1>1, <1>2 DEF dialogueVars

\* What rests is not closing or waiting for anything.
LEMMA PopupsServedLemma == PopupInv => PopupsAreServed
<1> SUFFICES ASSUME PopupInv, ~crossed PROVE PopupsAreServed
  BY DEF PopupsAreServed
<1>1. Orderly /\ Placed
  BY DEF PopupInv
<1>2. \A t \in PopupThreads : at[t] # "panic"
  BY <1>1 DEF Orderly
<1>3. ASSUME AtRest, NEW p \in Popup, at[Ask(p)] \notin {"idle", "refused"}, ~Stranded(p)
      PROVE  served[p] > 0 /\ p \notin paused
  <2>1. /\ popup = NoPopup /\ events = <<>>
        /\ \A t \in PopupThreads : at[t] \in {"idle", "over", "refused"}
    BY <1>3 DEF AtRest
  <2>2. at[Ask(p)] = "over" /\ popup # p
    BY <1>3, <2>1, Kinds
  <2>3. ~Serving
    BY <2>1 DEF Serving
  <2>4. ~Contains(popupQueue, p)
    BY <1>1, <1>3, <2>3 DEF Orderly, QueueMoves, Stranded
  <2>5. ~Waiting(p)
    BY <2>1, <2>2, <2>4 DEF Waiting, OnItsWay, Posted, Contains
  <2>6. p \notin paused
    BY <1>1, <2>2, <2>5 DEF Orderly, Owing
  <2>7. served[p] # 0
    BY <1>1, <1>3, <2>2, <2>5, <2>6 DEF Orderly, Owing, Stranded
  <2>8. served[p] \in Nat
    BY DEF PopupInv, PopupTypeOK
  <2>9. QED
    BY <2>6, <2>7, <2>8
<1>4. QED
  BY <1>2, <1>3 DEF PopupsAreServed

\* The types of the popups of ui/popup.go and of the goroutines that show and close them,
\* whatever the dialogues do.
THEOREM PopupTypes == DialogueSpec => []PopupTypeOK
<1>1. DialogueInit => PopupInv
  BY PopupInvInit DEF DialogueInit
<1>2. PopupInv => PopupTypeOK
  BY DEF PopupInv
<1>3. QED
  BY <1>1, <1>2, PopupInvStep, PTL DEF DialogueSpec

\* Every popup that was asked for has been shown and closed, its message answered and its
\* operation given its time back, when all goroutines rest, and none has found a popup gone:
\* unless two of them met in the middle of their work, and but for the popups that the one
\* of a Trezor leaves behind (ui/popup.go, gocui/popup.go, hw/trezor/pane.go).
THEOREM PopupsServed == DialogueSpec => []PopupsAreServed
<1>1. DialogueInit => PopupInv
  BY PopupInvInit DEF DialogueInit
<1>2. QED
  BY <1>1, PopupInvStep, PopupsServedLemma, PTL DEF DialogueSpec

-----------------------------------------------------------------------------
(* The signers and the addresses.                                          *)

\* What a dialogue remembers of the lists, as they are or were.
Remembers(d) ==
  /\ d.kind \in {"signer remove", "copy remove", "promote", "signer edit", "address remove"} =>
       d.index \in Nat \ {0}
  /\ d.kind \in {"copy remove", "promote"} => d.of \in DOMAIN signer
  /\ d.kind = "signer add" => d.name \in Names
  /\ d.kind \in {"signer edit", "address edit"} => d.to \in Names
  /\ d.kind = "address edit" => d.of \in DOMAIN address
  /\ d.kind = "address add" =>
       d \in [kind : {"address add"}, address : Addresses, name : Names,
              by : Names \cup {NoName}, of : {0} \cup DOMAIN signer]

Remembering == \A p \in Popup : Remembers(dlg[p])

ListTypes ==
  /\ signer \in Seq(Signer) /\ signers \in Seq(DOMAIN signer)
  /\ address \in Seq(Address) /\ addresses \in Seq(DOMAIN address)
  /\ may \in Moves /\ renamed \in BOOLEAN
  /\ dlg = [p \in Popup |-> dlg[p]]
  /\ Remembering

\* A signer, or none, that a dialogue will give to an address is of the wallet.
Signed ==
  /\ \A i \in DOMAIN addresses :
       \/ address[addresses[i]].signer = NoName
       \/ \E o \in ToSet(signers) : address[addresses[i]].signer = signer[o].name
  /\ \A p \in Popup :
       /\ dlg[p].kind = "promote" => dlg[p].of \in ToSet(signers)
       /\ dlg[p].kind = "address add" => dlg[p].of \in {0} \cup ToSet(signers)

Distinctly ==
  \A i, j \in DOMAIN addresses :
    address[addresses[i]].address = address[addresses[j]].address => i = j

\* An address that is about to be added is not there.
StillNew ==
  \A t \in PopupThreads : at[t] = "check" /\ dlg[t.of].kind = "address add" =>
    \A i \in DOMAIN addresses : address[addresses[i]].address # dlg[t.of].address

\* A dialogue that is answered was asked for.
Clicked == \A t \in PopupThreads : t # Esc /\ Answering(t) => at[Ask(t.of)] # "idle"

ListInv ==
  /\ ListTypes
  /\ ~renamed => Signed
  /\ ~crossed => Distinctly /\ StillNew /\ Clicked

-----------------------------------------------------------------------------
\* The first of the objects listed, if any, that a number is of.
LEMMA FirstIsListed ==
  ASSUME NEW S, NEW s \in Seq(S), NEW I, I \subseteq 1..Len(s), I # {}
  PROVE  Min(I) \in I /\ s[Min(I)] \in ToSet(s)
<1>1. I \subseteq Nat
  OBVIOUS
<1>2. Min(I) \in I
  BY <1>1, LeastElement
<1>3. \A k \in 1..Len(s) : k \in DOMAIN s
  OBVIOUS
<1>4. QED
  BY <1>2, <1>3 DEF ToSet

\* The signer of a name, if there is one, is listed.
LEMMA GetSignerIs ==
  ASSUME ListTypes, NEW n
  PROVE  GetSigner(n) \in {0} \cup ToSet(signers)
<1> DEFINE I == {i \in 1..Len(signers) : signer[signers[i]].name = n}
<1>1. CASE I = {}
  BY <1>1 DEF GetSigner, FirstOf, SelectInSeq
<1>2. CASE I # {}
  <2>1. Min(I) \in I /\ signers[Min(I)] \in ToSet(signers)
    BY <1>2, FirstIsListed DEF ListTypes
  <2>2. Min(I) # 0
    BY <2>1
  <2>3. GetSigner(n) = signers[Min(I)]
    BY <1>2, <2>2 DEF GetSigner, FirstOf, SelectInSeq
  <2>4. QED
    BY <2>1, <2>3
<1>3. QED
  BY <1>1, <1>2

\* An address that is not found is not listed.
LEMMA GetAddressIs ==
  ASSUME ListTypes, NEW a, GetAddress(a) = 0
  PROVE  \A i \in DOMAIN addresses : address[addresses[i]].address # a
<1> DEFINE I == {i \in 1..Len(addresses) : address[addresses[i]].address = a}
<1>1. CASE I = {}
  <2>1. DOMAIN addresses = 1..Len(addresses)
    BY DEF ListTypes
  <2>2. QED
    BY <1>1, <2>1
<1>2. CASE I # {}
  <2>1. Min(I) \in I /\ addresses[Min(I)] \in ToSet(addresses)
    BY <1>2, FirstIsListed DEF ListTypes
  <2>2. Min(I) # 0
    BY <2>1
  <2>3. GetAddress(a) = addresses[Min(I)]
    BY <1>2, <2>2 DEF GetAddress, FirstOf, SelectInSeq
  <2>4. addresses[Min(I)] # 0
    <3>1. addresses \in Seq(DOMAIN address) /\ address \in Seq(Address)
      BY DEF ListTypes
    <3>2. addresses[Min(I)] \in DOMAIN address
      BY <2>1, <3>1
    <3>3. QED
      BY <3>1, <3>2
  <2>5. QED
    BY <2>3, <2>4
<1>3. QED
  BY <1>1, <1>2
\* What is listed is a number of an object, not zero.
LEMMA ListedIs ==
  ASSUME ListTypes
  PROVE  /\ \A i \in 1..Len(signers) : i \in Nat \ {0} /\ signers[i] \in DOMAIN signer
         /\ \A i \in 1..Len(addresses) : i \in Nat \ {0} /\ addresses[i] \in DOMAIN address
         /\ \A o \in DOMAIN signer : o # 0
         /\ \A o \in DOMAIN address : o # 0
<1>1. /\ signer \in Seq(Signer) /\ signers \in Seq(DOMAIN signer)
      /\ address \in Seq(Address) /\ addresses \in Seq(DOMAIN address)
  BY DEF ListTypes
<1>2. /\ \A i \in 1..Len(signers) : i \in Nat \ {0} /\ signers[i] \in DOMAIN signer
      /\ \A i \in 1..Len(addresses) : i \in Nat \ {0} /\ addresses[i] \in DOMAIN address
  BY <1>1
<1>3. DOMAIN signer = 1..Len(signer) /\ DOMAIN address = 1..Len(address)
  BY <1>1
<1>4. QED
  BY <1>2, <1>3

\* A signer has a name, and names for copies.
LEMMA SignerIs ==
  ASSUME ListTypes, NEW o \in DOMAIN signer
  PROVE  signer[o] \in Signer /\ signer[o].name \in Names /\ signer[o].copies \in Seq(Names)
<1>1. signer \in Seq(Signer)
  BY DEF ListTypes
<1>2. signer[o] \in Signer
  BY <1>1
<1>3. QED
  BY <1>2 DEF Signer

\* What a command finds in the lists is there.
LEMMA SignerRemovalIs ==
  ASSUME ListTypes, NEW n \in Names, SignerRemoval(n) # Free
  PROVE  \E i \in Nat \ {0} :
           \/ SignerRemoval(n) = [kind |-> "signer remove", index |-> i, name |-> n]
           \/ \E o \in DOMAIN signer :
                SignerRemoval(n) = [kind |-> "copy remove", of |-> o, name |-> n, index |-> i]
<1> DEFINE I == {i \in 1..Len(signers) :
                   signer[signers[i]].name = n \/ Contains(signer[signers[i]].copies, n)}
           o == signers[Min(I)]
           J == {j \in 1..Len(signer[o].copies) : signer[o].copies[j] = n}
<1>1. I # {}
  <2>1. CASE I = {}
    BY <2>1 DEF SignerRemoval, SelectInSeq
  <2>2. QED
    BY <2>1
<1>2. Min(I) \in I /\ o \in ToSet(signers)
  BY <1>1, FirstIsListed DEF ListTypes
<1>3. Min(I) \in Nat \ {0} /\ o \in DOMAIN signer
  BY <1>2, ListedIs DEF ListTypes
<1>4. SignerRemoval(n) =
        IF signer[o].name = n THEN [kind |-> "signer remove", index |-> Min(I), name |-> n]
        ELSE [kind |-> "copy remove", of |-> o, name |-> n,
              index |-> IF J # {} THEN Min(J) ELSE 0]
  BY <1>1, <1>3 DEF SignerRemoval, SelectInSeq
<1>5. CASE signer[o].name = n
  BY <1>3, <1>4, <1>5
<1>6. CASE signer[o].name # n
  <2>1. J # {}
    BY <1>2, <1>6 DEF Contains
  <2>2. signer[o].copies \in Seq(Names)
    BY <1>3, SignerIs
  <2>3. Min(J) \in J
    BY <2>1, <2>2, FirstIsListed
  <2>4. \A j \in 1..Len(signer[o].copies) : j \in Nat \ {0}
    BY <2>2
  <2>5. Min(J) \in Nat \ {0}
    BY <2>3, <2>4
  <2>6. SignerRemoval(n) = [kind |-> "copy remove", of |-> o, name |-> n, index |-> Min(J)]
    BY <1>4, <1>6, <2>1
  <2>7. QED
    BY <1>3, <2>5, <2>6
<1>7. QED
  BY <1>5, <1>6

\* The signer promoted is the one of a copy of that name.
LEMMA SignerPromotionIs ==
  ASSUME ListTypes, NEW n \in Names, SignerPromotion(n) # Free
  PROVE  \E o \in ToSet(signers), i \in Nat \ {0} :
           SignerPromotion(n) = [kind |-> "promote", of |-> o, index |-> i, name |-> n]
<1> DEFINE I == {i \in 1..Len(signers) : Contains(signer[signers[i]].copies, n)}
           o == signers[Min(I)]
           J == {j \in 1..Len(signer[o].copies) : signer[o].copies[j] = n}
<1>1. I # {}
  <2>1. CASE I = {}
    BY <2>1 DEF SignerPromotion, GetSignerWithCopyIndex, FirstOf, SelectInSeq
  <2>2. QED
    BY <2>1
<1>2. Min(I) \in I /\ o \in ToSet(signers)
  BY <1>1, FirstIsListed DEF ListTypes
<1>3. Min(I) # 0 /\ o \in DOMAIN signer /\ o # 0
  BY <1>2, ListedIs DEF ListTypes
<1>4. J # {}
  BY <1>2 DEF Contains
<1>5. signer[o].copies \in Seq(Names)
  BY <1>3, SignerIs
<1>6. Min(J) \in J
  BY <1>4, <1>5, FirstIsListed
<1>7. \A j \in 1..Len(signer[o].copies) : j \in Nat \ {0}
  BY <1>5
<1>8. Min(J) \in Nat \ {0}
  BY <1>6, <1>7
<1>9. SignerPromotion(n) = [kind |-> "promote", of |-> o, index |-> Min(J), name |-> n]
  BY <1>1, <1>3, <1>4 DEF SignerPromotion, GetSignerWithCopyIndex, FirstOf, SelectInSeq
<1>10. QED
  BY <1>2, <1>8, <1>9

\* The signer edited is found by its name.
LEMMA SignerEditIs ==
  ASSUME ListTypes, NEW n \in Names, NEW m \in Names, DlgSignerEdit(n, m) # Free
  PROVE  \E i \in Nat \ {0} :
           DlgSignerEdit(n, m) = [kind |-> "signer edit", index |-> i, name |-> n, to |-> m]
<1> DEFINE I == {i \in 1..Len(signers) : signer[signers[i]].name = n}
<1>1. I # {}
  <2>1. CASE I = {}
    BY <2>1 DEF DlgSignerEdit, SelectInSeq
  <2>2. QED
    BY <2>1
<1>2. Min(I) \in I
  BY <1>1, FirstIsListed DEF ListTypes
<1>3. Min(I) \in Nat \ {0}
  BY <1>2, ListedIs DEF ListTypes
<1>4. DlgSignerEdit(n, m) = [kind |-> "signer edit", index |-> Min(I), name |-> n, to |-> m]
  BY <1>1, <1>3 DEF DlgSignerEdit, SelectInSeq
<1>5. QED
  BY <1>3, <1>4

\* And so is the address removed.
LEMMA AddressRemovalIs ==
  ASSUME ListTypes, NEW n \in Names, AddressRemoval(n) # Free
  PROVE  \E i \in Nat \ {0} :
           AddressRemoval(n) = [kind |-> "address remove", index |-> i, name |-> n]
<1> DEFINE I == {i \in 1..Len(addresses) : address[addresses[i]].name = n}
<1>1. I # {}
  <2>1. CASE I = {}
    BY <2>1 DEF AddressRemoval, SelectInSeq
  <2>2. QED
    BY <2>1
<1>2. Min(I) \in I
  BY <1>1, FirstIsListed DEF ListTypes
<1>3. Min(I) \in Nat \ {0}
  BY <1>2, ListedIs DEF ListTypes
<1>4. AddressRemoval(n) = [kind |-> "address remove", index |-> Min(I), name |-> n]
  BY <1>1, <1>3 DEF AddressRemoval, SelectInSeq
<1>5. QED
  BY <1>3, <1>4

\* The address edited is one that was listed.
LEMMA AddressEditIs ==
  ASSUME ListTypes, NEW n \in Names, NEW m \in Names, DlgAddressEdit(n, m) # Free
  PROVE  \E o \in DOMAIN address :
           DlgAddressEdit(n, m) = [kind |-> "address edit", of |-> o, to |-> m]
<1> DEFINE I == {i \in 1..Len(addresses) : address[addresses[i]].name = n}
           o == addresses[Min(I)]
<1>1. I # {}
  <2>1. CASE I = {}
    BY <2>1 DEF DlgAddressEdit, GetAddressByName, FirstOf, SelectInSeq
  <2>2. QED
    BY <2>1
<1>2. Min(I) \in I
  BY <1>1, FirstIsListed DEF ListTypes
<1>3. Min(I) # 0 /\ o \in DOMAIN address /\ o # 0
  BY <1>2, ListedIs DEF ListTypes
<1>4. DlgAddressEdit(n, m) = [kind |-> "address edit", of |-> o, to |-> m]
  BY <1>1, <1>3 DEF DlgAddressEdit, GetAddressByName, FirstOf, SelectInSeq
<1>5. QED
  BY <1>3, <1>4

\* The dialogues of a command, one by one.
LEMMA DialogueIs ==
  /\ \A d \in Dialogue("signer add") :
       \E n \in Names, c \in Names \cup {NoName} : d = DlgSignerAdd(n, c)
  /\ \A d \in Dialogue("signer remove") : \E n \in Names : d = SignerRemoval(n)
  /\ \A d \in Dialogue("signer promote") : \E n \in Names : d = SignerPromotion(n)
  /\ \A d \in Dialogue("signer edit") : \E n, m \in Names : d = DlgSignerEdit(n, m)
  /\ \A d \in Dialogue("address add") :
       \E a \in Addresses, n, s \in Names : d = DlgAddressAdd(a, n, s)
  /\ \A d \in Dialogue("address watch") :
       \E a \in Addresses, n \in Names : d = DlgAddressAddWatch(a, n)
  /\ \A d \in Dialogue("address remove") : \E n \in Names : d = AddressRemoval(n)
  /\ \A d \in Dialogue("address edit") : \E n, m \in Names : d = DlgAddressEdit(n, m)
  /\ \A kind \in {"other", "contract", "password"} :
       \A d \in Dialogue(kind) : d = [kind |-> kind]
<1>1. ASSUME NEW d \in Dialogue("signer add")
      PROVE  \E n \in Names, c \in Names \cup {NoName} : d = DlgSignerAdd(n, c)
  BY DEF Dialogue
<1>2. ASSUME NEW d \in Dialogue("signer remove")
      PROVE  \E n \in Names : d = SignerRemoval(n)
  BY DEF Dialogue
<1>3. ASSUME NEW d \in Dialogue("signer promote")
      PROVE  \E n \in Names : d = SignerPromotion(n)
  BY DEF Dialogue
<1>4. ASSUME NEW d \in Dialogue("signer edit")
      PROVE  \E n, m \in Names : d = DlgSignerEdit(n, m)
  BY DEF Dialogue
<1>5. ASSUME NEW d \in Dialogue("address add")
      PROVE  \E a \in Addresses, n, s \in Names : d = DlgAddressAdd(a, n, s)
  BY DEF Dialogue
<1>6. ASSUME NEW d \in Dialogue("address watch")
      PROVE  \E a \in Addresses, n \in Names : d = DlgAddressAddWatch(a, n)
  BY DEF Dialogue
<1>7. ASSUME NEW d \in Dialogue("address remove")
      PROVE  \E n \in Names : d = AddressRemoval(n)
  BY DEF Dialogue
<1>8. ASSUME NEW d \in Dialogue("address edit")
      PROVE  \E n, m \in Names : d = DlgAddressEdit(n, m)
  BY DEF Dialogue
<1>9. \A kind \in {"other", "contract", "password"} :
        \A d \in Dialogue(kind) : d = [kind |-> kind]
  BY DEF Dialogue
<1>10. QED
  BY <1>1, <1>2, <1>3, <1>4, <1>5, <1>6, <1>7, <1>8, <1>9

\* What a dialogue remembers when it opens.
LEMMA DialogueRemembers ==
  ASSUME ListTypes, NEW kind \in DialogueKinds, NEW d \in Dialogue(kind) \ {Free}
  PROVE  /\ Remembers(d)
         /\ d.kind = "promote" => d.of \in ToSet(signers)
         /\ d.kind = "address add" => d.of = 0
<1>1. CASE kind = "signer add"
  <2>1. PICK n \in Names, c \in Names \cup {NoName} :
          d = [kind |-> "signer add", name |-> n, copyof |-> c]
    BY <1>1, DialogueIs DEF DlgSignerAdd
  <2>2. d.kind = "signer add" /\ d.name = n
    BY <2>1
  <2>3. QED
    BY <2>2 DEF Remembers
<1>2. CASE kind = "signer remove"
  <2>1. PICK n \in Names : d = SignerRemoval(n)
    BY <1>2, DialogueIs
  <2>2. PICK i \in Nat \ {0} :
          \/ d = [kind |-> "signer remove", index |-> i, name |-> n]
          \/ \E o \in DOMAIN signer :
               d = [kind |-> "copy remove", of |-> o, name |-> n, index |-> i]
    BY <2>1, SignerRemovalIs
  <2>3. CASE d = [kind |-> "signer remove", index |-> i, name |-> n]
    <3>1. d.kind = "signer remove" /\ d.index = i
      BY <2>3
    <3>2. QED
      BY <3>1 DEF Remembers
  <2>4. ASSUME NEW o \in DOMAIN signer,
               d = [kind |-> "copy remove", of |-> o, name |-> n, index |-> i]
        PROVE  d.kind = "copy remove" /\ Remembers(d)
    <3>1. d.kind = "copy remove" /\ d.index = i /\ d.of = o
      BY <2>4
    <3>2. QED
      BY <3>1 DEF Remembers
  <2>5. QED
    BY <2>2, <2>3, <2>4
<1>3. CASE kind = "signer promote"
  <2>1. PICK n \in Names : d = SignerPromotion(n)
    BY <1>3, DialogueIs
  <2>2. PICK o \in ToSet(signers), i \in Nat \ {0} :
          d = [kind |-> "promote", of |-> o, index |-> i, name |-> n]
    BY <2>1, SignerPromotionIs
  <2>3. d.kind = "promote" /\ d.index = i /\ d.of = o
    BY <2>2
  <2>4. o \in DOMAIN signer
    BY ListedIs DEF ListTypes, ToSet
  <2>5. QED
    BY <2>3, <2>4 DEF Remembers
<1>4. CASE kind = "signer edit"
  <2>1. PICK n \in Names, m \in Names : d = DlgSignerEdit(n, m)
    BY <1>4, DialogueIs
  <2>2. PICK i \in Nat \ {0} :
          d = [kind |-> "signer edit", index |-> i, name |-> n, to |-> m]
    BY <2>1, SignerEditIs
  <2>3. d.kind = "signer edit" /\ d.index = i /\ d.to = m
    BY <2>2
  <2>4. QED
    BY <2>3 DEF Remembers
<1>5. CASE kind \in {"address add", "address watch"}
  <2>1. PICK a \in Addresses, n \in Names, s \in Names \cup {NoName} :
          d = [kind |-> "address add", address |-> a, name |-> n, by |-> s, of |-> 0]
    <3>1. CASE kind = "address add"
      BY <3>1, DialogueIs DEF DlgAddressAdd
    <3>2. CASE kind = "address watch"
      <4>1. PICK a \in Addresses, n \in Names : d = DlgAddressAddWatch(a, n)
        BY <3>2, DialogueIs
      <4>2. d = [kind |-> "address add", address |-> a, name |-> n, by |-> NoName, of |-> 0]
        BY <4>1 DEF DlgAddressAddWatch, DlgAddressAdd
      <4>3. QED
        BY <4>2
    <3>3. QED
      BY <1>5, <3>1, <3>2
  <2>2. d.kind = "address add" /\ d.of = 0
    BY <2>1
  <2>3. d \in [kind : {"address add"}, address : Addresses, name : Names,
               by : Names \cup {NoName}, of : {0} \cup DOMAIN signer]
    BY <2>1
  <2>4. QED
    BY <2>2, <2>3 DEF Remembers
<1>6. CASE kind = "address remove"
  <2>1. PICK n \in Names : d = AddressRemoval(n)
    BY <1>6, DialogueIs
  <2>2. PICK i \in Nat \ {0} : d = [kind |-> "address remove", index |-> i, name |-> n]
    BY <2>1, AddressRemovalIs
  <2>3. d.kind = "address remove" /\ d.index = i
    BY <2>2
  <2>4. QED
    BY <2>3 DEF Remembers
<1>7. CASE kind = "address edit"
  <2>1. PICK n \in Names, m \in Names : d = DlgAddressEdit(n, m)
    BY <1>7, DialogueIs
  <2>2. PICK o \in DOMAIN address : d = [kind |-> "address edit", of |-> o, to |-> m]
    BY <2>1, AddressEditIs
  <2>3. d.kind = "address edit" /\ d.of = o /\ d.to = m
    BY <2>2
  <2>4. QED
    BY <2>3 DEF Remembers
<1>8. CASE kind \in {"other", "contract", "password"}
  <2>1. d = [kind |-> kind]
    BY <1>8, DialogueIs
  <2>2. d.kind = kind
    BY <2>1
  <2>3. QED
    BY <1>8, <2>2 DEF Remembers
<1>9. QED
  BY <1>1, <1>2, <1>3, <1>4, <1>5, <1>6, <1>7, <1>8 DEF DialogueKinds

-----------------------------------------------------------------------------
(* What a step must leave of the lists.                                    *)

\* What a dialogue remembers stays an object, for none is taken back.
LEMMA TypesStay ==
  ASSUME ListTypes, dlg' = dlg,
         signer' \in Seq(Signer), DOMAIN signer \subseteq DOMAIN signer',
         address' \in Seq(Address), DOMAIN address \subseteq DOMAIN address',
         signers' \in Seq(DOMAIN signer'), addresses' \in Seq(DOMAIN address'),
         may' \in Moves, renamed' \in BOOLEAN
  PROVE  ListTypes'
<1>1. Remembering'
  <2>1. Remembering
    BY DEF ListTypes
  <2>2. QED
    BY <2>1 DEF Remembering, Remembers
<1>2. (dlg = [p \in Popup |-> dlg[p]])'
  BY DEF ListTypes
<1>3. QED
  BY <1>1, <1>2 DEF ListTypes

\* Names and signers stay, and addresses have the signers they had.
LEMMA SignedStays ==
  ASSUME Signed, dlg' = dlg,
         \A o \in ToSet(signers) : o \in ToSet(signers') /\ signer'[o].name = signer[o].name,
         \A i \in DOMAIN addresses' :
           \E j \in DOMAIN addresses :
             address'[addresses'[i]].signer = address[addresses[j]].signer
  PROVE  Signed'
<1>1. ASSUME NEW i \in DOMAIN addresses'
      PROVE  \/ address'[addresses'[i]].signer = NoName
             \/ \E o \in ToSet(signers') : address'[addresses'[i]].signer = signer'[o].name
  <2>1. PICK j \in DOMAIN addresses :
          address'[addresses'[i]].signer = address[addresses[j]].signer
    BY <1>1
  <2>2. QED
    BY <2>1 DEF Signed
<1>2. ASSUME NEW p \in Popup
      PROVE  /\ dlg'[p].kind = "promote" => dlg'[p].of \in ToSet(signers')
             /\ dlg'[p].kind = "address add" => dlg'[p].of \in {0} \cup ToSet(signers')
  BY DEF Signed
<1>3. QED
  BY <1>1, <1>2 DEF Signed

\* The addresses are some of those that were there, each one once.
LEMMA DistinctlyStays ==
  ASSUME Distinctly, NEW m,
         \A i, j \in DOMAIN addresses' : m[i] = m[j] => i = j,
         \A i \in DOMAIN addresses' :
           /\ m[i] \in DOMAIN addresses
           /\ address'[addresses'[i]].address = address[addresses[m[i]]].address
  PROVE  Distinctly'
<1>1. ASSUME NEW i \in DOMAIN addresses', NEW j \in DOMAIN addresses',
             address'[addresses'[i]].address = address'[addresses'[j]].address
      PROVE  i = j
  <2>1. address[addresses[m[i]]].address = address[addresses[m[j]]].address
    BY <1>1
  <2>2. m[i] = m[j]
    BY <2>1 DEF Distinctly
  <2>3. QED
    BY <2>2
<1>2. QED
  BY <1>1 DEF Distinctly

\* The same addresses, whatever else of them is changed.
LEMMA DistinctlySame ==
  ASSUME Distinctly, addresses' = addresses,
         \A i \in DOMAIN addresses :
           address'[addresses[i]].address = address[addresses[i]].address
  PROVE  Distinctly'
BY DEF Distinctly

\* A save may fail.
LEMMA SaveIs ==
  ASSUME ListTypes, PopupTypeOK, NEW t \in PopupThreads, Save(t)
  PROVE  /\ may' \in Moves
         /\ \E l \in {"hide", "over"} : \A u \in PopupThreads : at'[u] = IF u = t THEN l ELSE at[u]
<1>1. may \in Moves
  BY DEF ListTypes
<1>2. may' \in Moves
  BY <1>1 DEF Save, Moves
<1>3. QED
  BY <1>2, StepDoes DEF Save

\* Where a step takes the goroutines.
LEMMA ThreadsGo ==
  ASSUME PopupTypeOK, Placed, DialogueNext, NEW u \in PopupThreads, u # Esc
  PROVE  /\ at'[u] = "idle" => at[u] = "idle"
         /\ Answering(u)' => Answering(u) \/ Click(u)
<1>1. CASE UNCHANGED popupVars
  BY <1>1 DEF popupVars, Answering
<1>2. ASSUME NEW p \in Popup, (\E by : Asks(p, by)) \/ Pause(p) \/ Look(p) \/ Queue(p)
      PROVE  /\ at'[u] = "idle" => at[u] = "idle"
             /\ Answering(u)' => Answering(u)
  <2>1. PICK l \in {"look", "pause", "show", "refused", "queue", "over"} : Step(Ask(p), l)
    BY <1>2 DEF Asks, Asked, Pause, Look, Queue
  <2>2. at'[u] = IF u = Ask(p) THEN l ELSE at[u]
    BY <2>1, Kinds, StepDoes
  <2>3. QED
    BY <2>2 DEF Answering
<1>3. ASSUME TakeEvent \/ Layout \/ PressEsc
      PROVE  at'[u] = at[u]
  <2>1. at' = at \/ \E l : Step(Esc, l)
    BY <1>3 DEF TakeEvent, Layout, PressEsc
  <2>2. QED
    BY <2>1, Kinds, StepDoes
<1>4. ASSUME NEW t \in PopupThreads,
             \/ Click(t) \/ Acts(t) \/ ShowPopup(t) \/ HidePopup(t) \/ Resume(t)
             \/ OnClose(t) \/ PopQueue(t) \/ DeleteView(t) \/ ClearPopup(t)
      PROVE  /\ at'[u] = "idle" => at[u] = "idle"
             /\ Answering(u)' => Answering(u) \/ Click(u)
  <2>1. PICK l : Step(t, l)
    BY <1>4 DEF Click, Acts, ShowPopup, HidePopup, Resume, OnClose, PopQueue, DeleteView,
                ClearPopup, Ended
  <2>2. at'[t] = l /\ (u # t => at'[u] = at[u])
    BY <2>1, StepDoes
  <2>3. CASE u # t
    BY <2>2, <2>3 DEF Answering
  <2>4. CASE u = t
    <3>1. CASE Click(t) \/ Acts(t)
      BY <2>1, <2>2, <2>4, <3>1, StepDoes DEF Click, Acts, Answering, Is
    <3>2. CASE \/ ShowPopup(t) \/ HidePopup(t) \/ Resume(t)
               \/ OnClose(t) \/ PopQueue(t) \/ DeleteView(t) \/ ClearPopup(t)
      <4>1. \E k \in {"over", "delete", "resume", "panic", "close", "pop", "post", "clear"} :
              Step(t, k)
        BY <2>4, <3>2 DEF ShowPopup, HidePopup, Resume, OnClose, PopQueue, DeleteView,
                          ClearPopup, Ended
      <4>2. QED
        BY <2>4, <4>1, StepDoes DEF Answering
    <3>3. QED
      BY <1>4, <3>1, <3>2
  <2>5. QED
    BY <2>3, <2>4
<1>5. QED
  BY <1>1, <1>2, <1>3, <1>4, DialoguesAct DEF Answering

\* Only a popup that was asked for is clicked.
LEMMA ClickedStays ==
  ASSUME PopupInv, DialogueNext, ~crossed', Clicked
  PROVE  Clicked'
<1>1. PopupTypeOK /\ Placed /\ Unasked
  BY CrossedStays DEF PopupInv, Orderly
<1>2. ASSUME NEW t \in PopupThreads, t # Esc, Answering(t)'
      PROVE  at'[Ask(t.of)] # "idle"
  <2>1. at[Ask(t.of)] # "idle"
    <3>1. CASE Answering(t)
      BY <1>2, <3>1 DEF Clicked
    <3>2. CASE Click(t)
      <4>1. popup = t.of /\ t.of \in Popup
        BY <3>2, Kinds DEF Click
      <4>2. QED
        BY <1>1, <4>1 DEF Unasked
    <3>3. QED
      BY <1>1, <1>2, <3>1, <3>2, ThreadsGo
  <2>2. t.of \in Popup
    BY <1>2, Kinds
  <2>3. Ask(t.of) \in PopupThreads /\ Ask(t.of) # Esc
    BY <2>2, Kinds
  <2>4. QED
    BY <1>1, <2>1, <2>3, ThreadsGo
<1>3. QED
  BY <1>2 DEF Clicked

-----------------------------------------------------------------------------
(* What each action does to the lists.                                     *)

\* The clicked dialogue that changes the lists is the only one at work.
LEMMA ChangesAlone ==
  ASSUME PopupInv, ListInv, DialogueNext, NEW t \in PopupThreads,
         at[t] \in {"act", "check"}, Save(t), ~crossed'
  PROVE  Distinctly /\ StillNew' /\ Clicked'
<1>1. /\ ~crossed /\ PopupTypeOK /\ Placed /\ ClicksAlone /\ ListTypes
      /\ Distinctly /\ StillNew /\ Clicked
  BY CrossedStays DEF PopupInv, ListInv, Orderly
<1>2. PICK l \in {"hide", "over"} : \A u \in PopupThreads : at'[u] = IF u = t THEN l ELSE at[u]
  BY <1>1, SaveIs
<1>3. t # Esc /\ Answering(t)
  BY <1>1 DEF Placed, Answering
<1>4. ASSUME NEW u \in PopupThreads, at'[u] = "check"
      PROVE  FALSE
  <2>1. at[u] = "check" /\ u # t
    BY <1>2, <1>4
  <2>2. u # Esc /\ Answering(u)
    BY <1>1, <2>1 DEF Placed, Answering
  <2>3. QED
    BY <1>1, <1>3, <2>1, <2>2 DEF ClicksAlone
<1>5. StillNew'
  BY <1>4 DEF StillNew
<1>6. QED
  BY <1>1, <1>5, ClickedStays

\* A step that leaves the lists alone, and has checked no address.
LEMMA RestKeeps ==
  ASSUME PopupInv, ListInv, DialogueNext, may' \in Moves,
         UNCHANGED <<signers, addresses, signer, address, dlg, renamed>>,
         ~crossed' => \A t \in PopupThreads :
           at'[t] = "check" => at[t] = "check" \/ dlg[t.of].kind # "address add"
  PROVE  ListInv'
<1>1. ListTypes'
  <2>1. /\ ListTypes /\ signer \in Seq(Signer) /\ signers \in Seq(DOMAIN signer)
        /\ address \in Seq(Address) /\ addresses \in Seq(DOMAIN address)
        /\ renamed \in BOOLEAN
    BY DEF ListInv, ListTypes
  <2>2. QED
    BY <2>1, TypesStay
<1>2. Signed => Signed'
  BY SignedStays
<1>3. ASSUME ~crossed' PROVE Distinctly' /\ StillNew' /\ Clicked'
  <2>1. Distinctly /\ StillNew /\ Clicked
    BY <1>3, CrossedStays DEF PopupInv, ListInv
  <2>2. Distinctly'
    BY <2>1 DEF Distinctly
  <2>3. StillNew'
    BY <1>3, <2>1 DEF StillNew
  <2>4. QED
    BY <1>3, <2>1, <2>2, <2>3, ClickedStays
<1>4. QED
  BY <1>1, <1>2, <1>3 DEF ListInv

\* A dialogue opens.
LEMMA CommandKeepsLists ==
  ASSUME PopupInv, ListInv, NEW p \in Popup, Command(p), DialogueNext
  PROVE  ListInv'
<1>0. PICK i \in DOMAIN may.asks :
        /\ \E d \in Dialogue(may.asks[i]) \ {Free} : dlg' = [dlg EXCEPT ![p] = d]
        /\ may' = [may EXCEPT !.asks = RemoveAt(@, i)]
  BY DEF Command
<1>1. PICK d \in Dialogue(may.asks[i]) \ {Free} : dlg' = [dlg EXCEPT ![p] = d]
  BY <1>0
<1>2. /\ UNCHANGED <<signers, addresses, signer, address, renamed>>
      /\ at[Ask(p)] = "idle"
      /\ \E by : Asked(p, by)
  BY DEF Command, lists, Asked, Is
<1>3. may \in Moves /\ dlg = [q \in Popup |-> dlg[q]] /\ ListTypes
  BY DEF ListInv, ListTypes
<1>4. /\ Remembers(d)
      /\ d.kind = "promote" => d.of \in ToSet(signers)
      /\ d.kind = "address add" => d.of = 0
  <2>1. may.asks \in Seq(DialogueKinds)
    BY <1>3 DEF Moves
  <2>2. may.asks[i] \in DialogueKinds
    BY <1>0, <2>1
  <2>3. QED
    BY <1>3, <2>2, DialogueRemembers
<1>5. \A q \in Popup : dlg'[q] = IF q = p THEN d ELSE dlg[q]
  BY <1>1, <1>3
<1>6. ListTypes'
  <2>1. may' \in Moves
    <3>1. may.asks \in Seq(DialogueKinds) /\ i \in 1..Len(may.asks)
      BY <1>0, <1>3 DEF Moves
    <3>2. RemoveAt(may.asks, i) \in Seq(DialogueKinds)
      BY <3>1, RemoveAtElements
    <3>3. QED
      BY <1>0, <1>3, <3>2 DEF Moves
  <2>2. Remembering'
    <3>1. Remembering
      BY <1>3 DEF ListTypes
    <3>2. QED
      BY <1>2, <1>4, <1>5, <3>1 DEF Remembering, Remembers
  <2>3. dlg' = [q \in Popup |-> dlg'[q]]
    BY <1>1, <1>3
  <2>4. QED
    BY <1>2, <1>3, <2>1, <2>2, <2>3 DEF ListTypes
<1>7. ~renamed' => Signed'
  <2>1. ASSUME ~renamed', NEW q \in Popup
        PROVE  /\ dlg'[q].kind = "promote" => dlg'[q].of \in ToSet(signers')
               /\ dlg'[q].kind = "address add" => dlg'[q].of \in {0} \cup ToSet(signers')
    BY <1>2, <1>4, <1>5, <2>1 DEF ListInv, Signed
  <2>2. QED
    BY <1>2, <2>1 DEF ListInv, Signed
<1>8. ASSUME ~crossed' PROVE Distinctly' /\ StillNew' /\ Clicked'
  <2>1. Distinctly /\ StillNew /\ Clicked /\ PopupTypeOK /\ Placed
    BY <1>8, CrossedStays DEF PopupInv, ListInv
  <2>2. Distinctly'
    BY <1>2, <2>1 DEF Distinctly
  <2>3. ASSUME NEW t \in PopupThreads, at'[t] = "check", dlg'[t.of].kind = "address add"
        PROVE  \A j \in DOMAIN addresses' : address'[addresses'[j]].address # dlg'[t.of].address
    <3>1. at[t] = "check" /\ t # Esc
      <4>1. PICK l \in {"look", "pause"} : Step(Ask(p), l)
        BY <1>2 DEF Asked
      <4>2. at'[t] = IF t = Ask(p) THEN l ELSE at[t]
        BY <2>1, <4>1, Kinds, StepDoes
      <4>3. QED
        BY <2>1, <2>3, <4>2 DEF Placed
    <3>2. at[Ask(t.of)] # "idle" /\ t.of \in Popup
      BY <2>1, <3>1, Kinds DEF Clicked, Answering
    <3>3. dlg'[t.of] = dlg[t.of]
      BY <1>2, <1>5, <3>2
    <3>4. QED
      BY <1>2, <2>1, <2>3, <3>1, <3>3 DEF StillNew
  <2>4. StillNew'
    BY <2>3 DEF StillNew
  <2>5. QED
    BY <1>8, <2>1, <2>2, <2>4, ClickedStays
<1>9. QED
  BY <1>6, <1>7, <1>8 DEF ListInv

\* The addresses are put in another order.
LEMMA ListAddressesKeepsLists ==
  ASSUME PopupInv, ListInv, ListAddresses, DialogueNext
  PROVE  ListInv'
<1>1. PICK order \in [DOMAIN addresses -> DOMAIN addresses] :
        /\ IsInjective(order)
        /\ addresses' = [i \in DOMAIN addresses |-> addresses[order[i]]]
  BY DEF ListAddresses
<1>2. /\ UNCHANGED <<signers, signer, address, dlg, renamed, at, crossed>>
      /\ may' = [may EXCEPT !.sorts = @ - 1] /\ may.sorts > 0
  BY DEF ListAddresses, popupVars
<1>3. /\ ListTypes /\ may \in Moves
      /\ address \in Seq(Address) /\ addresses \in Seq(DOMAIN address)
  BY DEF ListInv, ListTypes
<1>4. /\ DOMAIN addresses' = DOMAIN addresses
      /\ \A i \in DOMAIN addresses :
           order[i] \in DOMAIN addresses /\ addresses'[i] = addresses[order[i]]
  BY <1>1
<1>5. ListTypes'
  <2>1. may' \in Moves
    BY <1>2, <1>3 DEF Moves
  <2>2. addresses' \in Seq(DOMAIN address)
    <3>1. DOMAIN addresses = 1..Len(addresses) /\ Len(addresses) \in Nat
      BY <1>3
    <3>2. \A i \in 1..Len(addresses) : addresses[order[i]] \in DOMAIN address
      BY <1>3, <1>4, <3>1
    <3>3. addresses' = [i \in 1..Len(addresses) |-> addresses[order[i]]]
      BY <1>1, <3>1
    <3>4. addresses' \in [1..Len(addresses) -> DOMAIN address]
      BY <3>2, <3>3
    <3>5. QED
      BY <3>1, <3>4, SeqDef
  <2>3. QED
    BY <1>2, <1>3, <2>1, <2>2, TypesStay DEF ListTypes
<1>6. ~renamed' => Signed'
  <2>1. \A i \in DOMAIN addresses' :
          \E j \in DOMAIN addresses :
            address'[addresses'[i]].signer = address[addresses[j]].signer
    BY <1>2, <1>4
  <2>2. QED
    BY <1>2, <2>1, SignedStays DEF ListInv
<1>7. ASSUME ~crossed' PROVE Distinctly' /\ StillNew' /\ Clicked'
  <2>1. Distinctly /\ StillNew /\ Clicked
    BY <1>2, <1>7 DEF ListInv
  <2>2. \A i, j \in DOMAIN addresses : order[i] = order[j] => i = j
    BY <1>1 DEF IsInjective
  <2>3. Distinctly'
    BY <1>2, <1>4, <2>1, <2>2, DistinctlyStays
  <2>4. StillNew'
    <3>1. ASSUME NEW t \in PopupThreads, at[t] = "check", dlg[t.of].kind = "address add",
                 NEW i \in DOMAIN addresses
          PROVE  address[addresses[order[i]]].address # dlg[t.of].address
      BY <1>4, <2>1, <3>1 DEF StillNew
    <3>2. ASSUME NEW t \in PopupThreads, at'[t] = "check", dlg'[t.of].kind = "address add",
                 NEW i \in DOMAIN addresses'
          PROVE  address'[addresses'[i]].address # dlg'[t.of].address
      <4>1. at[t] = "check" /\ dlg[t.of].kind = "address add" /\ i \in DOMAIN addresses
        BY <1>2, <1>4, <3>2
      <4>2. address[addresses[order[i]]].address # dlg[t.of].address
        BY <3>1, <4>1
      <4>3. addresses'[i] = addresses[order[i]]
        BY <1>4, <4>1
      <4>4. QED
        BY <1>2, <4>2, <4>3
    <3>3. QED
      BY <3>2 DEF StillNew
  <2>5. Clicked'
    BY <1>2, <2>1 DEF Clicked, Answering
  <2>6. QED
    BY <2>3, <2>4, <2>5
<1>8. QED
  BY <1>5, <1>6, <1>7 DEF ListInv

-----------------------------------------------------------------------------
(* The function of a dialogue.                                             *)

\* What the goroutine of a click remembers.
LEMMA RemembersHere ==
  ASSUME PopupInv, ListInv, NEW t \in PopupThreads, at[t] \in {"act", "check"}
  PROVE  /\ t # Esc /\ t.of \in Popup /\ Remembers(dlg[t.of]) /\ ListTypes /\ PopupTypeOK
         /\ dlg[t.of].kind = "promote" /\ ~renamed => dlg[t.of].of \in ToSet(signers)
         /\ dlg[t.of].kind = "address add" /\ ~renamed =>
              dlg[t.of].of \in {0} \cup ToSet(signers)
<1>1. Placed /\ ListTypes /\ PopupTypeOK
  BY DEF PopupInv, ListInv
<1>2. t # Esc
  BY <1>1 DEF Placed
<1>3. t.of \in Popup
  BY <1>2, Kinds
<1>4. Remembers(dlg[t.of])
  BY <1>1, <1>3 DEF ListTypes, Remembering
<1>5. QED
  BY <1>1, <1>2, <1>3, <1>4 DEF ListInv, Signed

\* An action that ends in a save.
LEMMA ChangesKeep ==
  ASSUME PopupInv, ListInv, DialogueNext, NEW t \in PopupThreads,
         at[t] \in {"act", "check"}, Save(t),
         ListTypes', ~renamed' => Signed', ~crossed' /\ Distinctly => Distinctly'
  PROVE  ListInv'
<1>1. ~crossed' => Distinctly' /\ StillNew' /\ Clicked'
  BY ChangesAlone
<1>2. QED
  BY <1>1 DEF ListInv

\* A dialogue that does nothing, and one that ends the program.
LEMMA NothingKeeps ==
  ASSUME PopupInv, ListInv, DialogueNext, NEW t \in PopupThreads,
         Stay(t) \/ Fault(t) \/ Other(t) \/ Cancel(t)
  PROVE  ListInv'
<1>1. PopupTypeOK /\ may \in Moves
  BY DEF PopupInv, ListInv, ListTypes
<1>2. UNCHANGED <<signers, addresses, signer, address, dlg, renamed>> /\ may' = may
  BY DEF Stay, Fault, Other, Cancel, lists
<1>3. PICK l \in {"over", "fault", "hide"} : Step(t, l)
  BY DEF Stay, Fault, Other, Cancel
<1>4. \A u \in PopupThreads : at'[u] = "check" => at[u] = "check"
  BY <1>1, <1>3, StepDoes
<1>5. QED
  BY <1>1, <1>2, <1>4, RestKeeps

\* A signer is taken out.
LEMMA RemoveSignerKeeps ==
  ASSUME PopupInv, ListInv, DialogueNext, NEW t \in PopupThreads, RemoveSigner(t)
  PROVE  ListInv'
<1> DEFINE d == dlg[t.of]
<1>1. at[t] = "act" /\ d.kind = "signer remove"
  BY DEF RemoveSigner, Acting, Is
<1>2. ListTypes /\ d.index \in Nat \ {0}
  BY <1>1, RemembersHere DEF Remembers
<1>3. /\ signer \in Seq(Signer) /\ signers \in Seq(DOMAIN signer)
      /\ address \in Seq(Address) /\ addresses \in Seq(DOMAIN address)
  BY <1>2 DEF ListTypes
<1>4. CASE d.index > Len(signers)
  BY <1>4, NothingKeeps DEF RemoveSigner
<1>5. CASE ~(d.index > Len(signers))
  <2>1. /\ signers' = RemoveAt(signers, d.index) /\ renamed' = TRUE /\ Save(t)
        /\ UNCHANGED <<addresses, signer, address, dlg>>
    BY <1>5 DEF RemoveSigner
  <2>2. d.index \in 1..Len(signers)
    BY <1>2, <1>3, <1>5
  <2>3. signers' \in Seq(DOMAIN signer)
    BY <1>3, <2>1, <2>2, RemoveAtElements
  <2>4. may' \in Moves
    BY <1>1, <2>1, RemembersHere, SaveIs
  <2>5. ListTypes'
    BY <1>2, <1>3, <2>1, <2>3, <2>4, TypesStay
  <2>6. Distinctly => Distinctly'
    BY <2>1 DEF Distinctly
  <2>7. QED
    BY <1>1, <2>1, <2>5, <2>6, ChangesKeep
<1>6. QED
  BY <1>4, <1>5

\* A signer is given another name.
LEMMA EditSignerKeeps ==
  ASSUME PopupInv, ListInv, DialogueNext, NEW t \in PopupThreads, EditSigner(t)
  PROVE  ListInv'
<1> DEFINE d == dlg[t.of]  o == signers[d.index]
<1>1. at[t] = "act" /\ d.kind = "signer edit"
  BY DEF EditSigner, Acting, Is
<1>2. ListTypes /\ d.index \in Nat \ {0} /\ d.to \in Names
  BY <1>1, RemembersHere DEF Remembers
<1>3. /\ signer \in Seq(Signer) /\ signers \in Seq(DOMAIN signer)
      /\ address \in Seq(Address) /\ addresses \in Seq(DOMAIN address)
  BY <1>2 DEF ListTypes
<1>4. CASE d.index > Len(signers)
  BY <1>4, NothingKeeps DEF EditSigner
<1>5. CASE ~(d.index > Len(signers))
  <2>1. /\ signer' = [signer EXCEPT ![o].name = d.to] /\ renamed' = TRUE /\ Save(t)
        /\ UNCHANGED <<signers, addresses, address, dlg>>
    BY <1>5 DEF EditSigner
  <2>2. d.index \in 1..Len(signers)
    BY <1>2, <1>3, <1>5
  <2>3. o \in DOMAIN signer
    BY <1>3, <2>2
  <2>4. signer' \in Seq(Signer) /\ DOMAIN signer' = DOMAIN signer
    <3>1. signer' = [signer EXCEPT ![o] = [signer[o] EXCEPT !.name = d.to]]
      BY <2>1
    <3>2. [signer[o] EXCEPT !.name = d.to] \in Signer
      BY <1>2, <2>3, SignerIs DEF Signer
    <3>3. QED
      BY <1>3, <2>3, <3>1, <3>2, ExceptSeq
  <2>5. may' \in Moves
    BY <1>1, <2>1, RemembersHere, SaveIs
  <2>6. ListTypes'
    BY <1>2, <1>3, <2>1, <2>4, <2>5, TypesStay
  <2>7. Distinctly => Distinctly'
    BY <2>1 DEF Distinctly
  <2>8. QED
    BY <1>1, <2>1, <2>6, <2>7, ChangesKeep
<1>6. QED
  BY <1>4, <1>5

\* A copy is taken from a signer.
LEMMA RemoveCopyKeeps ==
  ASSUME PopupInv, ListInv, DialogueNext, NEW t \in PopupThreads, RemoveCopy(t)
  PROVE  ListInv'
<1> DEFINE d == dlg[t.of]  o == d.of  c == RemoveAt(signer[o].copies, d.index)
<1>1. at[t] = "act" /\ d.kind = "copy remove"
  BY DEF RemoveCopy, Acting, Is
<1>2. ListTypes /\ d.index \in Nat \ {0} /\ o \in DOMAIN signer
  BY <1>1, RemembersHere DEF Remembers
<1>3. /\ signer \in Seq(Signer) /\ signers \in Seq(DOMAIN signer)
      /\ address \in Seq(Address) /\ addresses \in Seq(DOMAIN address)
      /\ renamed \in BOOLEAN
  BY <1>2 DEF ListTypes
<1>4. CASE d.index > Len(signer[o].copies)
  BY <1>4, NothingKeeps DEF RemoveCopy
<1>5. CASE ~(d.index > Len(signer[o].copies))
  <2>1. /\ signer' = [signer EXCEPT ![o].copies = RemoveAt(@, d.index)] /\ Save(t)
        /\ UNCHANGED <<signers, addresses, address, dlg, renamed>>
    BY <1>5 DEF RemoveCopy
  <2>2. signer[o] \in Signer /\ signer[o].copies \in Seq(Names)
    BY <1>2, SignerIs
  <2>3. d.index \in 1..Len(signer[o].copies)
    BY <1>2, <1>5, <2>2
  <2>4. c \in Seq(Names)
    BY <2>2, <2>3, RemoveAtElements
  <2>5. signer' = [signer EXCEPT ![o] = [signer[o] EXCEPT !.copies = c]]
    BY <2>1
  <2>6. signer' \in Seq(Signer) /\ DOMAIN signer' = DOMAIN signer
    <3>1. [signer[o] EXCEPT !.copies = c] \in Signer
      BY <2>2, <2>4 DEF Signer
    <3>2. QED
      BY <1>2, <1>3, <2>5, <3>1, ExceptSeq
  <2>7. may' \in Moves
    BY <1>1, <2>1, RemembersHere, SaveIs
  <2>8. ListTypes'
    BY <1>2, <1>3, <2>1, <2>6, <2>7, TypesStay
  <2>9. \A x \in ToSet(signers) : signer'[x].name = signer[x].name
    <3>1. \A x \in ToSet(signers) : x \in DOMAIN signer
      BY <1>3 DEF ToSet
    <3>2. [signer[o] EXCEPT !.copies = c].name = signer[o].name
      BY <2>2 DEF Signer
    <3>3. QED
      BY <2>5, <3>1, <3>2
  <2>10. Signed => Signed'
    BY <2>1, <2>9, SignedStays
  <2>11. Distinctly => Distinctly'
    BY <2>1 DEF Distinctly
  <2>12. ~renamed' => Signed'
    BY <2>1, <2>10 DEF ListInv
  <2>13. QED
    BY <1>1, <2>1, <2>8, <2>11, <2>12, ChangesKeep
<1>6. QED
  BY <1>4, <1>5

\* The addresses of a signer move to its copy, and the names are swapped.
LEMMA PromoteKeeps ==
  ASSUME PopupInv, ListInv, DialogueNext, NEW t \in PopupThreads, Promote(t)
  PROVE  ListInv'
<1> DEFINE d == dlg[t.of]  o == d.of  s == signer[o]  c == s.copies[d.index]
           n == [name |-> c, copies |-> [s.copies EXCEPT ![d.index] = s.name]]
           Moved(x) == Contains(addresses, x) /\ address[x].signer = s.name
<1>1. at[t] = "act" /\ d.kind = "promote"
  BY DEF Promote, Acting, Is
<1>2. ListTypes /\ d.index \in Nat \ {0} /\ o \in DOMAIN signer
  BY <1>1, RemembersHere DEF Remembers
<1>3. /\ signer \in Seq(Signer) /\ signers \in Seq(DOMAIN signer)
      /\ address \in Seq(Address) /\ addresses \in Seq(DOMAIN address)
      /\ renamed \in BOOLEAN
  BY <1>2 DEF ListTypes
<1>4. CASE d.index > Len(s.copies)
  BY <1>4, NothingKeeps DEF Promote
<1>5. CASE ~(d.index > Len(s.copies))
  <2>1. /\ address' = [x \in DOMAIN address |->
             IF Moved(x) THEN [address[x] EXCEPT !.signer = c] ELSE address[x]]
        /\ signer' = [signer EXCEPT ![o] = n]
        /\ Save(t)
        /\ UNCHANGED <<signers, addresses, dlg, renamed>>
    BY <1>5 DEF Promote
  <2>2. s \in Signer /\ s.name \in Names /\ s.copies \in Seq(Names)
    BY <1>2, SignerIs
  <2>3. d.index \in 1..Len(s.copies)
    BY <1>2, <1>5, <2>2
  <2>4. c \in Names
    BY <2>2, <2>3
  <2>5. n \in Signer /\ n.name = c
    <3>1. [s.copies EXCEPT ![d.index] = s.name] \in Seq(Names)
      BY <2>2, <2>3, ExceptSeq
    <3>2. QED
      BY <2>4, <3>1 DEF Signer
  <2> HIDE DEF n
  <2>6. /\ signer' \in Seq(Signer) /\ DOMAIN signer' = DOMAIN signer
        /\ \A x \in DOMAIN signer : signer'[x] = IF x = o THEN n ELSE signer[x]
    BY <1>2, <1>3, <2>1, <2>5, ExceptSeq
  <2>7. \A x \in DOMAIN address : address[x] \in Address
    BY <1>3
  <2>8. \A x \in DOMAIN address :
          /\ address'[x] \in Address
          /\ address'[x].address = address[x].address
          /\ address'[x].signer = IF Moved(x) THEN c ELSE address[x].signer
    <3> SUFFICES ASSUME NEW x \in DOMAIN address
                 PROVE  /\ address'[x] \in Address
                        /\ address'[x].address = address[x].address
                        /\ address'[x].signer = IF Moved(x) THEN c ELSE address[x].signer
      OBVIOUS
    <3>1. address[x] \in Address
      BY <2>7
    <3>2. CASE Moved(x)
      <4>1. address'[x] = [address[x] EXCEPT !.signer = c]
        BY <2>1, <3>2
      <4>2. QED
        BY <2>4, <3>1, <3>2, <4>1 DEF Address
    <3>3. CASE ~Moved(x)
      <4>1. address'[x] = address[x]
        BY <2>1, <3>3
      <4>2. QED
        BY <3>1, <3>3, <4>1
    <3>4. QED
      BY <3>2, <3>3
  <2>9. address' \in Seq(Address) /\ DOMAIN address' = DOMAIN address
    <3>1. DOMAIN address = 1..Len(address) /\ Len(address) \in Nat
      BY <1>3
    <3>2. DOMAIN address' = DOMAIN address /\ address' = [x \in DOMAIN address |-> address'[x]]
      BY <2>1
    <3>3. address' \in [1..Len(address) -> Address]
      BY <2>8, <3>1, <3>2
    <3>4. QED
      BY <3>1, <3>2, <3>3, SeqDef
  <2>10. may' \in Moves
    BY <1>1, <2>1, RemembersHere, SaveIs
  <2>11. ListTypes'
    BY <1>2, <1>3, <2>1, <2>6, <2>9, <2>10, TypesStay
  <2>12. \A i \in DOMAIN addresses :
           addresses[i] \in DOMAIN address /\ Contains(addresses, addresses[i])
    <3>1. DOMAIN addresses = 1..Len(addresses)
      BY <1>3
    <3>2. QED
      BY <1>3, <3>1 DEF Contains
  <2>13. ASSUME ~renamed' PROVE Signed'
    <3>1. Signed /\ o \in ToSet(signers)
      BY <1>1, <2>1, <2>13, RemembersHere DEF ListInv
    <3>2. ASSUME NEW i \in DOMAIN addresses
          PROVE  \/ address'[addresses[i]].signer = NoName
                 \/ \E x \in ToSet(signers) : address'[addresses[i]].signer = signer'[x].name
      <4> DEFINE a == addresses[i]
      <4>1. a \in DOMAIN address /\ Contains(addresses, a)
        BY <2>12
      <4>2. CASE address[a].signer = s.name
        <5>1. address'[a].signer = c
          BY <2>8, <4>1, <4>2
        <5>2. signer'[o].name = c
          BY <1>2, <2>5, <2>6
        <5>3. QED
          BY <3>1, <5>1, <5>2
      <4>3. CASE address[a].signer # s.name
        <5>1. address'[a].signer = address[a].signer
          BY <2>8, <4>1, <4>3
        <5>2. CASE address[a].signer = NoName
          BY <5>1, <5>2
        <5>3. ASSUME NEW x \in ToSet(signers), address[a].signer = signer[x].name
              PROVE  address'[a].signer = signer'[x].name
          <6>1. x \in DOMAIN signer /\ x # o
            BY <1>3, <4>3, <5>3 DEF ToSet
          <6>2. QED
            BY <2>6, <5>1, <5>3, <6>1
        <5>4. QED
          BY <3>1, <5>1, <5>2, <5>3 DEF Signed
      <4>4. QED
        BY <4>2, <4>3
    <3>3. QED
      BY <2>1, <3>1, <3>2 DEF Signed
  <2>14. Distinctly => Distinctly'
    BY <2>1, <2>8, <2>12, DistinctlySame
  <2>15. QED
    BY <1>1, <2>1, <2>11, <2>13, <2>14, ChangesKeep
<1>6. QED
  BY <1>4, <1>5

\* A name is free for a signer.
LEMMA CheckSignerKeeps ==
  ASSUME PopupInv, ListInv, DialogueNext, NEW t \in PopupThreads, CheckSigner(t)
  PROVE  ListInv'
<1>1. dlg[t.of].kind = "signer add" /\ PopupTypeOK /\ may \in Moves
  BY DEF CheckSigner, Acting, PopupInv, ListInv, ListTypes
<1>2. CASE Stay(t)
  BY <1>2, NothingKeeps
<1>3. CASE Step(t, "check") /\ UNCHANGED <<lists, dlg, may, renamed>>
  <2>1. UNCHANGED <<signers, addresses, signer, address, dlg, renamed>> /\ may' = may
    BY <1>3 DEF lists
  <2>2. \A u \in PopupThreads : at'[u] = "check" => at[u] = "check" \/ u = t
    BY <1>1, <1>3, StepDoes
  <2>3. \A u \in PopupThreads :
          at'[u] = "check" => at[u] = "check" \/ dlg[u.of].kind # "address add"
    BY <1>1, <2>2
  <2>4. QED
    BY <1>1, <2>1, <2>3, RestKeeps
<1>4. QED
  BY <1>2, <1>3 DEF CheckSigner

\* A signer is added, or a copy to one.
LEMMA AddSignerKeeps ==
  ASSUME PopupInv, ListInv, DialogueNext, NEW t \in PopupThreads, AddSigner(t)
  PROVE  ListInv'
<1> DEFINE d == dlg[t.of]
<1>1. /\ at[t] = "check" /\ d.kind = "signer add" /\ Save(t)
      /\ UNCHANGED <<addresses, address, dlg, renamed>>
  BY DEF AddSigner, Is
<1>2. ListTypes /\ d.name \in Names
  BY <1>1, RemembersHere DEF Remembers
<1>3. /\ signer \in Seq(Signer) /\ signers \in Seq(DOMAIN signer)
      /\ address \in Seq(Address) /\ addresses \in Seq(DOMAIN address)
      /\ renamed \in BOOLEAN
  BY <1>2 DEF ListTypes
<1>4. may' \in Moves
  BY <1>1, RemembersHere, SaveIs
<1>5. /\ signer' \in Seq(Signer) /\ DOMAIN signer \subseteq DOMAIN signer'
      /\ signers' \in Seq(DOMAIN signer')
      /\ \A x \in ToSet(signers) : x \in ToSet(signers') /\ signer'[x].name = signer[x].name
  <2>1. CASE d.copyof = NoName
    <3> DEFINE n == [name |-> d.name, copies |-> <<>>]
    <3>1. signer' = Append(signer, n) /\ signers' = Append(signers, Len(signer) + 1)
      BY <2>1 DEF AddSigner
    <3>2. n \in Signer
      BY <1>2 DEF Signer
    <3> HIDE DEF n
    <3>3. /\ signer' \in Seq(Signer) /\ Len(signer') = Len(signer) + 1
          /\ \A x \in 1..Len(signer) : signer'[x] = signer[x]
      BY <1>3, <3>1, <3>2, AppendProperties
    <3>4. /\ DOMAIN signer = 1..Len(signer) /\ DOMAIN signer' = 1..(Len(signer) + 1)
          /\ Len(signer) \in Nat
      BY <1>3, <3>3
    <3>5. DOMAIN signer \subseteq DOMAIN signer' /\ Len(signer) + 1 \in DOMAIN signer'
      BY <3>4
    <3>6. signers \in Seq(DOMAIN signer')
      BY <1>3, <3>5
    <3>7. /\ signers' \in Seq(DOMAIN signer') /\ Len(signers') = Len(signers) + 1
          /\ \A i \in 1..Len(signers) : signers'[i] = signers[i]
      BY <3>1, <3>5, <3>6, AppendProperties
    <3>8. ASSUME NEW x \in ToSet(signers)
          PROVE  x \in ToSet(signers') /\ signer'[x].name = signer[x].name
      <4>1. PICK i \in DOMAIN signers : x = signers[i]
        BY DEF ToSet
      <4>2. i \in 1..Len(signers) /\ i \in DOMAIN signers'
        BY <1>3, <3>7
      <4>3. x \in DOMAIN signer /\ x = signers'[i]
        BY <1>3, <3>7, <4>1, <4>2
      <4>4. QED
        BY <3>3, <3>4, <4>2, <4>3 DEF ToSet
    <3>9. QED
      BY <3>3, <3>5, <3>7, <3>8
  <2>2. CASE d.copyof # NoName
    <3> DEFINE o == GetSigner(d.copyof)
    <3>1. /\ signer' = [signer EXCEPT ![o].copies = Append(@, d.name)]
          /\ signers' = signers
      BY <2>2 DEF AddSigner
    <3>2. CASE o \notin DOMAIN signer
      <4>1. signer' = signer
        BY <1>3, <3>1, <3>2
      <4>2. QED
        BY <1>3, <3>1, <4>1
    <3>3. CASE o \in DOMAIN signer
      <4> DEFINE s == [signer[o] EXCEPT !.copies = Append(signer[o].copies, d.name)]
      <4>1. signer[o] \in Signer /\ signer[o].copies \in Seq(Names)
        BY <1>2, <3>3, SignerIs
      <4>2. Append(signer[o].copies, d.name) \in Seq(Names)
        BY <1>2, <4>1
      <4>3. s \in Signer /\ s.name = signer[o].name
        BY <4>1, <4>2 DEF Signer
      <4>4. signer' = [signer EXCEPT ![o] = s]
        BY <3>1
      <4> HIDE DEF s, o
      <4>5. /\ signer' \in Seq(Signer) /\ DOMAIN signer' = DOMAIN signer
            /\ \A x \in DOMAIN signer : signer'[x] = IF x = o THEN s ELSE signer[x]
        BY <1>3, <3>3, <4>3, <4>4, ExceptSeq
      <4>6. \A x \in ToSet(signers) : x \in DOMAIN signer
        BY <1>3 DEF ToSet
      <4>7. \A x \in ToSet(signers) : signer'[x].name = signer[x].name
        BY <4>3, <4>5, <4>6
      <4>8. QED
        BY <1>3, <3>1, <4>5, <4>7
    <3>4. QED
      BY <3>2, <3>3
  <2>3. QED
    BY <2>1, <2>2
<1>6. ListTypes'
  BY <1>1, <1>2, <1>3, <1>4, <1>5, TypesStay
<1>7. Signed => Signed'
  BY <1>1, <1>5, SignedStays
<1>8. ~renamed' => Signed'
  BY <1>1, <1>7 DEF ListInv
<1>9. Distinctly => Distinctly'
  BY <1>1 DEF Distinctly
<1>10. QED
  BY <1>1, <1>6, <1>8, <1>9, ChangesKeep

\* An address is new, and its signer is of the wallet.
LEMMA CheckAddressKeeps ==
  ASSUME PopupInv, ListInv, DialogueNext, NEW t \in PopupThreads, CheckAddress(t)
  PROVE  ListInv'
<1> DEFINE d == dlg[t.of]  o == IF d.by = NoName THEN 0 ELSE GetSigner(d.by)
<1>1. at[t] = "act" /\ d.kind = "address add"
  BY DEF CheckAddress, Acting, Is
<1>2. /\ ListTypes /\ PopupTypeOK /\ t.of \in Popup
      /\ d \in [kind : {"address add"}, address : Addresses, name : Names,
                by : Names \cup {NoName}, of : {0} \cup DOMAIN signer]
  BY <1>1, RemembersHere DEF Remembers
<1>3. /\ signer \in Seq(Signer) /\ signers \in Seq(DOMAIN signer)
      /\ address \in Seq(Address) /\ addresses \in Seq(DOMAIN address)
      /\ may \in Moves /\ renamed \in BOOLEAN
      /\ dlg = [p \in Popup |-> dlg[p]] /\ Remembering
  BY <1>2 DEF ListTypes
<1>4. CASE Stay(t)
  BY <1>4, NothingKeeps
<1>5. CASE ~Stay(t)
  <2>1. /\ GetAddress(d.address) = 0
        /\ dlg' = [dlg EXCEPT ![t.of].of = o]
        /\ Step(t, "check")
        /\ UNCHANGED <<lists, may, renamed>>
    BY <1>5 DEF CheckAddress
  <2>2. UNCHANGED <<signers, addresses, signer, address>> /\ may' = may /\ renamed' = renamed
    BY <2>1 DEF lists
  <2>3. o \in {0} \cup ToSet(signers)
    BY <1>2, GetSignerIs
  <2>4. o \in {0} \cup DOMAIN signer
    <3>1. \A x \in ToSet(signers) : x \in DOMAIN signer
      BY <1>3 DEF ToSet
    <3>2. QED
      BY <2>3, <3>1
  <2> DEFINE n == [d EXCEPT !.of = o]
  <2>5. dlg' = [dlg EXCEPT ![t.of] = n]
    BY <2>1
  <2> HIDE DEF o
  <2>6. /\ n \in [kind : {"address add"}, address : Addresses, name : Names,
                  by : Names \cup {NoName}, of : {0} \cup DOMAIN signer]
        /\ n.kind = "address add" /\ n.of = o /\ n.address = d.address
    BY <1>2, <2>4
  <2> HIDE DEF n, d
  <2>7. /\ dlg' = [p \in Popup |-> dlg'[p]]
        /\ \A p \in Popup : dlg'[p] = IF p = t.of THEN n ELSE dlg[p]
    BY <1>2, <1>3, <2>5
  <2>8. Remembering'
    BY <1>3, <2>2, <2>6, <2>7 DEF Remembering, Remembers
  <2>9. ListTypes'
    BY <1>3, <2>2, <2>7, <2>8 DEF ListTypes
  <2>10. ASSUME ~renamed' PROVE Signed'
    <3>1. Signed
      BY <2>2, <2>10 DEF ListInv
    <3>2. ASSUME NEW p \in Popup
          PROVE  /\ dlg'[p].kind = "promote" => dlg'[p].of \in ToSet(signers)
                 /\ dlg'[p].kind = "address add" => dlg'[p].of \in {0} \cup ToSet(signers)
      BY <2>3, <2>6, <2>7, <3>1 DEF Signed
    <3>3. QED
      BY <2>2, <3>1, <3>2 DEF Signed
  <2>11. ASSUME ~crossed' PROVE Distinctly' /\ StillNew' /\ Clicked'
    <3>1. /\ ~crossed /\ Distinctly /\ StillNew /\ Clicked /\ Placed /\ ClicksAlone
      BY <2>11, CrossedStays DEF PopupInv, ListInv, Orderly
    <3>2. Distinctly'
      BY <2>2, <3>1 DEF Distinctly
    <3>3. t # Esc /\ Answering(t)
      BY <1>1, <3>1 DEF Placed, Answering
    <3>4. ASSUME NEW u \in PopupThreads, at'[u] = "check"
          PROVE  u = t
      <4>1. CASE u # t
        <5>1. at[u] = "check"
          BY <1>2, <2>1, <3>4, <4>1, StepDoes
        <5>2. u # Esc /\ Answering(u)
          BY <3>1, <5>1 DEF Placed, Answering
        <5>3. QED
          BY <3>1, <3>3, <5>2 DEF ClicksAlone
      <4>2. QED
        BY <4>1
    <3>5. \A i \in DOMAIN addresses : address[addresses[i]].address # d.address
      BY <1>2, <2>1, GetAddressIs
    <3>6. dlg'[t.of].address = d.address
      BY <1>2, <2>6, <2>7
    <3>7. StillNew'
      BY <2>2, <3>4, <3>5, <3>6 DEF StillNew
    <3>8. QED
      BY <2>11, <3>1, <3>2, <3>7, ClickedStays
  <2>12. QED
    BY <2>9, <2>10, <2>11 DEF ListInv
<1>6. QED
  BY <1>4, <1>5

\* An address is added.
LEMMA AddAddressKeeps ==
  ASSUME PopupInv, ListInv, DialogueNext, NEW t \in PopupThreads, AddAddress(t)
  PROVE  ListInv'
<1> DEFINE d == dlg[t.of]
           n == [address |-> d.address, name |-> d.name,
                 signer |-> IF d.of = 0 THEN NoName ELSE signer[d.of].name]
<1>1. /\ at[t] = "check" /\ d.kind = "address add" /\ Save(t)
      /\ UNCHANGED <<signers, signer, dlg, renamed>>
      /\ address' = Append(address, n) /\ addresses' = Append(addresses, Len(address) + 1)
  BY DEF AddAddress, Is
<1>2. /\ ListTypes /\ d.address \in Addresses /\ d.name \in Names
      /\ d.of \in {0} \cup DOMAIN signer
  BY <1>1, RemembersHere DEF Remembers
<1>3. /\ signer \in Seq(Signer) /\ signers \in Seq(DOMAIN signer)
      /\ address \in Seq(Address) /\ addresses \in Seq(DOMAIN address)
      /\ renamed \in BOOLEAN
  BY <1>2 DEF ListTypes
<1>4. may' \in Moves
  BY <1>1, RemembersHere, SaveIs
<1>5. n \in Address /\ n.address = d.address
  <2>1. d.of # 0 => signer[d.of].name \in Names
    BY <1>2, SignerIs
  <2>2. QED
    BY <1>2, <2>1 DEF Address
<1>6. n.signer = IF d.of = 0 THEN NoName ELSE signer[d.of].name
  OBVIOUS
<1> HIDE DEF n
<1> DEFINE k == Len(address) + 1  last == Len(addresses) + 1
<1>7. /\ address' \in Seq(Address) /\ Len(address') = k
      /\ \A x \in 1..Len(address) : address'[x] = address[x]
      /\ address'[k] = n
  <2>1. /\ Append(address, n) \in Seq(Address) /\ Len(Append(address, n)) = k
        /\ \A x \in 1..Len(address) : Append(address, n)[x] = address[x]
        /\ Append(address, n)[k] = n
    BY <1>3, <1>5, AppendProperties
  <2>2. QED
    BY <1>1, <2>1
<1>8. /\ DOMAIN address = 1..Len(address) /\ DOMAIN address' = 1..k
      /\ Len(address) \in Nat
  BY <1>3, <1>7
<1>9. DOMAIN address \subseteq DOMAIN address' /\ k \in DOMAIN address'
  BY <1>8
<1>10. addresses \in Seq(DOMAIN address')
  BY <1>3, <1>9
<1>11. /\ addresses' \in Seq(DOMAIN address') /\ Len(addresses') = last
       /\ \A i \in 1..Len(addresses) : addresses'[i] = addresses[i]
       /\ addresses'[last] = k
  <2>1. /\ Append(addresses, k) \in Seq(DOMAIN address') /\ Len(Append(addresses, k)) = last
        /\ \A i \in 1..Len(addresses) : Append(addresses, k)[i] = addresses[i]
        /\ Append(addresses, k)[last] = k
    BY <1>9, <1>10, AppendProperties
  <2>2. QED
    BY <1>1, <2>1
<1>12. /\ DOMAIN addresses = 1..Len(addresses) /\ DOMAIN addresses' = 1..last
       /\ Len(addresses) \in Nat
  BY <1>3, <1>11
<1>13. ListTypes'
  BY <1>1, <1>2, <1>3, <1>4, <1>7, <1>9, <1>11, TypesStay
<1>14. \A i \in DOMAIN addresses' :
         \/ i \in DOMAIN addresses /\ address'[addresses'[i]] = address[addresses[i]]
         \/ i = last /\ address'[addresses'[i]] = n
  <2>1. \A i \in DOMAIN addresses : addresses[i] \in 1..Len(address)
    BY <1>3, <1>8
  <2>2. ASSUME NEW i \in DOMAIN addresses
        PROVE  address'[addresses'[i]] = address[addresses[i]]
    BY <1>7, <1>11, <1>12, <2>1
  <2>3. \A i \in DOMAIN addresses' : i \in DOMAIN addresses \/ i = last
    BY <1>12
  <2>4. address'[addresses'[last]] = n
    BY <1>7, <1>11
  <2>5. QED
    BY <2>2, <2>3, <2>4
<1>15. ASSUME ~renamed' PROVE Signed'
  <2>1. Signed /\ d.of \in {0} \cup ToSet(signers)
    BY <1>1, <1>15, RemembersHere DEF ListInv
  <2>2. ASSUME NEW i \in DOMAIN addresses'
        PROVE  \/ address'[addresses'[i]].signer = NoName
               \/ \E o \in ToSet(signers) : address'[addresses'[i]].signer = signer[o].name
    <3>1. CASE i \in DOMAIN addresses /\ address'[addresses'[i]] = address[addresses[i]]
      BY <2>1, <3>1 DEF Signed
    <3>2. CASE i = last /\ address'[addresses'[i]] = n
      BY <1>6, <2>1, <3>2
    <3>3. QED
      BY <1>14, <3>1, <3>2
  <2>3. QED
    BY <1>1, <2>1, <2>2 DEF Signed
<1>16. ASSUME ~crossed', Distinctly PROVE Distinctly'
  <2>1. \A i \in DOMAIN addresses : address[addresses[i]].address # d.address
    BY <1>1, <1>16, CrossedStays DEF PopupInv, ListInv, StillNew
  <2>2. ASSUME NEW i \in DOMAIN addresses', NEW j \in DOMAIN addresses',
               address'[addresses'[i]].address = address'[addresses'[j]].address
        PROVE  i = j
    BY <1>5, <1>14, <1>16, <2>1, <2>2 DEF Distinctly
  <2>3. QED
    BY <2>2 DEF Distinctly
<1>17. QED
  BY <1>1, <1>13, <1>15, <1>16, ChangesKeep

\* An address is taken out.
LEMMA RemoveAddressKeeps ==
  ASSUME PopupInv, ListInv, DialogueNext, NEW t \in PopupThreads, RemoveAddress(t)
  PROVE  ListInv'
<1> DEFINE d == dlg[t.of]  k == d.index
<1>1. at[t] = "act" /\ d.kind = "address remove"
  BY DEF RemoveAddress, Acting, Is
<1>2. ListTypes /\ k \in Nat \ {0}
  BY <1>1, RemembersHere DEF Remembers
<1>3. /\ signer \in Seq(Signer) /\ signers \in Seq(DOMAIN signer)
      /\ address \in Seq(Address) /\ addresses \in Seq(DOMAIN address)
      /\ renamed \in BOOLEAN
  BY <1>2 DEF ListTypes
<1>4. CASE k > Len(addresses)
  BY <1>4, NothingKeeps DEF RemoveAddress
<1>5. CASE ~(k > Len(addresses))
  <2>1. /\ addresses' = RemoveAt(addresses, k) /\ Save(t)
        /\ UNCHANGED <<signers, signer, address, dlg, renamed>>
    BY <1>5 DEF RemoveAddress
  <2>2. k \in 1..Len(addresses)
    BY <1>2, <1>3, <1>5
  <2> HIDE DEF k
  <2> DEFINE m == [i \in 1..(Len(addresses) - 1) |-> IF i < k THEN i ELSE i + 1]
  <2>3. /\ addresses' \in Seq(DOMAIN address) /\ Len(addresses') = Len(addresses) - 1
        /\ \A i \in 1..(Len(addresses) - 1) :
             addresses'[i] = IF i < k THEN addresses[i] ELSE addresses[i + 1]
    BY <1>3, <2>1, <2>2, RemoveAtElements
  <2>4. /\ DOMAIN addresses = 1..Len(addresses) /\ Len(addresses) \in Nat
        /\ DOMAIN addresses' = 1..(Len(addresses) - 1)
    BY <1>3, <2>3
  <2>5. /\ \A i, j \in DOMAIN addresses' : m[i] = m[j] => i = j
        /\ \A i \in DOMAIN addresses' :
             m[i] \in DOMAIN addresses /\ addresses'[i] = addresses[m[i]]
    BY <2>2, <2>3, <2>4
  <2>6. may' \in Moves
    BY <1>1, <2>1, RemembersHere, SaveIs
  <2>7. ListTypes'
    BY <1>2, <1>3, <2>1, <2>3, <2>6, TypesStay
  <2> HIDE DEF m
  <2>8. Signed => Signed'
    BY <2>1, <2>5, SignedStays
  <2>9. ~renamed' => Signed'
    BY <2>1, <2>8 DEF ListInv
  <2>10. Distinctly => Distinctly'
    BY <2>1, <2>5, DistinctlyStays
  <2>11. QED
    BY <1>1, <2>1, <2>7, <2>9, <2>10, ChangesKeep
<1>6. QED
  BY <1>4, <1>5

\* An address is given another name.
LEMMA EditAddressKeeps ==
  ASSUME PopupInv, ListInv, DialogueNext, NEW t \in PopupThreads, EditAddress(t)
  PROVE  ListInv'
<1> DEFINE d == dlg[t.of]  o == d.of  n == [address[o] EXCEPT !.name = d.to]
<1>1. /\ at[t] = "act" /\ d.kind = "address edit" /\ Save(t)
      /\ address' = [address EXCEPT ![o].name = d.to]
      /\ UNCHANGED <<signers, addresses, signer, dlg, renamed>>
  BY DEF EditAddress, Acting, Is
<1>2. ListTypes /\ o \in DOMAIN address /\ d.to \in Names
  BY <1>1, RemembersHere DEF Remembers
<1>3. /\ signer \in Seq(Signer) /\ signers \in Seq(DOMAIN signer)
      /\ address \in Seq(Address) /\ addresses \in Seq(DOMAIN address)
      /\ renamed \in BOOLEAN
  BY <1>2 DEF ListTypes
<1>4. address' = [address EXCEPT ![o] = n]
  BY <1>1
<1>5. /\ n \in Address /\ n.address = address[o].address /\ n.signer = address[o].signer
  <2>1. address[o] \in Address
    BY <1>2, <1>3
  <2>2. QED
    BY <1>2, <2>1 DEF Address
<1> HIDE DEF n
<1>6. /\ address' \in Seq(Address) /\ DOMAIN address' = DOMAIN address
      /\ \A x \in DOMAIN address : address'[x] = IF x = o THEN n ELSE address[x]
  BY <1>2, <1>3, <1>4, <1>5, ExceptSeq
<1>7. \A i \in DOMAIN addresses :
        /\ address'[addresses[i]].address = address[addresses[i]].address
        /\ address'[addresses[i]].signer = address[addresses[i]].signer
  <2>1. \A i \in DOMAIN addresses : addresses[i] \in DOMAIN address
    BY <1>3
  <2>2. QED
    BY <1>5, <1>6, <2>1
<1>8. may' \in Moves
  BY <1>1, RemembersHere, SaveIs
<1>9. ListTypes'
  BY <1>1, <1>2, <1>3, <1>6, <1>8, TypesStay
<1>10. Signed => Signed'
  BY <1>1, <1>7, SignedStays
<1>11. ~renamed' => Signed'
  BY <1>1, <1>10 DEF ListInv
<1>12. Distinctly => Distinctly'
  BY <1>1, <1>7, DistinctlySame
<1>13. QED
  BY <1>1, <1>9, <1>11, <1>12, ChangesKeep

-----------------------------------------------------------------------------
(* The invariant of the lists.                                             *)

\* A world is a wallet, and no dialogue is open.
LEMMA ListInvInit == DialogueInit => ListInv
<1> SUFFICES ASSUME DialogueInit PROVE ListInv
  OBVIOUS
<1>1. PICK w \in DialogueWorlds :
        /\ PopupInit
        /\ signer = w.signer /\ signers = [i \in DOMAIN signer |-> i]
        /\ address = w.address /\ addresses = [i \in DOMAIN address |-> i]
        /\ dlg = [p \in Popup |-> Free]
        /\ may = [asks |-> w.asks, fails |-> w.fails, sorts |-> w.sorts]
        /\ renamed = FALSE
  BY DEF DialogueInit
<1>2. IsWorld(w)
  BY WorldsAssumption
<1>3. /\ may \in Moves /\ signer \in Seq(Signer) /\ address \in Seq(Address)
  BY <1>1, <1>2 DEF IsWorld
<1>4. /\ \A i, j \in DOMAIN address : address[i].address = address[j].address => i = j
      /\ \A i \in DOMAIN address :
           address[i].signer \in {NoName} \cup {signer[o].name : o \in DOMAIN signer}
  BY <1>1, <1>2 DEF IsWorld
<1>5. /\ DOMAIN signer = 1..Len(signer) /\ Len(signer) \in Nat
      /\ DOMAIN address = 1..Len(address) /\ Len(address) \in Nat
  BY <1>3
<1>6. /\ DOMAIN signers = DOMAIN signer /\ \A i \in DOMAIN signer : signers[i] = i
      /\ DOMAIN addresses = DOMAIN address /\ \A i \in DOMAIN address : addresses[i] = i
  BY <1>1
<1>7. signers \in Seq(DOMAIN signer) /\ addresses \in Seq(DOMAIN address)
  <2>1. signers \in [1..Len(signer) -> DOMAIN signer]
    BY <1>1, <1>5
  <2>2. addresses \in [1..Len(address) -> DOMAIN address]
    BY <1>1, <1>5
  <2>3. QED
    BY <1>5, <2>1, <2>2, SeqDef
<1>8. \A p \in Popup : dlg[p].kind = "none"
  BY <1>1 DEF Free
<1>9. ListTypes
  <2>1. Remembering
    BY <1>8 DEF Remembering, Remembers
  <2>2. dlg = [p \in Popup |-> dlg[p]]
    BY <1>1
  <2>3. renamed \in BOOLEAN
    BY <1>1
  <2>4. QED
    BY <1>3, <1>7, <2>1, <2>2, <2>3 DEF ListTypes
<1>10. Signed
  <2>1. \A o \in DOMAIN signer : o \in ToSet(signers)
    BY <1>6 DEF ToSet
  <2>2. ASSUME NEW i \in DOMAIN addresses
        PROVE  \/ address[addresses[i]].signer = NoName
               \/ \E o \in ToSet(signers) : address[addresses[i]].signer = signer[o].name
    BY <1>4, <1>6, <2>1
  <2>3. QED
    BY <1>8, <2>2 DEF Signed
<1>11. Distinctly
  BY <1>4, <1>6 DEF Distinctly
<1>12. StillNew /\ Clicked
  <2>1. \A t \in PopupThreads : at[t] = "idle"
    BY <1>1 DEF PopupInit
  <2>2. QED
    BY <2>1 DEF StillNew, Clicked, Answering
<1>13. QED
  BY <1>9, <1>10, <1>11, <1>12 DEF ListInv

\* Only a dialogue goes on from its check.
LEMMA PopupsCheckNothing ==
  ASSUME PopupTypeOK, NEW u \in PopupThreads, at'[u] = "check",
         \/ \E p \in Popup : Process(p)
         \/ MainLoop \/ UserCloses
         \/ \E t \in PopupThreads : Hides(t) \/ ShowPopup(t)
  PROVE  at[u] = "check"
<1>1. ASSUME NEW t \in PopupThreads, NEW l, Step(t, l), l # "check"
      PROVE  at[u] = "check"
  BY <1>1, StepDoes
<1>2. ASSUME NEW p \in Popup, Process(p) PROVE at[u] = "check"
  <2>1. \E l \in {"look", "pause", "show", "refused", "queue", "over"} : Step(Ask(p), l)
    BY <1>2 DEF Process, Pause, Look, Queue
  <2>2. QED
    BY <1>1, <2>1, Kinds
<1>3. ASSUME MainLoop \/ PressEsc PROVE at[u] = "check"
  <2>1. at' = at \/ \E l \in {"panic", "hide"} : Step(Esc, l)
    BY <1>3 DEF MainLoop, TakeEvent, Layout, PressEsc
  <2>2. QED
    BY <1>1, <2>1, Kinds
<1>4. ASSUME NEW t \in PopupThreads, Click(t) \/ Hides(t) \/ ShowPopup(t)
      PROVE  at[u] = "check"
  <2>1. \E l \in {"act", "over", "idle", "delete", "resume", "panic", "close", "pop", "post",
                  "clear"} : Step(t, l)
    BY <1>4 DEF Click, Hides, ShowPopup, HidePopup, Resume, OnClose, PopQueue, DeleteView,
                ClearPopup, Ended
  <2>2. QED
    BY <1>1, <2>1
<1>5. QED
  BY <1>2, <1>3, <1>4 DEF UserCloses

\* Every step keeps it.
LEMMA ListInvStep == PopupInv /\ ListInv /\ [DialogueNext]_dialogueVars => ListInv'
<1> SUFFICES ASSUME PopupInv, ListInv, [DialogueNext]_dialogueVars PROVE ListInv'
  OBVIOUS
<1>1. CASE UNCHANGED dialogueVars
  <2>1. UNCHANGED <<signers, addresses, signer, address, dlg, may, renamed, at, crossed>>
    BY <1>1 DEF dialogueVars, popupVars, lists
  <2>2. QED
    BY <2>1 DEF ListInv, ListTypes, Remembering, Remembers, Signed, Distinctly, StillNew,
                Clicked, Answering
<1>2. CASE DialogueNext
  <2>1. ASSUME \/ \E p \in Popup : Process(p)
               \/ MainLoop \/ UserCloses
               \/ \E t \in PopupThreads : Hides(t) \/ ShowPopup(t),
               Rest
        PROVE  ListInv'
    <3>1. UNCHANGED <<signers, addresses, signer, address, dlg, renamed>> /\ may' = may
      BY <2>1 DEF Rest, lists
    <3>2. PopupTypeOK /\ may \in Moves
      BY DEF PopupInv, ListInv, ListTypes
    <3>3. \A u \in PopupThreads : at'[u] = "check" => at[u] = "check"
      BY <2>1, <3>2, PopupsCheckNothing
    <3>4. QED
      BY <1>2, <3>1, <3>2, <3>3, RestKeeps
  <2>2. ASSUME NEW p \in Popup, Command(p) PROVE ListInv'
    BY <1>2, <2>2, CommandKeepsLists
  <2>3. CASE ListAddresses
    BY <1>2, <2>3, ListAddressesKeepsLists
  <2>4. ASSUME NEW t \in PopupThreads, OK(t) \/ Cancel(t) PROVE ListInv'
    BY <1>2, <2>4, RemoveSignerKeeps, RemoveCopyKeeps, PromoteKeeps, EditSignerKeeps,
       CheckSignerKeeps, AddSignerKeeps, CheckAddressKeeps, AddAddressKeeps,
       RemoveAddressKeeps, EditAddressKeeps, NothingKeeps DEF OK
  <2>5. QED
    BY <1>2, <2>1, <2>2, <2>3, <2>4 DEF DialogueNext, Works
<1>3. QED
  BY <1>1, <1>2

\* It says that the addresses are sound.
LEMMA AddressesSoundLemma == ListInv => AddressesSound
<1> SUFFICES ASSUME ListInv PROVE AddressesSound
  OBVIOUS
<1>1. AddressesOnce
  BY DEF ListInv, Distinctly, AddressesOnce
<1>2. AddressesStaySigned
  <2>1. ASSUME ~renamed, NEW i \in DOMAIN addresses
        PROVE  address[addresses[i]].signer
                 \in {NoName} \cup {signer[o].name : o \in ToSet(signers)}
    BY <2>1 DEF ListInv, Signed
  <2>2. QED
    BY <2>1 DEF AddressesStaySigned
<1>3. QED
  BY <1>1, <1>2 DEF AddressesSound

\* The types of the lists of cmn/wallet.go and of what the dialogues of ui/dlg_*.go remember
\* of them: an index that was right, a pointer to a signer or an address that once was there.
THEOREM DialogueTypes == DialogueSpec => []DialogueTypeOK
<1>1. DialogueInit => PopupInv /\ ListInv
  BY PopupInvInit, ListInvInit DEF DialogueInit
<1>2. PopupInv /\ ListInv /\ [DialogueNext]_dialogueVars => (PopupInv /\ ListInv)'
  BY PopupInvStep, ListInvStep
<1>3. PopupInv /\ ListInv => DialogueTypeOK
  BY DEF PopupInv, ListInv, ListTypes, DialogueTypeOK
<1>4. QED
  BY <1>1, <1>2, <1>3, PTL DEF DialogueSpec

\* Whatever is added, removed, promoted and sorted by whatever dialogues in whatever order:
\* no address is in the wallet twice, unless two clicks met in one dialogue, and each is
\* watched or has its signer there, unless a signer was renamed or removed (ui/dlg_*.go,
\* command/signer.go, command/address.go).
THEOREM AddressesStaySound == DialogueSpec => []AddressesSound
<1>1. DialogueInit => PopupInv /\ ListInv
  BY PopupInvInit, ListInvInit DEF DialogueInit
<1>2. PopupInv /\ ListInv /\ [DialogueNext]_dialogueVars => (PopupInv /\ ListInv)'
  BY PopupInvStep, ListInvStep
<1>3. QED
  BY <1>1, <1>2, AddressesSoundLemma, PTL DEF DialogueSpec
=============================================================================
