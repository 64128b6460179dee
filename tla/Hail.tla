--------------------------------- MODULE Hail ---------------------------------
(***************************************************************************)
(* The hail pane, ui/pane_hail.go: the queue of requests that wait for the *)
(* user and the one that is shown.  The bus gives each "hail" and each     *)
(* "remove-hail" a goroutine of its own, the user interface gives each     *)
(* click one, and OnCancel runs in the goroutine of the FetchEx that sent  *)
(* the hail.  HQMutex guards the queue, nothing guards ActiveRequest: each *)
(* access to it is a step, taken in memory order.                          *)
(***************************************************************************)
EXTENDS FiniteSets, Integers, SequencesExt

CONSTANTS
  Hails,      \* the hails sent during a behaviour
  None,
  Priorized,  \* those that go to the front; no sender sets it today
  Blockable   \* those with a button Block: the hails of a browser connection

ASSUME NoneAssumption == None \notin Hails
ASSUME PriorizedAssumption == Priorized \subseteq Hails
ASSUME BlockableAssumption == Blockable \subseteq Hails

\* The goroutines, by what they do for a hail: add it, cancel it after "done",
\* remove it after the button Block, or run its OnOk.
Threads == [job : {"add", "cancel", "ok"}, of : Hails]
             \cup [job : {"block"}, of : Blockable]
Thread(job, h) == [job |-> job, of |-> h]

VARIABLES
  queue,      \* HailQueue
  active,     \* ActiveRequest
  shown,      \* the pane is on and has its view
  suspended,  \* the hails whose Suspended is set
  onCancel,   \* the hails whose message has its OnCancel
  fetch,      \* the FetchEx that sent the hail: "waiting", "replied", or after
              \* done "cancelled" (it called OnCancel) or "timedout" (had none)
  answers,    \* how many times the hail was responded to
  pc,         \* where a thread is
  target,     \* the hail a thread removes or opens
  overlapped  \* history: a handler began while another one was at work

pane == <<active, shown, suspended>>
request == <<onCancel, fetch, answers>>
vars == <<queue, pane, request, pc, target, overlapped>>

-----------------------------------------------------------------------------
Init ==
  /\ queue = <<>>
  /\ active = None
  /\ shown = FALSE
  /\ suspended = {}
  /\ onCancel = {}
  /\ fetch = [h \in Hails |-> "waiting"]
  /\ answers = [h \in Hails |-> 0]
  /\ pc = [t \in Threads |-> IF t.job = "add" THEN "add" ELSE "idle"]
  /\ target = [t \in Threads |-> t.of]
  /\ overlapped = FALSE

Queued(h) == Contains(queue, h)

Busy(t) == pc[t] \notin {"add", "idle", "onok", "over"}
Quiet == \A t \in Threads : ~Busy(t)
\* add, remove or open begins.
Enter == overlapped' = (overlapped \/ ~Quiet)

\* A panic of one goroutine ends the program.
Panicked == \E t \in Threads : pc[t] = "panic"

Goto(t, label) == pc' = [pc EXCEPT ![t] = label]

At(t, label) == pc[t] = label /\ ~Panicked

-----------------------------------------------------------------------------
\* add and hqAdd
HqAdd(h) ==
  /\ At(Thread("add", h), "add")
  /\ Enter
  /\ queue' = IF h \in Priorized THEN <<h>> \o queue ELSE Append(queue, h)
  /\ Goto(Thread("add", h), "set")
  /\ UNCHANGED <<pane, request, target>>

SetOnCancel(h) ==
  /\ At(Thread("add", h), "set")
  /\ onCancel' = onCancel \cup {h}
  /\ Goto(Thread("add", h), "top")
  /\ UNCHANGED <<queue, pane, fetch, answers, target, overlapped>>

\* HailQueue[0] is read without the mutex and without a look at the length.
CheckTop(h) ==
  /\ At(Thread("add", h), "top")
  /\ Goto(Thread("add", h), IF queue = <<>> THEN "panic"
                            ELSE IF Head(queue) = h THEN "open" ELSE "over")
  /\ UNCHANGED <<queue, pane, request, target, overlapped>>

-----------------------------------------------------------------------------
\* Variant: the hail is taken to have been in the queue.
HqRemoveUnchecked(t) ==
  /\ At(t, "remove")
  /\ queue' = RemoveFirst(queue, target[t])
  /\ Goto(t, "close")
  /\ UNCHANGED <<pane, request, target, overlapped>>

\* remove: hqRemove, then OnClose and Respond, then the pane.
HqRemove(t) ==
  /\ At(t, "remove")
  /\ IF Queued(target[t])
     THEN queue' = RemoveFirst(queue, target[t]) /\ Goto(t, "close")
     ELSE UNCHANGED queue /\ Goto(t, "over")
  /\ UNCHANGED <<pane, request, target, overlapped>>

CloseHail(t) ==
  /\ At(t, "close")
  /\ answers' = [answers EXCEPT ![target[t]] = @ + 1]
  /\ Goto(t, "check")
  /\ UNCHANGED <<queue, pane, onCancel, fetch, target, overlapped>>

\* ActiveRequest != nil && ActiveRequest.Data == hail reads it twice.
CheckActive(t) ==
  /\ At(t, "check")
  /\ Goto(t, IF active = None THEN "over" ELSE "compare")
  /\ UNCHANGED <<queue, pane, request, target, overlapped>>

CompareActive(t) ==
  /\ At(t, "compare")
  /\ Goto(t, IF active = None THEN "panic"
             ELSE IF active = target[t] THEN "clear" ELSE "over")
  /\ UNCHANGED <<queue, pane, request, target, overlapped>>

ClearActive(t) ==
  /\ At(t, "clear")
  /\ active' = None
  /\ Goto(t, "next")
  /\ UNCHANGED <<queue, shown, suspended, request, target, overlapped>>

HqGetTop(t) ==
  /\ At(t, "next")
  /\ IF queue = <<>>
     THEN Goto(t, "hide") /\ UNCHANGED target
     ELSE Goto(t, "open") /\ target' = [target EXCEPT ![t] = Head(queue)]
  /\ UNCHANGED <<queue, pane, request, overlapped>>

HideHail(t) ==
  /\ At(t, "hide")
  /\ shown' = FALSE
  /\ Goto(t, "over")
  /\ UNCHANGED <<queue, active, suspended, request, target, overlapped>>

-----------------------------------------------------------------------------
\* open
Suspend(t) ==
  /\ At(t, "open")
  /\ suspended' = IF active \in {None, target[t]} THEN suspended
                  ELSE suspended \cup {active}
  /\ Goto(t, IF active = target[t] THEN "over" ELSE "activate")
  /\ UNCHANGED <<queue, active, shown, request, target, overlapped>>

Activate(t) ==
  /\ At(t, "activate")
  /\ active' = target[t]
  /\ Goto(t, "show")
  /\ UNCHANGED <<queue, shown, suspended, request, target, overlapped>>

\* Variant: Suspended is not reset.
ShowHailSuspended(t) ==
  /\ At(t, "show")
  /\ shown' = TRUE
  /\ Goto(t, "over")
  /\ UNCHANGED <<queue, active, suspended, request, target, overlapped>>

ShowHail(t) ==
  /\ At(t, "show")
  /\ shown' = TRUE
  /\ suspended' = suspended \ {target[t]}
  /\ Goto(t, "over")
  /\ UNCHANGED <<queue, active, request, target, overlapped>>

-----------------------------------------------------------------------------
\* The buttons of the hail that is shown.  OnOk takes its time; a hail is
\* clicked at most once on each button.
ClickOk(h) ==
  /\ At(Thread("ok", h), "idle")
  /\ shown /\ active = h
  /\ Goto(Thread("ok", h), "onok")
  /\ UNCHANGED <<queue, pane, request, target, overlapped>>

\* OnOk returns; if it returned true, remove(ActiveRequest), which does nothing
\* when no hail is active any more.
OkReturns(h) ==
  /\ At(Thread("ok", h), "onok")
  /\ \/ Goto(Thread("ok", h), "over") /\ UNCHANGED <<target, overlapped>>
     \/ /\ Enter
        /\ active # None
        /\ target' = [target EXCEPT ![Thread("ok", h)] = active]
        /\ Goto(Thread("ok", h), "remove")
  /\ UNCHANGED <<queue, pane, request>>

\* OnClickHotspot of the connection hail: "remove-hail" comes back over the bus.
ClickBlock(h) ==
  /\ h \in Blockable
  /\ At(Thread("block", h), "idle")
  /\ Enter
  /\ shown /\ active = h
  /\ Goto(Thread("block", h), "remove")
  /\ UNCHANGED <<queue, pane, request, target>>

\* FetchEx receives the "done" of its timer (it expired, or the button Cancel
\* triggered it) and calls the OnCancel of its message if there is one.
TimedOut(h) ==
  /\ fetch[h] = "waiting"
  /\ ~Panicked
  /\ IF h \in onCancel
     THEN /\ fetch' = [fetch EXCEPT ![h] = "cancelled"]
          /\ Goto(Thread("cancel", h), "remove")
          /\ Enter
     ELSE /\ fetch' = [fetch EXCEPT ![h] = "timedout"]
          /\ UNCHANGED <<pc, overlapped>>
  /\ UNCHANGED <<queue, pane, onCancel, answers, target>>

\* FetchEx receives the response.
Replied(h) ==
  /\ fetch[h] = "waiting"
  /\ ~Panicked
  /\ answers[h] > 0
  /\ fetch' = [fetch EXCEPT ![h] = "replied"]
  /\ UNCHANGED <<queue, pane, onCancel, answers, pc, target, overlapped>>

-----------------------------------------------------------------------------
Add(h) == HqAdd(h) \/ SetOnCancel(h) \/ CheckTop(h)

Removal(t) ==
  HqRemove(t) \/ CloseHail(t) \/ CheckActive(t) \/ CompareActive(t)
    \/ ClearActive(t) \/ HqGetTop(t) \/ HideHail(t)

Open(t) == Suspend(t) \/ Activate(t) \/ ShowHail(t)

User(h) == ClickOk(h) \/ OkReturns(h) \/ ClickBlock(h)

Next ==
  \/ \E h \in Hails : Add(h) \/ User(h) \/ TimedOut(h) \/ Replied(h)
  \/ \E t \in Threads : Removal(t) \/ Open(t)

Spec == Init /\ [][Next]_vars

-----------------------------------------------------------------------------
\* Types of the state.
TypeOK ==
  /\ queue \in Seq(Hails)
  /\ active \in Hails \cup {None}
  /\ shown \in BOOLEAN
  /\ suspended \subseteq Hails
  /\ onCancel \subseteq Hails
  /\ fetch \in [Hails -> {"waiting", "replied", "cancelled", "timedout"}]
  /\ answers \in [Hails -> Nat]
  /\ pc \in [Threads -> {"add", "idle", "onok", "over", "panic", "set", "top",
                         "remove", "close", "check", "compare", "clear", "next",
                         "hide", "open", "activate", "show"}]
  /\ target \in [Threads -> Hails]
  /\ overlapped \in BOOLEAN

\* The button Ok, the button Block, the time limit and the removal of another
\* hail may all reach remove(h) at once: the result of hqRemove lets one of
\* them close the hail and answer it, and no one else.
AnsweredOnce ==
  \A h \in Hails :
    answers[h] + Cardinality({t \in Threads : pc[t] = "close" /\ target[t] = h}) =
      IF pc[Thread("add", h)] = "add" \/ Queued(h) THEN 0 ELSE 1

\* When handlers do not overlap the pane follows the queue: the first hail is
\* the one shown, it is not marked as suspended, an empty queue hides the pane,
\* and no handler indexes an empty queue or follows a nil ActiveRequest.
\* Priority, removal from the middle and removal of the head keep it so.
HeadIsShown ==
  ~overlapped =>
            /\ ~Panicked
            /\ Quiet => /\ active = IF queue = <<>> THEN None ELSE Head(queue)
                        /\ shown <=> active # None
                        /\ active \notin suspended

\* "OnOk ... return true to close hail": what closes after OnOk is that hail.
OkClosesItsHail ==
  \A h \in Hails : pc[Thread("ok", h)] = "close" => target[Thread("ok", h)] = h
=============================================================================
