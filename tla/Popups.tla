-------------------------------- MODULE Popups --------------------------------
(***************************************************************************)
(* The popups, ui/popup.go over gocui/popup.go. Each message "popup" has a *)
(* goroutine of its own that shows the popup or queues it, and each click  *)
(* one that may close it; ESC closes it on the main loop, which also takes *)
(* the events by which a popup is set and lays it out. popupQueueM guards  *)
(* the queue, nothing guards the current popup: each access to it between  *)
(* two calls is a step, and a nil one ends the program.                    *)
(***************************************************************************)
EXTENDS FiniteSets, Integers, SequencesExt

CONSTANTS
  Popup,   \* the popups of a behaviour, numbered as they are asked for
  Twice,   \* those that are clicked twice
  FollowCrossed \* whether to look at what follows when two goroutines have met

ASSUME PopupAssumption ==
  /\ Popup \subseteq Nat \ {0}
  /\ Twice \subseteq Popup
  /\ FollowCrossed \in BOOLEAN

NoPopup == 0

\* The goroutines: of a message, of a click, of a second one, and the main loop.
Esc == [job |-> "esc", of |-> NoPopup]
PopupThreads == [job : {"ask", "click"}, of : Popup] \cup [job : {"again"}, of : Twice] \cup {Esc}
Ask(p) == [job |-> "ask", of |-> p]

VARIABLES
  from,     \* who asks for a popup: a "command"; a hail, as part of an "operation" with a
            \* timer, which the popup pauses; the pane of a "trezor", which pauses as well
            \* and then shows its popup without waiting for a turn
  popup,    \* g.popup
  view,     \* the popup whose view is on the screen
  laid,     \* the popups that have a View
  events,   \* userEvents: the popups to become g.popup
  popupQueue,
  at,       \* where a goroutine is
  takes,    \* the popup it closes, or shows
  paused,   \* the popups that hold a timer
  served,   \* how many times a popup was closed and its message answered
  stranded, \* history: the popups queued behind that of a Trezor, which serves no queue
            \* when it closes, and those of a Trezor that were closed with ESC, which
            \* answers nothing: the pane still wants its password
  crossed   \* history: two goroutines met in the middle of their work

screen == <<popup, view, laid, events>>
popupVars == <<from, screen, popupQueue, at, takes, paused, served, stranded, crossed>>

PopupInit ==
  /\ from = [p \in Popup |-> "command"]
  /\ popup = NoPopup /\ view = NoPopup /\ laid = {} /\ events = <<>>
  /\ popupQueue = <<>>
  /\ at = [t \in PopupThreads |-> "idle"]
  /\ takes = [t \in PopupThreads |-> t.of]
  /\ paused = {}
  /\ served = [p \in Popup |-> 0]
  /\ stranded = {}
  /\ crossed = FALSE

\* A panic, in here or in the function of a dialogue, ends the program.
Gone == \E t \in PopupThreads : at[t] \in {"panic", "fault"}

Runs == ~Gone /\ (crossed => FollowCrossed)
Is(t, label) == at[t] = label /\ Runs
Step(t, label) == at' = [at EXCEPT ![t] = label]
Ended(t) == Step(t, IF t = Esc THEN "idle" ELSE "over")

Closing(t)  == at[t] \in {"resume", "close", "pop", "post", "delete", "clear"}
Deciding(t) == at[t] \in {"show", "queue"}
Answering(t) == at[t] \in {"act", "check", "hide"}
MainBusy    == at[Esc] # "idle"

Crossed(now) == crossed' = (crossed \/ now)

-----------------------------------------------------------------------------
\* processPopup; the pane of a Trezor starts with the pause as well, then shows. Its button
\* can be clicked only while no popup is open.
Asked(p, by) ==
  /\ Is(Ask(p), "idle")
  /\ by = "trezor" => popup = NoPopup /\ ~MainBusy
  /\ \A q \in Popup : q < p => at[Ask(q)] # "idle"
  /\ from' = [from EXCEPT ![p] = by]
  /\ Step(Ask(p), IF by = "command" THEN "look" ELSE "pause")

Pause(p) ==
  /\ Is(Ask(p), "pause")
  /\ \/ paused' = paused \cup {p} /\ Step(Ask(p), IF from[p] = "trezor" THEN "show" ELSE "look")
     \/ Step(Ask(p), "refused") /\ UNCHANGED paused   \* the time was up
  /\ UNCHANGED <<from, screen, popupQueue, takes, served, stranded, crossed>>

Look(p) ==
  /\ Is(Ask(p), "look")
  /\ Step(Ask(p), IF popup = NoPopup THEN "show" ELSE "queue")
  /\ stranded' = stranded \cup (IF popup # NoPopup /\ from[popup] = "trezor" THEN {p} ELSE {})
  /\ Crossed((\E t \in PopupThreads : Closing(t) \/ at[t] = "show") \/ events # <<>>)
  /\ UNCHANGED <<from, screen, popupQueue, takes, paused, served>>

Queue(p) ==
  /\ Is(Ask(p), "queue")
  /\ popupQueue' = Append(popupQueue, p)
  /\ Step(Ask(p), "over")
  /\ UNCHANGED <<from, screen, takes, paused, served, stranded, crossed>>

\* ShowPopup of a goroutine that found none open, or had one taken off the queue.
ShowPopup(t) ==
  /\ Is(t, "show") \/ Is(t, "post")
  /\ events' = Append(events, takes[t])
  /\ Step(t, IF t.job = "ask" THEN "over" ELSE "delete")
  /\ Crossed(t.of # NoPopup /\ from[t.of] = "trezor" /\ t.job = "ask" /\ (popup # NoPopup \/ events # <<>>))
  /\ UNCHANGED <<from, popup, view, laid, popupQueue, takes, paused, served, stranded>>

-----------------------------------------------------------------------------
\* The main loop takes an event.
TakeEvent ==
  /\ ~MainBusy /\ Runs
  /\ events # <<>>
  /\ popup' = Head(events)
  /\ events' = Tail(events)
  /\ Crossed(popup # NoPopup \/ \E t \in PopupThreads : Closing(t))
  /\ UNCHANGED <<from, view, laid, popupQueue, at, takes, paused, served, stranded>>

\* The main loop lays the popup out after any event. All popups have one name: a new one
\* finds the view of an old one that is still there, gets none itself and falls over it.
Layout ==
  /\ ~MainBusy /\ Runs
  /\ popup # NoPopup /\ view # popup
  /\ IF view = NoPopup
     THEN view' = popup /\ laid' = laid \cup {popup} /\ UNCHANGED at
     ELSE /\ UNCHANGED <<view, laid>>
          /\ IF popup \in laid THEN UNCHANGED at ELSE Step(Esc, "panic")
  /\ Crossed(\E t \in PopupThreads : Closing(t))
  /\ UNCHANGED <<from, popup, events, popupQueue, takes, paused, served, stranded>>

-----------------------------------------------------------------------------
\* The user clicks a button, or presses ESC.
Click(t) ==
  /\ t.job \in {"click", "again"}
  /\ Is(t, "idle") /\ ~MainBusy
  /\ popup = t.of /\ popup \in laid /\ view = popup
  /\ Step(t, "act")
  /\ Crossed(\E u \in PopupThreads : Answering(u) \/ Closing(u))
  /\ UNCHANGED <<from, screen, popupQueue, takes, paused, served, stranded>>

PressEsc ==
  /\ Is(Esc, "idle")
  /\ popup \in laid
  /\ Step(Esc, "hide")
  /\ UNCHANGED <<from, screen, popupQueue, takes, paused, served, stranded, crossed>>

\* HidePopup up to the call of OnClose.
HidePopup(t) ==
  /\ Is(t, "hide")
  /\ IF popup = NoPopup THEN Ended(t) /\ UNCHANGED takes
     ELSE /\ Step(t, IF popup \in laid THEN "resume" ELSE "panic")
          /\ takes' = [takes EXCEPT ![t] = popup]
  /\ Crossed(\/ \E u \in PopupThreads \ {t} : Closing(u) \/ Deciding(u) \/ Answering(u)
             \/ events # <<>>)
  /\ UNCHANGED <<from, screen, popupQueue, paused, served, stranded>>

Resume(t) ==
  /\ Is(t, "resume")
  /\ paused' = paused \ {takes[t]}
  /\ Step(t, "close")
  /\ UNCHANGED <<from, screen, popupQueue, takes, served, stranded, crossed>>

\* The popup's own OnClose and Respond. That of a Trezor leaves the queue alone, and only
\* its buttons answer, when they are done with HidePopup.
OnClose(t) ==
  /\ Is(t, "close")
  /\ IF from[takes[t]] = "trezor"
     THEN /\ Step(t, "delete")
          /\ stranded' = stranded \cup (IF t = Esc THEN {takes[t]} ELSE {})
          /\ UNCHANGED served
     ELSE /\ Step(t, "pop")
          /\ served' = [served EXCEPT ![takes[t]] = @ + 1]
          /\ UNCHANGED stranded
  /\ UNCHANGED <<from, screen, popupQueue, takes, paused, crossed>>

\* Variant: the queue is emptied.
PopQueueEmpties(t) ==
  /\ Is(t, "pop")
  /\ popupQueue' = <<>>
  /\ IF popupQueue = <<>> THEN Step(t, "delete") /\ UNCHANGED takes
     ELSE Step(t, "post") /\ takes' = [takes EXCEPT ![t] = Head(popupQueue)]
  /\ UNCHANGED <<from, screen, paused, served, stranded, crossed>>

PopQueue(t) ==
  /\ Is(t, "pop")
  /\ IF popupQueue = <<>> THEN Step(t, "delete") /\ UNCHANGED <<popupQueue, takes>>
     ELSE /\ Step(t, "post")
          /\ takes' = [takes EXCEPT ![t] = Head(popupQueue)]
          /\ popupQueue' = Tail(popupQueue)
  /\ UNCHANGED <<from, screen, paused, served, stranded, crossed>>

\* The rest of HidePopup reads g.popup again.
DeleteView(t) ==
  /\ Is(t, "delete")
  /\ IF popup \in laid THEN view' = NoPopup /\ Step(t, "clear")
     ELSE Step(t, "panic") /\ UNCHANGED view
  /\ UNCHANGED <<from, popup, laid, events, popupQueue, takes, paused, served, stranded, crossed>>

\* A button of a Trezor's popup then answers.
ClearPopup(t) ==
  /\ Is(t, "clear")
  /\ IF popup = NoPopup THEN Step(t, "panic") /\ UNCHANGED <<popup, served>>
     ELSE /\ popup' = NoPopup
          /\ Ended(t)
          /\ served' = IF t # Esc /\ from[t.of] = "trezor"
                       THEN [served EXCEPT ![t.of] = @ + 1] ELSE served
  /\ UNCHANGED <<from, view, laid, events, popupQueue, takes, paused, stranded, crossed>>

-----------------------------------------------------------------------------
Process(p) == Pause(p) \/ Look(p) \/ Queue(p)

Hides(t) == HidePopup(t) \/ Resume(t) \/ OnClose(t) \/ PopQueue(t)
              \/ DeleteView(t) \/ ClearPopup(t)

MainLoop == TakeEvent \/ Layout

UserCloses == PressEsc \/ \E t \in PopupThreads : Click(t)

AtRest ==
  /\ popup = NoPopup /\ events = <<>>
  /\ \A t \in PopupThreads : at[t] \in {"idle", "over", "refused"}

PopupTypeOK ==
  /\ from \in [Popup -> {"command", "operation", "trezor"}]
  /\ popup \in Popup \cup {NoPopup} /\ view \in Popup \cup {NoPopup}
  /\ laid \subseteq Popup
  /\ events \in Seq(Popup) /\ popupQueue \in Seq(Popup)
  /\ at \in [PopupThreads ->
       {"idle", "pause", "look", "queue", "show", "act", "check", "hide", "resume", "close",
        "pop", "post", "delete", "clear", "over", "refused", "panic", "fault"}]
  /\ takes \in [PopupThreads -> Popup \cup {NoPopup}]
  /\ paused \subseteq Popup
  /\ served \in [Popup -> Nat]
  /\ stranded \subseteq Popup
  /\ crossed \in BOOLEAN
=============================================================================
