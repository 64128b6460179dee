------------------------------ MODULE Devices ------------------------------
(***************************************************************************)
(* The servers of the hardware wallets, hw/ledger and hw/trezor, over the  *)
(* USB server. Each message starts a goroutine, a task here: to take in a  *)
(* device that was plugged in (naming, init), or to have a device sign     *)
(* (ledger, trezor). A call writes a command to a device and reads the     *)
(* reply, each as a request to the USB server with a time limit; the reply *)
(* may ask for more: to unlock, for a PIN, a passphrase, a button.         *)
(* The devices are modelled from what the servers expect of them: a device *)
(* answers its commands one by one, whoever sent them, and a Ledger        *)
(* restarts to change its application.                                     *)
(***************************************************************************)
EXTENDS Usb, FiniteSets, SequencesExt

CONSTANTS
  Worlds,      \* what a run starts from
  MaxTries,    \* of waitForReconnect and, in a minute, of TimerLoop
  NoDev, NoName

VARIABLES
  ledgers, ledgers_mutex, trezors,
  task,        \* the goroutines
  pane,        \* pin_request and pass_request of the pane of a Trezor
  overtaken,   \* the Ledgers taken off the list by a message that a later one had overtaken
  dev,         \* the devices themselves: application, dialogue, replies
  signed,      \* the signatures given to those who asked
  budget       \* what may still happen outside: plugs, locks, failures, clicks, requests

deviceVars == <<usb, ledgers, ledgers_mutex, trezors, task, pane, overtaken, dev, signed, budget>>

Wallets  == {"asked", "other"}   \* of a Trezor: the passphrase chooses the addresses
Kinds    == {"naming", "button", "init", "ledger", "checked", "unchecked"}
Commands == {"info", "quit", "launch", "name", "sign",
             "init", "pinack", "passack", "buttonack", "cancel"}

\* for: what the task wants of a Ledger; stage, io: how far it is; cmd: the command to
\* write; parts: the calls before the one that signs (definitions of typed data, chunks of
\* a transaction); tries: how often it has looked or asked again; wants: the names it may
\* use, the signer's own and those of its copies.
Idle == [kind |-> "idle", dev |-> NoDev, by |-> Nobody, for |-> "sign", stage |-> "none",
         io |-> "none", cmd |-> "none", pass |-> "asked", parts |-> 0, tries |-> 0,
         wants |-> {}]

NoRequests == [pin |-> Nobody, pass |-> Nobody]

\* The steps of a task between two of which others may act.
\* overdue: in TimerLoop, which has subscribed after the "done" of its timer was sent.
\* hidden: the time limit is paused while the popup for a passphrase is open.
Io == {"none", "append", "getName", "find", "wait", "overdue", "call", "retry", "read",
       "reading", "hung", "look", "looking", "remove", "add", "get_pin", "get_pass", "pin",
       "pass", "hidden"}

Work == [kind : Kinds \cup {"idle"}, dev : Devices \cup {NoDev}, by : Tasks \cup {Nobody},
         for : {"sign", "name"}, stage : {"none", "info", "switch", "ask"}, io : Io,
         cmd : Commands \cup {"none"}, pass : Wallets, parts : Nat, tries : Nat,
         wants : SUBSET Devices]

Entries == [dev : Ledgers, by : Tasks \cup {Nobody}, name : Devices \cup {NoName, "junk"}]

\* What a signer is asked for: its kind of wallet, the devices it may use, the calls.
Requests == [kind : {"ledger", "checked", "unchecked"}, wants : SUBSET Devices, parts : Nat]

DevicesTypeOK ==
  /\ UsbTypeOK
  /\ ledgers \in Seq(Entries) /\ trezors \in Seq(Trezors)
  /\ ledgers_mutex \in Tasks \cup {Nobody}
  /\ task \in [Tasks -> Work]
  /\ \A p \in Tasks : task[p] = Idle \/ task[p].kind \in Kinds
  /\ \A p \in Tasks : task[p].io \in {"reading", "looking"} <=> operation_mutex = p
  /\ pane \in [Trezors -> [pin : Tasks \cup {Nobody}, pass : Tasks \cup {Nobody}]]
  /\ overtaken \subseteq Ledgers

\* A world lists the plugged devices, what the Ledgers run, the budget.
IsWorld(w) ==
  /\ w.plugged \subseteq Devices
  /\ w.budget \in [plugs : Nat, locks : Nat, fails : Nat, clicks : Nat, asks : SUBSET Requests]

ASSUME DevicesAssumption == IsFiniteSet(Ledgers) /\ IsFiniteSet(Trezors)
ASSUME WorldsAssumption == \A w \in Worlds : IsWorld(w)

DevicesInit ==
  \E w \in Worlds :
    /\ UsbInit(w.plugged)
    /\ LET s == SetToSeq(w.plugged \cap Ledgers)
       IN  ledgers = [i \in DOMAIN s |-> [dev |-> s[i], by |-> Nobody, name |-> s[i]]]
    /\ trezors = SetToSeq(w.plugged \cap Trezors)
    /\ ledgers_mutex = Nobody
    /\ task = [p \in Tasks |-> Idle]
    /\ pane = [d \in Trezors |-> NoRequests]
    /\ overtaken = {}
    /\ dev = [d \in Devices |-> [app |-> w.app, starts |-> w.starts, locked |-> FALSE,
                                 restarting |-> FALSE, dialogue |-> "idle", wallet |-> "asked",
                                 replies |-> <<>>]]
    /\ signed = {}
    /\ budget = w.budget

Busy(p) == task[p] # Idle
At(p, kinds, io) == task[p].kind \in kinds /\ task[p].io = io

Update(p, t) == task' = [task EXCEPT ![p] = t]
End(p) == Update(p, Idle)
Go(p, io) == Update(p, [task[p] EXCEPT !.io = io])
Call(p, stage, cmd) ==
  Update(p, [task[p] EXCEPT !.stage = stage, !.cmd = cmd, !.io = "call", !.tries = 0])

servers == <<ledgers, ledgers_mutex, trezors, pane, overtaken>>

(***************************************************************************)
(* Outside: the user plugs, unplugs, locks and unlocks; the devices work.  *)
(***************************************************************************)
Forget(d) == [dev EXCEPT ![d].replies = <<>>, ![d].dialogue = "idle",
                         ![d].restarting = FALSE]

UserPlugs(d) ==
  /\ budget.plugs > 0
  /\ budget' = [budget EXCEPT !.plugs = @ - 1]
  /\ \/ Plug(d) /\ UNCHANGED dev
     \/ Unplug(d) /\ dev' = Forget(d)
  /\ UNCHANGED <<servers, task, signed>>

\* The new application of a Ledger starts with a new USB connection.
Restart(d) ==
  /\ dev[d].restarting
  /\ \/ Unplug(d) /\ UNCHANGED dev
     \/ Plug(d) /\ dev' = Forget(d)
  /\ UNCHANGED <<servers, task, signed, budget>>

Lock(d) ==
  /\ d \in plugged /\ ~dev[d].locked /\ budget.locks > 0
  /\ dev' = [dev EXCEPT ![d].locked = TRUE]
  /\ budget' = [budget EXCEPT !.locks = @ - 1]
  /\ UNCHANGED <<usb, servers, task, signed>>

Unlock(d) ==
  /\ d \in Ledgers /\ dev[d].locked
  /\ dev' = [dev EXCEPT ![d].locked = FALSE]
  /\ UNCHANGED <<usb, servers, task, signed, budget>>

\* What device s replies to command c, and what becomes of it, as [what, dev]. A reply
\* that waits for the user is one that is read late, or not before the time limit.
LedgerReplies(s, c) ==
  LET to(what) == [what |-> what, dev |-> s]
      start(app) == [what |-> "ok", dev |-> [s EXCEPT !.app = app, !.restarting = TRUE, !.starts = @ - 1]]
  IN IF s.locked THEN {to("LOCKED_DEVICE")}
     ELSE IF c = "info" THEN {to(s.app)}
     ELSE {to("refused")} \cup
       CASE c = "quit"   -> IF s.starts > 0 THEN {start("BOLOS")} ELSE {}
         [] c = "launch" -> IF s.starts > 0 THEN {start("Ethereum")} ELSE {}
         [] c = "name"   -> {to(IF s.app = "BOLOS" THEN "name" ELSE "WRONG APP")}
         [] c = "sign"   -> {to(IF s.app = "Ethereum" THEN "signature" ELSE "WRONG APP")}

TrezorReplies(s, c, pass) ==
  LET to(what, dialogue) == [what |-> what, dev |-> [s EXCEPT !.dialogue = dialogue]]
      unlocked == [what |-> "PassphraseRequest",
                   dev |-> [s EXCEPT !.dialogue = "pass", !.locked = FALSE]]
  IN {to("Failure", "idle")} \cup
       CASE c = "init" -> {to("Features", "idle")}
         [] c = "sign" /\ s.locked -> {to("PinMatrixRequest", "pin")}
         [] \/ c = "sign" /\ ~s.locked
            \/ c = "pinack" /\ s.dialogue = "pin" -> {unlocked}
         [] c = "passack" /\ s.dialogue = "pass" ->
              {[what |-> "ButtonRequest",
                dev |-> [s EXCEPT !.dialogue = "button", !.wallet = pass]]}
         [] c = "buttonack" /\ s.dialogue = "button" -> {to(s.wallet, "idle")}
         [] OTHER -> {}

RepliesOf(d, c, pass) ==
  IF d \in Ledgers THEN LedgerReplies(dev[d], c) ELSE TrezorReplies(dev[d], c, pass)

(***************************************************************************)
(* The list of the Ledgers, under ledgers_mutex. A "disconnected" takes    *)
(* the entry away; a "connected" does as well, then adds a new one and     *)
(* asks the device for its name.                                           *)
(***************************************************************************)
remove(d) == RemoveFirstMatch(ledgers, LAMBDA t : t.dev = d)
First(S)  == CHOOSE i \in S : \A j \in S : i <= j

\* A message is handled in a goroutine of its own, so it may be handled before an earlier
\* one. A "disconnected" that a later "connected" has overtaken is marked late.
Handled(d, i) ==
  LET s     == told[d]
      still == [j \in DOMAIN s |->
                 IF j < i /\ s[i] = "connected" /\ s[j] = "disconnected" THEN "late" ELSE s[j]]
  IN  told' = [told EXCEPT ![d] = RemoveAt(still, i)]

MessagesOf(d, news) == {i \in DOMAIN told[d] : told[d][i] \in news}

LedgerGone(d, i) ==
  /\ i \in MessagesOf(d, {"disconnected", "late"})
  /\ ledgers_mutex = Nobody
  /\ Handled(d, i)
  /\ ledgers' = remove(d)
  /\ overtaken' = IF told[d][i] = "late" THEN overtaken \cup {d} ELSE overtaken
  /\ UNCHANGED <<plugged, usb_devices, operation_mutex, presented, missed,
                 ledgers_mutex, trezors, pane, task, dev, signed, budget>>

LedgerConnected(p, d, i) ==
  /\ ~Busy(p)
  /\ i \in MessagesOf(d, {"connected"})
  /\ ledgers_mutex = Nobody
  /\ Handled(d, i)
  /\ ledgers' = remove(d)
  /\ overtaken' = overtaken \ {d}
  /\ Update(p, [Idle EXCEPT !.kind = "naming", !.for = "name", !.dev = d, !.by = p,
                            !.io = "append"])
  /\ UNCHANGED <<plugged, usb_devices, operation_mutex, presented, missed,
                 ledgers_mutex, trezors, pane, dev, signed, budget>>

AddLedger(p) ==
  /\ At(p, {"naming"}, "append")
  /\ ledgers_mutex = Nobody
  /\ ledgers' = Append(ledgers, [dev |-> task[p].dev, by |-> p, name |-> NoName])
  /\ Go(p, "getName")
  /\ UNCHANGED <<usb, ledgers_mutex, trezors, pane, overtaken, dev, signed, budget>>

\* getName looks for the Ledger itself, under the mutex.
GetName(p) ==
  /\ task[p].io = "getName"
  /\ ledgers_mutex = Nobody
  /\ Call(p, "info", "info")
  /\ UNCHANGED <<usb, servers, dev, signed, budget>>

\* The button "Request Device Name" of a pane that shows no name.
ClickGetName(p, i) ==
  /\ ~Busy(p) /\ budget.clicks > 0
  /\ ledgers[i].name = NoName
  /\ budget' = [budget EXCEPT !.clicks = @ - 1]
  /\ Update(p, [Idle EXCEPT !.kind = "button", !.for = "name", !.dev = ledgers[i].dev,
                            !.by = ledgers[i].by, !.io = "getName"])
  /\ UNCHANGED <<usb, servers, dev, signed>>

(***************************************************************************)
(* The requests to a signer differ in how often they call the device. Each *)
(* looks for its device by name; find_by_name, asked again and again by    *)
(* TimerLoop, holds the mutex while it asks a Ledger without a name for it.*)
(***************************************************************************)
SignerRequest(kind, d, parts) == [kind |-> kind, wants |-> {d}, parts |-> parts]

LedgerAddresses(d, count) == SignerRequest("ledger", d, count - 1)
LedgerSign(d)             == SignerRequest("ledger", d, 0)
LedgerSignTx(d)           == SignerRequest("ledger", d, 0)
LedgerSignTyped(d, parts) == SignerRequest("ledger", d, parts)

\* Messages and typed data come back with the address that signed, and it is checked.
TrezorAddresses(d, count) == SignerRequest("unchecked", d, count - 1)
TrezorSign(d)             == SignerRequest("checked", d, 0)
TrezorSignTx(d, chunks)   == SignerRequest("unchecked", d, chunks)
TrezorSignTyped(d)        == SignerRequest("checked", d, 0)

Ask(p, r) ==
  /\ ~Busy(p) /\ r \in budget.asks
  /\ budget' = [budget EXCEPT !.asks = @ \ {r}]
  /\ Update(p, [Idle EXCEPT !.kind = r.kind, !.wants = r.wants, !.parts = r.parts,
                            !.io = "find"])
  /\ UNCHANGED <<usb, servers, dev, signed>>

\* provide_device: the wait ends with the "done" of the request's timer, if TimerLoop has
\* subscribed by then; a device found afterwards cannot be called, for the timer is gone.
Looking  == {"find", "wait", "overdue"}
Waits(p) == \E io \in IF task[p].io = "find" THEN Looking \ {"find"} ELSE {task[p].io} : Go(p, io)
Found(p, t) == IF task[p].io = "overdue" THEN End(p) ELSE Update(p, t)

FindLedger(p) ==
  /\ task[p].kind = "ledger" /\ task[p].io \in Looking
  /\ ledgers_mutex = Nobody
  /\ LET named   == {i \in DOMAIN ledgers : ledgers[i].name \in task[p].wants}
         unnamed == {i \in DOMAIN ledgers : ledgers[i].name = NoName}
         t(S)    == [task[p] EXCEPT !.dev = ledgers[First(S)].dev, !.by = ledgers[First(S)].by]
     IN \/ /\ named # {}
           /\ Found(p, [t(named) EXCEPT !.for = "sign", !.stage = "info", !.cmd = "info",
                                        !.io = "call"])
           /\ UNCHANGED ledgers_mutex
        \/ /\ named = {} /\ unnamed # {}
           /\ ledgers_mutex' = p
           /\ Update(p, [t(unnamed) EXCEPT !.for = "name", !.io = "getName"])
        \/ /\ named \cup unnamed = {}
           /\ Waits(p)
           /\ UNCHANGED ledgers_mutex
  /\ UNCHANGED <<usb, ledgers, trezors, pane, overtaken, dev, signed, budget>>

(***************************************************************************)
(* rawCall: write the command, read the reply; each is a request to the    *)
(* USB server, which ends with an error when its time limit is reached.    *)
(***************************************************************************)
Known(p) == task[p].dev \in Ledgers => \E i \in DOMAIN ledgers : ledgers[i].dev = task[p].dev

\* call looks for the Ledger first, under the mutex; in TimerLoop it does not.
MayWrite(p) ==
  \/ task[p].io = "retry" /\ task[p].tries <= MaxTries
  \/ task[p].io = "call" /\ (task[p].dev \in Ledgers => ledgers_mutex = Nobody) /\ Known(p)

WriteCommand(p) ==
  /\ MayWrite(p)
  /\ Write(p, task[p].dev)
  /\ \E r \in RepliesOf(task[p].dev, task[p].cmd, task[p].pass) :
       dev' = [dev EXCEPT ![task[p].dev] = [r.dev EXCEPT !.replies = Append(@, r.what)]]
  /\ Go(p, "read")
  /\ UNCHANGED <<servers, signed, budget>>

StartRead(p) ==
  /\ task[p].io = "read"
  /\ BeginRead(p, task[p].dev)
  /\ Go(p, "reading")
  /\ UNCHANGED <<servers, dev, signed, budget>>

NoDevice(p) ==
  /\ \/ MayWrite(p) /\ WriteNoDevice(p, task[p].dev)
     \/ task[p].io = "reading" /\ ReadNoDevice(p, task[p].dev)
  /\ End(p)
  /\ UNCHANGED <<servers, dev, signed, budget>>

\* The reply is awaited until the time limit.
ReadTimesOut(p) ==
  /\ task[p].io = "reading"
  /\ CancelRead(p)
  /\ End(p)
  /\ UNCHANGED <<servers, dev, signed, budget>>

\* The device is not in the list of the server, or not in that of the USB server.
NotFound(p) ==
  /\ \/ /\ task[p].io = "call"
        /\ task[p].dev \in Ledgers => ledgers_mutex = Nobody
        /\ Known(p) => ~CanOpen(task[p].dev)
     \/ task[p].io \in {"read", "retry"} /\ ~CanOpen(task[p].dev)
  /\ End(p)
  /\ UNCHANGED <<usb, servers, dev, signed, budget>>

\* The device cannot be opened, or the request has reached its limit in the meantime.
Fails(p) ==
  /\ task[p].io \in {"read", "retry"} /\ budget.fails > 0
  /\ budget' = [budget EXCEPT !.fails = @ - 1]
  /\ End(p)
  /\ UNCHANGED <<usb, servers, dev, signed>>

\* The button Cancel of the pane that asks for the device.
ClickCancelWait(p) ==
  /\ task[p].io \in {"wait", "overdue"}
  /\ End(p)
  /\ UNCHANGED <<usb, servers, dev, signed, budget>>

\* Nobody connects the device, or it does not come back.
GivesUp(p) ==
  /\ \/ task[p].io = "wait"
     \/ task[p].io = "look" /\ task[p].tries = MaxTries
  /\ End(p)
  /\ UNCHANGED <<usb, servers, dev, signed, budget>>

\* The next reply of the device, whoever it was for.
NextReply(p) ==
  IF task[p].io # "reading" THEN {}
  ELSE {dev[task[p].dev].replies[i] : i \in DOMAIN dev[task[p].dev].replies \cap {1}}

GetReply(p) ==
  /\ EndRead(p, task[p].dev)
  /\ dev' = [dev EXCEPT ![task[p].dev].replies = Tail(@)]

(***************************************************************************)
(* What a Ledger's reply leads to: provide_eth_app sees to it that the     *)
(* needed application runs, then the question itself is asked.             *)
(***************************************************************************)
Needed(p)   == IF task[p].for = "name" THEN "BOLOS" ELSE "Ethereum"
Question(p) == Call(p, "ask", task[p].for)
NextPart(p) ==
  Update(p, [task[p] EXCEPT !.parts = @ - 1, !.stage = "ask", !.cmd = "sign", !.io = "call"])
Refusals    == {"LOCKED_DEVICE", "WRONG APP"}

\* The reply has the name; it goes to the entry this task knows, if that is still there.
SetName(p, r) ==
  ledgers' = [i \in DOMAIN ledgers |->
    IF ledgers[i].dev = task[p].dev /\ ledgers[i].by = task[p].by
    THEN [ledgers[i] EXCEPT !.name = IF r = "name" THEN task[p].dev ELSE "junk"]
    ELSE ledgers[i]]

LedgerRefuses(p, r) ==
  \/ r \in Refusals /\ Update(p, [task[p] EXCEPT !.io = "retry", !.tries = @ + 1])
  \/ r = "refused" /\ End(p)

\* The name of an application, if the reply can be read as one.
parseGetInfoResponse(r) == IF r \in {"BOLOS", "Ethereum"} THEN {r} ELSE {"another", "error"}

provide_eth_app(p, r) ==
  /\ task[p].stage = "info"
  /\ \E app \in parseGetInfoResponse(r) :
       \/ app = Needed(p) /\ Question(p)
       \/ app = "error" /\ End(p)
       \/ /\ app \notin {Needed(p), "error"}
          /\ Call(p, "switch", IF task[p].for = "name" THEN "quit" ELSE "launch")

waitForReconnect(p) == task[p].stage = "switch" /\ Go(p, "look")

GivesName(p, r) ==
  /\ task[p].stage = "ask" /\ task[p].for = "name"
  /\ SetName(p, r)
  /\ End(p)

GivesSignature(p) ==
  /\ task[p].stage = "ask" /\ task[p].for = "sign" /\ task[p].parts = 0
  /\ signed' = signed \cup {[kind |-> "ledger", wallet |-> "asked"]}
  /\ End(p)

LedgerReply(p) ==
  \E r \in NextReply(p) :
    /\ task[p].dev \in Ledgers
    /\ GetReply(p)
    /\ \/ LedgerRefuses(p, r) /\ UNCHANGED <<ledgers, signed>>
       \/ /\ r \notin Refusals \cup {"refused"}
          /\ \/ provide_eth_app(p, r) /\ UNCHANGED <<ledgers, signed>>
             \/ waitForReconnect(p) /\ UNCHANGED <<ledgers, signed>>
             \/ GivesName(p, r) /\ UNCHANGED signed
             \/ /\ task[p].stage = "ask" /\ task[p].parts > 0 /\ NextPart(p)
                /\ UNCHANGED <<ledgers, signed>>
             \/ GivesSignature(p) /\ UNCHANGED ledgers
    /\ UNCHANGED <<ledgers_mutex, trezors, pane, overtaken, budget>>

\* TimerLoop stops asking after a minute, and waits on.
Hang(p) ==
  /\ task[p].io = "retry"
  /\ Go(p, "hung")
  /\ UNCHANGED <<usb, servers, dev, signed, budget>>

\* waitForReconnect: is_connected enumerates.
Look(p) ==
  /\ task[p].io = "look" /\ task[p].tries < MaxTries
  /\ EnumerateScan(p)
  /\ Update(p, [task[p] EXCEPT !.io = "looking", !.tries = @ + 1])
  /\ UNCHANGED <<servers, dev, signed, budget>>

Looked(p) ==
  /\ task[p].io = "looking"
  /\ EnumerateSweep(p)
  /\ IF usb_devices'[task[p].dev].state = "here" THEN Question(p) ELSE Go(p, "look")
  /\ UNCHANGED <<servers, dev, signed, budget>>

(***************************************************************************)
(* Trezors. One that was plugged in is listed once it has told its         *)
(* features; if that fails it is not asked again.                          *)
(***************************************************************************)
TrezorGone(d, i) ==
  /\ i \in MessagesOf(d, {"disconnected", "late"})
  /\ Handled(d, i)
  /\ trezors' = RemoveFirst(trezors, d)
  /\ pane' = [pane EXCEPT ![d] = NoRequests]
  /\ UNCHANGED <<plugged, usb_devices, operation_mutex, presented, missed,
                 ledgers, ledgers_mutex, task, overtaken, dev, signed, budget>>

TrezorConnected(p, d, i) ==
  /\ ~Busy(p)
  /\ i \in MessagesOf(d, {"connected"})
  /\ Handled(d, i)
  /\ Update(p, [Idle EXCEPT !.kind = "init", !.dev = d, !.cmd = "init", !.io = "call"])
  /\ UNCHANGED <<plugged, usb_devices, operation_mutex, presented, missed,
                 servers, dev, signed, budget>>

\* add: remove, then append.
RemoveTrezor(p) ==
  /\ task[p].io = "remove"
  /\ trezors' = RemoveFirst(trezors, task[p].dev)
  /\ pane' = [pane EXCEPT ![task[p].dev] = NoRequests]
  /\ Go(p, "add")
  /\ UNCHANGED <<usb, ledgers, ledgers_mutex, overtaken, dev, signed, budget>>

AddTrezor(p) ==
  /\ task[p].io = "add"
  /\ trezors' = Append(trezors, task[p].dev)
  /\ End(p)
  /\ UNCHANGED <<usb, ledgers, ledgers_mutex, pane, overtaken, dev, signed, budget>>

FindTrezor(p) ==
  /\ task[p].kind \in {"checked", "unchecked"} /\ task[p].io \in Looking
  /\ LET named == {i \in DOMAIN trezors : trezors[i] \in task[p].wants}
     IN IF named = {} THEN Waits(p)
        ELSE Found(p, [task[p] EXCEPT !.dev = trezors[First(named)], !.cmd = "sign",
                                      !.io = "call"])
  /\ UNCHANGED <<usb, servers, dev, signed, budget>>

init_trezor(p, r) ==
  /\ task[p].kind = "init"
  /\ IF r = "Features" THEN Go(p, "remove") ELSE End(p)

\* isSkipPassword: the wallet may hold that this Trezor is used without a passphrase.
SkipPassword(p) == Call(p, "ask", "passack")

\* Call: answer what the device asks for until it gives a result.
TrezorAsks(p, r) ==
  \/ r = "PinMatrixRequest" /\ Go(p, "get_pin")
  \/ r = "PassphraseRequest" /\ (Go(p, "get_pass") \/ SkipPassword(p))
  \/ r = "ButtonRequest" /\ Call(p, "ask", "buttonack")
  \/ r \in Wallets /\ task[p].parts > 0 /\ NextPart(p)

\* The signature is that of the addresses the device has open.
TrezorSigns(p, r) ==
  /\ r \in Wallets /\ task[p].parts = 0
  /\ signed' = IF task[p].kind = "checked" /\ r # "asked" THEN signed
               ELSE signed \cup {[kind |-> task[p].kind, wallet |-> r]}
  /\ End(p)

TrezorReply(p) ==
  \E r \in NextReply(p) :
    /\ task[p].dev \in Trezors
    /\ GetReply(p)
    /\ \/ init_trezor(p, r) /\ UNCHANGED signed
       \/ /\ task[p].kind # "init"
          /\ task[p].cmd = "cancel" \/ r \in {"Failure", "Features"}
          /\ End(p)
          /\ UNCHANGED signed
       \/ /\ task[p].kind # "init" /\ task[p].cmd # "cancel"
          /\ \/ TrezorAsks(p, r) /\ UNCHANGED signed
             \/ TrezorSigns(p, r)
    /\ UNCHANGED <<servers, budget>>

(***************************************************************************)
(* The pane of a Trezor shows one request for a PIN and one for a          *)
(* passphrase; a new one cancels the one before it.                        *)
(***************************************************************************)
Cancelled(t) == [t EXCEPT !.cmd = "cancel", !.io = "call"]

\* What a request for a PIN or a passphrase is preceded by, and what answers it.
Get == [pin |-> "get_pin", pass |-> "get_pass"]
Ack == [pin |-> "pinack", pass |-> "passack"]

PaneRequest(p, w) ==
  /\ task[p].io = Get[w]
  /\ LET d == task[p].dev  q == pane[d][w] IN
       /\ pane' = [pane EXCEPT ![d][w] = p]
       /\ task' = [t \in Tasks |-> IF t = p THEN [task[p] EXCEPT !.io = w]
                                   ELSE IF t = q THEN Cancelled(task[t]) ELSE task[t]]
  /\ UNCHANGED <<usb, ledgers, ledgers_mutex, trezors, overtaken, dev, signed, budget>>

Shown(p, w) == task[p].io = w /\ pane[task[p].dev][w] = p

\* The button Hidden stops the time limit and opens a popup, which closing starts again.
ClickHidden(p) ==
  /\ Shown(p, "pass")
  /\ Go(p, "hidden")
  /\ UNCHANGED <<usb, servers, dev, signed, budget>>

CloseHidden(p) ==
  /\ task[p].io = "hidden"
  /\ Go(p, "pass")
  /\ UNCHANGED <<usb, servers, dev, signed, budget>>

\* The user answers, with a PIN or a passphrase, or cancels; an empty PIN cancels too.
PaneAnswer(p, w) ==
  /\ Shown(p, w) \/ (w = "pass" /\ task[p].io = "hidden")
  /\ pane' = [pane EXCEPT ![task[p].dev][w] = IF @ = p THEN Nobody ELSE @]
  /\ \/ \E x \in IF w = "pass" THEN Wallets ELSE {"asked"} :
          Update(p, [task[p] EXCEPT !.cmd = Ack[w], !.pass = x, !.io = "call"])
     \/ Update(p, Cancelled(task[p]))
  /\ UNCHANGED <<usb, ledgers, ledgers_mutex, trezors, overtaken, dev, signed, budget>>

\* Variant: only what the pane still shows has a time limit.
PaneTimesOutShown(p, w) ==
  /\ Shown(p, w)
  /\ pane' = [pane EXCEPT ![task[p].dev][w] = Nobody]
  /\ End(p)
  /\ UNCHANGED <<usb, ledgers, ledgers_mutex, trezors, overtaken, dev, signed, budget>>

PaneTimesOut(p, w) ==
  /\ task[p].io = w
  /\ pane' = [pane EXCEPT ![task[p].dev][w] = IF @ = p THEN Nobody ELSE @]
  /\ End(p)
  /\ UNCHANGED <<usb, ledgers, ledgers_mutex, trezors, overtaken, dev, signed, budget>>

(***************************************************************************)
(* The specification.                                                      *)
(***************************************************************************)
Enumerate ==
  /\ EnumerateScan(Loop) \/ EnumerateSweep(Loop)
  /\ UNCHANGED <<servers, task, dev, signed, budget>>

Period(d) == PeriodPasses(d) /\ UNCHANGED <<servers, task, dev, signed, budget>>

Environment ==
  \E d \in Devices : \/ UserPlugs(d) \/ Restart(d) \/ Lock(d) \/ Unlock(d)
                     \/ Period(d)

Transfer(p) == \/ WriteCommand(p) \/ StartRead(p) \/ NoDevice(p) \/ ReadTimesOut(p) \/ NotFound(p)
               \/ Fails(p) \/ GivesUp(p) \/ LedgerReply(p) \/ TrezorReply(p)

TakeIn(p) ==
  \E d \in Devices : \E i \in MessagesOf(d, {"connected"}) :
    IF d \in Ledgers THEN LedgerConnected(p, d, i) ELSE TrezorConnected(p, d, i)

Gone(d) ==
  \E i \in MessagesOf(d, {"disconnected", "late"}) :
    IF d \in Ledgers THEN LedgerGone(d, i) ELSE TrezorGone(d, i)

\* What the user may do at the screen, and need not.
Screen(p) ==
  \/ ClickHidden(p) \/ CloseHidden(p) \/ ClickCancelWait(p)
  \/ \E w \in {"pin", "pass"} : PaneAnswer(p, w)

Step(p) ==
  \/ Transfer(p) \/ AddLedger(p) \/ GetName(p) \/ FindLedger(p) \/ Hang(p) \/ Look(p) \/ Looked(p)
  \/ RemoveTrezor(p) \/ AddTrezor(p) \/ FindTrezor(p)
  \/ \E w \in {"pin", "pass"} : PaneRequest(p, w) \/ PaneTimesOut(p, w)

DevicesNext ==
  \/ Environment \/ Enumerate
  \/ \E d \in Devices : Gone(d)
  \/ \E p \in Tasks : \/ Step(p) \/ Screen(p) \/ TakeIn(p)
                      \/ \E r \in budget.asks : Ask(p, r)
                      \/ \E i \in DOMAIN ledgers : ClickGetName(p, i)

\* The ticker drives the loop, a mutex is handed to one who waits for long enough, every
\* request has a time limit, and a goroutine that can go on does; nothing makes the user act.
DevicesFairness ==
  /\ SF_deviceVars(Enumerate)
  /\ \A d \in Devices : WF_deviceVars(Period(d)) /\ WF_deviceVars(Restart(d))
  /\ \A d \in Ledgers : SF_deviceVars(Gone(d))
  /\ SF_deviceVars(\E p \in Tasks : TakeIn(p))
  /\ \A p \in Tasks : SF_deviceVars(Step(p))

DevicesSpec == DevicesInit /\ [][DevicesNext]_deviceVars /\ DevicesFairness

(***************************************************************************)
(* Properties.                                                             *)
(***************************************************************************)

\* Transfers and enumerations never lock each other out for good: a read holds the mutex
\* while the user makes up his mind, but no longer than its request may take.
MutexComesBack == operation_mutex # Nobody ~> operation_mutex = Nobody

\* Ways to get stuck that the code has: find_by_name asks for a name while it holds the
\* mutex that getName takes; TimerLoop does not end by itself, nor with a "done" sent before
\* it has subscribed; and the popup for a passphrase stops the time limit until it closes.
MutexIsLost == ledgers_mutex # Nobody
Hung(p)     == task[p].io \in {"hung", "overdue"}
LeftOpen(p) == task[p].io = "hidden"

\* But for these, whatever the user, the devices and the other goroutines do or fail to
\* do, every goroutine of the two servers ends.
TasksEnd == \A p \in Tasks : Busy(p) ~> ~Busy(p) \/ Hung(p) \/ LeftOpen(p) \/ MutexIsLost

\* A Ledger that stays plugged in gets into the list, and stays there: enumerations,
\* restarts, lost handles and goroutines that handle messages in another order than they
\* came make the servers miss it for good only if the last "disconnected" is handled after
\* the "connected" that followed it.
Listed(d) == \E i \in DOMAIN ledgers : ledgers[i].dev = d
PluggedIsListed ==
  \A d \in Ledgers : <>[](d \in plugged)
    => <>[](Listed(d) \/ d \in overtaken \/ MutexIsLost \/ \A p \in Tasks : Busy(p))

\* "if not found let's try to initialize those without a name": the attempt ends, with
\* the name or with an error. The code waits for itself.
InitialisesUnnamed ==
  \A p \in Tasks : At(p, {"ledger"}, "getName") ~> ~At(p, {"ledger"}, "getName")
=============================================================================
