# Verification of web3pro

TLA+ models of web3pro, a crypto wallet that runs in a terminal, the TLC runs
that check them on small instances, and proofs that TLAPS checks for every
value of the constants. Paths below are relative to `src/`.

## The system

One process. `main.go` starts every server as a goroutine and then runs the
user interface. The servers do not call each other: they talk over a message
bus (`bus/bus.go`), and a request is a message that some server answers with
another message (`FetchEx`). Every request carries the id of a timer of the
timer server (`bus/timer_server.go`); when the timer's limit is reached the
server sends `done`, and whoever waits on that timer gives up. A server that
needs help to handle a request makes its own request *on the same timer*
(`m.Fetch`), so that one `done`, from time or from the user's Cancel button,
ends the whole operation.

| Component | State | Operations | Talks to |
|---|---|---|---|
| Message bus, `bus/bus.go` | ids, `In` (1000 messages), one channel of 1000 per subscription, one mutex | Send, Respond, Subscribe, Unsubscribe, Fetch, FetchEx | everyone |
| Timer server, `bus/timer_server.go` | table of timers, `nextCheckTimer` | init, init-hard, start/resume, pause, reset, trigger, delete, left; sends tick and done | every FetchEx, popups, hails |
| Hail pane, `ui/pane_hail.go` | `HailQueue` under `HQMutex`, `ActiveRequest` under nothing | hail, remove-hail, buttons, OnCancel | eth and ws ask the user for consent |
| Popups and dialogs, `ui/popup.go`, `gocui/popup.go`, `ui/dlg_*.go` | current popup, queue of the next ones | popup, OnClose, buttons | commands, hails and the Trezor pane; pauses the timer of the request; changes the wallet |
| Wallet store, `cmn/wallet.go` | chains, tokens, origins, addresses, signers, LP and staking positions, one write mutex, an encrypted file | some 60 changes, each of which saves the file and sends `saved` | eth, ws, ui, commands |
| Ethereum server, `eth/` | clients by chain, rate limiters by chain | call, multi-call, send, send-tx, sign, ... | nodes, hails, signers |
| Websocket server, `ws/` | running or not, connections, subscriptions by origin | start, stop, web3 methods, broadcasts | browsers, hails, eth |
| USB server, `usb/` | devices by id, pending disconnects, one mutex | enumerate, list, open, read, write | hardware wallets |
| Signers, `hw/`, `sw/` | connected devices by name | is-connected, get-addresses, sign, ... | usb, popups |
| Liquidity pools and staking, `lp_v2/`, `lp_v3/`, `lp_v4/`, `staking/` | providers and positions, in the wallet | discover, status, remove | eth, wallet store, panes |
| Panes, `ui/pane_*.go` | lists of positions, balances and prices | debounced passes, show and hide | eth, lp, staking |
| Prices, `price/` | prices of tokens, in the wallet | update, list of feeds | two web services, panes |
| Explorer, sound, commands | little or none | remote reads, text | everyone |

What is hard here:

* *Concurrency.* The bus gives most requests a goroutine of their own, the user
  interface gives each click one; several variables they share have no lock.
* *Blocking with a lock held.* Both ends of the bus send to bounded channels
  while they hold the bus's only mutex.
* *Time.* Timers are paused, resumed, reset and re-armed by several parties
  while they fire.
* *Several answers, or none.* Three signer servers hear each request; a handler
  may never answer.
* *Cancellation.* `OnCancel` is set on a message after it was sent, by another
  goroutine than the one that reads it.
* *Persistence.* Handlers change the wallet in place and save it whole, over the
  file they read it from.
* *Slices under loops.* Goroutines range over the wallet's slices without its
  mutex, across requests that take seconds, while others take elements out of
  the same arrays.
* *Reads that fail half way.* What could not be read is often taken for zero.

`PROJECT.json` lists these, line by line, as hazards, with the properties that
cover them, and says where the code itself does not keep what it should.

## The modules

| Module | Models | By |
|---|---|---|
| `Timers` | `bus/timer_server.go`, the table and its helpers | operators on tables |
| `TimerServer` | `ProcessTimers`, `updateTimers` against time | one action per request, `CheckFires`, `Tick` |
| `Broadcast` | what the bus promises | the abstract specification of `Bus` |
| `Bus` | `bus/bus.go` 13-148: mutex, bounded channels, `ProcessMessages` | a step per blocking operation |
| `RequestReply` | what a request promises | the abstract specification of `Fetch` |
| `Fetch` | `FetchEx`, `Fetch`, `m.Fetch` over the bus and the timer server | a step per statement that sends, waits or returns |
| `Hail` | `ui/pane_hail.go` and the goroutines that reach it | a step per access to `ActiveRequest` |
| `RateLimiter` | the rate limiter of `eth/eth_server.go` and its way through the wallet | a step per critical section |
| `WalletTokens` | blockchains, tokens and their audit, `cmn/wallet.go` | an action per change, loops as functions of slices |
| `Confirm` | `eth/send.go`, `send_tx.go`, `sign.go`, `sign_typed_data.go` | the handler, each click and each edit a thread |
| `WebApps` | `ws/` and the origin of a website in `cmn/wallet.go` | a step per request, consent, write and broadcast |
| `Popups` | `ui/popup.go`, `gocui/popup.go`: the popup, its queue, the main loop | a step per access to `g.popup` |
| `Dialogues` | the commands `signer` and `address` and their dialogues, over `Popups` | an action per command and per OK |
| `Amounts` | `cmn/xf.go`, `Str2Wei`: reading amounts | an action per number typed |
| `WalletFile` | the wallet file, its password, opening, saving, backup and restore | a step per read, write and lock |
| `PositionStore` | the slices of positions in `cmn/wallet.go` | Go's slices: array, length, pointers |
| `Positions` | `lp_v2`, `lp_v3`, `lp_v4`, `staking`, their panes, dialogues and commands | a step per request to a node or a subgraph |
| `PositionValue` | fees, amounts and ticks of a position | functions, against a reference |
| `Usb` | `usb/usb_server.go`: enumeration, list, transfers | a step per critical section |
| `Devices` | `hw/ledger`, `hw/trezor`, `TimerLoop`, over `Usb` | a step per request to a device |
| `DeviceFrames` | packets of a command and of its reply | functions, against their inverse |
| `TypedData` | `hw/ledger/sign_typed_data.go` | functions, against the device's reading |
| `Prices` | `price/`, `command/price.go` | a step per answer of a feeder |
| `Portfolio` | `ui/pane_token.go` and the tables of balances, over `Prices` | a step per balance read |
| `BusProofs` | | the theorems about `Bus` and `TimerServer` |
| `HailProofs` | | those about `Hail`, `Popups` and `Dialogues` |
| `MoneyProofs` | | those about `Confirm`, `Amounts`, `Portfolio` and `Prices` within it |
| `NetworkProofs` | | those about `RateLimiter` and `WebApps` |
| `PositionsProofs` | | those about `Positions` |
| `RequestProofs` | | those about `Fetch`, and about `Usb` within `Devices` |
| `WalletProofs` | | those about `WalletFile` and `WalletTokens` |
| `SequenceLemmas` | | elements and duplicates of sequences, counting and loops, for the proofs |
| `MC...` | | constants for TLC, and components side by side |

`Bus` implements `Broadcast` (`ImplementsBroadcast`), and `Fetch` is written
over the queue and inboxes of `Broadcast` and over the table of the timer
server reduced to absent, running and fired. `Fetch` implements `RequestReply`.
`Hail` sees of `Fetch` what one hail sees: it waits, and ends with a response
or a `done`. `Confirm` and `WebApps` see of `Hail` what the sender of one sees:
clicks, an end at the time limit, and an end by another hail's button.

### Timers and TimerServer

Time is counted in units. `starTime` is only ever used in `time.Since`, so a
timer records that difference in `run`, and `Tick` advances it for every timer
that is not paused. Each request of `ProcessTimers` ends in `updateTimers`,
also when it was refused, so each action is one helper of `Timers` followed by
`UpdateTimers`. The goroutine may serve `nextCheckTimer` late, by up to
`MaxLate`. `granted`, `spent` and `chain` are history variables. `GetTimeLeft`,
the once-a-second `tick` (a report) and `TimerLoop` change nothing here.

* `CheckCovers`, `Punctual`: whatever sequence of requests re-arms the check,
  no timer expires unnoticed.
* `NeverRevived`: a late init-hard or resume does not bring back a timer whose
  `done` was sent.
* `HardDeadline`: the resets of a timer never add up to more than its hard
  limit. It speaks of grants whose limit is within the hard limit: init refuses
  others, init-hard does not.
* `Settles`: pausing, resuming and resetting in any pattern lets
  only a bounded time pass under a timer.

### Bus and Broadcast

A process calls `SendEx` (`CallSend`), takes the mutex and an id (`LockSend`)
and sends to `In` (`PushSend`), which blocks when `In` is full. The dispatcher
takes a message, takes the mutex, sends to one subscriber after the other, each
of which may block, and releases the mutex. Subscribe and Unsubscribe cannot
block once they have the mutex and are one step. A process holds up to `Nesting`
channels, one inside the other, and reads the innermost: the loops of the servers
have one, a chained `FetchEx` keeps its own while its nested `Fetch` to the timer
server has another, and so does `TimerLoop` around the requests it makes.

* `NoSendOnClosed`: the mutex does its work.
* `Dispatched`: the bus can lock up.
  `SenderStuck`: a sender holds the mutex before a full `In` and the dispatcher
  wants the mutex. `DispatcherStuck`: the dispatcher holds the mutex before a
  full channel whose owner wants the mutex, or reads another channel that it holds
  inside this one and cannot leave without the mutex. None of these is ever left,
  and there is no other way. All are reachable with room for one message; the
  capacity of 1000 is what keeps the program alive.

### Fetch and RequestReply

A frame is an activation of `FetchEx`: a call, or the nested
`Fetch("timer", "init-hard")` a chained call makes first. A frame subscribes,
makes or re-arms its timer, sends, waits, and returns a response, an error of
the handler, "timeout", or the refusal of init-hard. Handlers may answer several
times or never, and make chained calls before they answer. Running timers may
fire at any time; *when* they do is what `TimerServer` adds.

* `NoLostWakeup`: no interleaving of subscription, timer, response and re-arming
  leaves a call waiting for nothing.
* `RefusedOnlyWhenOver`: a nested request is refused only after the operation
  has timed out or was cancelled.
* `CancelUnwinds`: one trigger ends an operation and all
  that is nested in it.
* `EveryCallReturns`: if timers fire, every call returns. It needs
  `LimitsInOrder`: with `bus_timeout` above `bus_hard_timeout`, which the
  configuration accepts, init is refused and nobody looks at the refusal.

### Hail

Every goroutine that reaches the pane is a thread: the one that adds a hail, the
`FetchEx` that sent it and calls its `OnCancel`, the click on Ok (which runs
`OnOk`, for as long as it likes), the button Block of a browser connection.
`HQMutex` makes the queue operations atomic; each access to `ActiveRequest` is a
step. `overlapped` remembers that two handlers of the pane ran at once.

* `AnsweredOnce` holds however they overlap.
* `HeadIsShown` holds as long as they have not. When they have, TLC finds all of
  these in seconds: a hail that is active though it was answered and has left
  the queue, with the hails behind it never shown; an active hail in a hidden
  pane; a panic on `HailQueue[0]` or on a nil `ActiveRequest`.

### RateLimiter

One blockchain. Each method of the limiter holds its mutex and is a step.
`persistRateLimit` runs on goroutines of its own (`saves`, then `writes`, bags
of rates): it looks at the mode, and later writes the rate, with no lock in
between. Every write of the wallet sends a `saved`, which comes back as
`UpdateRateLimiterSettings`; a save may also fail, which leaves the change in
memory and sends nothing (`Unsaved`). Opening another wallet leaves the limiters as
they are, and goroutines that looked at the old wallet save that one (`strays`).
The code's numbers are kept (initial 5, minimum, percentages and integer division);
times are counted in units up to the point where no comparison tells them apart.

* `SettlesOnWallet`: saves overtake each other and feed back, and when all are
  done the limiter does what the wallet says, unless the last change of the
  settings is one it was not told of (`unannounced`): its save failed, or it came
  with another wallet.
* `BackoffIsKept`: settings that arrive during a back-off do not end it.

### WalletTokens

Blockchains and tokens, changed under `writeMutex` and then audited: doubles,
native tokens, wrapped tokens, orphans, and the flag `Unique`. Where Go ranges
over a slice while `append` moves its elements down, the operator does the same
to the shared array, and a slice out of bounds ends the program (`open` becomes
false; the file is as it was last saved). A symbol is a sequence of words, since
the audit puts a W before it.

`TokensSound` is both of these:

* `OneTokenPerAddress`: no sequence of additions, edits and audits gives an
  address two tokens, or leaves a native token without its blockchain.
* `UniqueMeansUnique`: what `GetTokenBySymbol` trusts is true.

### Confirm

One request of one of the kinds `send` (which the commands post without a timer),
`send-tx` and `sign` (which websites make on a timer). The handler raises its
hail; each click on Send or OK is a thread that prepares, asks the signer, sends
and closes; Edit Fee and the buttons about the contract are another. `tx`,
`template`, `ok` and `hashed` are the captured variables they share. Cancel only
sends `trigger`: the timer is done when the timer server handles it, and `done`
and the signer's answer come to a click through its inbox, in the order they were
sent.

* `SentOnce`: for the requests of websites, however often Send is clicked: all
  clicks sign the same nonce, and a second one is refused by the node.
* `OkIsTrue`: an answer without an error and with a result has a transaction
  sent or data signed.
* `NoneGivenAfterDone`: once the timer of a request is done, by Cancel or its limit,
  no click gains a signature that had not come by then, however late the signer
  answers and whatever other clicks do. Before that moment, so also for a while
  after the press of Cancel, it may.

### WebApps

One website, over several connections of one browser. A handler reads a
request, asks the user to connect the website or to switch its chain, and
answers. Commands change the origin under the mutex and post an event. `loop`
starts and stops the server and broadcasts, and ranges over the array of
`WSConnections` without its mutex while `AddConnection` and `RemoveConnection`
change that array in place (`view`, `turn`, `shared`, `ShiftOut`). A connection
has two writers, the handler and the loop; when they meet the library may panic,
which ends the connection or the program.

* `ListedOnce`: stop, close, panic and removal at once leave no connection
  behind in the list.
* `SubscribersUpToDate`: when no event is left, every subscriber has been told
  what the wallet says now. `heard` is history; `skipped` and `switched` take out
  the two cases in which the code does not keep this promise (see below).

### Popups and Dialogues

Each message `popup` has a goroutine that shows its popup or queues it, each
click one that may close it; ESC closes it on the main loop, which also sets and
lays out the popup. Nothing guards `g.popup`. `crossed` remembers that two of
them met in the middle of their work (a click on a popup that is closing, a
popup set while another one is cleared); behaviours are followed up to there,
because from there on popups are lost, wait for ever, or end the program with a
nil pointer, and there is nothing more to say of them. The popup of a Trezor takes
two promises away all by itself: its OnClose does not serve the queue, so what was
queued behind it waits until another popup is shown and closed; and closed with
ESC it answers nothing, so that the pane still waits. `stranded` remembers these
popups, and the behaviours go on.

In `Dialogues` a command looks at the lists of signers and addresses, remembers
an index or a pointer, and asks for a popup; OK changes the lists later, with no
lock, and saves; a save that fails leaves the change and the popup.

* `PopupsAreServed`: but for `crossed`, every popup of a command, of an operation
  with a timer or of a Trezor is shown and answered, in whatever order they are
  asked for and closed, its timer resumed, and nobody falls over a nil popup. Of
  those that a Trezor's strands, only the ones still in the queue, and the
  Trezor's own after ESC, are excepted (`Stranded`).
* `AddressesSound`: no address twice, and as long as no signer is renamed or
  removed, every address is watched or belongs to a signer of the wallet, also
  when dialogues act on what they remember of an older state.

### Amounts

The digits of a number are never touched, so a value is a power of ten.
`Pow10` returns pointers into one table, and `ParseXF` adds the digits after the
dot to the entry of the suffix: the second "1.5k" is read as 150, and amounts of
tokens with 3, 6, 9 ... decimals shrink with it.

A suffix counts by its index in the list, three powers of ten each; the last one of
either list says 76 at the place of 78 (`Named`, `LastSuffix`).

* `NeverMoreThanTyped`: amounts only ever shrink, but with `^76`, which is read for
  100 times what it says; and they are exact as long as neither the suffix nor the
  token's power of ten was typed with a fraction, and the suffix is none of these
  two.

### WalletFile

Goroutines that hold a `*Wallet` change and save it, the dialogues create, open
and restore a wallet and change its password, a command backs it up, and the
program may end at any moment. `excuses` collects what the code does not protect
from: `torn` (the file was being written in place), `stale` (one saved who had
read the file before somebody else wrote it), a failed change of password. The
audit of a wallet being opened saves it, and a save that fails there does not keep
it from being opened (`Failed`); a restore that fails in its copy leaves a torn
file (`CopyFails`).

* `WrittenStays`: otherwise what was saved stays in the file.
* `PasswordIsAsTold`: otherwise the file opens with the password the user chose.
* `CurrentHasAll`: otherwise the open wallet has all that was ever saved.

### Positions, PositionStore, PositionValue

A world is one version of the pools, or staking, with a mode of discovery and a
budget of changes on the chain, of failing reads, of commands and of passes. Some
worlds have positions of an address the wallet does not know (`Strangers`), a
provider on a blockchain it does not know (`beyond.dark`), or an owner of more
than a page of a subgraph's answers (`beyond.crowded`). A position of V3 may have
nothing left but tokens owed (`owed`), or amounts that come to nothing beside fees
(`dust`): discovery, pane and `lp_v3 list` each look at something else.
Discovery and each pass of the pane range over the slice of pointers Go keeps in
the wallet, an array with a length, in which removal moves the later elements
down under every such loop (`RemoveOf`); `lp_v3 list` sorts that array in place.

* `StoreSound`: no position twice, none of a provider that has gone (but for a
  discovery that was under way).
* `DeletesOnlyEmpty`: what the panes, `lp_v3 list` and the discovery of stakings
  take out is worth nothing of what they look at, unless the chain changed since
  they looked or did not answer, or the code takes another position than it means
  to, in one of two ways: a discovery overtakes a pass of `lp_v2` (`Overtaken`), or
  one address owns two vaults in a contract (`TwoVaults`). The V3 pane does not
  look at tokens owed nor the list at fees (`Unseen`), and the list takes out what
  it knows no provider or owner of.
* `DiscoveryComplete`: an undisturbed discovery finds all it can see (`InReach`),
  tokens owed included, as long as the pane takes out nothing beside it whose worth it
  does not look at.
* `PaneSettles`: while prices keep coming, a pane ends up with each position once,
  of the providers, blockchains and owners the wallet knows and of no ignored token.
* `ShownAsIs`: fees, amounts and ticks are those of a reference definition for all
  values of small words: `PositionValue` counts modulo `Word` what the code
  counts modulo 2^256. The reference of a V3 pool pays nothing out when a position
  is touched: fees and what is taken out are owed until they are collected, and
  `lp_v3` shows what the pool would pay less what is owed.

### Usb, Devices, DeviceFrames, TypedData

`Usb` has the server's list and the delayed disconnects, `Devices` the tasks the
two hardware servers run, each a chain of requests to a device that may ask for
a PIN, a passphrase or a button, may be locked, restart to change its
application, or be pulled out. The USB server's messages (`told`) are handled in
any order, as each has a goroutine of its own; `overtaken` remembers a Ledger whose
`disconnected` was handled after a later `connected`.

* `NoSpuriousDisconnect`: an enumeration announces as gone only what it misses,
  a Ledger only after the delay.
* `TasksEnd`: every task ends, but for the three ways to hang that the code has: the
  mutex a goroutine takes twice (`MutexIsLost`), `TimerLoop`, which does not end by
  itself nor by a `done` from before it subscribed (`Hung`), and the popup of the
  button Hidden, which stops the time limit of the request until somebody closes it
  (`LeftOpen`).
* `PluggedIsListed`: a Ledger that stays plugged in gets into the list, but for one
  that is `overtaken`.
* `SentIntact`: commands, replies and typed data come out of the packets as they
  went in, for all lengths around the boundaries and four messages with nested
  types; but for commands whose length does not fit its byte, the size of `bytesN`
  (`AsTold`) and the sign of numbers (`Unsigned`).

### Prices, Portfolio

`Update` asks DexScreener for each blockchain and CoinMarketCap for all, while
the user points tokens at other feeds. The token pane reads one balance after
the other, or by multicall, in passes that overlap; the tables of the commands
are functions of what is held. `lp_v3 list` sorts the slice of V3 positions in
place while passes range over it (`SortPositions`).

* `PricedByItsFeed`, `UpdateReachesAll`: prices are those quoted for what a token
  or its twin follows; an undisturbed update in which every blockchain was answered
  prices all it could and tells.
* `ListIsTrue`: a pass during which nothing moved and no list was sorted lists what
  is held, but for what a V3 pool owes (`Counts`), each place
  counted once, in the order of value, as do the tables; of a token that is both
  rewards of a position (`ReadTwice`) the sum is wrong, and the tables of the
  addresses add up while each position is of one of them (`AllOwned`).

## The runs

| Run | Bounds | Question |
|---|---|---|
| `timer_server` | 2 timers, 3 grants, wait 2, lag 1, 1 init-hard each; fair | when do timers fire, and can one live for ever? |
| `bus` | 2 processes, one with 2 channels, 2 topics, 3 messages, room for 1; fair | order, refinement, every way to lock up |
| `fetch` | a call and a chained call, 2 answers each; fair | wake-ups, refinement, Cancel, does every call return? |
| `hail` | 2 hails, one with priority, one with Block; or 3 popups, one clicked twice, 2 names, 2 addresses, a failing save | answered once under every race; popups served; addresses sound |
| `rate_limiter` | 2 calls, 1 save of each rate, rates 3 to 11, back-off 2; saves fail, wallets are opened | does the rate settle? |
| `wallet_tokens` | 2 blockchains, 2 addresses, 3 tokens | are tokens and `Unique` consistent? |
| `confirm` | 2 clicks, 2 edits, 2 fees, 1 market move; or 4 numbers of 12 kinds, 4 kinds of tokens | what is signed, sent and answered; what is an amount read as? |
| `web_apps` | 2 connections, 2 chains, 2 addresses, 2 requests, 1 change | are connections and subscribers exact? |
| `wallet_file` | 2 goroutines, 2 changes, 2 passwords, 2 openings, 1 failed write, a crash | what is in the file, and under which password? |
| `positions` | 29 worlds: 3 positions, 2 owners and a stranger, 1 provider, 2 passes, 1 discovery; fair | is the store sound, what is deleted, does the pane settle? |
| `devices` | 9 worlds: 1 Ledger, 1 Trezor, 2 tasks, 1 to 3 plugs; packets of 12, lengths to 45, of which 39 fit; fair | are devices known, do tasks end, is what is sent what was meant? |
| `portfolio` | 6 worlds: 4 tokens on 2 chains, 3 pairs, 1 slug, 2 stakings, 4 liquidity positions, 2 passes | are prices and sums true? |

Where components do not touch each other, or only at points their modules name,
a run has behaviours of either (`hail`, `confirm`): they share the run, not the
state. A *world* is an initial state with a budget for each kind of disturbance;
the worlds of a run spend their budgets on different ones, so that every pair
that can collide does so in some world.

Two timers are enough for one to shorten or lengthen the check armed for the
other; the grants include one that init refuses. Two processes are enough for
the dispatcher and two holders of the mutex to wait in a circle, and one of them
with a channel inside another for the dispatcher to wait for it; two messages
fill a channel and leave one in hand. One chained call has every step of a
chain. Two hails are enough for a removal to overlap with the opening of the
next. Three popups are one shown and two queued. The rates lie on both sides of
10, where the integer division of the increase changes. Three tokens are two
doubles and one behind them. Two clicks have every order of two threads over the
shared variables. In `web_apps` one request subscribes while another connects or
switches, and one change falls into the broadcast of the first event. A
connection that is skipped by a broadcast takes three connections;
`SubscribersUpToDate` excludes it by `skipped` whatever their number. Two
openings give one stale `*Wallet`. Three positions are one taken out, one moved
and one skipped; an owner of a vault does not change, pairs are not shared by
providers (`SharedPairs`). One device of a kind is enough for two tasks to meet
on it; two devices share the USB mutex.

Deadlock is not checked where the system may stop: all messages sent, all calls
returned, all hails answered, the request over, the connections closed, the
budgets spent, or the bus locked up. `rate_limiter` and `wallet_tokens` check it.

### Fairness

Goroutines that can run do run: weak fairness on each step of the dispatcher, of
the timer server, and of a call under way. Steps that take a contended
`sync.Mutex` are strongly fair, since Go's mutex passes to a waiter that has
starved. Nothing obliges a handler to answer, a client to send, or a user to
press a button. In `Fetch` not even time has to pass: `CancelUnwinds` holds
without, and `EveryCallReturns` names the assumption that a running timer fires
(`TimersFire`), which is what `Settles` shows in `TimerServer`. In `Positions`
passes go on, requests are answered and the debounce timer runs out; users and the
chain need do nothing. That prices keep being announced, which takes a feed that
answers, is no fairness but a premise of `PaneSettles`. In `Devices` the ticker drives the
USB loop, `operation_mutex` passes to a waiter that has starved, requests have
time limits, and goroutines go on; users and devices need do nothing. The other
modules state safety only; `PopupsAreServed` and `UpdateReachesAll` speak of the
end of what they follow instead.

## Defects of the code

The modules state the property that the code breaks, or have a variable or an
exception that says it happened; put into a cfg of the module, TLC finds the
counterexample. No run is spent on them. (The broadcast that skips a connection
takes 30 steps and three connections, for which TLC needs a `Next` without the
server's stops and most commands.)

| Module | Property | What happens |
|---|---|---|
| `Fetch` | `EveryCallReturns`, `LimitsInOrder = FALSE` | a request with `bus_timeout` above `bus_hard_timeout` has no timer and never returns |
| `Hail` | `OkClosesItsHail` | what closes after `OnOk` returned true is the hail that is active then, another one if the first has ended meanwhile |
| `Popups` | `PopupsAreServed` without `crossed` | a second click, or a click that closes a popup while the main loop shows the next: popups are lost, wait for ever, or a nil pointer ends the program |
| `Dialogues` | `PopupsAreServed` without `Stranded` | the popup of a Trezor does not serve the queue when it closes (`hw/trezor/pane.go:198-200`): what was queued behind it waits, its timer paused, until another popup is shown and closed; closed with ESC it answers nothing |
| `Dialogues` | `RemovesTheNamed` | after another removal, a sort or a failed save, OK removes another signer or address than was confirmed, or panics |
| `Dialogues` | `NamesDiffer` | a name that is taken is reported and given all the same: `break` leaves the inner loop only |
| `Dialogues` | `CopiesCanSign` | copies are looked up among the main signers: none is ever found |
| `Amounts` | `AmountIsAsTyped` | the second "1.5k" is 150; "1.5M" of a token with 6 decimals is a tenth of it at once |
| `Amounts` | `NeverMoreThanTyped` without `Over` | `^76` stands at index 26 of the suffixes (`cmn/xf.go:16-23`) and is read as 10^78 (`:178`) |
| `RateLimiter` | `StaysAuto` | a blockchain without a rate is fixed at the first tuned rate |
| `RateLimiter` | `IncreasesWhenDue` | a rate below 10 is never increased: the increase is a division that gives 0; the time without errors is counted from the last success |
| `RateLimiter` | `SettlesOnWallet` without `unannounced` | a failed save keeps the new settings in memory and the limiter at the old ones; so does another wallet opened, whose limiters are not made anew |
| `RateLimiter` | `SavedOnlyInAutoMode` | the tuned rate replaces one the user fixed in between |
| `WalletTokens` | `RemovesOnlyDoubles` | opening a wallet with two tokens of one symbol removes both, or one that has no double; with three it panics |
| `WalletTokens` | `SendByAddress` | of two tokens with one symbol neither can be sent |
| `WalletTokens` | `RemovesBlockchain` | removing a blockchain panics or leaves one of its tokens |
| `Confirm` | `SentOnce`, kind `send` | the command `send` leaves its button on the screen; each click builds and sends a transaction of its own |
| `Confirm` | `SignedAsShown` | Edit Fee changes what is shown and not what is signed |
| `Confirm` | `RejectedIsNotSent` | a transaction rejected after it was signed is sent |
| `Confirm` | (`rejected`) | Cancel is a message to the timer server: a signature given between the press and `done` is used, and the transaction sent |
| `Confirm` | `NoneGivenAfterDone` without `HasTimer` | a request of kind `send` has no timer: the signer still asks after Cancel, and what it signs is sent |
| `Confirm` | `WaitingIsShown`, `WaitingIsTrue`, `EditFeeIsSafe` | the pane shows the wrong template; Edit Fee panics on a nil transaction |
| `WebApps` | (`stuck`) | removing the last address of a website waits for the mutex it holds: the wallet is blocked for good |
| `WebApps` | (`up`) | starting the websocket server again, after it stopped or failed, panics |
| `WebApps` | `SubscribersUpToDate` without `switched`, or with three connections and without `skipped` | a switch by the website sends no event; a closing connection makes a broadcast skip another |
| `WalletFile` | `WrittenStays` without `torn` or `stale` | a crash in a write loses the file; an older `*Wallet` writes over a restored one; a restore that fails leaves a part of the copy |
| `WalletFile` | (`Failed`) | the error of the save after the audit is ignored (`cmn/wallet.go:192-194`): the wallet is open and the file is not what it says |
| `WalletFile` | `PasswordIsAsTold` without `excuses` | a save that waited writes the file under the old password |
| `Positions` | `DeletesOnlyEmpty` without its exceptions | the panes and the discovery of stakings delete what they could not read |
| `Positions` | `DeletesOnlyEmpty` without `Overtaken` | a pass of `lp_v2` removes by the owner the position has after the answer (`ui/pane_LP_V2.go:171-175`): if the old owner had nothing and a discovery has given the pair to the address that holds it meanwhile, it removes what was just found |
| `Positions` | `DeletesOnlyEmpty` without `TwoVaults` | the pane removes an empty stake by its owner and contract (`ui/pane_staking.go:203`, `cmn/wallet.go:1344-1355`): of two vaults of one owner the first goes, whichever was empty |
| `Positions` | `DeletesOnlyEmpty` without `Unseen` | a V3 position with nothing left but tokens owed is found by a discovery (`lp_v3/discover.go:122`) and deleted by the pane, which looks at amounts and gains (`ui/pane_LP_V3.go:174-176`), in turn; `lp_v3 list` deletes one of no amounts whatever its gains (`command/lp_v3.go:347-350`) |
| `PositionValue` | `FeesAreRight` without `r.owed` | tokens owed are read and not counted (`lp_v3/get_position_status.go:279-301`): what was earned before a decrease is not shown |
| `PositionValue` | `FeesAreRight` without `r.last <= ...` | the last subtraction of `lp_v3` does not wrap (`:289`): fees of a position whose growth has wrapped since it was touched are negative |
| `Positions` | `NoOrphans` without `raced` | a discovery brings back positions of a provider that was removed |
| `Positions` | `DiscoveryComplete` without `clean` | the first read that fails ends the discovery of all others |
| `Positions` | `DiscoveryComplete` without `TwoVaults` | a stake without validator is looked up by its owner alone (`cmn/wallet.go:1307-1333`): of two vaults of one owner in a contract the second is found, counted and not stored |
| `Devices` | `InitialisesUnnamed`, worlds `MCUnnamed` | `find_by_name` waits for the mutex it holds |
| `Devices` | `TasksEnd` without `Hung` | `break` in `TimerLoop` leaves the `switch`, not the loop; a `done` sent before it subscribes is lost |
| `Devices` | `TasksEnd` without `LeftOpen` | the button Hidden pauses the timer of the request until its popup closes (`hw/trezor/pane.go:165-167`): left open, the request waits for ever |
| `Devices` | `PluggedIsListed` without `overtaken` | each message of the USB server has a goroutine (`hw/ledger/ledger_server.go:55-62`): a `disconnected` handled after the `connected` that followed it takes a plugged Ledger off the list |
| `TypedData` | `TypedDataSent` without `AsTold`, `Unsigned` | N of `bytesN` is a number of bytes, and is divided by 8 as one of bits (`hw/ledger/sign_typed_data.go:120-129`, `168`): `bytes32` is announced as 4, `bytes4` as 0; negative numbers lose their sign (`:350`) |
| `DeviceFrames` | `FramesReassemble` without `n < ByteRange` | the length of a command is cut to one byte (`hw/ledger/raw_call.go:74`): one of more than 255 bytes never arrives whole |
| `Prices` | `UpdateReachesAll`, one chain failing | the chains after it are not asked, and nobody is told of those before it |
| `Portfolio` | `ListIsTrue` while funds move | an amount is counted twice, or not at all; a failed read counts as nothing |
| `Portfolio` | `ListIsTrue` over a sort | `lp_v3 list` sorts the slice the pass ranges over (`command/lp_v3.go:280-292`): a position is counted twice and another not at all |
| `Portfolio` | `ListIsTrue` without `ReadTwice` | a reward is asked for by its token (`staking/get_pending.go:56-62`): of two rewards in one token the first is read twice and the second never |
| `Portfolio` | `ListIsTrue` without `AllOwned` | `address remove` leaves the positions of the address (`command/address.go:109`): "token balance" counts them, "address balances" shows them nowhere |

Met while reading, and not in a model:

- A broadcast is dropped while no wallet is open (`ws/ws_server.go:194-198`).
- `DeleteBlockchain` (`cmn/wallet.go:71-100`) leaves the positions on it.
- Definitions of arrays of a fixed size, or of arrays of arrays, are not what the
  device expects (`hw/ledger/sign_typed_data.go`); `TypedData` has arrays written
  `[]` only.
- Subgraphs are asked for one page (`lp_v2/discover.go:230`, `lp_v4/discover.go:268`);
  `Positions` has it as `beyond.crowded`, and does not say which part of the page
  comes.
- `w.Addresses` changes (`command/address.go:109`, `126`) and the lists of providers
  are sorted in place (`lp_v2.go:202`, `lp_v3.go:165`, `lp_v4.go:165` and
  `staking.go:170` of `command/`) while a discovery may range over them; in
  `Positions` the addresses are constant and the providers a set.
- `token list` and `price list` sort `w.Tokens` in place (`command/token.go:296`,
  `price.go:278`). The loops of the panes over it make no request, so a sort meets
  them only as a data race within one step; `Portfolio` has the tokens as a set.
- A Ledger that went while a transfer took it off the list of the USB server, with
  no announcement (`usb/usb_server.go:149`), stays on that of its own server.

## Proofs

Proved for all values of the constants that the assumptions below allow. Only
the type invariants are inductive alone, so each module of proofs has its own
`IInv`, with one step per action.

`BusProofs`, the timer server: `TimersSpec => []TimersOK`, `[]CheckCovers`, `[]Punctual`,
`[]NeverRevived`, `[]HardDeadline`. `TimersInv` joins them with two facts about one
timer (`Sound`): it has used no more than its limit and the lag of the goroutine,
and its limit is within what its hard limit has left, which together with what
was spent before the resets is the hard limit of the grant; and with `NotLate`:
the goroutine is behind an armed check by at most `MaxLate`. Without
`CheckCovers` time could pass a limit unnoticed, without `NotLate` it could pass
it by any amount. The steps reduce to lemmas about the operators of `Timers` and
one lemma about `UpdateTimers`.

`BusProofs`, the bus: `Spec => []TypeOK`, `[]NoSendOnClosed`, and the refinement, `Spec =>
ImplementsBroadcast`. Everything rests on who has the mutex (`MutexHeld`): a
sender between its lock and its push, `ProcessMessages` from its look at the
subscribers until the last one is served. With it nobody can close a channel that
is still to be served, a sender's id is the order of `In`, and the inbox that
`Broadcast` fills in one step is a channel and the message in hand if the channel
is still to get it (`Due`). `InHand` and `OneChannel` say that no channel is served
twice, `Held` that a process is subscribed with the channels it holds, the inner ones too,
and `Calls` that ids are left for all calls under way.

`RequestProofs`, the calls: `Spec => []TypeOK`, `[]NoLostWakeup`, `[]RefusedOnlyWhenOver`, and the refinement, `Spec =>
ImplementsRequestReply`. What is inductive about a wake-up (`Alarmed`) begins
before the wait: a call is safe from the moment its `init` is sent, and a chained
one from the moment the timer server has answered its `init-hard` without an
error, which it does only while the timer runs (`Extended`); at both moments the
call has subscribed, so a `done` that is sent from then on is heard. `Fresh` says
that nothing of the nested request is left over from before, `Heard` that a
channel holds nothing the loop skips. For the refinement `Traced` follows every
message to who sent it: a response to the request of a call is one its handler
sent. That a nested request is refused only when the timer is over needs the order
of the messages (`Ordered`): the `init` of a timer is sent once and first, in the
queue and among the requests before every `init-hard` that names it, so the timer
server knows each timer it is asked to extend.

`RequestProofs`, the devices: `DevicesSpec => []UsbTypeOK`, `[]DevicesTypeOK`,
`NoSpuriousDisconnect`. What the USB server holds of a device is no older than the
enumerations that missed it (`MissedFor`), so an entry old enough to be dropped is that of
a device nobody has found for the whole period; all that the servers, the user and the
devices do is one of a few kinds of step to the USB server (`UsbKeeps`). A goroutine
reads or enumerates exactly while it holds `operation_mutex` (in `DevicesTypeOK`). For
that the panes matter: a new request for a PIN takes the goroutine that made the one
before out of its wait, wherever it is, and it is where it may be taken out because what
a pane shows belongs to a goroutine that waits for this very answer (`PanesFit`).

`HailProofs`: `Spec => []AnsweredOnce`, `[]HeadIsShown`. `IInv` says of every hail (`Lives`) that
it is on its way to the queue or in it, unanswered and taken by nobody; or that
one goroutine has taken it and is about to answer; or that it has its answer. The
queue has no hail twice, which makes taking the first the same as taking it, and
`OnCancel` has not run while `FetchEx` waits. While handlers
do not overlap one at most is at work; `Follows` says for each step it may be at
(`Stage`) which of the queue, `ActiveRequest` and the pane agree by then, and that
between handlers they all do.

`HailProofs`, the popups: `DialogueSpec => []PopupTypeOK`, `[]PopupsAreServed`. A dialogue
does to the wallet what it likes and moves no popup (`DialoguesAct`), so the proof is about
`Popups` alone. `Placed` says where a goroutine that asks or closes may be at all, and
`Orderly` what holds until two of them have met: one goroutine at most closes the popup,
which stays meanwhile (`OneCloses`); whoever queues a popup finds one open, and a queue is
never left without a popup, open or posted, whose end will take the next off it
(`Serving`), but for what was queued behind that of a Trezor (`QueueMoves`); the popup of
a Trezor is not queued itself, nor posted behind another one (`TrezorAlone`). `Owing` says that a
popup which holds a timer or has not been answered is still on its way to the screen, or
is on it and not yet past that step of being closed; or it is a Trezor's that ESC closed.

`HailProofs`, the lists: `DialogueSpec => []DialogueTypeOK`, `[]AddressesSound`. A dialogue
acts on what it remembers of lists that have changed since, so the types come first
(`Remembers`): an index was one of the list, a pointer is to an object that is never taken
back, and OK finds an index out of range a fault. `Signed` adds to the property that the
signer a dialogue will promote or give to an address is still of the wallet, which removal
alone can break; two signers of one name do not break it, because a promotion moves the
addresses by name. `StillNew` carries the check of an address to its addition: nobody acts
in between, for `ClicksAlone` of the popups says who answers while no two goroutines have
met, and no dialogue opens on a popup that is answered (`Clicked`). So this invariant is
inductive only together with that of the popups.

`MoneyProofs`, the requests: `Spec => []OkIsTrue` for requests of any kind, and, when the kinds
do not include `send`, `Spec => []SentOnce` and `Spec => NoneGivenAfterDone`;
for `send` they are false (*Defects of the code*). A transaction of `send-tx` keeps
the nonce it was built with before the user was asked, so whoever signs and sends
it again is refused by the node (`OneNonce`); the variables of the handler tell of
what has happened (`Told`). That a signature comes too late rests on the order in which
an inbox is read: when the timer is done, each click that waits has a message already
(`Boxes`), its signature or `done`, and it reads the first and no other.

`MoneyProofs`, the amounts: `AmountSpec => []NeverMoreThanTyped` of the numbers typed into
a request. The table of powers of ten gains decimals only, and only at powers that were
typed with a fraction (`AmountInv`); what a suffix is read for is what it names, but
for the last ones (`NamedIs`).

`MoneyProofs`, the prices: `PortfolioSpec => []PricesTypeOK`, `PricedByItsFeed`,
`UpdateReachesAll`, whatever the panes and the user do beside an update. That a price
is the one quoted follows from the types and the step alone. That an update has priced
all it could does not: `CalmSoFar` says of an undisturbed one, at each point of its two
rounds, which tokens it has behind it (`Behind`), that these have the price of what they
follow, twins included (`HasItsPrice`), and that what it asks now is what the tokens
follow (`AsksPairs`, `AsksSlugs`).

`MoneyProofs`, the worth of the wallet: `PortfolioSpec => ListIsTrue`, for any addresses,
tokens, positions and number of passes. What is inductive (`WorthInv`) is about a pass that
nothing disturbed: the loop it is in and the element it is at (`OnItsWay`); that what it
still asks for has each place once, in a queue or a batch and not in both (`Asks`); and that
its sums are what is held where it has been, or less after a read that failed (`Counted`,
over `Been`, `BeenTwice` and `Awaited`). A list keeps each position once when an element is
taken out in place (`ListsSound`), so at the end the loops have been everywhere and a sum
over the indices of a list is the sum over the places that count (`StakedIsWorth`,
`PooledIsWorth`), and the sum of sums by owner (`StakedByAddress`, `PooledByAddress`). The
community modules define a sum by a recursion over a CHOOSE; `SumFound` builds that function
and `SumRemove` shows that it does not matter which element is taken first, from which the
lemmas about sums follow (`SumUnion`, `SumRenamed`, `SumByParts`). That the list can be sorted
at all is `SortedExists`.

The proof needs two hypotheses that the small instance fulfils everywhere and `ListIsTrue`
therefore states: no position has two rewards in one token (`ReadTwice`), and every position
is of an address the wallet has (`AllOwned`). Without them it is false (*Defects of the
code*).

`NetworkProofs`, the rate limiter: `Spec => []TypeOK`, `[]SettlesOnWallet`, `BackoffIsKept`. A
limiter that differs from the wallet was not told of the last change, or has the cause
on its way (`Follows`): a `saved` for its mode, and for its rate a `saved` or a goroutine
that saves that very rate. So with nothing under way they agree. The wait is what the errors since
the last success make it, in every state.

`NetworkProofs`, the websocket server: `WebSpec => []WebTypeOK`, `[]ListedOnce`,
`[]SubscribersUpToDate`. (`WebApps` prefixes `Init`, `Next` and the like so that one
module can extend both servers.) What is inductive about a subscriber (`Knows`): it was
told what the wallet says, or an event about it is in the queue or about to be broadcast
(`Coming`), or the broadcast under way is about it and has the connection before it
(`ToCome`). The last is lost when a connection takes a place in the array the broadcast
ranges over; `ViewFits` says that `append` finds room there only after a connection was
removed, which is the excuse `skipped`. A broadcast that does not read the wallet for
each connection may tell an old value, but then another one is coming (`TellsTrue`).
All commands but one are of a kind (`Revision`): they change the origin and send an
event about whatever they changed.

`WalletProofs`, the file: `Spec => []TypeOK`, `[]WrittenStays`, `[]PasswordIsAsTold`,
`[]CurrentHasAll`. None is inductive, because what a save puts into the file was
read from a Wallet before, with the mutex of that Wallet only. `Busy` says of each
goroutine what it is at and with which Wallet, and that one that saves has the
mutex; `Held` that nobody else has it, `Private` that a Wallet being opened is
known to one goroutine. From these two savers of one Wallet never write at once,
and two savers of two Wallets leave one of them out of date (`Ages`). `Kept` then
says that nothing in the file is missing in the file, in a Wallet that knows the
file, or in the bytes about to be written for one; `TornIsKnown` that a file nobody
writes is whole or there is an excuse. For the password `AsTold` speaks of the
Wallets in use whose password nobody is changing: a save with a password that was
taken before the change finds that the Wallet has another one now, which is the
excuse `overtaken`, and `Encrypted` says the bytes have the password taken. The steps
go through what each action does to one goroutine (`Becomes`) and to the
Wallets (`Puts`, `Adds`, `Ages`), and for the mutexes through four kinds of move
(`Effects`).

`WalletProofs`, the tokens: `TokensSpec => []TokensTypeOK`, `[]TokensSound`. The audit is a
pipeline of loops, and what holds on the way is weaker than the invariant: no two tokens
of a slice at one address, native tokens of the blockchains there are or of one more
(`Lists`, `Slices`), for the elements of a slice and not of the array behind it. Each loop
keeps that in each round (`RemoveSameKeeps` to `AuditWrappedKeeps`), whether it has run out
of its slice or not. `RemoveOrphanKeeps` takes the one blockchain away again: there is one
orphan at most, since two native tokens of a blockchain would share the zero address. So
that only the first is removed, as the code does, is enough. `MarkUniqueKeeps` says that
what is marked are the first token of a symbol and each that has an earlier one, which is
all that have a double.

`PositionsProofs`: `Spec => []StoreSound`. The invariant (`SoundInv`) speaks of the slice as
Go has it, an array and a length: no two of its elements are one position and each has a
contract the wallet knows, or knew when it was removed under a discovery (`Kept`). Of the
discovery it has what its guards take for granted (`Sane`): it holds contracts the wallet
knew when it began, and where it indexes a list, the list is not empty. The removal of a
contract is a loop over the slice that shifts it under itself; that nothing of the contract
is left is shown from the last element backwards (`CountingDown`).

`PositionsProofs`, deletions: `Spec => DeletesOnlyEmpty`. What is taken out is known by an
answer to a question that was asked steps ago, about an element of a slice that has moved
since. `WorthInv` keeps the answer true on the way: `PassInv` says of each pass that is not
stale that an empty answer it holds, or a position on its list to delete, is one of a
position not open or with nothing but what the pass does not look at, tokens owed or
`lp_v3 list`'s fees; `HandInv` says the same of the stake a discovery has in hand. The chain
may not go back on it: a closed position is opened again only by a step that makes every
pass stale, and `ChainInv` says the keys on the chain are of the kind the provider has, so
that a removal by owner and contract alone (`RemoveStakingPosition`) meets another position
only if it is one of two vaults. For each slice operation it is then enough that one element
goes, and which (`RemoveOf` and its five callers), whatever the index of the loop has become.

`PositionsProofs`, discovery: `Spec => DiscoveryComplete`. The invariant (`OnCourse`) is about
a discovery that is clean: no pass is stale (`NoneStale`), what it holds is what the chain
says now and it asks as its kind of provider is asked (`OnWay`), and every position in reach
either is in the wallet or waits (`Covers`, `Waits`): its provider is still to be taken up, or
its owner is still in the list, or its key is at hand, behind the index or in the batch read.
Each step of the discovery passes one such case on to the next, and at the end nothing waits.
The passes of the pane, which run all the while, take nothing out that is in reach, unless
they take out one they do not look at, which ends the course (`clean`); that is the
theorem on deletions, so `WorthInv` is a part of this invariant too.

`SequenceLemmas` has what these need of `RemoveFirst` of the community modules, of
`Append`, `Tail` and `EXCEPT`; that a least index exists comes from the library's
well-foundedness of the naturals, and with it what each round of a loop keeps
(`CountingUp`, `CountingDown`, `StaysIn`). tlapm does not unfold a recursive function
whose values it knows no set of; `RecursionExists` builds the function of a loop whose
rounds stay in a set, and each lemma about a loop begins there.

Assumed: `NoTimer` is not a timer, grants are pairs of naturals, `MaxWait` is
positive; the processes of the bus are finitely many, `Dispatcher` and `Nobody`
are not among them, capacities are positive; `None` is not a hail; the bounds of
the rates are positive and the initial rate is between them; suffixes and
decimals fit the table; popups are numbered from 1; a wallet a behaviour of `Dialogues`
starts with (`IsWorld`) has no address twice and the signer of each, as every wallet has
in which no signer was ever renamed or removed, and its names are ordered as numbers; one of
`Positions` has no position twice and none of a contract it does not know, as every wallet
in which none was removed during a discovery, keys of the kind its provider has
(`KeysOn`), and a vault of one owner and contract only (a vault is a contract, deployed for
one beneficiary), and keys of validators, of vaults and of stakes without either are told
apart (`KeysAreApart`); those of `Portfolio` have a feed or none and
a price for each token, natural amounts and no position twice, as the wallet looks for a
position before it adds one; addresses, tokens and positions are finitely many and a pool
is of one of the three versions (`WalletIsFinite`); tokens are of the listed blockchains, and
0 and 1 are prices; the
zero address is no contract's; for `Fetch` and `Confirm` the ASSUMEs at the head of the
modules (`NoCall` is not a call and only calls have a parent; the requests are of
the kinds the code has), `NoOne` is not a goroutine of `WalletFile`;
`None` of `WebApps` is not a connection, a chain, an origin or a broadcast; `Nobody` of
`Usb` is not a goroutine and its loop is not one of the servers', there are finitely many
devices, and a world of `Devices` plugs in some of them and asks for wallets the servers
have.

Model-checked only: all liveness (`TasksEnd` and `PluggedIsListed` of `Devices` among it).
`PositionValue`, `DeviceFrames` and `TypedData` are functions
that are recursive over their data, out of the prover's reach, so `ShownAsIs` and
`SentIntact` stay with TLC.

## Not modelled

- Message types, configuration, predefined chains, the messages of a Trezor:
  declarations, tables and generated code; they appear as the constants and
  records of the modules that use them.
- The terminal library but for its main loop, events and popup: a modified copy
  of another project whose state is what is on the screen.
- Software wallets and the key derivation of all wallets: cryptography without a
  state that two calls share. A software signer answers in `Confirm` as any other.
- Block explorers, sound, the bodies of HTTP answers and their JSON: one request,
  one answer, no state kept between them.
- The connections to the nodes (`eth/eth_.go`): opened once per blockchain, closed
  with the wallet; `Fetch` and `Portfolio` model calls that fail at any time.
- The requests of `lp_v2`, `lp_v3`, `lp_v4` and `staking` that read one value of
  one contract and hand it on.
- Division and formatting of `cmn/xf.go`, the flow of text in `ui/pane_flow.go`,
  completion and printing of commands: layout.
- Contracts, their trust and the parameters of the application as stored data:
  read and written as one value each; the races on them are those of
  `WalletTokens` and `Confirm`, where they decide something.

## Plan

What remains, the most useful first.

1. The connections of `eth/eth_.go` beside a change of the wallet, and the
   dialogues of blockchains and providers over `Popups`.
2. `ui/pane_flow.go` and the division of `cmn/xf.go` as pure algorithms.
