------------------------------- MODULE Confirm -------------------------------
(***************************************************************************)
(* One request of the Ethereum server that needs the user's consent and a  *)
(* signature: send (eth/send.go), send-tx (eth/send_tx.go), sign and       *)
(* sign-typed-data-v4 (eth/sign.go, eth/sign_typed_data.go).  The handler  *)
(* raises a hail and waits; each click on a button runs on a goroutine of  *)
(* its own; what they share are variables of the handler without a lock.   *)
(* The queue of hails is module Hail, the timers under a request Fetch.    *)
(* The hail of this request is the active one while it is open.            *)
(***************************************************************************)
EXTENDS Naturals, Sequences, Functions

CONSTANTS
  Kinds,     \* those of "send", "send-tx" and "sign" (either kind) considered
  Fees,      \* gas prices
  Clicks,    \* clicks on the button Send or OK
  MaxMoves,  \* bound: changes of the market price of gas
  MaxEdits   \* bound: clicks on Edit Fee and on the buttons about the contract

ASSUME KindsAssumption == Kinds \subseteq {"send", "send-tx", "sign"}
ASSUME FeesAssumption == "none" \notin Fees
ASSUME BoundsAssumption == MaxMoves \in Nat /\ MaxEdits \in Nat

None == "none"
Fee == Fees \cup {None}
Tx == [fee : Fees, nonce : Nat]
NoTx == [fee |-> None, nonce |-> 0]

\* What the pane shows of a template: the fee, and whether it has the button
\* Send or says "Waiting to be signed".
Template == [fee : Fee, waiting : BOOLEAN]

VARIABLES
  kind,
  up,        \* the program has not panicked
  handler,   \* "start", "asking" or "done"
  answer,    \* what the handler returned: "none", "error", "empty", "ok"
  first,     \* the template the hail was raised with
  tx,        \* the transaction built with it
  hail,      \* "none", "open" or "closed"
  template,  \* hail.Template
  view,      \* the template rendered in the pane
  timer,     \* the timer of the hail: "running" or "done"
  ok,        \* confirmed, or OK
  failed,    \* err # nil
  hashed,    \* hash # ""
  pc,        \* where each click is
  signs,     \* the transaction each click wants signed
  approved,  \* history: the fee the user saw at each click
  inbox,     \* what has come on the channel of each click's request to the signer
  edit,      \* an edit: "none", "popup", or the price a template is built for
  edits,     \* edits so far
  rejected,  \* history: the user pressed Reject
  market,    \* the node's price of gas
  moves,     \* its changes so far
  sent       \* the transactions of the account the node has accepted

dialogue == <<hail, template, view, timer, rejected>>
result == <<ok, failed, hashed>>
clicks == <<pc, signs, approved, inbox>>
editing == <<edit, edits>>
node == <<market, moves, sent>>
vars == <<kind, up, handler, answer, first, tx, dialogue, result, clicks, editing, node>>

-----------------------------------------------------------------------------
Sends == kind # "sign"

\* Does the request come with a timer, that its hail and its signatures share?
\* send is posted with bus.Send and has none.
HasTimer == kind # "send"

\* The node gives the price and the next nonce; nothing else uses the account.
BuildTx == [fee |-> market, nonce |-> Len(sent)]

\* Variant: a transaction of its own for each click, as send has it.
SignedTxFresh(c) == BuildTx

\* send-tx signs what it built before it asked; send builds it now.
SignedTx(c) == IF kind = "send-tx" THEN tx ELSE BuildTx

\* The template of sign has no fee.
Empty == [fee |-> None, waiting |-> FALSE]

BuildTemplate(price, waiting) ==
  [fee |-> IF ~Sends THEN None ELSE IF price = None THEN market ELSE price,
   waiting |-> waiting]

-----------------------------------------------------------------------------
(* The handler.                                                            *)

Init ==
  /\ kind \in Kinds
  /\ up = TRUE /\ handler = "start" /\ answer = "none"
  /\ first = Empty /\ tx = NoTx
  /\ hail = "none" /\ template = first /\ view = first
  /\ timer = "running" /\ rejected = FALSE
  /\ ok = FALSE /\ failed = FALSE /\ hashed = FALSE
  /\ pc = [c \in Clicks |-> "idle"] /\ signs = [c \in Clicks |-> NoTx]
  /\ approved = [c \in Clicks |-> None] /\ inbox = [c \in Clicks |-> <<>>]
  /\ edit = "none" /\ edits = 0
  /\ market \in Fees /\ moves = 0 /\ sent = <<>>

\* A look-up in the wallet fails, or the node does.
Refuse ==
  /\ handler = "start"
  /\ handler' = "done" /\ answer' = "error"
  /\ UNCHANGED <<kind, up, first, tx, dialogue, result, clicks, editing, node>>

\* The template and tx come from two calls of the node; send goes on without tx
\* when the second fails.
Ask ==
  /\ handler = "start"
  /\ timer = "running"
  /\ handler' = "asking"
  /\ first' = BuildTemplate(None, FALSE)
  /\ tx' \in CASE kind = "send-tx" -> {BuildTx}
               [] kind = "send" -> {BuildTx, NoTx}
               [] kind = "sign" -> {NoTx}
  /\ hail' = "open" /\ template' = first' /\ view' = first'
  /\ UNCHANGED <<kind, up, answer, timer, rejected, result, clicks, editing, node>>

\* The time limit passed before: the hail is refused, and the handler looks at
\* its variables.
AskTooLate ==
  /\ handler = "start"
  /\ timer = "done"
  /\ handler' = "done"
  /\ answer' = IF kind = "sign" THEN "error" ELSE "empty"
  /\ UNCHANGED <<kind, up, first, tx, dialogue, result, clicks, editing, node>>

\* Variant: sign looks at err alone.
ReturnUnlessFailed ==
  /\ handler = "asking"
  /\ hail = "closed" \/ timer = "done"
  /\ handler' = "done"
  /\ answer' = IF failed THEN "error" ELSE "ok"
  /\ UNCHANGED <<kind, up, first, tx, dialogue, result, clicks, editing, node>>

\* msg.Fetch("ui", "hail") returns, with the response or with the done of the
\* timer, and the handler looks at the variables.
Return ==
  /\ handler = "asking"
  /\ hail = "closed" \/ timer = "done"
  /\ handler' = "done"
  /\ answer' = CASE kind = "send" -> "empty"
                 [] kind = "send-tx" /\ ok -> IF hashed THEN "ok" ELSE "empty"
                 [] kind = "send-tx" /\ ~ok -> IF failed THEN "error" ELSE "empty"
                 [] kind = "sign" -> IF failed \/ ~ok THEN "error" ELSE "ok"
  /\ UNCHANGED <<kind, up, first, tx, dialogue, result, clicks, editing, node>>

-----------------------------------------------------------------------------
(* The buttons Send or OK, and Reject.                                     *)

\* The click of the user.
ClickOk(c) ==
  /\ pc[c] = "idle"
  /\ hail = "open" /\ ~view.waiting
  /\ pc' = [pc EXCEPT ![c] = "ok"]
  /\ approved' = [approved EXCEPT ![c] = view.fee]
  /\ UNCHANGED <<kind, up, handler, answer, first, tx, dialogue, result, signs, inbox,
                 editing, node>>

\* OnOk returns false, and the hail stays open.
OkFails(c) ==
  /\ pc' = [pc EXCEPT ![c] = "failed"]
  /\ failed' = (failed \/ kind # "send")
  /\ inbox' = [inbox EXCEPT ![c] = <<>>]
  /\ UNCHANGED <<kind, up, handler, answer, first, tx, timer, rejected, ok,
                 signs, approved, editing, node>>

\* The template cannot be built again, which leaves the hail with an empty one.
NoTemplate(c) ==
  /\ pc[c] = "ok" /\ Sends
  /\ OkFails(c)
  /\ template' = Empty
  /\ UNCHANGED <<hail, view, hashed>>

\* The new template says that the signature is awaited (not that of send), but
\* send-tx renders the old one.
Confirmed(c) ==
  /\ pc[c] = "ok"
  /\ pc' = [pc EXCEPT ![c] = "prepare"]
  /\ template' = BuildTemplate(None, kind # "send")
  /\ view' = CASE hail # "open" -> view
               [] hail = "open" -> IF kind = "send-tx" THEN first ELSE template'
  /\ failed' = (failed /\ kind = "sign")
  /\ UNCHANGED <<kind, up, handler, answer, first, tx, hail, timer, rejected, ok,
                 hashed, signs, approved, inbox, editing, node>>

\* The signer is gone, the node does not answer, or the timer of the request
\* is done already, so that the nested request is refused.
NotPrepared(c) ==
  /\ pc[c] = "prepare"
  /\ kind = "sign" => timer = "done"
  /\ OkFails(c)
  /\ UNCHANGED <<hail, template, view, hashed>>

\* Fetch("signer", "sign-tx"), or "sign"
AskSigner(c) ==
  /\ pc[c] = "prepare"
  /\ HasTimer => timer = "running"
  /\ pc' = [pc EXCEPT ![c] = "signing"]
  /\ signs' = [signs EXCEPT ![c] = IF Sends THEN SignedTx(c) ELSE NoTx]
  /\ UNCHANGED <<kind, up, handler, answer, first, tx, dialogue, result, approved,
                 inbox, editing, node>>

\* The signer signs, or refuses, sooner or later than anything else that comes.
SignerAnswers(c) ==
  /\ pc[c] = "signing"
  /\ Range(inbox[c]) \subseteq {"done"}
  /\ \E reply \in {"signature", "refusal"} : inbox' = [inbox EXCEPT ![c] = Append(@, reply)]
  /\ UNCHANGED <<kind, up, handler, answer, first, tx, dialogue, result, pc, signs, approved,
                 editing, node>>

\* The signature of send has a timer of its own.
SignatureExpires(c) ==
  /\ ~HasTimer /\ pc[c] = "signing"
  /\ "done" \notin Range(inbox[c])
  /\ inbox' = [inbox EXCEPT ![c] = Append(@, "done")]
  /\ UNCHANGED <<kind, up, handler, answer, first, tx, dialogue, result, pc, signs, approved,
                 editing, node>>

Came(c, what) == pc[c] = "signing" /\ inbox[c] # <<>> /\ Head(inbox[c]) \in what

\* FetchEx takes what comes first; what comes behind is lost with the channel.
NotSigned(c) ==
  /\ Came(c, {"refusal", "done"})
  /\ OkFails(c)
  /\ UNCHANGED <<hail, template, view, hashed>>

Signed(c) ==
  /\ Came(c, {"signature"})
  /\ pc' = [pc EXCEPT ![c] = IF Sends THEN "signed" ELSE "closing"]
  /\ ok' = (ok \/ ~Sends)
  /\ failed' = (failed /\ Sends)
  /\ inbox' = [inbox EXCEPT ![c] = <<>>]
  /\ UNCHANGED <<kind, up, handler, answer, first, tx, dialogue, hashed, signs, approved,
                 editing, node>>

\* SendSignedTx fails: no client, the node refuses, or it has a transaction with
\* this nonce.
NotSent(c) ==
  /\ pc[c] = "signed"
  /\ OkFails(c)
  /\ hashed' = (hashed /\ kind # "send-tx")
  /\ UNCHANGED <<hail, template, view>>

SendSignedTx(c) ==
  /\ pc[c] = "signed"
  /\ signs[c].nonce = Len(sent)
  /\ sent' = Append(sent, signs[c])
  /\ pc' = [pc EXCEPT ![c] = "closing"]
  /\ hashed' = (hashed \/ kind = "send-tx")
  /\ failed' = (failed /\ kind # "send-tx")
  /\ UNCHANGED <<kind, up, handler, answer, first, tx, dialogue, ok, signs, approved,
                 inbox, editing, market, moves>>

\* OnOk returns true, and the pane closes the hail.
Close(c) ==
  /\ pc[c] = "closing"
  /\ pc' = [pc EXCEPT ![c] = "closed"]
  /\ ok' = (ok \/ kind = "send-tx")
  /\ hail' = "closed"
  /\ UNCHANGED <<kind, up, handler, answer, first, tx, template, view, timer, rejected,
                 failed, hashed, signs, approved, inbox, editing, node>>

\* The button sends "trigger" for the timer of the hail, and the hail stays.
Reject ==
  /\ hail = "open" /\ ~rejected
  /\ rejected' = TRUE
  /\ UNCHANGED <<kind, up, handler, answer, first, tx, hail, template, view, timer, result,
                 clicks, editing, node>>

\* Variant: only the hail hears that its timer is done.
SendDoneToHail ==
  /\ timer = "running"
  /\ timer' = "done"
  /\ UNCHANGED <<kind, up, handler, answer, first, tx, hail, template, view, rejected,
                 result, clicks, editing, node>>

\* "done" comes on the channels of the hail and of every request that shares its timer.
SendDone ==
  /\ timer = "running"
  /\ timer' = "done"
  /\ inbox' = [c \in Clicks |-> IF HasTimer /\ pc[c] = "signing" THEN Append(inbox[c], "done")
                                ELSE inbox[c]]
  /\ UNCHANGED <<kind, up, handler, answer, first, tx, hail, template, view, rejected,
                 result, pc, signs, approved, editing, node>>

\* The server of timers comes to the trigger.
Trigger == rejected /\ SendDone

\* The time limit.
Expire == (HasTimer \/ hail = "open") /\ SendDone

\* FetchEx calls OnCancel, which triggers the timer again and removes the hail.
OnCancel ==
  /\ hail = "open" /\ timer = "done"
  /\ hail' = "closed"
  /\ UNCHANGED <<kind, up, handler, answer, first, tx, template, view, timer, rejected,
                 result, clicks, editing, node>>

\* The OnOk of a hail that has left the pane meanwhile closes this one.
ClosedByAnother ==
  /\ hail = "open"
  /\ hail' = "closed"
  /\ UNCHANGED <<kind, up, handler, answer, first, tx, template, view, timer, rejected,
                 result, clicks, editing, node>>

-----------------------------------------------------------------------------
(* The other buttons.                                                      *)

\* editFee looks at tx, and panics when there is none.
EditFee ==
  /\ Sends /\ hail = "open" /\ edit = "none" /\ edits < MaxEdits
  /\ edits' = edits + 1
  /\ up' = (tx # NoTx)
  /\ edit' = IF timer = "running" \/ ~HasTimer THEN "popup" ELSE "none"
  /\ UNCHANGED <<kind, handler, answer, first, tx, dialogue, result, clicks, node>>

\* The popup closes with a price, and a template is built for it; the price is
\* set on a copy of that of tx, and on none in send.
FeeChosen(fee) ==
  /\ edit = "popup"
  /\ edit' = fee
  /\ UNCHANGED <<kind, up, handler, answer, first, tx, dialogue, result, clicks, edits,
                 node>>

\* Edit the name of the contract in a popup; the template is built again when it
\* closes, whatever was pressed.
EditContract ==
  /\ kind = "send-tx" /\ hail = "open" /\ edit = "none" /\ edits < MaxEdits
  /\ timer = "running"
  /\ edits' = edits + 1
  /\ edit' = "market"
  /\ UNCHANGED <<kind, up, handler, answer, first, tx, dialogue, result, clicks, node>>

\* Download, trust or untrust the contract; the template is built again unless
\* that failed.
MarkContract ==
  /\ kind = "send-tx" /\ hail = "open" /\ edit = "none" /\ edits < MaxEdits
  /\ edits' = edits + 1
  /\ edit' \in {"none", "market"}
  /\ UNCHANGED <<kind, up, handler, answer, first, tx, dialogue, result, clicks, node>>

EditDone ==
  /\ edit \in Fees \cup {"market"}
  /\ edit' = "none"
  /\ LET built == BuildTemplate(IF edit = "market" THEN None ELSE edit, FALSE)
     IN  \/ template' = built /\ view' = IF hail = "open" THEN built ELSE view
         \/ UNCHANGED <<template, view>>
  /\ UNCHANGED <<kind, up, handler, answer, first, tx, hail, timer, rejected, result,
                 clicks, edits, node>>

\* The pane renders hail.Template again, unless it is empty.
OnResize ==
  /\ hail = "open"
  /\ view # template
  /\ Sends => template # Empty
  /\ view' = template
  /\ UNCHANGED <<kind, up, handler, answer, first, tx, hail, template, timer, rejected,
                 result, clicks, editing, node>>

MarketMoves ==
  /\ moves < MaxMoves
  /\ moves' = moves + 1
  /\ market' \in Fees \ {market}
  /\ UNCHANGED <<kind, up, handler, answer, first, tx, dialogue, result, clicks,
                 editing, sent>>

Click(c) ==
  \/ ClickOk(c) \/ NoTemplate(c) \/ Confirmed(c)
  \/ NotPrepared(c) \/ AskSigner(c)
  \/ SignerAnswers(c) \/ SignatureExpires(c) \/ NotSigned(c) \/ Signed(c)
  \/ NotSent(c) \/ SendSignedTx(c) \/ Close(c)

Edit ==
  \/ EditFee \/ \E fee \in Fees : FeeChosen(fee)
  \/ EditContract \/ MarkContract
  \/ EditDone

Next ==
  /\ up
  /\ \/ Refuse \/ Ask \/ AskTooLate \/ Return
     \/ \E c \in Clicks : Click(c)
     \/ Reject \/ Trigger \/ Expire \/ OnCancel \/ ClosedByAnother
     \/ Edit
     \/ OnResize \/ MarketMoves

Spec == Init /\ [][Next]_vars

-----------------------------------------------------------------------------
\* Types of the state.
TypeOK ==
  /\ kind \in Kinds /\ up \in BOOLEAN
  /\ handler \in {"start", "asking", "done"}
  /\ answer \in {"none", "error", "empty", "ok"}
  /\ {first, template, view} \subseteq Template
  /\ \A t \in {tx} \cup {signs[c] : c \in Clicks} : t = NoTx \/ t \in Tx
  /\ hail \in {"none", "open", "closed"} /\ timer \in {"running", "done"}
  /\ {ok, failed, hashed, rejected} \subseteq BOOLEAN
  /\ pc \in [Clicks -> {"idle", "ok", "prepare", "signing", "signed", "closing",
                        "closed", "failed"}]
  /\ approved \in [Clicks -> Fee]
  /\ inbox \in [Clicks -> Seq({"signature", "refusal", "done"})]
  /\ edit \in {"none", "popup", "market"} \cup Fees /\ edits \in 0..MaxEdits
  /\ market \in Fees /\ moves \in 0..MaxMoves
  /\ sent \in Seq(Tx)

\* One request sends one transaction, however often the button Send is clicked
\* and whatever fails in between.
SentOnce == Len(sent) <= 1

\* An answer says ok only when the transaction was sent, or the data signed, on
\* a click of the user that saw no failure.
OkIsTrue ==
  answer = "ok" => /\ Sends => sent # <<>>
                   /\ \E c \in Clicks : pc[c] \in {"closing", "closed"}

\* The clicks whose signature is used, or has come in time to be.
Given == {c \in Clicks : pc[c] \in {"signed", "closing", "closed"} \/ Came(c, {"signature"})}

\* "to cancel all including nested messages": once the timer of a request is done, rejected
\* or at its limit, no click gains a signature that had not come by then, whatever its signer
\* answers later and whatever other clicks do; only between the press of Reject and that
\* moment one may.
NoneGivenAfterDone ==
  [][HasTimer /\ timer = "done" => Given' \subseteq Given]_vars

\* "reject transaction": a transaction the user has rejected is not sent.
RejectedIsNotSent ==
  [][sent' # sent => ~rejected]_vars

\* What is signed has the fee the user saw when he clicked on Send.
SignedAsShown ==
  [][\A c \in Clicks :
       pc[c] # "signing" /\ pc'[c] = "signing" => signs'[c].fee = approved[c]]_vars

Signing == \E c \in Clicks : pc[c] \in {"ok", "prepare", "signing", "signed", "closing"}

\* "Waiting to be signed" replaces the button Send while the signer is asked.
WaitingIsShown ==
  hail = "open" /\ (\E c \in Clicks : pc[c] = "signing") => view.waiting

\* The pane says "Waiting to be signed" only while it is true, or until the hail
\* goes away at its time limit.
WaitingIsTrue ==
  hail = "open" /\ timer = "running" /\ view.waiting => Signing

\* The button Edit Fee never ends the program.
EditFeeIsSafe == up
=============================================================================
