------------------------------ MODULE MoneyProofs ------------------------------
(***************************************************************************)
(* What a request that is answered has done, for any fees and any number   *)
(* of clicks, edits and moves of the market.  The command send, whose hail *)
(* stays on the screen with its button, signs a transaction for each click *)
(* (README.md), so SentOnce is proved of the requests that come with a     *)
(* timer.                                                                  *)
(*                                                                         *)
(* The amounts that are typed into it: they err to one side only, for      *)
(* tokens of any decimals and any table of the powers of ten.              *)
(*                                                                         *)
(* The prices that amounts are shown with: for any tokens, blockchains and *)
(* feeds, each is the one quoted for what the token follows.               *)
(*                                                                         *)
(* And what the wallet is worth: for any addresses, tokens, positions and  *)
(* passes of the pane, its list says what is held.                         *)
(***************************************************************************)
EXTENDS Confirm, Amounts, Portfolio, SequenceLemmas, FiniteSetTheorems

States == {"idle", "ok", "prepare", "signing", "signed", "closing", "closed", "failed"}

\* The part of TypeOK that the argument needs.
StateTypes ==
  /\ kind \in Kinds
  /\ pc \in [Clicks -> States]
  /\ signs \in [Clicks -> Tx \cup {NoTx}]
  /\ tx \in Tx \cup {NoTx}
  /\ market \in Fees
  /\ sent \in Seq(Tx \cup {NoTx})

\* Nothing happens before there is a hail.
NotYetAsked ==
  /\ handler = "start" => hail = "none"
  /\ hail = "none" => sent = <<>> /\ \A c \in Clicks : pc[c] = "idle"

\* send-tx has one transaction, whoever signs it, and it is the account's first.
OneNonce ==
  kind = "send-tx" => tx.nonce = 0 /\ \A c \in Clicks : signs[c].nonce = 0

\* Signatures of data are sent nowhere.
SendsOnly == kind = "sign" => sent = <<>> /\ \A c \in Clicks : pc[c] # "signed"

Past(c) == pc[c] \in {"closing", "closed"}

\* What the variables of the handler say has happened.
Told ==
  /\ ok => \E c \in Clicks : Past(c)
  /\ hashed => sent # <<>>
  /\ answer = "ok" => ok /\ kind # "send" /\ (kind = "send-tx" => sent # <<>>)

\* A request to a signer that is waited for has been told when the timer is done.
Boxes ==
  /\ inbox \in [Clicks -> Seq({"signature", "refusal", "done"})]
  /\ HasTimer /\ timer = "done" => \A c \in Clicks : pc[c] = "signing" => inbox[c] # <<>>

IInv ==
  /\ StateTypes /\ NotYetAsked /\ OneNonce /\ SendsOnly /\ Told /\ Boxes
  /\ kind # "send" => SentOnce

-----------------------------------------------------------------------------
\* The request starts with nothing asked, signed or sent.
LEMMA InitLemma == Init => IInv
<1> SUFFICES ASSUME Init PROVE IInv
  OBVIOUS
<1>1. StateTypes
  BY DEF Init, StateTypes, States
<1>2. NotYetAsked /\ OneNonce /\ SendsOnly /\ Told /\ Boxes
  BY DEF Init, NotYetAsked, OneNonce, SendsOnly, Told, Boxes, NoTx
<1>3. SentOnce
  BY DEF Init, SentOnce
<1>4. QED
  BY <1>1, <1>2, <1>3 DEF IInv

\* The click c goes on to l, and nothing is sent.
GoesOn(c, l) ==
  /\ pc' = [pc EXCEPT ![c] = l]
  /\ l \in States /\ l # "idle" /\ (Past(c) => l = "closed")
  /\ l = "signed" => kind # "sign"
  /\ pc[c] = "idle" => hail # "none"
  /\ (hail' = hail \/ hail' = "closed")
  /\ UNCHANGED <<kind, handler, answer, tx, market, sent>>

\* A click that goes on so keeps what it does not touch.
LEMMA GoesOnLemma ==
  ASSUME IInv, NEW c \in Clicks, NEW l, GoesOn(c, l),
         signs' \in [Clicks -> Tx \cup {NoTx}],
         kind = "send-tx" => \A d \in Clicks : signs'[d].nonce = 0,
         ok' => ok \/ l \in {"closing", "closed"},
         ok => ok',
         hashed' => hashed, Boxes'
  PROVE  IInv'
<1>0. StateTypes /\ NotYetAsked /\ OneNonce /\ SendsOnly /\ Told /\ Boxes
  BY DEF IInv
<1>1. pc \in [Clicks -> States] /\ pc' \in [Clicks -> States]
  BY <1>0 DEF StateTypes, GoesOn
<1>2. /\ pc'[c] = l
      /\ \A d \in Clicks \ {c} : pc'[d] = pc[d]
  BY <1>1 DEF GoesOn
<1>3. StateTypes'
  BY <1>0, <1>1 DEF StateTypes, GoesOn
<1>4. hail # "none" /\ hail' # "none"
  BY <1>0 DEF NotYetAsked, GoesOn
<1>5. NotYetAsked'
  BY <1>0, <1>4 DEF NotYetAsked, GoesOn
<1>6. OneNonce'
  BY <1>0 DEF OneNonce, GoesOn
<1>7. SendsOnly'
  BY <1>0, <1>2 DEF SendsOnly, GoesOn
<1>8. Told'
  <2>1. ASSUME NEW d \in Clicks, Past(d) PROVE Past(d)'
    BY <1>2, <2>1 DEF Past, GoesOn
  <2>2. ok' => \E d \in Clicks : Past(d)'
    BY <1>0, <1>2, <2>1 DEF Told, Past
  <2>3. QED
    BY <1>0, <2>2 DEF Told, GoesOn
<1>9. (kind # "send" => SentOnce)'
  BY DEF IInv, SentOnce, GoesOn
<1>10. QED
  BY <1>3, <1>5, <1>6, <1>7, <1>8, <1>9 DEF IInv

\* What no click has done leaves the clicks, the transaction and the node as they are.
Elsewhere == UNCHANGED <<kind, tx, ok, hashed, pc, signs, sent>>

\* A step of the handler, of the hail or of an edit keeps the request right.
LEMMA ElsewhereLemma ==
  ASSUME IInv, Elsewhere, market' \in Fees,
         NotYetAsked', Boxes',
         answer' = "ok" => answer = "ok" \/
           (ok /\ kind # "send" /\ (kind = "send-tx" => hashed))
  PROVE  IInv'
<1>1. StateTypes'
  BY DEF IInv, StateTypes, Elsewhere
<1>2. OneNonce' /\ SendsOnly'
  BY DEF IInv, OneNonce, SendsOnly, Elsewhere
<1>3. Told'
  BY DEF IInv, Told, Past, Elsewhere
<1>4. (kind # "send" => SentOnce)'
  BY DEF IInv, SentOnce, Elsewhere
<1>5. QED
  BY <1>1, <1>2, <1>3, <1>4 DEF IInv

\* What no request to a signer, and no timer, has to do with leaves the channels alone.
Quiet == UNCHANGED <<kind, pc, inbox, timer>>

\* A click that does not wait for its signer from now on.
NotWaiting(c) ==
  /\ \E l \in States \ {"signing"} : pc' = [pc EXCEPT ![c] = l]
  /\ inbox' = inbox \/ inbox' = [inbox EXCEPT ![c] = <<>>]
  /\ UNCHANGED <<kind, timer>>

\* Whoever waits for a signer hears that the timer is done.
LEMMA BoxesLemma ==
  ASSUME StateTypes, Boxes, [Next]_vars PROVE Boxes'
<1>0. /\ pc \in [Clicks -> States]
      /\ inbox \in [Clicks -> Seq({"signature", "refusal", "done"})]
      /\ HasTimer /\ timer = "done" => \A c \in Clicks : pc[c] = "signing" => inbox[c] # <<>>
  BY DEF StateTypes, Boxes
<1>1. ASSUME Quiet PROVE Boxes'
  BY <1>0, <1>1 DEF Quiet, Boxes, HasTimer
<1>2. ASSUME NEW c \in Clicks, NotWaiting(c) PROVE Boxes'
  <2>1. PICK l \in States \ {"signing"} : pc' = [pc EXCEPT ![c] = l]
    BY <1>2 DEF NotWaiting
  <2>2. inbox' \in [Clicks -> Seq({"signature", "refusal", "done"})]
    <3>1. PICK S : S = Seq({"signature", "refusal", "done"})
      OBVIOUS
    <3>2. <<>> \in S
      BY <3>1
    <3>3. \A e \in S : [inbox EXCEPT ![c] = e] \in [Clicks -> S]
      BY <1>0, <3>1
    <3>4. inbox' \in [Clicks -> S]
      BY <1>0, <1>2, <3>1, <3>2, <3>3 DEF NotWaiting
    <3>5. QED
      BY <3>1, <3>4
  <2>3. \A d \in Clicks : pc'[d] = "signing" => d # c /\ pc[d] = "signing" /\ inbox'[d] = inbox[d]
    BY <1>0, <1>2, <2>1 DEF NotWaiting
  <2>4. QED
    BY <1>0, <1>2, <2>2, <2>3 DEF NotWaiting, Boxes, HasTimer
<1>3. CASE UNCHANGED vars \/ Refuse \/ AskTooLate \/ Return \/ Ask
  BY <1>1, <1>3 DEF vars, dialogue, clicks, Refuse, AskTooLate, Return, Ask, Quiet
<1>4. CASE Reject \/ OnCancel \/ ClosedByAnother \/ Edit \/ OnResize \/ MarketMoves
  BY <1>1, <1>4 DEF Reject, OnCancel, ClosedByAnother, Edit, EditFee, FeeChosen, EditContract,
     MarkContract, EditDone, OnResize, MarketMoves, dialogue, clicks, Quiet
<1>5. CASE SendDone
  <2>1. \A c \in Clicks :
          /\ inbox'[c] \in Seq({"signature", "refusal", "done"})
          /\ HasTimer /\ pc[c] = "signing" => inbox'[c] # <<>>
    <3>1. SUFFICES ASSUME NEW c \in Clicks
                   PROVE  /\ inbox'[c] \in Seq({"signature", "refusal", "done"})
                          /\ HasTimer /\ pc[c] = "signing" => inbox'[c] # <<>>
      OBVIOUS
    <3>2. inbox'[c] = IF HasTimer /\ pc[c] = "signing" THEN Append(inbox[c], "done") ELSE inbox[c]
      BY <1>5 DEF SendDone
    <3>3. inbox[c] \in Seq({"signature", "refusal", "done"})
      BY <1>0
    <3>4. PICK s \in Seq({"signature", "refusal", "done"}) : s = inbox[c]
      BY <3>3
    <3>5. Append(s, "done") \in Seq({"signature", "refusal", "done"}) /\ Append(s, "done") # <<>>
      BY <3>4
    <3>6. QED
      BY <3>2, <3>4, <3>5
  <2>2. inbox' = [c \in Clicks |-> inbox'[c]]
    <3>1. PICK f : f = [c \in Clicks |-> IF HasTimer /\ pc[c] = "signing"
                                        THEN Append(inbox[c], "done") ELSE inbox[c]]
      OBVIOUS
    <3>2. inbox' = f
      BY <1>5, <3>1, Zenon DEF SendDone
    <3>3. f = [c \in Clicks |-> f[c]]
      BY <3>1
    <3>4. QED
      BY <3>2, <3>3, Zenon
  <2>3. inbox' \in [Clicks -> Seq({"signature", "refusal", "done"})]
    <3>1. \A c \in Clicks : inbox'[c] \in Seq({"signature", "refusal", "done"})
      BY <2>1, Zenon
    <3>2. QED
      BY ONLY <2>2, <3>1, Zenon
  <2>4. QED
    BY <1>5, <2>1, <2>3 DEF SendDone, Boxes, HasTimer
<1>6. ASSUME NEW c \in Clicks, Click(c) PROVE Boxes'
  <2>1. CASE ClickOk(c) \/ Confirmed(c) \/ Close(c) \/ SendSignedTx(c)
    <3>1. CASE ClickOk(c)
      BY <1>2, <3>1 DEF ClickOk, dialogue, NotWaiting, States
    <3>2. CASE Confirmed(c)
      BY <1>2, <3>2 DEF Confirmed, dialogue, NotWaiting, States
    <3>3. CASE Close(c)
      BY <1>2, <3>3 DEF Close, dialogue, NotWaiting, States
    <3>4. CASE SendSignedTx(c)
      BY <1>2, <3>4 DEF SendSignedTx, dialogue, NotWaiting, States
    <3>5. QED
      BY <2>1, <3>1, <3>2, <3>3, <3>4
  <2>2. CASE NoTemplate(c) \/ NotPrepared(c) \/ NotSigned(c) \/ NotSent(c)
    BY <1>2, <2>2 DEF NoTemplate, NotPrepared, NotSigned, NotSent, OkFails, NotWaiting, States
  <2>3. CASE Signed(c)
    <3>1. PICK l : l = IF Sends THEN "signed" ELSE "closing"
      OBVIOUS
    <3>2. l \in States \ {"signing"}
      BY <3>1 DEF States
    <3>3. /\ pc' = [pc EXCEPT ![c] = l] /\ inbox' = [inbox EXCEPT ![c] = <<>>]
          /\ UNCHANGED <<kind, timer>>
      BY <2>3, <3>1 DEF Signed, dialogue
    <3>4. NotWaiting(c)
      BY <3>2, <3>3 DEF NotWaiting
    <3>5. QED
      BY <1>2, <3>4
  <2>4. CASE AskSigner(c)
    <3>1. inbox' = inbox /\ timer' = timer /\ kind' = kind /\ (HasTimer => timer = "running")
      BY <2>4 DEF AskSigner, dialogue
    <3>2. QED
      BY <1>0, <3>1 DEF Boxes, HasTimer
  <2>5. CASE SignerAnswers(c) \/ SignatureExpires(c)
    <3>1. PICK x \in {"signature", "refusal", "done"} : inbox' = [inbox EXCEPT ![c] = Append(@, x)]
      BY <2>5 DEF SignerAnswers, SignatureExpires
    <3>2. UNCHANGED <<kind, pc, timer>>
      BY <2>5 DEF SignerAnswers, SignatureExpires, dialogue
    <3>3. PICK s : s = Append(inbox[c], x)
      OBVIOUS
    <3>4. /\ s \in Seq({"signature", "refusal", "done"})
          /\ s # <<>> /\ inbox' = [inbox EXCEPT ![c] = s]
      <4>1. PICK q \in Seq({"signature", "refusal", "done"}) : q = inbox[c]
        BY <1>0
      <4>2. Append(q, x) \in Seq({"signature", "refusal", "done"}) /\ Append(q, x) # <<>>
        BY <4>1
      <4>3. QED
        BY <3>1, <3>3, <4>1, <4>2
    <3>5. inbox' \in [Clicks -> Seq({"signature", "refusal", "done"})]
      BY <1>0, <3>4
    <3>6. \A d \in Clicks : inbox[d] # <<>> => inbox'[d] # <<>>
      BY <1>0, <3>4
    <3>7. QED
      BY <1>0, <3>2, <3>5, <3>6 DEF Boxes, HasTimer
  <2>6. QED
    BY <1>6, <2>1, <2>2, <2>3, <2>4, <2>5 DEF Click
<1>7. QED
  BY <1>3, <1>4, <1>5, <1>6 DEF Next, Trigger, Expire

\* Each step of the handler, of a click, of the hail and of an edit keeps the request right.
LEMMA StepLemma == IInv /\ [Next]_vars => IInv'
<1> SUFFICES ASSUME IInv, [Next]_vars PROVE IInv'
  OBVIOUS
<1>0. StateTypes /\ NotYetAsked /\ OneNonce /\ SendsOnly /\ Told /\ Boxes
  BY DEF IInv
<1>00. Boxes'
  BY <1>0, BoxesLemma
<1>1. CASE UNCHANGED vars
  <2>1. Elsewhere /\ market' \in Fees /\ NotYetAsked' /\ answer' = answer
    BY <1>0, <1>1 DEF vars, dialogue, result, clicks, editing, node, Elsewhere, StateTypes,
                      NotYetAsked
  <2>2. QED
    BY <1>00, <2>1, ElsewhereLemma
<1>2. CASE Refuse \/ AskTooLate \/ Return
  <2>1. Elsewhere /\ market' \in Fees
    BY <1>0, <1>2 DEF Refuse, AskTooLate, Return, StateTypes, Elsewhere, result, clicks, node
  <2>2. NotYetAsked'
    BY <1>0, <1>2 DEF Refuse, AskTooLate, Return, NotYetAsked, dialogue, clicks, node
  <2>3. answer' = "ok" => ok /\ kind # "send" /\ (kind = "send-tx" => hashed)
    <3>1. CASE Refuse \/ AskTooLate
      BY <3>1 DEF Refuse, AskTooLate
    <3>2. CASE Return
      <4>1. kind \in {"send", "send-tx", "sign"}
        BY <1>0, KindsAssumption DEF StateTypes
      <4>2. CASE kind = "send"
        BY <3>2, <4>2 DEF Return
      <4>3. CASE kind = "send-tx"
        BY <3>2, <4>3 DEF Return
      <4>4. CASE kind = "sign"
        BY <3>2, <4>4 DEF Return
      <4>5. QED
        BY <4>1, <4>2, <4>3, <4>4
    <3>3. QED
      BY <1>2, <3>1, <3>2
  <2>4. QED
    BY <1>00, <2>1, <2>2, <2>3, ElsewhereLemma
<1>3. CASE Ask
  <2>1. sent = <<>> /\ \A c \in Clicks : pc[c] = "idle"
    BY <1>0, <1>3 DEF Ask, NotYetAsked
  <2>2. BuildTx = [fee |-> market, nonce |-> 0] /\ BuildTx \in Tx
    BY <1>0, <2>1 DEF BuildTx, Tx, StateTypes
  <2>3. /\ tx' \in {BuildTx, NoTx}
        /\ kind = "send-tx" => tx' = BuildTx
    BY <1>0, <1>3, KindsAssumption DEF Ask, StateTypes
  <2>4. /\ UNCHANGED <<kind, answer, ok, hashed, pc, signs, sent, market>>
        /\ hail' = "open" /\ handler' = "asking"
    BY <1>3 DEF Ask, result, clicks, node
  <2>5. StateTypes'
    BY <1>0, <2>2, <2>3, <2>4 DEF StateTypes
  <2>6. NotYetAsked' /\ SendsOnly'
    BY <1>0, <2>4 DEF NotYetAsked, SendsOnly
  <2>7. OneNonce'
    BY <1>0, <2>2, <2>3, <2>4 DEF OneNonce
  <2>8. Told'
    BY <1>0, <2>4 DEF Told, Past
  <2>9. (kind # "send" => SentOnce)'
    BY <2>4 DEF IInv, SentOnce
  <2>10. QED
    BY <1>00, <2>5, <2>6, <2>7, <2>8, <2>9 DEF IInv
<1>4. ASSUME NEW c \in Clicks, Click(c) PROVE IInv'
  <2>0. /\ signs \in [Clicks -> Tx \cup {NoTx}]
        /\ kind = "send-tx" => \A d \in Clicks : signs[d].nonce = 0
    BY <1>0 DEF StateTypes, OneNonce
  <2>1. CASE ClickOk(c)
    <3>1. GoesOn(c, "ok") /\ UNCHANGED <<signs, ok, hashed>>
      BY <2>1 DEF ClickOk, GoesOn, States, Past, dialogue, result, node
    <3>2. QED
      BY <1>00, <2>0, <3>1, GoesOnLemma
  <2>2. CASE NoTemplate(c) \/ NotPrepared(c) \/ NotSigned(c) \/ NotSent(c)
    <3>1. GoesOn(c, "failed")
      BY <2>2 DEF NoTemplate, NotPrepared, NotSigned, NotSent, OkFails, Came, GoesOn, States,
                  Past, node
    <3>2. UNCHANGED <<signs, ok>>
      BY <2>2 DEF NoTemplate, NotPrepared, NotSigned, NotSent, OkFails
    <3>3. CASE NoTemplate(c) \/ NotPrepared(c) \/ NotSigned(c)
      <4>1. hashed' = hashed
        BY <3>3 DEF NoTemplate, NotPrepared, NotSigned
      <4>2. QED
        BY <1>00, <2>0, <3>1, <3>2, <4>1, GoesOnLemma
    <3>4. CASE NotSent(c)
      <4>1. hashed' => hashed
        BY <3>4 DEF NotSent
      <4>2. QED
        BY <1>00, <2>0, <3>1, <3>2, <4>1, GoesOnLemma
    <3>5. QED
      BY <2>2, <3>3, <3>4
  <2>3. CASE Confirmed(c)
    <3>1. GoesOn(c, "prepare") /\ UNCHANGED <<signs, ok, hashed>>
      BY <2>3 DEF Confirmed, GoesOn, States, Past, node
    <3>2. QED
      BY <1>00, <2>0, <3>1, GoesOnLemma
  <2>4. CASE AskSigner(c)
    <3>1. GoesOn(c, "signing") /\ UNCHANGED <<ok, hashed>>
      BY <2>4 DEF AskSigner, GoesOn, States, Past, dialogue, result, node
    <3>2. Len(sent) \in Nat /\ BuildTx \in Tx
      BY <1>0 DEF BuildTx, Tx, StateTypes
    <3>3. PICK t \in Tx \cup {NoTx} : /\ signs' = [signs EXCEPT ![c] = t]
                                      /\ kind = "send-tx" => t = tx
      BY <1>0, <2>4, <3>2 DEF AskSigner, SignedTx, StateTypes, Sends
    <3>4. /\ signs' \in [Clicks -> Tx \cup {NoTx}]
          /\ \A d \in Clicks : signs'[d] = IF d = c THEN t ELSE signs[d]
      BY <2>0, <3>3
    <3>5. kind = "send-tx" => \A d \in Clicks : signs'[d].nonce = 0
      BY <1>0, <2>0, <3>3, <3>4 DEF OneNonce
    <3>6. QED
      BY <1>00, <3>1, <3>4, <3>5, GoesOnLemma
  <2>5. CASE Signed(c)
    <3>1. PICK l : l = IF Sends THEN "signed" ELSE "closing"
      OBVIOUS
    <3>2. GoesOn(c, l) /\ UNCHANGED <<signs, hashed>>
      BY <2>5, <3>1 DEF Signed, Came, GoesOn, States, Past, Sends, dialogue, node
    <3>3. (ok' => ok \/ l \in {"closing", "closed"}) /\ (ok => ok')
      BY <2>5, <3>1 DEF Signed
    <3>4. QED
      BY <1>00, <2>0, <3>2, <3>3, GoesOnLemma
  <2>6. CASE SendSignedTx(c)
    <3>1. /\ UNCHANGED <<kind, handler, answer, tx, ok, signs, hail, market>>
          /\ pc[c] = "signed" /\ pc' = [pc EXCEPT ![c] = "closing"]
          /\ signs[c].nonce = Len(sent) /\ sent' = Append(sent, signs[c])
      BY <2>6 DEF SendSignedTx, dialogue
    <3>2. /\ pc' \in [Clicks -> States] /\ pc'[c] = "closing"
          /\ \A d \in Clicks \ {c} : pc'[d] = pc[d]
      BY <1>0, <3>1 DEF StateTypes, States
    <3>4. sent' \in Seq(Tx \cup {NoTx}) /\ Len(sent') = Len(sent) + 1 /\ sent' # <<>>
      BY <1>0, <2>0, <3>1 DEF StateTypes
    <3>5. StateTypes'
      BY <1>0, <3>1, <3>2, <3>4 DEF StateTypes
    <3>6. hail # "none" /\ kind # "sign"
      BY <1>0, <3>1 DEF NotYetAsked, SendsOnly
    <3>7. NotYetAsked' /\ OneNonce' /\ SendsOnly'
      BY <1>0, <3>1, <3>6 DEF NotYetAsked, OneNonce, SendsOnly
    <3>8. Told'
      <4>1. ASSUME NEW d \in Clicks, Past(d) PROVE Past(d)'
        BY <3>2, <4>1 DEF Past
      <4>2. QED
        BY <1>0, <3>1, <3>4, <4>1 DEF Told
    <3>9. (kind # "send" => SentOnce)'
      <4>1. ASSUME kind # "send" PROVE SentOnce'
        <5>1. kind = "send-tx"
          BY <1>0, <3>6, <4>1, KindsAssumption DEF StateTypes
        <5>2. Len(sent) = 0
          BY <1>0, <3>1, <5>1 DEF OneNonce
        <5>3. QED
          BY <3>4, <5>2 DEF SentOnce
      <4>2. QED
        BY <3>1, <4>1
    <3>10. QED
      BY <1>00, <3>5, <3>7, <3>8, <3>9 DEF IInv
  <2>7. CASE Close(c)
    <3>1. GoesOn(c, "closed") /\ UNCHANGED <<signs, hashed>> /\ (ok => ok')
      BY <2>7 DEF Close, GoesOn, States, Past, node
    <3>2. QED
      BY <1>00, <2>0, <3>1, GoesOnLemma
  <2>8. CASE SignerAnswers(c) \/ SignatureExpires(c)
    <3>1. Elsewhere /\ market' \in Fees /\ answer' = answer
      BY <1>0, <2>8 DEF SignerAnswers, SignatureExpires, Elsewhere, StateTypes, result, node
    <3>2. NotYetAsked'
      BY <1>0, <2>8 DEF SignerAnswers, SignatureExpires, NotYetAsked, dialogue, node
    <3>3. QED
      BY <1>00, <3>1, <3>2, ElsewhereLemma
  <2>9. QED
    BY <1>4, <2>1, <2>2, <2>3, <2>4, <2>5, <2>6, <2>7, <2>8 DEF Click
<1>5. CASE Reject \/ Trigger \/ Expire \/ OnCancel \/ ClosedByAnother
  <2>1. Elsewhere /\ market' \in Fees /\ answer' = answer
    BY <1>0, <1>5 DEF Reject, Trigger, Expire, SendDone, OnCancel, ClosedByAnother, Elsewhere,
                      StateTypes, result, clicks, node
  <2>2. NotYetAsked'
    BY <1>0, <1>5 DEF Reject, Trigger, Expire, SendDone, OnCancel, ClosedByAnother, NotYetAsked,
                      clicks, node
  <2>3. QED
    BY <1>00, <2>1, <2>2, ElsewhereLemma
<1>6. CASE Edit \/ OnResize \/ MarketMoves
  <2>1. Elsewhere /\ market' \in Fees /\ answer' = answer
    BY <1>0, <1>6 DEF Edit, EditFee, FeeChosen, EditContract, MarkContract, EditDone, OnResize,
                      MarketMoves, Elsewhere, StateTypes, result, clicks, node
  <2>2. UNCHANGED <<handler, hail, pc, sent>>
    BY <1>6 DEF Edit, EditFee, FeeChosen, EditContract, MarkContract, EditDone, OnResize,
                MarketMoves, dialogue, clicks, node
  <2>3. NotYetAsked'
    BY <1>0, <2>2 DEF NotYetAsked
  <2>4. QED
    BY <1>00, <2>1, <2>3, ElsewhereLemma
<1>7. QED
  BY <1>1, <1>2, <1>3, <1>4, <1>5, <1>6 DEF Next
-----------------------------------------------------------------------------
\* The invariant of a request in all its parts.
THEOREM ConfirmInvariant == Spec => []IInv
BY InitLemma, StepLemma, PTL DEF Spec

\* One request of a website sends one transaction: the handlers of eth/send_tx.go and
\* eth/sign.go, however often Send is clicked and whatever fails in between.
THEOREM OneTransaction ==
  ASSUME "send" \notin Kinds
  PROVE  Spec => []SentOnce
<1>1. IInv => SentOnce
  BY DEF IInv, StateTypes
<1>2. QED
  BY <1>1, ConfirmInvariant, PTL

\* A request of any kind that answers with ok has sent the transaction, or has the
\* signature, of a click that failed nowhere.
THEOREM OkMeansDone == Spec => []OkIsTrue
<1>1. IInv => OkIsTrue
  <2> SUFFICES ASSUME IInv, answer = "ok"
               PROVE  (Sends => sent # <<>>) /\ \E c \in Clicks : Past(c)
    BY DEF OkIsTrue, Past
  <2>1. kind \in {"send-tx", "sign"}
    BY KindsAssumption DEF IInv, StateTypes, Told
  <2>2. QED
    BY <2>1 DEF IInv, Told, Sends
<1>2. QED
  BY <1>1, ConfirmInvariant, PTL

\* The timer that Reject triggers is that of the signers' requests too: from when it is done
\* no click gains a signature, for any number of clicks, and whatever the signers answer then.
THEOREM DoneStopsSigners == Spec => NoneGivenAfterDone
<1> DEFINE A == HasTimer /\ timer = "done" => Given' \subseteq Given
<1>1. IInv /\ [Next]_vars => [A]_vars
  <2> SUFFICES ASSUME IInv, Next, HasTimer, timer = "done", NEW c \in Clicks, c \in Given'
               PROVE  c \in Given
    BY DEF A, Given
  <2>1. /\ pc \in [Clicks -> States]
        /\ inbox \in [Clicks -> Seq({"signature", "refusal", "done"})]
        /\ pc[c] = "signing" => inbox[c] # <<>>
    BY DEF IInv, StateTypes, Boxes
  <2>2. \/ pc'[c] \in {"signed", "closing", "closed"}
        \/ pc'[c] = "signing" /\ inbox'[c] # <<>> /\ Head(inbox'[c]) = "signature"
    BY DEF Given, Came
  <2>3. CASE UNCHANGED <<pc, inbox>>
    BY <2>3 DEF Given, Came
  <2>4. ASSUME NEW d \in Clicks, Click(d) PROVE c \in Given
    <3>1. CASE d # c
      <4>1. pc'[c] = pc[c] /\ inbox'[c] = inbox[c]
        BY <2>1, <2>4, <3>1 DEF Click, ClickOk, NoTemplate, Confirmed, NotPrepared, AskSigner,
           SignerAnswers, SignatureExpires, NotSigned, Signed, NotSent, SendSignedTx, Close, OkFails
      <4>2. QED
        BY <2>2, <4>1 DEF Given, Came
    <3>2. CASE d = c
      <4>1. CASE ClickOk(c) \/ NoTemplate(c) \/ Confirmed(c) \/ NotPrepared(c) \/ NotSigned(c)
                 \/ NotSent(c)
        <5>1. pc'[c] \in {"ok", "failed", "prepare"}
          BY <2>1, <4>1 DEF ClickOk, NoTemplate, Confirmed, NotPrepared, NotSigned, NotSent, OkFails
        <5>2. QED
          BY <2>2, <5>1
      <4>2. CASE AskSigner(c)
        BY <4>2 DEF AskSigner
      <4>3. CASE SignatureExpires(c)
        BY <4>3 DEF SignatureExpires
      <4>4. CASE SignerAnswers(c)
        <5>1. PICK x \in {"signature", "refusal"} : inbox' = [inbox EXCEPT ![c] = Append(@, x)]
          BY <4>4 DEF SignerAnswers
        <5>2. pc' = pc /\ pc[c] = "signing" /\ inbox'[c] = Append(inbox[c], x)
          BY <2>1, <4>4, <5>1 DEF SignerAnswers
        <5>3. Head(inbox'[c]) = Head(inbox[c])
          BY <2>1, <5>2
        <5>4. QED
          BY <2>1, <2>2, <5>2, <5>3 DEF Given, Came
      <4>5. CASE Signed(c)
        BY <4>5 DEF Signed, Given
      <4>6. CASE SendSignedTx(c) \/ Close(c)
        BY <4>6 DEF SendSignedTx, Close, Given
      <4>7. QED
        BY <2>4, <3>2, <4>1, <4>2, <4>3, <4>4, <4>5, <4>6 DEF Click
    <3>3. QED
      BY <3>1, <3>2
  <2>5. ~SendDone
    BY DEF SendDone
  <2>6. QED
    BY <2>3, <2>4, <2>5 DEF Next, Refuse, Ask, AskTooLate, Return, Reject, Trigger, Expire,
       OnCancel, ClosedByAnother, Edit, EditFee, FeeChosen, EditContract, MarkContract, EditDone,
       OnResize, MarketMoves, clicks
<1>2. QED
  BY <1>1, ConfirmInvariant, PTL DEF Spec, NoneGivenAfterDone

-----------------------------------------------------------------------------
\* The table only gains decimals, and only at the powers that are tainted.
Table ==
  /\ PD \in [0..MaxPower -> Nat]
  /\ tainted \subseteq 0..MaxPower
  /\ \A k \in 0..MaxPower \ tainted : PD[k] = 0

Power == [got : Int, typed : Int, suffix : Int, sure : BOOLEAN]

AmountInv == Table /\ amount \in Power /\ NeverMoreThanTyped

-----------------------------------------------------------------------------
\* Suffixes that count for what they name: all but the last ones.
Exact(i) == i \notin {LastSuffix, -LastSuffix}

\* What is read for a suffix, and what it names.
LEMMA NamedIs ==
  ASSUME NEW i \in -LastSuffix..LastSuffix
  PROVE  /\ Named(i) \in Int /\ i \in Int /\ Over(i) \in Nat
         /\ 3 * i <= Named(i) + Over(i)
         /\ Exact(i) => 3 * i = Named(i)
<1>1. i \in Int /\ LastSuffix = 26
  BY DEF LastSuffix
<1>2. CASE i = LastSuffix
  <2>1. Named(i) = 76 /\ Over(i) = 2
    BY <1>1, <1>2 DEF Named, Over
  <2>2. QED
    BY <1>1, <1>2, <2>1 DEF Exact
<1>3. CASE i = -LastSuffix
  <2>1. i # LastSuffix
    BY <1>1, <1>3
  <2>2. Named(i) = -76 /\ Over(i) = 0
    BY <1>3, <2>1 DEF Named, Over
  <2>3. QED
    BY <1>1, <1>3, <2>2 DEF Exact
<1>4. CASE Exact(i)
  <2>1. i # LastSuffix /\ i # -LastSuffix
    BY <1>4 DEF Exact
  <2>2. Named(i) = 3 * i /\ Over(i) = 0
    BY <2>1 DEF Named, Over
  <2>3. QED
    BY <1>1, <2>2
<1>5. QED
  BY <1>2, <1>3, <1>4 DEF Exact

\* A number read leaves the table sound and is worth what it means less what the
\* table had for its suffix.
LEMMA TakenLemma ==
  ASSUME NEW s \in Typed, Table, Taken(s)
  PROVE  /\ Table'
         /\ Meant(s) \in Int
         /\ ParseXF(s).power \in Int
         /\ ParseXF(s).power <= Meant(s) + Over(s.suffix)
         /\ 3 * s.suffix \notin tainted /\ Exact(s.suffix) => ParseXF(s).power = Meant(s)
<1>0. s.suffix \in -LastSuffix..LastSuffix /\ s.frac \in Nat
  BY AmountsAssumption
<1>1. /\ s.frac \in Nat /\ s.suffix \in Int /\ MaxPower \in Nat
      /\ 3 * s.suffix <= MaxPower
  BY <1>0, NamedIs, AmountsAssumption
<1>2. /\ Named(s.suffix) \in Int /\ Over(s.suffix) \in Nat
      /\ 3 * s.suffix <= Named(s.suffix) + Over(s.suffix)
      /\ Exact(s.suffix) => 3 * s.suffix = Named(s.suffix)
      /\ Meant(s) = Named(s.suffix) - s.frac
  BY <1>0, NamedIs DEF Meant
<1>3. CASE s.suffix > 0
  <2> DEFINE k == 3 * s.suffix
  <2>1. k \in 0..MaxPower
    BY <1>1, <1>3
  <2>2. PD[k] \in Nat /\ (k \notin tainted => PD[k] = 0)
    BY <2>1 DEF Table
  <2>3. ParseXF(s) = [table |-> [PD EXCEPT ![k] = PD[k] + s.frac],
                      power |-> k - (PD[k] + s.frac)]
    BY <1>3 DEF ParseXF
  <2>4. /\ PD' = [PD EXCEPT ![k] = PD[k] + s.frac]
        /\ tainted' = tainted \cup (IF s.frac > 0 THEN {k} ELSE {})
    BY <1>3, <2>3 DEF Taken
  <2>5. Table'
    <3>1. PD' \in [0..MaxPower -> Nat]
      <4>1. PD[k] + s.frac \in Nat
        BY <1>1, <2>2
      <4>2. QED
        BY <2>4, <4>1 DEF Table
    <3>2. tainted' \subseteq 0..MaxPower
      BY <2>1, <2>4 DEF Table
    <3>3. ASSUME NEW i \in 0..MaxPower \ tainted' PROVE PD'[i] = 0
      BY <1>1, <2>1, <2>2, <2>4, <3>3 DEF Table
    <3>4. QED
      BY <3>1, <3>2, <3>3 DEF Table
  <2>6. k \in Int
    BY <1>1
  <2>7. ParseXF(s).power = k - (PD[k] + s.frac)
    BY <2>3
  <2>8. QED
    BY <1>1, <1>2, <2>2, <2>5, <2>6, <2>7
<1>4. CASE ~(s.suffix > 0)
  <2>1. ParseXF(s) = [table |-> PD, power |-> 3 * s.suffix - s.frac]
    BY <1>4 DEF ParseXF
  <2>2. PD' = PD /\ tainted' = tainted
    BY <1>4, <2>1 DEF Taken
  <2>3. QED
    BY <1>1, <1>2, <2>1, <2>2 DEF Table
<1>5. QED
  BY <1>3, <1>4

\* The table starts as the source has it, and nothing has been typed.
LEMMA AmountTypeInit == AmountInit(MaxTyped) => AmountInv
BY AmountsAssumption DEF AmountInit, AmountInv, Table, Power, NeverMoreThanTyped, Over, LastSuffix

\* Each number typed, read as an amount or as a price, keeps the table and the amount right.
LEMMA AmountStep == AmountInv /\ [AmountNext]_amountVars => AmountInv'
<1> SUFFICES ASSUME AmountInv, [AmountNext]_amountVars PROVE AmountInv'
  OBVIOUS
<1>1. CASE UNCHANGED amountVars
  BY <1>1 DEF amountVars, AmountInv, Table, NeverMoreThanTyped
<1>2. ASSUME NEW s \in Typed, NEW d \in Decimals, Str2Wei(s, d) PROVE AmountInv'
  <2>1. Taken(s)
    BY <1>2 DEF Str2Wei, Read
  <2>2. d \in 0..MaxPower /\ MaxPower \in Nat
    BY AmountsAssumption
  <2>3. /\ Table'
        /\ Meant(s) \in Int /\ ParseXF(s).power \in Int
        /\ ParseXF(s).power <= Meant(s) + Over(s.suffix)
        /\ 3 * s.suffix \notin tainted /\ Exact(s.suffix) => ParseXF(s).power = Meant(s)
    BY <2>1, TakenLemma DEF AmountInv
  <2>4. PD'[d] \in Nat /\ (d \notin tainted' => PD'[d] = 0)
    BY <2>2, <2>3 DEF Table
  <2>5. amount' = [got |-> ParseXF(s).power + d - PD'[d], typed |-> Meant(s) + d, suffix |-> s.suffix,
                   sure |-> 3 * s.suffix \notin tainted /\ d \notin tainted']
    BY <1>2 DEF Str2Wei, Read
  <2>6. amount' \in Power /\ NeverMoreThanTyped'
    <3> DEFINE p == ParseXF(s).power  m == Meant(s)  o == Over(s.suffix)
    <3> HIDE DEF p, m, o
    <3>0. s.suffix \in Int /\ o \in Nat
      BY NamedIs, AmountsAssumption DEF o
    <3>1. /\ p \in Int /\ m \in Int /\ p <= m + o
          /\ 3 * s.suffix \notin tainted /\ Exact(s.suffix) => p = m
      BY <2>3 DEF p, m, o
    <3>2. amount' = [got |-> p + d - PD'[d], typed |-> m + d, suffix |-> s.suffix,
                     sure |-> 3 * s.suffix \notin tainted /\ d \notin tainted']
      BY <2>5 DEF p, m
    <3>3. d \in Int
      BY <2>2
    <3>4. amount' \in Power
      BY <2>4, <3>0, <3>1, <3>2, <3>3 DEF Power
    <3>5. amount'.got <= amount'.typed + Over(amount'.suffix)
      <4>1. /\ amount'.got = p + d - PD'[d] /\ amount'.typed = m + d
            /\ Over(amount'.suffix) = o
        BY <3>2 DEF o
      <4>2. QED
        BY <2>4, <3>0, <3>1, <3>3, <4>1
    <3>6. amount'.sure /\ Exact(amount'.suffix) => amount'.got = amount'.typed
      <4>1. SUFFICES ASSUME amount'.sure, Exact(amount'.suffix) PROVE amount'.got = amount'.typed
        OBVIOUS
      <4>2. 3 * s.suffix \notin tainted /\ d \notin tainted' /\ Exact(s.suffix)
        BY <3>2, <4>1, Zenon
      <4>3. p = m /\ PD'[d] = 0
        BY <2>4, <3>1, <4>2
      <4>4. QED
        BY <3>1, <3>2, <3>3, <4>3
    <3>7. QED
      BY <3>4, <3>5, <3>6 DEF NeverMoreThanTyped, Exact
  <2>7. QED
    BY <2>3, <2>6 DEF AmountInv
<1>3. ASSUME NEW s \in Typed, ParsePrice(s) PROVE AmountInv'
  <2>1. Taken(s)
    BY <1>3 DEF ParsePrice, Read
  <2>2. /\ Table'
        /\ Meant(s) \in Int /\ ParseXF(s).power \in Int
        /\ ParseXF(s).power <= Meant(s) + Over(s.suffix)
        /\ 3 * s.suffix \notin tainted /\ Exact(s.suffix) => ParseXF(s).power = Meant(s)
    BY <2>1, TakenLemma DEF AmountInv
  <2>3. amount' = [got |-> ParseXF(s).power, typed |-> Meant(s) + 0, suffix |-> s.suffix,
                   sure |-> 3 * s.suffix \notin tainted /\ 0 \notin tainted']
    BY <1>3 DEF ParsePrice, Read
  <2>4. Meant(s) + 0 = Meant(s)
    BY <2>2
  <2>5. amount' \in Power /\ NeverMoreThanTyped'
    <3> DEFINE p == ParseXF(s).power  m == Meant(s)  o == Over(s.suffix)
    <3> HIDE DEF p, m, o
    <3>0. s.suffix \in Int /\ o \in Nat
      BY NamedIs, AmountsAssumption DEF o
    <3>1. /\ p \in Int /\ m \in Int /\ p <= m + o
          /\ 3 * s.suffix \notin tainted /\ Exact(s.suffix) => p = m
      BY <2>2 DEF p, m, o
    <3>2. amount' = [got |-> p, typed |-> m, suffix |-> s.suffix,
                     sure |-> 3 * s.suffix \notin tainted /\ 0 \notin tainted']
      BY <2>3, <2>4 DEF p, m
    <3>3. amount' \in Power
      BY <3>0, <3>1, <3>2 DEF Power
    <3>4. amount'.got <= amount'.typed + Over(amount'.suffix)
      <4>1. amount'.got = p /\ amount'.typed = m /\ Over(amount'.suffix) = o
        BY <3>2 DEF o
      <4>2. QED
        BY <3>0, <3>1, <4>1
    <3>5. amount'.sure /\ Exact(amount'.suffix) => amount'.got = amount'.typed
      <4>1. SUFFICES ASSUME amount'.sure, Exact(amount'.suffix) PROVE amount'.got = amount'.typed
        OBVIOUS
      <4>2. 3 * s.suffix \notin tainted /\ Exact(s.suffix)
        BY <3>2, <4>1, Zenon
      <4>3. QED
        BY <3>1, <3>2, <4>2
    <3>6. QED
      BY <3>3, <3>4, <3>5 DEF NeverMoreThanTyped, Exact
  <2>6. QED
    BY <2>2, <2>5 DEF AmountInv
<1>4. ASSUME NEW s \in Typed, Misread(s) PROVE AmountInv'
  <2>1. Table'
    <3>1. CASE Readable(s)
      BY <1>4, <3>1, TakenLemma DEF Misread, AmountInv
    <3>2. CASE ~Readable(s)
      BY <1>4, <3>2 DEF Misread, AmountInv, Table
    <3>3. QED
      BY <3>1, <3>2
  <2>2. QED
    BY <1>4, <2>1 DEF Misread, AmountInv, NeverMoreThanTyped
<1>5. QED
  BY <1>1, <1>2, <1>3, <1>4 DEF AmountNext

-----------------------------------------------------------------------------
\* No sequence of numbers makes one count for more than was typed, but one with "^76", which
\* is read as 10^78, and it counts for less only when its suffix, or the decimals of the
\* token, are tainted, or the suffix is "/^76": cmn/xf.go, ParseXF.
THEOREM TypedIsTheMost == AmountSpec => []NeverMoreThanTyped
<1>1. AmountInv => NeverMoreThanTyped
  BY DEF AmountInv
<1>2. QED
  BY AmountTypeInit, AmountStep, <1>1, PTL DEF AmountSpec

-----------------------------------------------------------------------------
(***************************************************************************)
(* The prices.                                                             *)
(***************************************************************************)
\* What Update finds for a token in each of the two places it asks.
ByPair(t) == /\ feed[t] \in DOMAIN Pairs /\ Pairs[feed[t]].chain = ChainOf[t]
             /\ ChainOf[t] \in chain_names
BySlug(t) == feed[t] \in DOMAIN Slugs /\ CMC_API_KEY

\* The token has the price of what it follows, and so has its twin, if that follows nothing.
HasItsPrice(t) ==
  /\ price[t] = quote[feed[t]]
  /\ \A r \in tokens : feed[r] = NoFeed /\ Twin(r) = t => price[r] = quote[feed[t]]

\* Update is through with the blockchain.
Behind(c) ==
  \/ upd.pc \in {"slugs", "quotes", "done"}
  \/ \E k \in 1..Len(Chains) : k < upd.i /\ Chains[k] = c

\* What DexScreener and CoinMarketCap are being asked.
AsksPairs ==
  /\ Chains[upd.i] \in chain_names
  /\ upd.todo = {t \in tokens : ChainOf[t] = Chains[upd.i] /\ feed[t] \in DOMAIN Pairs}
  /\ upd.asked = {feed[t] : t \in upd.todo}

AsksSlugs == CMC_API_KEY /\ upd.asked = {feed[t] : t \in tokens} \cap DOMAIN Slugs

\* An update that nothing has disturbed so far.
CalmSoFar ==
  upd.calm /\ upd.pc # "idle" =>
    /\ \A t \in tokens : ByPair(t) /\ Behind(ChainOf[t]) => HasItsPrice(t) /\ upd.n_ds
    /\ upd.pc = "pairs" => AsksPairs
    /\ upd.pc = "quotes" => AsksSlugs
    /\ upd.pc = "done" => \A t \in tokens : BySlug(t) => HasItsPrice(t) /\ upd.n_cmc

InRange == upd.pc = "pairs" => upd.i <= Len(Chains)

PriceInv == PricesTypeOK /\ InRange /\ CalmSoFar

-----------------------------------------------------------------------------
\* What prices are given: the one quoted, or the one they were.
LEMMA PricedIs ==
  ASSUME PricesTypeOK, NEW todo \in SUBSET Tokens, NEW answered \in SUBSET Feeds,
         NEW t \in Tokens
  PROVE  Priced(todo, answered)[t] =
           IF t \in todo /\ feed[t] \in answered THEN quote[feed[t]]
           ELSE IF t \in tokens /\ feed[t] = NoFeed /\ Twin(t) \in todo
                     /\ feed[Twin(t)] \in answered
                THEN quote[feed[Twin(t)]]
                ELSE price[t]
BY DEF Priced

LEMMA PricedType ==
  ASSUME PricesTypeOK, NEW todo \in SUBSET Tokens, NEW answered \in SUBSET Feeds
  PROVE  Priced(todo, answered) \in [Tokens -> Quotes]
<1>1. ASSUME NEW t \in Tokens PROVE Priced(todo, answered)[t] \in Quotes
  BY <1>1, PricedIs DEF PricesTypeOK
<1>2. DOMAIN Priced(todo, answered) = Tokens
  BY DEF Priced
<1>3. Priced(todo, answered) = [t \in Tokens |-> Priced(todo, answered)[t]]
  BY DEF Priced
<1>4. QED
  BY <1>1, <1>3

\* A token that is asked for has its price then, and one that had it keeps it.
LEMMA PricedGives ==
  ASSUME PricesTypeOK, NEW todo \in SUBSET tokens, NEW answered \in SUBSET Feeds,
         price' = Priced(todo, answered), UNCHANGED <<tokens, feed, quote>>,
         NEW t \in tokens, feed[t] \in Feeds,
         (t \in todo /\ feed[t] \in answered) \/ HasItsPrice(t)
  PROVE  HasItsPrice(t)'
<1>1. tokens \subseteq Tokens /\ todo \in SUBSET Tokens /\ NoFeed \notin Feeds
  BY Markets DEF PricesTypeOK, Feeds
<1>2. price'[t] = quote[feed[t]]
  BY <1>1, PricedIs DEF HasItsPrice
<1>3. ASSUME NEW r \in tokens, feed[r] = NoFeed, Twin(r) = t
      PROVE  price'[r] = quote[feed[t]]
  <2>1. feed[r] \notin answered /\ r \in Tokens
    BY <1>1, <1>3
  <2>2. price'[r] = IF t \in todo /\ feed[t] \in answered THEN quote[feed[t]] ELSE price[r]
    BY <1>1, <1>3, <2>1, PricedIs
  <2>3. QED
    BY <1>3, <2>2 DEF HasItsPrice
<1>4. Twin(t)' = Twin(t) /\ \A r \in tokens : Twin(r)' = Twin(r)
  BY DEF Twin
<1>5. QED
  BY <1>2, <1>3, <1>4 DEF HasItsPrice

\* Nothing that a token follows or is given has changed.
LEMMA SamePrices ==
  ASSUME UNCHANGED <<tokens, feed, price, quote>>
  PROVE  \A t : /\ ByPair(t)' <=> ByPair(t)
                /\ BySlug(t)' <=> BySlug(t)
                /\ HasItsPrice(t)' <=> HasItsPrice(t)
BY DEF ByPair, BySlug, HasItsPrice, Twin

LEMMA SameFeeds ==
  ASSUME UNCHANGED <<tokens, feed, quote>>
  PROVE  \A t : /\ ByPair(t)' <=> ByPair(t)
                /\ BySlug(t)' <=> BySlug(t)
BY DEF ByPair, BySlug

LEMMA HeardType ==
  ASSUME news \in 0..MaxNews, NEW n \in Nat, Heard(n)
  PROVE  news' \in 0..MaxNews
BY Markets DEF Heard

\* Update and the rest of the wallet, apart.
Silent == UNCHANGED <<tokens, feed, price, quote, upd>> /\ news' \in 0..MaxNews

Unsettled ==
  /\ tokens' \subseteq Tokens
  /\ feed' \in [Tokens -> Feeds \cup {NoFeed}]
  /\ quote' \in [Feeds -> Quotes]
  /\ news' \in 0..MaxNews
  /\ price' = price
  /\ Disturbed

LEMMA SilentKeeps ==
  ASSUME PriceInv, Silent PROVE PriceInv'
<1>1. PricesTypeOK'
  BY DEF PriceInv, Silent, PricesTypeOK
<1>2. CalmSoFar'
  BY SamePrices DEF PriceInv, Silent, CalmSoFar, Behind, AsksPairs, AsksSlugs
<1>3. InRange'
  BY DEF PriceInv, Silent, InRange
<1>4. QED
  BY <1>1, <1>2, <1>3 DEF PriceInv

\* An update that is under way is no longer a calm one.
LEMMA UnsettledKeeps ==
  ASSUME PriceInv, Unsettled PROVE PriceInv'
<1>1. upd' = IF upd.pc = "idle" THEN upd ELSE [upd EXCEPT !.calm = FALSE]
  BY DEF Unsettled, Disturbed
<1>2. upd \in Updates
  BY DEF PriceInv, PricesTypeOK
<1>3. upd' \in Updates /\ (upd'.pc = "idle" \/ ~upd'.calm)
  BY <1>1, <1>2 DEF Updates
<1>4. PricesTypeOK'
  BY <1>3 DEF PriceInv, PricesTypeOK, Unsettled
<1>5. CalmSoFar'
  BY <1>3 DEF CalmSoFar
<1>6. InRange'
  BY <1>1, <1>2 DEF PriceInv, InRange, Updates
<1>7. QED
  BY <1>4, <1>5, <1>6 DEF PriceInv

-----------------------------------------------------------------------------
(***************************************************************************)
(* The steps of an update.                                                 *)
(***************************************************************************)
LEMMA UpdateKeeps ==
  ASSUME PriceInv, Update PROVE PriceInv'
<1>1. upd' = [Idle EXCEPT !.pc = "chain"] /\ UNCHANGED <<tokens, feed, price, quote, news>>
  BY DEF Update
<1>2. Len(Chains) \in Nat
  BY Markets
<1>3. upd' \in Updates /\ upd'.pc = "chain" /\ upd'.i = 1
  <2>1. upd' = [pc |-> "chain", i |-> 1, todo |-> {}, asked |-> {}, n_ds |-> FALSE,
                n_cmc |-> FALSE, calm |-> TRUE]
    BY <1>1 DEF Idle
  <2>2. 1 \in 1..Len(Chains) + 1
    BY <1>2
  <2>3. QED
    BY <2>1, <2>2 DEF Updates
<1>4. PricesTypeOK'
  BY <1>1, <1>3 DEF PriceInv, PricesTypeOK
<1>5. \A c : ~Behind(c)'
  BY <1>2, <1>3 DEF Behind
<1>6. CalmSoFar'
  BY <1>3, <1>5 DEF CalmSoFar
<1>7. QED
  BY <1>3, <1>4, <1>6 DEF PriceInv, InRange

\* Nobody follows a pair there, or DexScreener does not know the blockchain.
LEMMA DSUpdateKeeps ==
  ASSUME PriceInv, DS_Update PROVE PriceInv'
<1> DEFINE c == Chains[upd.i]
           todo == {t \in tokens : ChainOf[t] = c /\ feed[t] \in DOMAIN Pairs}
<1>1. /\ upd.pc = "chain" /\ upd.i <= Len(Chains)
      /\ upd' = IF c \in chain_names /\ todo # {}
                THEN [upd EXCEPT !.pc = "pairs", !.todo = todo,
                                 !.asked = {feed[t] : t \in todo}]
                ELSE [upd EXCEPT !.i = @ + 1]
      /\ UNCHANGED <<tokens, feed, price, quote, news>>
  BY DEF DS_Update
<1>2. upd \in Updates /\ Len(Chains) \in Nat /\ upd.i \in 1..Len(Chains) + 1
  BY Markets DEF PriceInv, PricesTypeOK, Updates
<1>3. todo \in SUBSET Tokens /\ {feed[t] : t \in todo} \in SUBSET Feeds
  BY DEF PriceInv, PricesTypeOK, Feeds
<1>4. CASE c \in chain_names /\ todo # {}
  <2>1. /\ upd' \in Updates /\ upd'.pc = "pairs" /\ upd'.i = upd.i
        /\ upd'.todo = todo /\ upd'.asked = {feed[t] : t \in todo}
        /\ upd'.calm = upd.calm /\ upd'.n_ds = upd.n_ds
    BY <1>1, <1>2, <1>3, <1>4 DEF Updates
  <2>2. PricesTypeOK'
    BY <1>1, <2>1 DEF PriceInv, PricesTypeOK
  <2>3. \A k : Behind(k)' <=> Behind(k)
    BY <1>1, <2>1 DEF Behind
  <2>4. AsksPairs'
    <3>1. /\ Chains[upd'.i] \in chain_names
          /\ upd'.todo = {t \in tokens' : ChainOf[t] = Chains[upd'.i] /\ feed'[t] \in DOMAIN Pairs}
          /\ upd'.asked = {feed'[t] : t \in upd'.todo}
      BY <1>1, <1>4, <2>1
    <3>2. QED
      BY <3>1 DEF AsksPairs
  <2>5. CalmSoFar'
    BY <1>1, <2>1, <2>3, <2>4, SamePrices DEF PriceInv, CalmSoFar
  <2>6. QED
    BY <1>1, <2>1, <2>2, <2>5 DEF PriceInv, InRange
<1>5. CASE ~(c \in chain_names /\ todo # {})
  <2>1. /\ upd' \in Updates /\ upd'.pc = "chain" /\ upd'.i = upd.i + 1
        /\ upd'.calm = upd.calm /\ upd'.n_ds = upd.n_ds
    <3>1. upd' = [upd EXCEPT !.i = @ + 1] /\ upd.i + 1 \in 1..Len(Chains) + 1
      BY <1>1, <1>2, <1>5
    <3>2. QED
      BY <1>1, <1>2, <3>1 DEF Updates
  <2>2. PricesTypeOK'
    BY <1>1, <2>1 DEF PriceInv, PricesTypeOK
  <2>3. ASSUME NEW t \in tokens, ByPair(t), Behind(ChainOf[t])'
        PROVE  Behind(ChainOf[t])
    <3>1. PICK k \in 1..Len(Chains) : k < upd.i + 1 /\ Chains[k] = ChainOf[t]
      BY <2>1, <2>3 DEF Behind
    <3>2. k # upd.i
      BY <1>5, <2>3, <3>1 DEF ByPair
    <3>3. QED
      BY <1>2, <3>1, <3>2 DEF Behind
  <2>4. CalmSoFar'
    BY <1>1, <2>1, <2>3, SamePrices DEF PriceInv, CalmSoFar
  <2>5. QED
    BY <2>1, <2>2, <2>4 DEF PriceInv, InRange
<1>6. QED
  BY <1>4, <1>5

\* The answer of DexScreener for one blockchain.
LEMMA DSAssignKeeps ==
  ASSUME PriceInv, DSAssign PROVE PriceInv'
<1> DEFINE c == Chains[upd.i]
           answered == DSGetPairs(c)
<1>1. /\ upd.pc = "pairs"
      /\ price' = Priced(upd.todo, answered)
      /\ upd' = [upd EXCEPT !.pc = "chain", !.i = @ + 1, !.todo = {}, !.asked = {},
                            !.n_ds = @ \/ SetsAny(upd.todo, answered)]
      /\ UNCHANGED <<tokens, feed, quote, news>>
  BY DEF DSAssign
<1>2. upd \in Updates /\ Len(Chains) \in Nat /\ upd.i \in 1..Len(Chains) + 1
  BY Markets DEF PriceInv, PricesTypeOK, Updates
<1>3. answered = {p \in upd.asked : Pairs[p].chain = c}
  BY DEF DSGetPairs
<1>4. answered \in SUBSET Feeds /\ upd.todo \in SUBSET Tokens
  BY <1>2, <1>3 DEF Updates
<1> HIDE DEF answered
<1>5. price' \in [Tokens -> Quotes]
  BY <1>1, <1>4, PricedType DEF PriceInv
<1>6. SetsAny(upd.todo, answered) \in BOOLEAN
  BY DEF SetsAny
<1>7. /\ upd' \in Updates /\ upd'.pc = "chain" /\ upd'.i = upd.i + 1
      /\ upd'.calm = upd.calm /\ upd'.n_ds = (upd.n_ds \/ SetsAny(upd.todo, answered))
  <2>1. upd.i + 1 \in 1..Len(Chains) + 1
    BY <1>1, <1>2 DEF PriceInv, InRange
  <2>2. upd.n_ds \/ SetsAny(upd.todo, answered) \in BOOLEAN
    BY <1>2, <1>6 DEF Updates
  <2>3. QED
    BY <1>1, <1>2, <2>1, <2>2 DEF Updates
<1>8. PricesTypeOK'
  BY <1>1, <1>5, <1>7 DEF PriceInv, PricesTypeOK
<1>9. ASSUME upd.calm, NEW t \in tokens, ByPair(t), Behind(ChainOf[t])'
      PROVE  HasItsPrice(t)' /\ upd'.n_ds
  <2>1. AsksPairs
    BY <1>1, <1>9 DEF PriceInv, CalmSoFar
  <2>2. feed[t] \in Feeds /\ upd.todo \in SUBSET tokens
    BY <1>9, <2>1 DEF ByPair, Feeds, AsksPairs
  <2>3. CASE ChainOf[t] = c
    <3>1. t \in upd.todo /\ feed[t] \in answered
      BY <1>3, <1>9, <2>1, <2>3 DEF ByPair, AsksPairs
    <3>2. HasItsPrice(t)'
      BY <1>1, <1>4, <2>2, <3>1, PricedGives DEF PriceInv
    <3>3. SetsAny(upd.todo, answered)
      BY <3>1 DEF SetsAny
    <3>4. QED
      BY <1>7, <3>2, <3>3
  <2>4. CASE ChainOf[t] # c
    <3>1. PICK k \in 1..Len(Chains) : k < upd.i + 1 /\ Chains[k] = ChainOf[t]
      BY <1>7, <1>9 DEF Behind
    <3>2. Behind(ChainOf[t])
      BY <1>2, <2>4, <3>1 DEF Behind
    <3>3. HasItsPrice(t) /\ upd.n_ds
      BY <1>1, <1>9, <3>2 DEF PriceInv, CalmSoFar
    <3>4. HasItsPrice(t)'
      BY <1>1, <1>4, <2>2, <3>3, PricedGives DEF PriceInv
    <3>5. QED
      BY <1>7, <3>3, <3>4
  <2>5. QED
    BY <2>3, <2>4
<1>10. CalmSoFar'
  BY <1>1, <1>7, <1>9, SameFeeds DEF CalmSoFar
<1>11. QED
  BY <1>7, <1>8, <1>10 DEF PriceInv, InRange

LEMMA FailsKeeps ==
  ASSUME PriceInv, DSFails \/ CMCFails PROVE PriceInv'
<1>1. upd \in Updates /\ UNCHANGED <<tokens, feed, price, quote, news>>
  BY DEF PriceInv, PricesTypeOK, DSFails, CMCFails
<1>2. upd' \in Updates /\ ~upd'.calm /\ upd'.pc # "pairs"
  <2>1. CASE DSFails
    BY <1>1, <2>1 DEF DSFails, Updates
  <2>2. CASE CMCFails
    BY <1>1, <2>2 DEF CMCFails, Updates
  <2>3. QED
    BY <2>1, <2>2
<1>3. QED
  BY <1>1, <1>2 DEF PriceInv, PricesTypeOK, InRange, CalmSoFar

\* Every token is of one of the blockchains that are behind.
LEMMA DSDoneKeeps ==
  ASSUME PriceInv, DSDone PROVE PriceInv'
<1>1. /\ upd.pc = "chain" /\ upd.i > Len(Chains) /\ upd' = [upd EXCEPT !.pc = "slugs"]
      /\ UNCHANGED <<tokens, feed, price, quote, news>>
  BY DEF DSDone
<1>2. upd \in Updates /\ Len(Chains) \in Nat /\ tokens \subseteq Tokens
  BY Markets DEF PriceInv, PricesTypeOK
<1>3. /\ upd' \in Updates /\ upd'.pc = "slugs" /\ upd'.calm = upd.calm
      /\ upd'.n_ds = upd.n_ds
  BY <1>1, <1>2 DEF Updates
<1>4. ASSUME NEW t \in tokens PROVE Behind(ChainOf[t])
  <2>1. PICK k \in 1..Len(Chains) : ChainOf[t] = Chains[k]
    BY <1>2, Markets
  <2>2. k < upd.i
    BY <1>1, <1>2 DEF Updates
  <2>3. QED
    BY <2>1, <2>2 DEF Behind
<1>5. CalmSoFar'
  BY <1>1, <1>3, <1>4, SamePrices DEF PriceInv, CalmSoFar
<1>6. QED
  BY <1>1, <1>3, <1>5 DEF PriceInv, PricesTypeOK, InRange

\* CoinMarketCap is asked, unless there is no key or nobody follows a slug.
LEMMA CMCUpdateKeeps ==
  ASSUME PriceInv, CMC_Update PROVE PriceInv'
<1> DEFINE asked == {feed[t] : t \in tokens} \cap DOMAIN Slugs
<1>1. /\ upd.pc = "slugs"
      /\ upd' = IF asked # {} /\ CMC_API_KEY
                THEN [upd EXCEPT !.pc = "quotes", !.asked = asked]
                ELSE [upd EXCEPT !.pc = "done"]
      /\ UNCHANGED <<tokens, feed, price, quote, news>>
  BY DEF CMC_Update
<1>2. upd \in Updates /\ asked \in SUBSET Feeds
  BY DEF PriceInv, PricesTypeOK, Feeds
<1>3. \A c : Behind(c)
  BY <1>1 DEF Behind
<1>4. CASE asked # {} /\ CMC_API_KEY
  <2>1. /\ upd' \in Updates /\ upd'.pc = "quotes" /\ upd'.calm = upd.calm
        /\ upd'.n_ds = upd.n_ds /\ upd'.asked = asked
    BY <1>1, <1>2, <1>4 DEF Updates
  <2>2. AsksSlugs'
    BY <1>1, <1>4, <2>1 DEF AsksSlugs
  <2>3. CalmSoFar'
    BY <1>1, <1>3, <2>1, <2>2, SamePrices DEF PriceInv, CalmSoFar
  <2>4. QED
    BY <1>1, <2>1, <2>3 DEF PriceInv, PricesTypeOK, InRange
<1>5. CASE ~(asked # {} /\ CMC_API_KEY)
  <2>1. /\ upd' \in Updates /\ upd'.pc = "done" /\ upd'.calm = upd.calm
        /\ upd'.n_ds = upd.n_ds
    BY <1>1, <1>2, <1>5 DEF Updates
  <2>2. \A t \in tokens : ~BySlug(t)
    BY <1>5 DEF BySlug
  <2>3. CalmSoFar'
    BY <1>1, <1>3, <2>1, <2>2, SamePrices DEF PriceInv, CalmSoFar
  <2>4. QED
    BY <1>1, <2>1, <2>3 DEF PriceInv, PricesTypeOK, InRange
<1>6. QED
  BY <1>4, <1>5

\* The answer of CoinMarketCap for all slugs.
LEMMA CMCAssignKeeps ==
  ASSUME PriceInv, CMCAssign PROVE PriceInv'
<1>1. /\ upd.pc = "quotes"
      /\ price' = Priced(tokens, upd.asked)
      /\ upd' = [upd EXCEPT !.pc = "done", !.asked = {}, !.n_cmc = SetsAny(tokens, upd.asked)]
      /\ UNCHANGED <<tokens, feed, quote, news>>
  BY DEF CMCAssign, CMC_GetLatest
<1>2. upd \in Updates /\ upd.asked \in SUBSET Feeds /\ tokens \in SUBSET Tokens
  BY DEF PriceInv, PricesTypeOK, Updates
<1>3. price' \in [Tokens -> Quotes]
  BY <1>1, <1>2, PricedType DEF PriceInv
<1>4. SetsAny(tokens, upd.asked) \in BOOLEAN
  BY DEF SetsAny
<1>5. /\ upd' \in Updates /\ upd'.pc = "done" /\ upd'.calm = upd.calm
      /\ upd'.n_ds = upd.n_ds /\ upd'.n_cmc = SetsAny(tokens, upd.asked)
  BY <1>1, <1>2, <1>4 DEF Updates
<1>6. \A c : Behind(c)
  BY <1>1 DEF Behind
<1>7. ASSUME upd.calm, NEW t \in tokens, ByPair(t)
      PROVE  HasItsPrice(t)' /\ upd'.n_ds
  <2>1. HasItsPrice(t) /\ upd.n_ds
    BY <1>1, <1>6, <1>7 DEF PriceInv, CalmSoFar
  <2>2. feed[t] \in Feeds
    BY <1>7 DEF ByPair, Feeds
  <2>3. QED
    BY <1>1, <1>2, <1>5, <2>1, <2>2, PricedGives DEF PriceInv
<1>8. ASSUME upd.calm, NEW t \in tokens, BySlug(t)
      PROVE  HasItsPrice(t)' /\ upd'.n_cmc
  <2>1. feed[t] \in upd.asked
    BY <1>1, <1>8 DEF PriceInv, CalmSoFar, AsksSlugs, BySlug
  <2>2. feed[t] \in Feeds /\ SetsAny(tokens, upd.asked)
    BY <1>2, <2>1 DEF SetsAny
  <2>3. QED
    BY <1>1, <1>2, <1>5, <2>1, <2>2, PricedGives DEF PriceInv
<1>9. CalmSoFar'
  BY <1>1, <1>5, <1>7, <1>8, SameFeeds DEF CalmSoFar
<1>10. QED
  BY <1>1, <1>3, <1>5, <1>9 DEF PriceInv, PricesTypeOK, InRange

LEMMA UpdatedKeeps ==
  ASSUME PriceInv, Updated PROVE PriceInv'
<1>1. upd' = Idle /\ UNCHANGED <<tokens, feed, price, quote>>
  BY DEF Updated
<1>2. upd' \in Updates /\ upd'.pc = "idle"
  <2>1. Len(Chains) \in Nat
    BY Markets
  <2>2. QED
    BY <1>1, <2>1 DEF Idle, Updates
<1>3. news' \in 0..MaxNews
  BY HeardType DEF Updated, PriceInv, PricesTypeOK
<1>4. QED
  BY <1>1, <1>2, <1>3 DEF PriceInv, PricesTypeOK, InRange, CalmSoFar

-----------------------------------------------------------------------------
(***************************************************************************)
(* The rest of the wallet.                                                 *)
(***************************************************************************)
LEMMA MarketKeeps ==
  ASSUME PriceInv, MarketStep PROVE PriceInv'
<1>1. CASE Update
  BY <1>1, UpdateKeeps
<1>2. CASE DS_Update \/ DSAssign \/ DSDone \/ CMC_Update \/ CMCAssign \/ Updated
  BY <1>2, DSUpdateKeeps, DSAssignKeeps, DSDoneKeeps, CMCUpdateKeeps, CMCAssignKeeps,
     UpdatedKeeps
<1>3. CASE DSFails \/ CMCFails
  BY <1>3, FailsKeeps
<1>4. ASSUME NEW t \in Tokens, NEW f \in Feeds, SetFeeder(t, f) PROVE PriceInv'
  <2>1. feed' \in [Tokens -> Feeds \cup {NoFeed}] /\ news' \in 0..MaxNews
    BY <1>4, HeardType DEF SetFeeder, PriceInv, PricesTypeOK
  <2>2. QED
    BY <1>4, <2>1, UnsettledKeeps DEF SetFeeder, Unsettled, PriceInv, PricesTypeOK
<1>5. ASSUME NEW t \in Tokens, NEW f \in Feeds \cup {NoFeed}, EditFeed(t, f) PROVE PriceInv'
  <2>1. feed' \in [Tokens -> Feeds \cup {NoFeed}] /\ news' \in 0..MaxNews
    BY <1>5, HeardType DEF EditFeed, PriceInv, PricesTypeOK
  <2>2. QED
    BY <1>5, <2>1, UnsettledKeeps DEF EditFeed, Unsettled, PriceInv, PricesTypeOK
<1>6. ASSUME NEW f \in Feeds, NEW q \in Quotes, Quoted(f, q) PROVE PriceInv'
  <2>1. quote' \in [Feeds -> Quotes]
    BY <1>6 DEF Quoted, PriceInv, PricesTypeOK
  <2>2. QED
    BY <1>6, <2>1, UnsettledKeeps DEF Quoted, Unsettled, PriceInv, PricesTypeOK
<1>7. QED
  BY <1>1, <1>2, <1>3, <1>4, <1>5, <1>6 DEF MarketStep, Pricing

\* Of the user's steps, those that change the tokens disturb an update.
LEMMA UserKeeps ==
  ASSUME PriceInv, UserStep PROVE PriceInv'
<1>1. ASSUME NEW t \in Tokens, AddToken(t) \/ DeleteToken(t) PROVE PriceInv'
  <2>1. tokens' \subseteq Tokens /\ news' \in 0..MaxNews
    BY <1>1, HeardType DEF AddToken, DeleteToken, PriceInv, PricesTypeOK
  <2>2. Disturbed /\ UNCHANGED <<feed, price, quote>>
    BY <1>1 DEF AddToken, DeleteToken
  <2>3. QED
    BY <2>1, <2>2, UnsettledKeeps DEF Unsettled, PriceInv, PricesTypeOK
<1>2. ASSUME NEW t \in Tokens, Ignore(t) \/ Unignore(t) PROVE PriceInv'
  BY <1>2, HeardType, SilentKeeps DEF Ignore, Unignore, Silent, PriceInv, PricesTypeOK
<1>3. ASSUME NEW x \in Places, NEW y \in Places, Move(x, y) PROVE PriceInv'
  BY <1>3, SilentKeeps DEF Move, priceVars, Silent, PriceInv, PricesTypeOK
<1>4. ASSUME NEW l \in Lists, NEW i \in 1..2, RemovePosition(l, i) PROVE PriceInv'
  BY <1>4, HeardType, SilentKeeps DEF RemovePosition, Silent, PriceInv, PricesTypeOK
<1>5. CASE SetOff \/ Elapse \/ rebuildTemplate \/ SortPositions
  BY <1>5, SilentKeeps DEF SetOff, Elapse, rebuildTemplate, SortPositions, priceVars, Silent,
                          PriceInv, PricesTypeOK
<1>6. ASSUME NEW l \in Lists, NEW p \in OfList(l), AddPosition(l, p) PROVE PriceInv'
  BY <1>6, HeardType, SilentKeeps DEF AddPosition, Silent, PriceInv, PricesTypeOK
<1>7. QED
  BY <1>1, <1>2, <1>3, <1>4, <1>5, <1>6 DEF UserStep

\* A pass of the pane reads prices and takes news.
LEMMA PassKeeps ==
  ASSUME PriceInv, NEW u, PassStep(u) PROVE PriceInv'
<1>1. SUFFICES Silent
  BY SilentKeeps
<1>2. news \in 0..MaxNews /\ MaxNews \in Nat
  BY Markets DEF PriceInv, PricesTypeOK
<1>3. ASSUME UNCHANGED priceVars PROVE Silent
  BY <1>2, <1>3 DEF priceVars, Silent
<1>4. CASE ReadNative(u) \/ ReadERC20(u) \/ GetBalance(u) \/ GetERC20Balance(u)
  BY <1>3, <1>4 DEF ReadNative, ReadERC20, GetBalance, GetERC20Balance
<1>5. CASE Leave(u) \/ ReadStake(u) \/ ReadReward(u) \/ BuildList(u)
  BY <1>3, <1>5 DEF Leave, ReadStake, ReadReward, BuildList
<1>6. CASE ReadV2(u) \/ ReadV3(u) \/ ReadV4(u)
  BY <1>3, <1>6 DEF ReadV2, ReadV3, ReadV4, Status
<1>7. CASE scheduleUpdate(u)
  BY <1>2, <1>7 DEF scheduleUpdate, Begin, Silent
<1>8. CASE WakeUp(u)
  BY <1>2, <1>8 DEF WakeUp, Begin, Silent
<1>9. CASE SetOn(u)
  BY <1>3, <1>9 DEF SetOn
<1>10. QED
  BY <1>4, <1>5, <1>6, <1>7, <1>8, <1>9 DEF PassStep

LEMMA InitPrices == PortfolioInit => PriceInv
<1> SUFFICES ASSUME PortfolioInit PROVE PriceInv
  OBVIOUS
<1>1. /\ quote = [f \in Feeds |-> 1] /\ upd = Idle /\ news = 1
      /\ \E w \in Worlds : tokens = w.tokens /\ feed = w.feed /\ price = w.price
  BY DEF PortfolioInit
<1>2. /\ tokens \subseteq Tokens /\ feed \in [Tokens -> Feeds \cup {NoFeed}]
      /\ price \in [Tokens -> Quotes]
  BY <1>1, WorldsAssumption DEF IsWorld
<1>3. quote \in [Feeds -> Quotes] /\ news \in 0..MaxNews
  BY <1>1, Markets
<1>4. upd \in Updates /\ upd.pc = "idle"
  <2>1. 1 \in 1..Len(Chains) + 1
    BY Markets
  <2>2. QED
    BY <1>1, <2>1 DEF Idle, Updates
<1>5. QED
  BY <1>2, <1>3, <1>4 DEF PriceInv, PricesTypeOK, InRange, CalmSoFar

LEMMA StepKeeps ==
  ASSUME PriceInv, [PortfolioNext]_portfolioVars PROVE PriceInv'
<1>1. CASE MarketStep
  BY <1>1, MarketKeeps
<1>2. CASE UserStep
  BY <1>2, UserKeeps
<1>3. CASE \E u \in Passes : u \in budget.passes /\ PassStep(u)
  BY <1>3, PassKeeps
<1>4. CASE UNCHANGED portfolioVars
  BY <1>4, SilentKeeps DEF portfolioVars, priceVars, Silent, PriceInv, PricesTypeOK
<1>5. QED
  BY <1>1, <1>2, <1>3, <1>4 DEF PortfolioNext

\* At every point of an update that nothing disturbed, whatever it is through
\* with is priced by what it follows: the invariant below the two that follow.
THEOREM PriceInvariant == PortfolioSpec => []PriceInv
<1>1. QED
  BY InitPrices, StepKeeps, PTL DEF PortfolioSpec

\* The tokens, what they follow, their prices and the update have their types.
THEOREM PriceTypes == PortfolioSpec => []PricesTypeOK
<1>1. PriceInv => PricesTypeOK
  BY DEF PriceInv
<1>2. QED
  BY <1>1, PriceInvariant, PTL

-----------------------------------------------------------------------------
\* Only the answers of the two feeders change a price.
LEMMA PriceMoves ==
  ASSUME [PortfolioNext]_portfolioVars PROVE price' = price \/ DSAssign \/ CMCAssign
<1>1. CASE MarketStep
  BY <1>1 DEF MarketStep, Pricing, Update, DS_Update, DSDone, CMC_Update, Updated, DSFails,
              CMCFails, SetFeeder, EditFeed, Quoted
<1>2. CASE UserStep
  BY <1>2 DEF UserStep, AddToken, DeleteToken, Ignore, Unignore, Move, RemovePosition,
              AddPosition, SortPositions, SetOff, Elapse, rebuildTemplate, priceVars
<1>3. ASSUME NEW u, PassStep(u) PROVE price' = price
  <2>1. CASE ReadNative(u) \/ ReadERC20(u) \/ GetBalance(u) \/ GetERC20Balance(u)
    BY <2>1 DEF ReadNative, ReadERC20, GetBalance, GetERC20Balance, priceVars
  <2>2. CASE Leave(u) \/ ReadStake(u) \/ ReadReward(u) \/ BuildList(u)
    BY <2>2 DEF Leave, ReadStake, ReadReward, BuildList, priceVars
  <2>3. CASE ReadV2(u) \/ ReadV3(u) \/ ReadV4(u)
    BY <2>3 DEF ReadV2, ReadV3, ReadV4, Status, priceVars
  <2>4. CASE scheduleUpdate(u) \/ WakeUp(u) \/ SetOn(u)
    BY <2>4 DEF scheduleUpdate, WakeUp, Begin, SetOn, priceVars
  <2>5. QED
    BY <1>3, <2>1, <2>2, <2>3, <2>4 DEF PassStep
<1>4. CASE UNCHANGED portfolioVars
  BY <1>4 DEF portfolioVars, priceVars
<1>5. QED
  BY <1>1, <1>2, <1>3, <1>4 DEF PortfolioNext

\* A price only ever becomes the one quoted for what the token, or its twin, follows by then:
\* whatever the user does while DexScreener or CoinMarketCap is being asked.
THEOREM PricesAreTheFeeds == PortfolioSpec => PricedByItsFeed
<1> DEFINE f(t) == IF feed[t] = NoFeed THEN feed[Twin(t)] ELSE feed[t]
           Step == \A t \in Tokens : price'[t] # price[t] =>
                     f(t) \in Feeds /\ price'[t] = quote[f(t)]
<1>1. ASSUME PricesTypeOK, NEW todo \in SUBSET Tokens, NEW answered \in SUBSET Feeds,
             price' = Priced(todo, answered)
      PROVE  Step
  <2>1. SUFFICES ASSUME NEW t \in Tokens, price'[t] # price[t]
                 PROVE  f(t) \in Feeds /\ price'[t] = quote[f(t)]
    OBVIOUS
  <2>2. price'[t] = IF t \in todo /\ feed[t] \in answered THEN quote[feed[t]]
                    ELSE IF t \in tokens /\ feed[t] = NoFeed /\ Twin(t) \in todo
                              /\ feed[Twin(t)] \in answered
                         THEN quote[feed[Twin(t)]]
                         ELSE price[t]
    BY <1>1, PricedIs
  <2>3. NoFeed \notin answered
    BY <1>1, Markets DEF Feeds
  <2>4. QED
    BY <1>1, <2>1, <2>2, <2>3
<1>2. PricesTypeOK /\ [PortfolioNext]_portfolioVars => [Step]_priceVars
  <2> SUFFICES ASSUME PricesTypeOK, [PortfolioNext]_portfolioVars PROVE Step
    OBVIOUS
  <2>1. CASE price' = price
    BY <2>1
  <2>2. CASE DSAssign
    <3>1. price' = Priced(upd.todo, DSGetPairs(Chains[upd.i]))
      BY <2>2 DEF DSAssign
    <3>2. upd.todo \in SUBSET Tokens /\ DSGetPairs(Chains[upd.i]) \in SUBSET Feeds
      BY DEF PricesTypeOK, Updates, DSGetPairs
    <3>3. QED
      BY <1>1, <3>1, <3>2
  <2>3. CASE CMCAssign
    <3>1. price' = Priced(tokens, upd.asked)
      BY <2>3 DEF CMCAssign, CMC_GetLatest
    <3>2. tokens \in SUBSET Tokens /\ upd.asked \in SUBSET Feeds
      BY DEF PricesTypeOK, Updates
    <3>3. QED
      BY <1>1, <3>1, <3>2
  <2>4. QED
    BY <2>1, <2>2, <2>3, PriceMoves
<1>3. QED
  BY <1>2, PriceTypes, PTL DEF PortfolioSpec, PricedByItsFeed

\* An update that nothing disturbs gives every token that can be priced the price of what it
\* follows, and a token that follows nothing that of its twin; and the panes hear of it.
THEOREM UpdatesReachAll == PortfolioSpec => UpdateReachesAll
<1> DEFINE Reaches ==
             /\ \A t \in tokens :
                  /\ Reached(t) => price[t] = quote[feed[t]]
                  /\ feed[t] = NoFeed /\ Twin(t) \in tokens /\ Reached(Twin(t))
                       => price[t] = price[Twin(t)]
             /\ (\E t \in tokens : Reached(t)) => news' > 0
<1>1. ASSUME PriceInv, Updated, upd.calm PROVE Reaches
  <2>1. upd.pc = "done" /\ Heard(IF upd.n_ds \/ upd.n_cmc THEN 2 ELSE 0)
    BY <1>1 DEF Updated
  <2>2. \A c : Behind(c)
    BY <2>1 DEF Behind
  <2>3. ASSUME NEW t \in tokens, Reached(t)
        PROVE  HasItsPrice(t) /\ (upd.n_ds \/ upd.n_cmc)
    BY <1>1, <2>1, <2>2, <2>3 DEF Reached, ByPair, BySlug, PriceInv, CalmSoFar
  <2>4. ASSUME NEW t \in tokens, feed[t] = NoFeed, Twin(t) \in tokens, Reached(Twin(t))
        PROVE  price[t] = price[Twin(t)]
    BY <2>3, <2>4 DEF HasItsPrice
  <2>5. ASSUME NEW t \in tokens, Reached(t) PROVE news' > 0
    <3>1. news \in 0..MaxNews /\ MaxNews \in Nat \ {0}
      BY <1>1, Markets DEF PriceInv, PricesTypeOK
    <3>2. Heard(2)
      BY <2>1, <2>3, <2>5
    <3>3. QED
      BY <3>1, <3>2 DEF Heard
  <2>6. QED
    BY <2>3, <2>4, <2>5 DEF HasItsPrice
<1>2. PriceInv /\ [PortfolioNext]_portfolioVars => [Updated /\ upd.calm => Reaches]_priceVars
  BY <1>1
<1>3. QED
  BY <1>2, PriceInvariant, PTL DEF PortfolioSpec, UpdateReachesAll

-----------------------------------------------------------------------------
(***************************************************************************)
(* Sums over finite sets, of any kind.                                     *)
(***************************************************************************)
\* g adds up f over the subsets of A.
Adds(g, f, A) ==
  /\ SumFunctionOnSet(f, A) = g[A] /\ g[{}] = 0
  /\ \A s \in SUBSET A : s # {} =>
       g[s] = f[CHOOSE x \in s : TRUE] + g[s \ {CHOOSE x \in s : TRUE}]

\* A sum is made of one element, the one CHOOSE takes, and the sum of the others.
LEMMA SumFound ==
  ASSUME NEW D, NEW f \in [D -> Nat], NEW A \in SUBSET D, IsFiniteSet(A)
  PROVE  \E g \in [SUBSET A -> Nat] : Adds(g, f, A)
<1> DEFINE pick(s) == CHOOSE x \in s : TRUE
           n == Cardinality(A) + 1
           S == [SUBSET A -> Nat]
           R(h) == [s \in SUBSET A |-> IF s = {} THEN 0 ELSE f[pick(s)] + h[s \ {pick(s)}]]
           zero == [s \in SUBSET A |-> 0]
           step == [j \in 1..n |-> [h \in S |-> R(h)]]
<1>1. n \in Nat /\ zero \in S
  BY FS_CardinalityType
<1>2. ASSUME NEW h \in S PROVE R(h) \in S
  <2>1. ASSUME NEW s \in SUBSET A, s # {} PROVE f[pick(s)] + h[s \ {pick(s)}] \in Nat
    <3>1. pick(s) \in s
      BY <2>1
    <3>2. f[pick(s)] \in Nat /\ h[s \ {pick(s)}] \in Nat
      BY <3>1
    <3> HIDE DEF pick
    <3>3. QED
      BY <3>2
  <2> HIDE DEF pick
  <2>2. QED
    BY <2>1
<1>3. ASSUME NEW s \in SUBSET A, s # {} PROVE pick(s) \in s
  BY <1>3
<1>4. ASSUME NEW s \in SUBSET A PROVE IsFiniteSet(s) /\ Cardinality(s) \in 0..(n - 1)
  <2>1. IsFiniteSet(s) /\ Cardinality(s) <= Cardinality(A)
    BY FS_Subset
  <2>2. QED
    BY <2>1, FS_CardinalityType
<1>5. ASSUME NEW s \in SUBSET A, s # {}
      PROVE  s \ {pick(s)} \in SUBSET A /\ Cardinality(s \ {pick(s)}) = Cardinality(s) - 1
  BY <1>3, <1>4, <1>5, FS_RemoveElement
<1> HIDE DEF pick
<1>6. PICK F \in [0..n -> S] : Unfolds(F, n, zero, step)
  <2>1. step \in [1..n -> [S -> S]]
    BY <1>2
  <2> HIDE DEF step, S, zero, n
  <2>2. QED
    BY <1>1, <2>1, RecursionExists
<1>7. F[0] = zero /\ \A i \in 1..n : F[i] = R(F[i - 1])
  <2>1. ASSUME NEW i \in 1..n PROVE F[i] = R(F[i - 1])
    <3>1. i - 1 \in 0..n
      BY <1>1
    <3>2. F[i - 1] \in S
      BY <3>1
    <3>3. F[i] = step[i][F[i - 1]]
      BY <1>6 DEF Unfolds
    <3> HIDE DEF R, S, n
    <3>4. QED
      BY <3>2, <3>3
  <2>2. QED
    BY <1>6, <2>1 DEF Unfolds
<1> DEFINE Settled(k) == \A s \in SUBSET A : Cardinality(s) <= k => F[k + 1][s] = F[k][s]
           T == {k \in 0..(n - 1) : Settled(k)}
<1>8. Settled(0)
  <2>1. ASSUME NEW s \in SUBSET A, Cardinality(s) <= 0 PROVE F[1][s] = F[0][s]
    <3>1. s = {}
      BY <1>4, <2>1, FS_EmptySet
    <3>2. F[1] = R(F[0])
      <4>1. 1 \in 1..n /\ 1 - 1 = 0
        BY FS_CardinalityType
      <4> HIDE DEF R, n
      <4>2. QED
        BY <1>7, <4>1
    <3>3. QED
      BY <1>7, <3>1, <3>2
  <2>2. QED
    BY <2>1
<1>9. ASSUME NEW k \in 0..(n - 1), k < n - 1, Settled(k) PROVE Settled(k + 1)
  <2>1. SUFFICES ASSUME NEW s \in SUBSET A, Cardinality(s) <= k + 1
                 PROVE  F[k + 1 + 1][s] = F[k + 1][s]
    OBVIOUS
  <2>2. F[k + 1 + 1] = R(F[k + 1]) /\ F[k + 1] = R(F[k])
    <3>1. k + 1 \in 1..n /\ k + 1 + 1 \in 1..n /\ (k + 1) - 1 = k /\ (k + 1 + 1) - 1 = k + 1
      BY <1>1, <1>9
    <3> HIDE DEF R, n
    <3>2. QED
      BY <1>7, <3>1
  <2>3. CASE s = {}
    BY <2>2, <2>3
  <2>4. CASE s # {}
    <3>1. s \ {pick(s)} \in SUBSET A /\ Cardinality(s \ {pick(s)}) <= k
      <4>1. Cardinality(s) \in Nat /\ Cardinality(s) <= k + 1 /\ k \in Nat
        BY <1>4, <2>1, FS_CardinalityType
      <4>2. s \ {pick(s)} \in SUBSET A /\ Cardinality(s \ {pick(s)}) = Cardinality(s) - 1
        BY <1>5, <2>4
      <4>3. QED
        BY <4>1, <4>2
    <3>2. F[k + 1][s \ {pick(s)}] = F[k][s \ {pick(s)}]
      BY <1>9, <3>1
    <3>3. QED
      BY <2>2, <2>4, <3>2
  <2>5. QED
    BY <2>3, <2>4
<1>10. Settled(n - 1)
  <2>1. n - 1 \in Nat /\ 0 \in 0..(n - 1) /\ n - 1 \in 0..(n - 1)
    BY FS_CardinalityType
  <2>2. \A j \in 0..(n - 1) : j < n - 1 /\ j \in T => j + 1 \in T
    BY <1>9, <2>1
  <2>3. 0 \in T
    BY <1>8, <2>1
  <2> HIDE DEF T, n
  <2>4. 0..(n - 1) \subseteq T
    BY <2>1, <2>2, <2>3, CountingUp
  <2> USE DEF T
  <2>5. QED
    BY <2>1, <2>4
<1> DEFINE g == F[n]
<1>11. g \in S
  <2>1. n \in 0..n
    BY <1>1
  <2> HIDE DEF n, S
  <2>2. QED
    BY <2>1
<1>12. ASSUME NEW s \in SUBSET A
       PROVE  g[s] = IF s = {} THEN 0 ELSE f[pick(s)] + g[s \ {pick(s)}]
  <2>1. F[n] = R(F[n - 1]) /\ (n - 1) + 1 = n
    <3>1. n \in 1..n /\ (n - 1) + 1 = n
      BY FS_CardinalityType
    <3> HIDE DEF n, R
    <3>2. QED
      BY <1>7, <3>1
  <2>2. CASE s = {}
    BY <2>1, <2>2
  <2>3. CASE s # {}
    <3>1. s \ {pick(s)} \in SUBSET A /\ Cardinality(s \ {pick(s)}) <= n - 1
      BY <1>4, <1>5, <2>3, FS_CardinalityType
    <3>2. F[n][s \ {pick(s)}] = F[n - 1][s \ {pick(s)}]
      BY <1>10, <2>1, <3>1
    <3>3. QED
      BY <2>1, <2>3, <3>2
  <2>4. QED
    BY <2>2, <2>3
<1> HIDE DEF g
<1>13. g = [s \in SUBSET A |-> IF s = {} THEN 0 ELSE f[pick(s)] + g[s \ {pick(s)}]]
  BY <1>11, <1>12
<1> DEFINE IsSum(h) == h = [s \in SUBSET A |-> IF s = {} THEN 0 ELSE f[pick(s)] + h[s \ {pick(s)}]]
           iter == CHOOSE h : IsSum(h)
<1>14. SumFunctionOnSet(f, A) = iter[A]
  BY DEF SumFunctionOnSet, FoldFunctionOnSet, MapThenFoldSet, pick
<1>15. IsSum(iter)
  <2>1. \E h : IsSum(h)
    BY <1>13
  <2> HIDE DEF IsSum
  <2>2. QED
    BY <2>1
<1>16. \A s \in SUBSET A : iter[s] = IF s = {} THEN 0 ELSE f[pick(s)] + iter[s \ {pick(s)}]
  <2> HIDE DEF iter
  <2>1. QED
    BY <1>15
<1> HIDE DEF iter
<1> DEFINE Agrees(k) == \A s \in SUBSET A : Cardinality(s) <= k => iter[s] = g[s]
           U == {k \in 0..(n - 1) : Agrees(k)}
<1>17. Agrees(0)
  <2>1. ASSUME NEW s \in SUBSET A, Cardinality(s) <= 0 PROVE iter[s] = g[s]
    <3>1. s = {}
      BY <1>4, <2>1, FS_EmptySet
    <3>2. QED
      BY <1>12, <1>16, <3>1
  <2>2. QED
    BY <2>1
<1>18. ASSUME NEW k \in 0..(n - 1), k < n - 1, Agrees(k) PROVE Agrees(k + 1)
  <2>1. SUFFICES ASSUME NEW s \in SUBSET A, Cardinality(s) <= k + 1
                 PROVE  iter[s] = g[s]
    OBVIOUS
  <2>2. CASE s = {}
    BY <1>12, <1>16, <2>2
  <2>3. CASE s # {}
    <3>1. s \ {pick(s)} \in SUBSET A /\ Cardinality(s \ {pick(s)}) <= k
      <4>1. Cardinality(s) \in Nat /\ Cardinality(s) <= k + 1 /\ k \in Nat
        BY <1>4, <2>1, FS_CardinalityType
      <4>2. s \ {pick(s)} \in SUBSET A /\ Cardinality(s \ {pick(s)}) = Cardinality(s) - 1
        BY <1>5, <2>3
      <4>3. QED
        BY <4>1, <4>2
    <3>2. iter[s \ {pick(s)}] = g[s \ {pick(s)}]
      BY <1>18, <3>1
    <3>3. QED
      BY <1>12, <1>16, <2>3, <3>2
  <2>4. QED
    BY <2>2, <2>3
<1>19. Agrees(n - 1)
  <2>1. n - 1 \in Nat /\ 0 \in 0..(n - 1) /\ n - 1 \in 0..(n - 1)
    BY FS_CardinalityType
  <2>2. \A j \in 0..(n - 1) : j < n - 1 /\ j \in U => j + 1 \in U
    BY <1>18, <2>1
  <2>3. 0 \in U
    BY <1>17, <2>1
  <2> HIDE DEF U, n
  <2>4. 0..(n - 1) \subseteq U
    BY <2>1, <2>2, <2>3, CountingUp
  <2> USE DEF U
  <2>5. QED
    BY <2>1, <2>4
<1>20. iter[A] = g[A]
  <2>1. Cardinality(A) <= n - 1 /\ A \in SUBSET A
    BY FS_CardinalityType
  <2>2. QED
    BY <1>19, <2>1
<1>21. QED
  <2>1. g[{}] = 0 /\ \A s \in SUBSET A : s # {} => g[s] = f[pick(s)] + g[s \ {pick(s)}]
    BY <1>12
  <2>2. Adds(g, f, A)
    BY <1>14, <1>20, <2>1 DEF pick, Adds
  <2>3. QED
    BY <1>11, <2>2

\* What holds of a finite set if it holds of what is left without any element, holds of all.
LEMMA RemovingElements ==
  ASSUME NEW A, IsFiniteSet(A), NEW T,
         \A s \in SUBSET A : (\A x \in s : s \ {x} \in T) => s \in T
  PROVE  SUBSET A \subseteq T
<1> DEFINE n == Cardinality(A)
           Holds(k) == \A s \in SUBSET A : Cardinality(s) <= k => s \in T
           U == {k \in 0..n : Holds(k)}
<1>1. n \in Nat
  BY FS_CardinalityType
<1>2. ASSUME NEW s \in SUBSET A PROVE IsFiniteSet(s) /\ Cardinality(s) \in 0..n
  <2>1. IsFiniteSet(s) /\ Cardinality(s) <= n
    BY FS_Subset
  <2>2. QED
    BY <1>1, <2>1, FS_CardinalityType
<1>3. Holds(0)
  <2>1. ASSUME NEW s \in SUBSET A, Cardinality(s) <= 0 PROVE s \in T
    <3>1. s = {}
      BY <1>2, <2>1, FS_EmptySet
    <3>2. QED
      BY <3>1
  <2>2. QED
    BY <2>1
<1>4. ASSUME NEW k \in 0..n, k < n, Holds(k) PROVE Holds(k + 1)
  <2>1. SUFFICES ASSUME NEW s \in SUBSET A, Cardinality(s) <= k + 1 PROVE s \in T
    OBVIOUS
  <2>2. ASSUME NEW x \in s PROVE s \ {x} \in T
    <3>1. Cardinality(s \ {x}) = Cardinality(s) - 1 /\ s \ {x} \in SUBSET A
      BY <1>2, FS_RemoveElement
    <3>2. Cardinality(s \ {x}) <= k
      BY <1>2, <2>1, <3>1
    <3>3. QED
      BY <1>4, <3>1, <3>2
  <2>3. QED
    BY <2>2
<1>5. 0..n \subseteq U
  <2>1. 0 \in U
    BY <1>1, <1>3
  <2>2. ASSUME NEW k \in 0..n, k < n, k \in U PROVE k + 1 \in U
    <3>1. Holds(k)
      BY <2>2
    <3> HIDE DEF Holds
    <3>2. Holds(k + 1)
      BY <1>4, <2>2, <3>1
    <3>3. k + 1 \in 0..n
      BY <1>1, <2>2
    <3>4. QED
      BY <3>2, <3>3
  <2> HIDE DEF U, n
  <2>3. QED
    BY <1>1, <2>1, <2>2, CountingUp
<1>6. Holds(n)
  <2>1. n \in U
    BY <1>1, <1>5
  <2>2. QED
    BY <2>1
<1>7. QED
  BY <1>2, <1>6

\* Nothing adds up to nothing.
LEMMA SumEmpty ==
  ASSUME NEW D, NEW f \in [D -> Nat]
  PROVE  SumFunctionOnSet(f, {}) = 0
<1>1. {} \in SUBSET D /\ IsFiniteSet({})
  BY FS_EmptySet
<1>2. PICK g \in [SUBSET {} -> Nat] : Adds(g, f, {})
  BY <1>1, SumFound
<1>3. QED
  BY <1>2 DEF Adds

\* Numbers add up to a number.
LEMMA SumNat ==
  ASSUME NEW D, NEW f \in [D -> Nat], NEW A \in SUBSET D, IsFiniteSet(A)
  PROVE  SumFunctionOnSet(f, A) \in Nat
<1>1. PICK g \in [SUBSET A -> Nat] : Adds(g, f, A)
  BY SumFound
<1>2. QED
  BY <1>1 DEF Adds

\* A sum is one of its numbers and the sum of the others.
LEMMA SumPick ==
  ASSUME NEW D, NEW f \in [D -> Nat], NEW A \in SUBSET D, IsFiniteSet(A), A # {}
  PROVE  \E x \in A : SumFunctionOnSet(f, A) = f[x] + SumFunctionOnSet(f, A \ {x})
<1> DEFINE pick == [s \in SUBSET A |-> CHOOSE x \in s : TRUE]
           Step(u, C) == \A s \in SUBSET C : s # {} => u[s] = f[pick[s]] + u[s \ {pick[s]}]
<1>1. \A s \in SUBSET A : pick[s] = CHOOSE y \in s : TRUE
  OBVIOUS
<1>2. \A s \in SUBSET A : s # {} => pick[s] \in s
  OBVIOUS
<1> HIDE DEF pick
<1>3. PICK x \in A : x = pick[A]
  <2>1. A \in SUBSET A
    OBVIOUS
  <2>2. QED
    BY <1>2, <2>1
<1>4. PICK C : C = A \ {x}
  OBVIOUS
<1>5. C \in SUBSET D /\ IsFiniteSet(C) /\ SUBSET C \subseteq SUBSET A
  <2>1. C \in SUBSET A
    BY <1>4
  <2>2. QED
    BY <2>1, FS_Subset
<1>6. ASSUME NEW U, \A s \in SUBSET C : (\A y \in s : s \ {y} \in U) => s \in U
      PROVE  SUBSET C \subseteq U
  <2>1. IsFiniteSet(C)
    BY <1>5
  <2>2. QED
    BY <1>6, <2>1, RemovingElements
<1>7. PICK g \in [SUBSET A -> Nat] : Adds(g, f, A)
  BY SumFound
<1>8. PICK h \in [SUBSET C -> Nat] : Adds(h, f, C)
  BY <1>5, SumFound
<1>9. Step(g, A) /\ g[{}] = 0
  BY <1>1, <1>7 DEF Adds
<1>10. Step(h, C) /\ h[{}] = 0
  BY <1>1, <1>5, <1>8 DEF Adds
<1> DEFINE T == {s \in SUBSET C : g[s] = h[s]}
<1>11. ASSUME NEW s \in SUBSET C, \A y \in s : s \ {y} \in T PROVE s \in T
  <2>1. CASE s = {}
    BY <1>9, <1>10, <2>1
  <2>2. CASE s # {}
    <3>1. pick[s] \in s /\ s \in SUBSET A
      BY <1>2, <1>5, <2>2
    <3>2. g[s \ {pick[s]}] = h[s \ {pick[s]}]
      BY <1>11, <3>1
    <3>3. QED
      BY <1>9, <1>10, <2>2, <3>1, <3>2
  <2>3. QED
    BY <2>1, <2>2
<1>12. SUBSET C \subseteq T
  <2>1. PICK U : U = T
    OBVIOUS
  <2>2. \A s \in SUBSET C : (\A y \in s : s \ {y} \in U) => s \in U
    BY <1>11, <2>1
  <2>3. SUBSET C \subseteq U
    BY <1>6, <2>2
  <2>4. QED
    BY <2>1, <2>3
<1>13. SumFunctionOnSet(f, A) = g[A] /\ SumFunctionOnSet(f, C) = h[C]
  BY <1>7, <1>8 DEF Adds
<1>14. g[A] = f[x] + g[C]
  <2>1. A \in SUBSET A
    OBVIOUS
  <2>2. QED
    BY <1>3, <1>4, <1>9, <2>1
<1>15. g[C] = h[C]
  BY <1>12
<1>16. QED
  BY <1>4, <1>13, <1>14, <1>15

\* It does not matter which.
LEMMA SumRemove ==
  ASSUME NEW D, NEW f \in [D -> Nat], NEW A \in SUBSET D, IsFiniteSet(A), NEW x \in A
  PROVE  SumFunctionOnSet(f, A) = f[x] + SumFunctionOnSet(f, A \ {x})
<1> DEFINE Sum(s) == SumFunctionOnSet(f, s)
           T == {s \in SUBSET A : \A y \in s : Sum(s) = f[y] + Sum(s \ {y})}
<1>1. \A s \in SUBSET A : Sum(s) \in Nat
  BY FS_Subset, SumNat
<1>2. ASSUME NEW s \in SUBSET A, \A y \in s : s \ {y} \in T, NEW y \in s
      PROVE  Sum(s) = f[y] + Sum(s \ {y})
  <2>1. IsFiniteSet(s) /\ s \in SUBSET D /\ s # {}
    BY <1>2, FS_Subset
  <2>2. PICK z \in s : Sum(s) = f[z] + Sum(s \ {z})
    BY <2>1, SumPick
  <2>3. CASE y = z
    BY <2>2, <2>3
  <2>4. CASE y # z
    <3>1. y \in s \ {z} /\ z \in s \ {y} /\ (s \ {z}) \ {y} = (s \ {y}) \ {z}
      BY <2>4
    <3>2. s \ {z} \in T /\ s \ {y} \in T
      BY <1>2
    <3>3. Sum(s \ {z}) = f[y] + Sum((s \ {z}) \ {y})
      BY <3>1, <3>2
    <3>4. Sum(s \ {y}) = f[z] + Sum((s \ {y}) \ {z})
      BY <3>1, <3>2
    <3>5. f[y] \in Nat /\ f[z] \in Nat /\ Sum((s \ {y}) \ {z}) \in Nat
      BY <1>1, <2>1
    <3> HIDE DEF Sum
    <3>6. QED
      BY <2>2, <3>1, <3>3, <3>4, <3>5
  <2>5. QED
    BY <2>3, <2>4
<1>3. SUBSET A \subseteq T
  <2>1. \A s \in SUBSET A : (\A y \in s : s \ {y} \in T) => s \in T
    BY <1>2
  <2> HIDE DEF T
  <2>2. QED
    BY <2>1, RemovingElements
<1>4. QED
  BY <1>3

\* One element more.
LEMMA SumAdd ==
  ASSUME NEW D, NEW f \in [D -> Nat], NEW A \in SUBSET D, IsFiniteSet(A), NEW x \in D, x \notin A
  PROVE  SumFunctionOnSet(f, A \cup {x}) = f[x] + SumFunctionOnSet(f, A)
<1>1. IsFiniteSet(A \cup {x}) /\ A \cup {x} \in SUBSET D /\ (A \cup {x}) \ {x} = A
  BY FS_AddElement
<1>2. QED
  BY <1>1, SumRemove

\* Sums of the same.
LEMMA SumSame ==
  ASSUME NEW D, NEW f \in [D -> Nat], NEW E, NEW g \in [E -> Nat],
         NEW A \in SUBSET D, A \subseteq E, IsFiniteSet(A), \A x \in A : f[x] = g[x]
  PROVE  SumFunctionOnSet(f, A) = SumFunctionOnSet(g, A)
<1> DEFINE T == {s \in SUBSET A : SumFunctionOnSet(f, s) = SumFunctionOnSet(g, s)}
<1>1. ASSUME NEW s \in SUBSET A, \A x \in s : s \ {x} \in T PROVE s \in T
  <2>1. CASE s = {}
    BY <2>1, SumEmpty
  <2>2. CASE s # {}
    <3>1. PICK x \in s : TRUE
      BY <2>2
    <3>2. IsFiniteSet(s) /\ s \in SUBSET D /\ s \in SUBSET E
      BY FS_Subset
    <3>3. SumFunctionOnSet(f, s) = f[x] + SumFunctionOnSet(f, s \ {x})
      BY <3>1, <3>2, SumRemove
    <3>4. SumFunctionOnSet(g, s) = g[x] + SumFunctionOnSet(g, s \ {x})
      BY <3>1, <3>2, SumRemove
    <3>5. SumFunctionOnSet(f, s \ {x}) = SumFunctionOnSet(g, s \ {x}) /\ f[x] = g[x]
      BY <1>1, <3>1
    <3>6. QED
      BY <3>3, <3>4, <3>5
  <2>3. QED
    BY <2>1, <2>2
<1>2. SUBSET A \subseteq T
  <2> HIDE DEF T
  <2>1. QED
    BY <1>1, RemovingElements
<1>3. QED
  BY <1>2

\* Of two sets that have nothing in common.
LEMMA SumUnion ==
  ASSUME NEW D, NEW f \in [D -> Nat], NEW A \in SUBSET D, NEW B \in SUBSET D,
         IsFiniteSet(A), IsFiniteSet(B), A \cap B = {}
  PROVE  SumFunctionOnSet(f, A \cup B) = SumFunctionOnSet(f, A) + SumFunctionOnSet(f, B)
<1> DEFINE Sum(s) == SumFunctionOnSet(f, s)
           T == {s \in SUBSET B : Sum(A \cup s) = Sum(A) + Sum(s)}
<1>1. \A s \in SUBSET D : IsFiniteSet(s) => Sum(s) \in Nat
  BY SumNat
<1>2. ASSUME NEW s \in SUBSET B, \A x \in s : s \ {x} \in T PROVE s \in T
  <2>1. IsFiniteSet(s) /\ s \in SUBSET D /\ IsFiniteSet(A \cup s) /\ A \cup s \in SUBSET D
    BY FS_Subset, FS_Union
  <2>2. CASE s = {}
    <3>1. A \cup s = A /\ Sum(s) = 0 /\ Sum(A) \in Nat
      BY <1>1, <2>2, SumEmpty
    <3>2. QED
      BY <3>1
  <2>3. CASE s # {}
    <3>1. PICK x \in s : TRUE
      BY <2>3
    <3>2. Sum(s) = f[x] + Sum(s \ {x})
      BY <2>1, <3>1, SumRemove
    <3>3. x \notin A /\ (A \cup s) \ {x} = A \cup (s \ {x})
      BY <3>1
    <3>4. Sum(A \cup s) = f[x] + Sum(A \cup (s \ {x}))
      BY <2>1, <3>1, <3>3, SumRemove
    <3>5. Sum(A \cup (s \ {x})) = Sum(A) + Sum(s \ {x})
      BY <1>2, <3>1
    <3>6. f[x] \in Nat /\ Sum(A) \in Nat /\ Sum(s \ {x}) \in Nat
      BY <1>1, <2>1, <3>1, FS_Subset
    <3> HIDE DEF Sum
    <3>7. Sum(A \cup s) = Sum(A) + Sum(s)
      BY <3>2, <3>4, <3>5, <3>6
    <3>8. QED
      BY <3>7
  <2>4. QED
    BY <2>2, <2>3
<1>3. SUBSET B \subseteq T
  <2> HIDE DEF T
  <2>1. QED
    BY <1>2, RemovingElements
<1>4. QED
  BY <1>3

\* Counted by other names.
LEMMA SumRenamed ==
  ASSUME NEW D, NEW f \in [D -> Nat], NEW E, NEW g \in [E -> Nat],
         NEW A \in SUBSET D, NEW B \in SUBSET E, IsFiniteSet(A),
         NEW h \in [A -> B], \A x, y \in A : h[x] = h[y] => x = y,
         \A b \in B : \E x \in A : h[x] = b,
         \A x \in A : f[x] = g[h[x]]
  PROVE  SumFunctionOnSet(f, A) = SumFunctionOnSet(g, B)
<1> DEFINE im == [s \in SUBSET A |-> {h[y] : y \in s}]
           T == {s \in SUBSET A : IsFiniteSet(im[s]) /\
                                  SumFunctionOnSet(f, s) = SumFunctionOnSet(g, im[s])}
<1>1. \A s \in SUBSET A : im[s] = {h[y] : y \in s}
  OBVIOUS
<1> HIDE DEF im
<1>2. ASSUME NEW s \in SUBSET A, \A x \in s : s \ {x} \in T PROVE s \in T
  <2>1. CASE s = {}
    <3>1. im[s] = {}
      BY <1>1, <2>1
    <3>2. QED
      BY <2>1, <3>1, SumEmpty, FS_EmptySet
  <2>2. CASE s # {}
    <3>1. PICK x \in s : TRUE
      BY <2>2
    <3>2. IsFiniteSet(s) /\ s \in SUBSET D
      BY FS_Subset
    <3>3. SumFunctionOnSet(f, s) = f[x] + SumFunctionOnSet(f, s \ {x})
      BY <3>1, <3>2, SumRemove
    <3>4. im[s] = im[s \ {x}] \cup {h[x]} /\ h[x] \notin im[s \ {x}] /\ h[x] \in E
      BY <1>1, <3>1
    <3>5. IsFiniteSet(im[s \ {x}]) /\ im[s \ {x}] \in SUBSET E
      <4>1. s \ {x} \in T
        BY <1>2, <3>1
      <4>2. im[s \ {x}] = {h[y] : y \in s \ {x}}
        BY <1>1
      <4>3. im[s \ {x}] \in SUBSET E
        BY <4>2
      <4>4. QED
        BY <4>1, <4>3
    <3>6. SumFunctionOnSet(f, s \ {x}) = SumFunctionOnSet(g, im[s \ {x}])
      BY <1>2, <3>1
    <3>7. PICK S : S = im[s \ {x}]
      OBVIOUS
    <3>8. SumFunctionOnSet(g, im[s]) = g[h[x]] + SumFunctionOnSet(g, S) /\ IsFiniteSet(im[s])
      <4>1. S \in SUBSET E /\ IsFiniteSet(S) /\ h[x] \in E /\ h[x] \notin S /\ im[s] = S \cup {h[x]}
        BY <3>4, <3>5, <3>7
      <4>2. SumFunctionOnSet(g, S \cup {h[x]}) = g[h[x]] + SumFunctionOnSet(g, S)
        BY <4>1, SumAdd
      <4>3. IsFiniteSet(S \cup {h[x]})
        BY <4>1, FS_AddElement
      <4>4. QED
        BY <4>1, <4>2, <4>3
    <3>9. QED
      BY <3>1, <3>3, <3>6, <3>7, <3>8
  <2>3. QED
    BY <2>1, <2>2
<1>3. SUBSET A \subseteq T
  <2> HIDE DEF T
  <2>1. QED
    BY <1>2, RemovingElements
<1>4. im[A] = B
  <2>1. im[A] = {h[y] : y \in A}
    BY <1>1
  <2>2. QED
    BY <2>1
<1>5. QED
  BY <1>3, <1>4

\* The sum of sums, one for each element.
LEMMA SumPlus ==
  ASSUME NEW D, NEW f \in [D -> Nat], NEW g \in [D -> Nat], NEW h \in [D -> Nat],
         NEW A \in SUBSET D, IsFiniteSet(A), \A x \in A : h[x] = f[x] + g[x]
  PROVE  SumFunctionOnSet(h, A) = SumFunctionOnSet(f, A) + SumFunctionOnSet(g, A)
<1> DEFINE T == {s \in SUBSET A : SumFunctionOnSet(h, s)
                                    = SumFunctionOnSet(f, s) + SumFunctionOnSet(g, s)}
<1>1. ASSUME NEW s \in SUBSET A, \A x \in s : s \ {x} \in T PROVE s \in T
  <2>1. CASE s = {}
    BY <2>1, SumEmpty
  <2>2. CASE s # {}
    <3>1. PICK x \in s : TRUE
      BY <2>2
    <3>2. /\ IsFiniteSet(s) /\ s \in SUBSET D
          /\ IsFiniteSet(s \ {x}) /\ s \ {x} \in SUBSET D
      BY FS_Subset
    <3>3. /\ SumFunctionOnSet(f, s) = f[x] + SumFunctionOnSet(f, s \ {x})
          /\ SumFunctionOnSet(g, s) = g[x] + SumFunctionOnSet(g, s \ {x})
          /\ SumFunctionOnSet(h, s) = h[x] + SumFunctionOnSet(h, s \ {x})
      BY <3>1, <3>2, SumRemove
    <3>4. /\ SumFunctionOnSet(f, s \ {x}) \in Nat /\ SumFunctionOnSet(g, s \ {x}) \in Nat
          /\ f[x] \in Nat /\ g[x] \in Nat
      BY <3>1, <3>2, SumNat
    <3>5. /\ SumFunctionOnSet(h, s \ {x})
               = SumFunctionOnSet(f, s \ {x}) + SumFunctionOnSet(g, s \ {x})
          /\ h[x] = f[x] + g[x]
      BY <1>1, <3>1
    <3>6. QED
      BY <3>3, <3>4, <3>5
  <2>3. QED
    BY <2>1, <2>2
<1>2. SUBSET A \subseteq T
  <2> HIDE DEF T
  <2>1. QED
    BY <1>1, RemovingElements
<1>3. QED
  BY <1>2

\* The sum of sums, one for each part.
LEMMA SumByParts ==
  ASSUME NEW D, NEW f \in [D -> Nat], NEW A \in SUBSET D, IsFiniteSet(A),
         NEW E, NEW g \in [E -> Nat], NEW B \in SUBSET E, IsFiniteSet(B),
         NEW h \in [A -> B],
         \A b \in B : g[b] = SumFunctionOnSet(f, {x \in A : h[x] = b})
  PROVE  SumFunctionOnSet(f, A) = SumFunctionOnSet(g, B)
<1> DEFINE part == [s \in SUBSET B |-> {x \in A : h[x] \in s}]
           T == {s \in SUBSET B : SumFunctionOnSet(f, part[s]) = SumFunctionOnSet(g, s)}
<1>1. \A s \in SUBSET B : part[s] = {x \in A : h[x] \in s}
  OBVIOUS
<1> HIDE DEF part
<1>2. ASSUME NEW s \in SUBSET B, \A b \in s : s \ {b} \in T PROVE s \in T
  <2>1. CASE s = {}
    <3>1. part[s] = {}
      BY <1>1, <2>1
    <3>2. QED
      BY <2>1, <3>1, SumEmpty
  <2>2. CASE s # {}
    <3>1. PICK b \in s : TRUE
      BY <2>2
    <3>2. IsFiniteSet(s) /\ s \in SUBSET E
      BY FS_Subset
    <3>3. SumFunctionOnSet(g, s) = g[b] + SumFunctionOnSet(g, s \ {b})
      BY <3>1, <3>2, SumRemove
    <3>4. PICK P, Q : P = part[s \ {b}] /\ Q = {x \in A : h[x] = b}
      OBVIOUS
    <3>5. part[s] = P \cup Q /\ P \cap Q = {} /\ P \in SUBSET A /\ Q \in SUBSET A
      <4>1. P = {x \in A : h[x] \in s \ {b}} /\ part[s] = {x \in A : h[x] \in s}
        BY <1>1, <3>4
      <4>2. QED
        BY <3>1, <3>4, <4>1
    <3>6. IsFiniteSet(P) /\ IsFiniteSet(Q) /\ P \in SUBSET D /\ Q \in SUBSET D
      <4>1. \A X \in SUBSET A : IsFiniteSet(X)
        BY FS_Subset
      <4>2. P \in SUBSET D /\ Q \in SUBSET D
        BY <3>5
      <4>3. QED
        BY <3>5, <4>1, <4>2
    <3>7. SumFunctionOnSet(f, P \cup Q) = SumFunctionOnSet(f, P) + SumFunctionOnSet(f, Q)
      BY <3>5, <3>6, SumUnion
    <3>8. SumFunctionOnSet(f, P) = SumFunctionOnSet(g, s \ {b}) /\ SumFunctionOnSet(f, Q) = g[b]
      <4>1. s \ {b} \in T
        BY <1>2, <3>1
      <4>2. b \in B
        BY <3>1
      <4>3. QED
        BY <3>4, <4>1, <4>2
    <3>9. SumFunctionOnSet(f, P) \in Nat /\ SumFunctionOnSet(f, Q) \in Nat
      BY <3>6, SumNat
    <3>10. SumFunctionOnSet(f, part[s]) = SumFunctionOnSet(g, s)
      BY <3>3, <3>5, <3>7, <3>8, <3>9
    <3>11. QED
      BY <3>10
  <2>3. QED
    BY <2>1, <2>2
<1>3. SUBSET B \subseteq T
  <2> HIDE DEF T
  <2>1. QED
    BY <1>2, RemovingElements
<1>4. part[B] = A
  <2>1. B \in SUBSET B
    OBVIOUS
  <2>2. QED
    BY <1>1, <2>1
<1>5. QED
  BY <1>3, <1>4

\* A row of the elements of s, the greatest first.
Descends(list, s, v) ==
  list \in SetToSeqs(s) /\ \A i, j \in 1..Cardinality(s) : i < j => v[list[i]] >= v[list[j]]

\* The elements of a finite set can be put in such a row.
LEMMA SortedExists ==
  ASSUME NEW S, IsFiniteSet(S), NEW v \in [S -> Nat]
  PROVE  \E list : Descends(list, S, v)
<1> DEFINE T == {s \in SUBSET S : \E list : Descends(list, s, v)}
<1>1. ASSUME NEW s \in SUBSET S, \A x \in s : s \ {x} \in T PROVE s \in T
  <2>1. CASE s = {}
    <3>1. Cardinality(s) = 0
      BY <2>1, FS_EmptySet
    <3>2. <<>> \in [1..0 -> s]
      OBVIOUS
    <3>3. Descends(<<>>, s, v)
      BY <3>1, <3>2 DEF Descends, SetToSeqs
    <3>4. QED
      BY <3>3
  <2>2. CASE s # {}
    <3>1. PICK m \in s : \A x \in s : v[m] <= v[x]
      <4> DEFINE V == {v[x] : x \in s}
      <4>1. V \subseteq Nat /\ V # {}
        BY <2>2
      <4>2. Min(V) \in V /\ \A y \in V : Min(V) <= y
        <5> HIDE DEF V
        <5>1. QED
          BY <4>1, LeastElement
      <4>3. PICK m \in s : v[m] = Min(V)
        BY <4>2
      <4>4. \A x \in s : v[m] <= v[x]
        BY <4>2, <4>3
      <4>5. QED
        BY <4>4
    <3>2. PICK n \in Nat : n = Cardinality(s \ {m})
      BY FS_Subset, FS_CardinalityType
    <3>3. Cardinality(s) = n + 1
      <4>1. IsFiniteSet(s)
        BY FS_Subset
      <4>2. Cardinality(s \ {m}) = Cardinality(s) - 1 /\ Cardinality(s) \in Nat
        BY <3>1, <4>1, FS_RemoveElement, FS_CardinalityType
      <4>3. QED
        BY <3>2, <4>2
    <3>4. PICK list : Descends(list, s \ {m}, v)
      BY <1>1, <3>1
    <3>5. /\ list \in [1..n -> s \ {m}] /\ \A i, j \in 1..n : i # j => list[i] # list[j]
          /\ \A i, j \in 1..n : i < j => v[list[i]] >= v[list[j]]
      BY <3>2, <3>4 DEF Descends, SetToSeqs
    <3> DEFINE longer == [i \in 1..(n + 1) |-> IF i = n + 1 THEN m ELSE list[i]]
    <3>6. \A i \in 1..(n + 1) : i # n + 1 => i \in 1..n
      OBVIOUS
    <3>7. longer \in [1..(n + 1) -> s]
      BY <3>1, <3>5, <3>6
    <3>8. ASSUME NEW i \in 1..(n + 1), NEW j \in 1..(n + 1), i # j PROVE longer[i] # longer[j]
      BY <3>5, <3>6, <3>8
    <3>9. ASSUME NEW i \in 1..(n + 1), NEW j \in 1..(n + 1), i < j
          PROVE  v[longer[i]] >= v[longer[j]]
      <4>1. i \in 1..n /\ longer[i] = list[i] /\ list[i] \in s
        BY <3>5, <3>9
      <4>2. CASE j = n + 1
        <5>1. longer[j] = m /\ v[m] <= v[list[i]] /\ v[m] \in Nat /\ v[list[i]] \in Nat
          BY <3>1, <4>1, <4>2
        <5> HIDE DEF longer
        <5>2. QED
          BY <4>1, <5>1
      <4>3. CASE j # n + 1
        <5>1. j \in 1..n /\ longer[j] = list[j]
          BY <4>3
        <5> HIDE DEF longer
        <5>2. QED
          BY <3>5, <3>9, <4>1, <5>1
      <4>4. QED
        BY <4>2, <4>3
    <3> HIDE DEF longer
    <3>10. Descends(longer, s, v)
      BY <3>3, <3>7, <3>8, <3>9 DEF Descends, SetToSeqs
    <3>11. QED
      BY <3>10
  <2>3. QED
    BY <2>1, <2>2
<1>2. SUBSET S \subseteq T
  <2> HIDE DEF T
  <2>1. QED
    BY <1>1, RemovingElements
<1>3. QED
  BY <1>2

-----------------------------------------------------------------------------
(***************************************************************************)
(* What the wallet is worth.                                               *)
(***************************************************************************)
Fields == {"pc", "batches", "queue", "i", "k", "n", "sum", "still", "whole"}

Stages == {"liquid", "stake", "reward", "v2", "v3", "v4", "build"}

\* The loops a pass is through with.
Through ==
  [liquid |-> {}, stake |-> {"liquid"}, reward |-> {"liquid", "stake"},
   v2 |-> {"liquid", "stake", "reward"}, v3 |-> {"liquid", "stake", "reward", "v2"},
   v4 |-> {"liquid", "stake", "reward", "v2", "v3"},
   build |-> {"liquid", "stake", "reward", "v2", "v3", "v4"}]

\* The list that a loop goes over.
ListOf == [stake |-> "staking", reward |-> "staking", v2 |-> "v2", v3 |-> "v3", v4 |-> "v4"]

\* Where in its list a loop has been.
Been(r, stage) ==
  IF stage \in Through[r.pc] THEN Kept(ListOf[stage])
  ELSE IF r.pc = stage THEN 1..(r.i - 1) ELSE {}

\* Of a position, the first reward may have been read and the second not.
BeenTwice(r, stage) ==
  (Been(r, stage) \X (1..2)) \cup (IF r.pc = stage /\ r.k = 2 THEN {<<r.i, 1>>} ELSE {})

\* The liquid places that a pass is to read, or has asked for.
Awaited(r) ==
  Range(r.queue) \cup LiquidOf(UNION {b.tokens : b \in Range(r.batches)})

\* What is where a pass has been.
LiquidSoFar(r, t) ==
  IF t \in tokens \ ignored THEN SumOf(LiquidOf({t}) \ Awaited(r)) ELSE 0
StakedSoFar(r, t) ==
  IF t \in tokens THEN StakedIn(Been(r, "stake"), t) + RewardsIn(BeenTwice(r, "reward"), t)
  ELSE 0
PooledSoFar(r, t) ==
  IF t \in tokens
  THEN PooledIn("v2", Been(r, "v2") \X (1..2), t)
       + PooledIn("v3", Been(r, "v3") \X (1..2), t)
       + PooledIn("v4", Been(r, "v4") \X (1..2), t)
  ELSE 0

\* Where a pass is.
OnItsWay(r) ==
  /\ r.pc \in Stages
  /\ r.i \in Nat \ {0} /\ r.n \in Nat /\ r.i <= r.n + 1
  /\ r.pc \in {"stake", "reward", "v2", "v3", "v4"} => r.n = lists[ListOf[r.pc]].n
  /\ r.k \in 1..2 /\ (r.k = 2 => r.pc = "reward" /\ r.i <= r.n)

\* What it is still to ask for: each place once.
Asks(r) ==
  /\ r.queue \in Seq(LiquidOf(tokens \ ignored))
  /\ IsInjective(r.queue)
  /\ r.batches \in Seq(Batches) /\ IsInjective(r.batches)
  /\ \A i \in DOMAIN r.queue, j \in DOMAIN r.batches : TokenAt(r.queue[i]) \notin r.batches[j].tokens
  /\ r.pc # "liquid" => r.queue = <<>> /\ r.batches = <<>>

SoFar(r, t) ==
  [liquid |-> LiquidSoFar(r, t), staked |-> StakedSoFar(r, t), lp |-> PooledSoFar(r, t)]

\* What it has added up: what there is where it has been, or less after a read that failed.
Counted(r) ==
  /\ r.sum \in [Columns -> [Tokens -> Nat]]
  /\ \A c \in Columns, t \in Tokens : /\ r.sum[c][t] <= SoFar(r, t)[c]
                                      /\ r.whole => r.sum[c][t] = SoFar(r, t)[c]

PassTrue(r) == OnItsWay(r) /\ Asks(r) /\ Counted(r)

\* The lists the wallet has, of each position once.
ListsSound ==
  /\ lists \in [Lists -> [a : UNION {Seq(OfList(l)) : l \in Lists}, n : Nat]]
  /\ \A l \in Lists : /\ lists[l].a \in Seq(OfList(l)) /\ lists[l].n <= Len(lists[l].a)
                      /\ \A i, j \in Kept(l) : At(l, i) = At(l, j) => i = j

PassesTrue ==
  \A u \in Passes : /\ DOMAIN pass[u] = Fields
                    /\ pass[u].pc # "rest" /\ pass[u].still => PassTrue(pass[u])

WorthInv ==
  /\ held \in [Places -> Nat] /\ ListsSound
  /\ DOMAIN pass = Passes /\ PassesTrue

\* What a pass is to be depends on the tokens, the lists and what is held.
LEMMA PassKept ==
  ASSUME UNCHANGED <<tokens, walletVars>>, NEW r, PassTrue(r)
  PROVE  PassTrue(r)'
<1>1. tokens' = tokens /\ ignored' = ignored /\ lists' = lists /\ held' = held
  BY DEF walletVars
<1>2. OnItsWay(r)'
  BY <1>1 DEF PassTrue, OnItsWay
<1>3. Asks(r)'
  BY <1>1 DEF PassTrue, Asks, Batches, Batch
<1>4. \A t : LiquidSoFar(r, t)' = LiquidSoFar(r, t)
  BY <1>1 DEF LiquidSoFar, Awaited, SumOf
<1>5. \A t : StakedSoFar(r, t)' = StakedSoFar(r, t)
  BY <1>1 DEF StakedSoFar, Been, BeenTwice, Kept, StakedIn, RewardsIn, Earns, getPending, At
<1>6. \A t : PooledSoFar(r, t)' = PooledSoFar(r, t)
  BY <1>1 DEF PooledSoFar, Been, Kept, PooledIn, AmountOf, Share, Earning, SumOf, At
<1>7. Counted(r)'
  BY <1>4, <1>5, <1>6 DEF PassTrue, Counted, SoFar
<1>8. QED
  BY <1>2, <1>3, <1>7 DEF PassTrue

\* The lists stay sound while nothing is removed.
LEMMA ListsKept ==
  ASSUME UNCHANGED walletVars, ListsSound PROVE ListsSound'
BY DEF walletVars, ListsSound, At, Kept

\* A pass that goes on as it should, beside others.
LEMMA PassGoesOn ==
  ASSUME UNCHANGED <<tokens, walletVars>>, WorthInv,
         NEW u \in Passes, NEW s, pass' = [pass EXCEPT ![u] = s], DOMAIN s = Fields,
         s.pc # "rest" /\ s.still => PassTrue(s)
  PROVE  WorthInv'
<1>1. held' \in [Places -> Nat] /\ ListsSound'
  BY ListsKept DEF WorthInv, walletVars
<1>2. DOMAIN pass' = Passes /\ pass'[u] = s /\ \A x \in Passes \ {u} : pass'[x] = pass[x]
  BY DEF WorthInv
<1>3. ASSUME NEW x \in Passes, pass'[x].pc # "rest", pass'[x].still PROVE PassTrue(pass[x])'
  <2>1. PassTrue(pass'[x])
    BY <1>2, <1>3 DEF WorthInv, PassesTrue
  <2>2. PICK r : r = pass'[x]
    OBVIOUS
  <2>3. PassTrue(r)'
    BY <2>1, <2>2, PassKept
  <2>4. QED
    BY <2>2, <2>3
<1>4. PassesTrue'
  BY <1>2, <1>3 DEF WorthInv, PassesTrue
<1>5. QED
  BY <1>1, <1>2, <1>4 DEF WorthInv

Versions == {"v2", "v3", "v4"}

\* What the tables read at each place of a list.
StakeAt == [i \in Kept("staking") |-> held[Stake(At("staking", i))]]
RewardAt == [x \in Kept("staking") \X (1..2) |-> held[getPending(At("staking", x[1]), x[2])]]
PoolAt(l) == [x \in Kept(l) \X (1..2) |-> AmountOf(l, At(l, x[1]), x[2])]
\* The token at a place of each kind.
LEMMA TokenAtIs ==
  /\ \A a, t : TokenAt(Liquid(a, t)) = t
  /\ \A p : TokenAt(Stake(p)) = Staked[p].token
  /\ \A p, k : TokenAt(Reward(p, k)) = Staked[p].rewards[k]
  /\ \A p, k : TokenAt(Liquidity(p, k)) = Pools[p].tokens[k]
  /\ \A p, k : TokenAt(Gain(p, k)) = Pools[p].tokens[k]
  /\ \A p, k : TokenAt(Owed(p, k)) = Pools[p].tokens[k]
BY DEF TokenAt, Liquid, Stake, Reward, Liquidity, Gain, Owed

\* The places there are.
LEMMA PlacesAre ==
  /\ \A a \in Addresses, t \in Tokens : Liquid(a, t) \in Places
  /\ \A p \in DOMAIN Staked : Stake(p) \in Places
  /\ \A p \in DOMAIN Staked, k \in 1..2 : Reward(p, k) \in Places
  /\ \A p \in DOMAIN Pools, k \in 1..2 : Liquidity(p, k) \in Places /\ Gain(p, k) \in Places
BY DEF Places

\* Where tokens are liquid: on each address.
LEMMA LiquidAre ==
  \A T, y : y \in LiquidOf(T) <=> \E a \in Addresses, t \in T : y = Liquid(a, t)
BY DEF LiquidOf

\* What is in a range.
LEMMA RangeIs ==
  \A f, y : y \in Range(f) <=> \E i \in DOMAIN f : y = f[i]
BY DEF Range

\* The numbers up to one.
LEMMA UpToFinite ==
  ASSUME NEW n \in Nat PROVE IsFiniteSet(1..n)
<1>1. 1 \in Int /\ n \in Int
  OBVIOUS
<1>2. QED
  BY <1>1, FS_Interval

\* What a finite set is mapped onto.
LEMMA ImageFinite ==
  ASSUME NEW A, IsFiniteSet(A), NEW B, NEW f \in [A -> B], \A b \in B : \E a \in A : f[a] = b
  PROVE  IsFiniteSet(B)
<1>1. f \in Surjection(A, B)
  BY DEF Surjection
<1>2. QED
  BY <1>1, FS_Surjection

\* Two finite sets.
LEMMA BothFinite ==
  ASSUME NEW A, NEW B, IsFiniteSet(A), IsFiniteSet(B) PROVE IsFiniteSet(A \cup B)
BY FS_Union

\* A wallet has finitely many places.
LEMMA PlacesFinite == IsFiniteSet(Places)
<1>1. IsFiniteSet(1..2)
  BY UpToFinite
<1>2. /\ IsFiniteSet(Addresses) /\ IsFiniteSet(Tokens)
      /\ IsFiniteSet(DOMAIN Staked) /\ IsFiniteSet(DOMAIN Pools)
  BY WalletIsFinite
<1>3. \A A, B : IsFiniteSet(A) /\ IsFiniteSet(B) => IsFiniteSet(A \X B)
  BY FS_Product
<1>4. IsFiniteSet({Liquid(a, t) : a \in Addresses, t \in Tokens})
  <2>1. PICK f : f = [x \in Addresses \X Tokens |-> Liquid(x[1], x[2])]
    OBVIOUS
  <2>2. f \in [Addresses \X Tokens -> {Liquid(a, t) : a \in Addresses, t \in Tokens}]
    BY <2>1
  <2>3. \A b \in {Liquid(a, t) : a \in Addresses, t \in Tokens} :
           \E x \in Addresses \X Tokens : f[x] = b
    <3>1. SUFFICES ASSUME NEW y \in {Liquid(a, t) : a \in Addresses, t \in Tokens}
                   PROVE  \E x \in Addresses \X Tokens : f[x] = y
      OBVIOUS
    <3>2. PICK a \in Addresses, t \in Tokens : y = Liquid(a, t)
      OBVIOUS
    <3>3. <<a, t>> \in Addresses \X Tokens /\ f[<<a, t>>] = Liquid(a, t)
      BY <2>1
    <3>4. QED
      BY <3>2, <3>3
  <2>4. IsFiniteSet(Addresses \X Tokens)
    BY <1>2, <1>3
  <2>5. QED
    BY <2>2, <2>3, <2>4, ImageFinite
<1>5. IsFiniteSet({Stake(p) : p \in DOMAIN Staked})
  <2>1. PICK f : f = [x \in DOMAIN Staked |-> Stake(x)]
    OBVIOUS
  <2>2. /\ f \in [DOMAIN Staked -> {Stake(p) : p \in DOMAIN Staked}]
        /\ \A b \in {Stake(p) : p \in DOMAIN Staked} : \E x \in DOMAIN Staked : f[x] = b
    BY <2>1
  <2>3. QED
    BY <1>2, <2>2, ImageFinite
<1>6. IsFiniteSet({Reward(p, k) : p \in DOMAIN Staked, k \in 1..2})
  <2>1. PICK f : f = [x \in (DOMAIN Staked) \X (1..2) |-> Reward(x[1], x[2])]
    OBVIOUS
  <2>2. f \in [(DOMAIN Staked) \X (1..2) -> {Reward(p, k) : p \in DOMAIN Staked, k \in 1..2}]
    BY <2>1
  <2>3. \A b \in {Reward(p, k) : p \in DOMAIN Staked, k \in 1..2} :
           \E x \in (DOMAIN Staked) \X (1..2) : f[x] = b
    <3>1. SUFFICES ASSUME NEW y \in {Reward(p, k) : p \in DOMAIN Staked, k \in 1..2}
                   PROVE  \E x \in (DOMAIN Staked) \X (1..2) : f[x] = y
      OBVIOUS
    <3>2. PICK p \in DOMAIN Staked, k \in 1..2 : y = Reward(p, k)
      OBVIOUS
    <3>3. <<p, k>> \in (DOMAIN Staked) \X (1..2) /\ f[<<p, k>>] = Reward(p, k)
      BY <2>1
    <3>4. QED
      BY <3>2, <3>3
  <2>4. IsFiniteSet((DOMAIN Staked) \X (1..2))
    BY <1>1, <1>2, <1>3
  <2>5. QED
    BY <2>2, <2>3, <2>4, ImageFinite
<1>7. IsFiniteSet({Liquidity(p, k) : p \in DOMAIN Pools, k \in 1..2})
  <2>1. PICK f : f = [x \in (DOMAIN Pools) \X (1..2) |-> Liquidity(x[1], x[2])]
    OBVIOUS
  <2>2. f \in [(DOMAIN Pools) \X (1..2) -> {Liquidity(p, k) : p \in DOMAIN Pools, k \in 1..2}]
    BY <2>1
  <2>3. \A b \in {Liquidity(p, k) : p \in DOMAIN Pools, k \in 1..2} :
           \E x \in (DOMAIN Pools) \X (1..2) : f[x] = b
    <3>1. SUFFICES ASSUME NEW y \in {Liquidity(p, k) : p \in DOMAIN Pools, k \in 1..2}
                   PROVE  \E x \in (DOMAIN Pools) \X (1..2) : f[x] = y
      OBVIOUS
    <3>2. PICK p \in DOMAIN Pools, k \in 1..2 : y = Liquidity(p, k)
      OBVIOUS
    <3>3. <<p, k>> \in (DOMAIN Pools) \X (1..2) /\ f[<<p, k>>] = Liquidity(p, k)
      BY <2>1
    <3>4. QED
      BY <3>2, <3>3
  <2>4. IsFiniteSet((DOMAIN Pools) \X (1..2))
    BY <1>1, <1>2, <1>3
  <2>5. QED
    BY <2>2, <2>3, <2>4, ImageFinite
<1>8. IsFiniteSet({Gain(p, k) : p \in DOMAIN Pools, k \in 1..2})
  <2>1. PICK f : f = [x \in (DOMAIN Pools) \X (1..2) |-> Gain(x[1], x[2])]
    OBVIOUS
  <2>2. f \in [(DOMAIN Pools) \X (1..2) -> {Gain(p, k) : p \in DOMAIN Pools, k \in 1..2}]
    BY <2>1
  <2>3. \A b \in {Gain(p, k) : p \in DOMAIN Pools, k \in 1..2} :
           \E x \in (DOMAIN Pools) \X (1..2) : f[x] = b
    <3>1. SUFFICES ASSUME NEW y \in {Gain(p, k) : p \in DOMAIN Pools, k \in 1..2}
                   PROVE  \E x \in (DOMAIN Pools) \X (1..2) : f[x] = y
      OBVIOUS
    <3>2. PICK p \in DOMAIN Pools, k \in 1..2 : y = Gain(p, k)
      OBVIOUS
    <3>3. <<p, k>> \in (DOMAIN Pools) \X (1..2) /\ f[<<p, k>>] = Gain(p, k)
      BY <2>1
    <3>4. QED
      BY <3>2, <3>3
  <2>4. IsFiniteSet((DOMAIN Pools) \X (1..2))
    BY <1>1, <1>2, <1>3
  <2>5. QED
    BY <2>2, <2>3, <2>4, ImageFinite
<1>9. IsFiniteSet({Owed(p, k) : p \in DOMAIN Pools, k \in 1..2})
  <2>1. PICK f : f = [x \in (DOMAIN Pools) \X (1..2) |-> Owed(x[1], x[2])]
    OBVIOUS
  <2>2. f \in [(DOMAIN Pools) \X (1..2) -> {Owed(p, k) : p \in DOMAIN Pools, k \in 1..2}]
    BY <2>1
  <2>3. \A b \in {Owed(p, k) : p \in DOMAIN Pools, k \in 1..2} :
           \E x \in (DOMAIN Pools) \X (1..2) : f[x] = b
    <3>1. SUFFICES ASSUME NEW y \in {Owed(p, k) : p \in DOMAIN Pools, k \in 1..2}
                   PROVE  \E x \in (DOMAIN Pools) \X (1..2) : f[x] = y
      OBVIOUS
    <3>2. PICK p \in DOMAIN Pools, k \in 1..2 : y = Owed(p, k)
      OBVIOUS
    <3>3. <<p, k>> \in (DOMAIN Pools) \X (1..2) /\ f[<<p, k>>] = Owed(p, k)
      BY <2>1
    <3>4. QED
      BY <3>2, <3>3
  <2>4. IsFiniteSet((DOMAIN Pools) \X (1..2))
    BY <1>1, <1>2, <1>3
  <2>5. QED
    BY <2>2, <2>3, <2>4, ImageFinite
<1>10. QED
  <2>1. IsFiniteSet({Liquid(a, t) : a \in Addresses, t \in Tokens} \cup {Stake(p) : p \in DOMAIN Staked})
    BY ONLY <1>4, <1>5, BothFinite
  <2>2. IsFiniteSet({Liquid(a, t) : a \in Addresses, t \in Tokens} \cup {Stake(p) : p \in DOMAIN Staked}
                    \cup {Reward(p, k) : p \in DOMAIN Staked, k \in 1..2})
    BY ONLY <2>1, <1>6, BothFinite
  <2>3. IsFiniteSet({Liquid(a, t) : a \in Addresses, t \in Tokens} \cup {Stake(p) : p \in DOMAIN Staked}
                    \cup {Reward(p, k) : p \in DOMAIN Staked, k \in 1..2}
                    \cup {Liquidity(p, k) : p \in DOMAIN Pools, k \in 1..2})
    BY ONLY <2>2, <1>7, BothFinite
  <2>4. IsFiniteSet({Liquid(a, t) : a \in Addresses, t \in Tokens} \cup {Stake(p) : p \in DOMAIN Staked}
                    \cup {Reward(p, k) : p \in DOMAIN Staked, k \in 1..2}
                    \cup {Liquidity(p, k) : p \in DOMAIN Pools, k \in 1..2}
                    \cup {Gain(p, k) : p \in DOMAIN Pools, k \in 1..2})
    BY ONLY <2>3, <1>8, BothFinite
  <2>5. IsFiniteSet({Liquid(a, t) : a \in Addresses, t \in Tokens} \cup {Stake(p) : p \in DOMAIN Staked}
                    \cup {Reward(p, k) : p \in DOMAIN Staked, k \in 1..2}
                    \cup {Liquidity(p, k) : p \in DOMAIN Pools, k \in 1..2}
                    \cup {Gain(p, k) : p \in DOMAIN Pools, k \in 1..2}
                    \cup {Owed(p, k) : p \in DOMAIN Pools, k \in 1..2})
    BY ONLY <2>4, <1>9, BothFinite
  <2>6. QED
    BY ONLY <2>5 DEF Places

\* What is at some places.
LEMMA SumOfNat ==
  ASSUME held \in [Places -> Nat], NEW P \in SUBSET Places
  PROVE  SumOf(P) \in Nat /\ IsFiniteSet(P)
<1>1. IsFiniteSet(P)
  BY PlacesFinite, FS_Subset
<1>2. QED
  BY <1>1, SumNat DEF SumOf

\* What is at one place.
LEMMA SumOfOne ==
  ASSUME held \in [Places -> Nat], NEW x \in Places
  PROVE  SumOf({x}) = held[x]
<1>1. SumFunctionOnSet(held, {} \cup {x}) = held[x] + SumFunctionOnSet(held, {})
  <2>1. IsFiniteSet({}) /\ {} \in SUBSET Places /\ x \notin {}
    BY FS_EmptySet
  <2>2. QED
    BY <2>1, SumAdd
<1>2. SumFunctionOnSet(held, {}) = 0
  BY SumEmpty
<1>3. {} \cup {x} = {x} /\ held[x] \in Nat
  OBVIOUS
<1>4. QED
  BY <1>1, <1>2, <1>3 DEF SumOf

\* What is at places of two kinds.
LEMMA SumOfUnion ==
  ASSUME held \in [Places -> Nat], NEW P \in SUBSET Places, NEW Q \in SUBSET Places, P \cap Q = {}
  PROVE  SumOf(P \cup Q) = SumOf(P) + SumOf(Q)
<1>1. IsFiniteSet(P) /\ IsFiniteSet(Q)
  BY SumOfNat
<1>2. QED
  BY <1>1, SumUnion DEF SumOf

\* One place more in a sum over some places of a list.
LEMMA SumStep ==
  ASSUME NEW D, NEW f \in [D -> Nat], NEW A \in SUBSET D, IsFiniteSet(A), NEW x \in D, x \notin A, NEW P
  PROVE  /\ SumFunctionOnSet(f, (A \cup {x}) \cap P)
              = SumFunctionOnSet(f, A \cap P) + (IF x \in P THEN f[x] ELSE 0)
         /\ SumFunctionOnSet(f, A \cap P) \in Nat
<1>1. IsFiniteSet(A \cap P) /\ A \cap P \in SUBSET D
  BY FS_Subset
<1>2. SumFunctionOnSet(f, A \cap P) \in Nat
  BY <1>1, SumNat
<1>3. CASE x \in P
  <2>1. (A \cup {x}) \cap P = (A \cap P) \cup {x} /\ x \notin A \cap P
    BY <1>3
  <2>2. SumFunctionOnSet(f, (A \cap P) \cup {x}) = f[x] + SumFunctionOnSet(f, A \cap P)
    BY <1>1, <2>1, SumAdd
  <2>3. f[x] \in Nat
    OBVIOUS
  <2>4. QED
    BY <1>2, <1>3, <2>1, <2>2, <2>3
<1>4. CASE x \notin P
  <2>1. (A \cup {x}) \cap P = A \cap P
    BY <1>4
  <2>2. SumFunctionOnSet(f, (A \cup {x}) \cap P) = SumFunctionOnSet(f, A \cap P)
    BY ONLY <2>1
  <2>3. (IF x \in P THEN f[x] ELSE 0) = 0
    BY <1>4
  <2>4. QED
    BY ONLY <1>2, <2>2, <2>3
<1>5. QED
  BY <1>3, <1>4

\* A sum does not depend on where else its function is defined.
LEMMA SumOver ==
  ASSUME NEW D, NEW f \in [D -> Nat], NEW A \in SUBSET D, IsFiniteSet(A), NEW g \in [A -> Nat],
         \A x \in A : g[x] = f[x], NEW P \in SUBSET A
  PROVE  SumFunctionOnSet(g, P) = SumFunctionOnSet(f, P)
<1>1. IsFiniteSet(P)
  BY FS_Subset
<1>2. P \in SUBSET D /\ \A x \in P : g[x] = f[x]
  OBVIOUS
<1>3. QED
  BY <1>1, <1>2, SumSame

\* The places of a list have positions that the list may have.
LEMMA KeptAre ==
  ASSUME ListsSound, NEW l \in Lists
  PROVE  /\ lists[l].n \in Nat /\ IsFiniteSet(Kept(l))
         /\ \A i \in Kept(l) : At(l, i) \in OfList(l)
<1>1. lists[l].n \in Nat /\ lists[l].n <= Len(lists[l].a) /\ lists[l].a \in Seq(OfList(l))
  BY DEF ListsSound
<1>2. IsFiniteSet(Kept(l))
  BY <1>1, UpToFinite DEF Kept
<1>3. \A i \in Kept(l) : i \in 1..Len(lists[l].a)
  BY <1>1 DEF Kept
<1>4. QED
  BY <1>1, <1>2, <1>3 DEF At

\* The staking positions and what is read of them.
LEMMA StakesAre ==
  ASSUME ListsSound, held \in [Places -> Nat]
  PROVE  /\ \A i \in Kept("staking") : At("staking", i) \in DOMAIN Staked
         /\ IsFiniteSet(Kept("staking"))
         /\ StakeAt \in [Kept("staking") -> Nat]
         /\ RewardAt \in [Kept("staking") \X (1..2) -> Nat]
         /\ IsFiniteSet(Kept("staking") \X (1..2))
<1>1. \A i \in Kept("staking") : At("staking", i) \in DOMAIN Staked
  BY KeptAre DEF Lists, OfList
<1>2. IsFiniteSet(Kept("staking"))
  BY KeptAre DEF Lists
<1>3. \A i \in Kept("staking") : held[Stake(At("staking", i))] \in Nat
  BY <1>1, PlacesAre
<1>4. \A x \in Kept("staking") \X (1..2) : held[getPending(At("staking", x[1]), x[2])] \in Nat
  <2>1. ASSUME NEW x \in Kept("staking") \X (1..2)
        PROVE  held[getPending(At("staking", x[1]), x[2])] \in Nat
    <3>1. At("staking", x[1]) \in DOMAIN Staked
      BY <1>1
    <3>2. PICK p \in DOMAIN Staked : p = At("staking", x[1])
      BY <3>1
    <3>3. Reward(p, 1) \in Places /\ Reward(p, 2) \in Places
      BY PlacesAre
    <3>4. getPending(p, x[2]) \in Places
      BY <3>3 DEF getPending
    <3>5. QED
      BY <3>2, <3>4
  <2>2. QED
    BY <2>1
<1>5. IsFiniteSet(Kept("staking") \X (1..2))
  <2>1. IsFiniteSet(1..2)
    BY UpToFinite
  <2>2. QED
    BY <1>2, <2>1, FS_Product
<1>6. QED
  BY <1>1, <1>2, <1>3, <1>4, <1>5 DEF StakeAt, RewardAt

\* The liquidity positions of a version and what is read of them.
LEMMA PoolsAre ==
  ASSUME ListsSound, held \in [Places -> Nat], NEW l \in Versions
  PROVE  /\ \A i \in Kept(l) : At(l, i) \in DOMAIN Pools /\ Pools[At(l, i)].version = l
         /\ PoolAt(l) \in [Kept(l) \X (1..2) -> Nat]
         /\ IsFiniteSet(Kept(l)) /\ IsFiniteSet(Kept(l) \X (1..2))
<1>1. l \in Lists /\ l # "staking"
  BY DEF Lists, Versions
<1>2. \A i \in Kept(l) : At(l, i) \in DOMAIN Pools /\ Pools[At(l, i)].version = l
  BY <1>1, KeptAre DEF OfList
<1>3. \A p \in DOMAIN Pools, k \in 1..2 : Share(p, k) \in Nat /\ Earning(p, k) \in Nat
  <2>1. SUFFICES ASSUME NEW p \in DOMAIN Pools, NEW k \in 1..2
                 PROVE  Share(p, k) \in Nat /\ Earning(p, k) \in Nat
    OBVIOUS
  <2>2. {Liquidity(p, k)} \in SUBSET Places /\ {Liquidity(p, k), Gain(p, k)} \in SUBSET Places
    BY PlacesAre
  <2>3. QED
    BY <2>2, SumOfNat DEF Share, Earning
<1>4. IsFiniteSet(Kept(l))
  BY <1>1, KeptAre
<1>5. IsFiniteSet(Kept(l) \X (1..2))
  <2>1. IsFiniteSet(1..2)
    BY UpToFinite
  <2>2. QED
    BY <1>4, <2>1, FS_Product
<1>6. PoolAt(l) \in [Kept(l) \X (1..2) -> Nat]
  BY <1>2, <1>3 DEF PoolAt, AmountOf
<1>7. QED
  BY <1>2, <1>4, <1>5, <1>6

StakesOf(t) == {i \in Kept("staking") : Staked[At("staking", i)].token = t}
RewardsOf(t) == {x \in Kept("staking") \X (1..2) : Earns(x, t)}
PoolsOf(l, t) == {x \in Kept(l) \X (1..2) : Pools[At(l, x[1])].tokens[x[2]] = t}

\* What a table reads of the stakes at some places of the list.
LEMMA StakedIs ==
  ASSUME ListsSound, held \in [Places -> Nat], NEW t, NEW I \in SUBSET Kept("staking")
  PROVE  StakedIn(I, t) = SumFunctionOnSet(StakeAt, I \cap StakesOf(t)) /\ IsFiniteSet(I)
<1>1. IsFiniteSet(I)
  BY StakesAre, FS_Subset
<1>2. PICK g : g = [i \in I |-> held[Stake(At("staking", i))]]
  OBVIOUS
<1>3. StakeAt \in [Kept("staking") -> Nat]
  BY StakesAre
<1>4. g \in [I -> Nat] /\ \A i \in I : g[i] = StakeAt[i]
  BY <1>2, <1>3 DEF StakeAt
<1>5. I \cap StakesOf(t) = {i \in I : Staked[At("staking", i)].token = t}
  BY DEF StakesOf
<1>6. I \cap StakesOf(t) \in SUBSET I
  OBVIOUS
<1>7. SumFunctionOnSet(g, I \cap StakesOf(t)) = SumFunctionOnSet(StakeAt, I \cap StakesOf(t))
  BY <1>1, <1>3, <1>4, <1>6, SumOver
<1>8. StakedIn(I, t) = SumFunctionOnSet(g, I \cap StakesOf(t))
  BY <1>2, <1>5 DEF StakedIn
<1>9. QED
  BY <1>1, <1>7, <1>8

\* What it reads of the rewards.
LEMMA RewardsIs ==
  ASSUME ListsSound, held \in [Places -> Nat], NEW t, NEW X \in SUBSET (Kept("staking") \X (1..2))
  PROVE  RewardsIn(X, t) = SumFunctionOnSet(RewardAt, X \cap RewardsOf(t)) /\ IsFiniteSet(X)
<1>1. IsFiniteSet(X)
  BY StakesAre, FS_Subset
<1>2. PICK g : g = [x \in X |-> held[getPending(At("staking", x[1]), x[2])]]
  OBVIOUS
<1>3. RewardAt \in [Kept("staking") \X (1..2) -> Nat]
  BY StakesAre
<1>4. g \in [X -> Nat] /\ \A i \in X : g[i] = RewardAt[i]
  BY <1>2, <1>3 DEF RewardAt
<1>5. X \cap RewardsOf(t) = {x \in X : Earns(x, t)}
  BY DEF RewardsOf
<1>6. X \cap RewardsOf(t) \in SUBSET X
  OBVIOUS
<1>7. SumFunctionOnSet(g, X \cap RewardsOf(t)) = SumFunctionOnSet(RewardAt, X \cap RewardsOf(t))
  BY <1>1, <1>3, <1>4, <1>6, SumOver
<1>8. RewardsIn(X, t) = SumFunctionOnSet(g, X \cap RewardsOf(t))
  BY <1>2, <1>5 DEF RewardsIn
<1>9. QED
  BY <1>1, <1>7, <1>8

\* What it reads of the pools of a version.
LEMMA PooledAre ==
  ASSUME ListsSound, held \in [Places -> Nat], NEW t
  PROVE  \A l \in Versions : \A X \in SUBSET (Kept(l) \X (1..2)) :
           PooledIn(l, X, t) = SumFunctionOnSet(PoolAt(l), X \cap PoolsOf(l, t))
<1>1. SUFFICES ASSUME NEW l \in Versions, NEW X \in SUBSET (Kept(l) \X (1..2))
               PROVE  PooledIn(l, X, t) = SumFunctionOnSet(PoolAt(l), X \cap PoolsOf(l, t))
  OBVIOUS
<1>2. PICK g : g = [x \in X |-> AmountOf(l, At(l, x[1]), x[2])]
  OBVIOUS
<1>3. IsFiniteSet(X)
  BY PoolsAre, FS_Subset
<1>4. PoolAt(l) \in [Kept(l) \X (1..2) -> Nat]
  BY PoolsAre
<1>5. \A x \in X : g[x] = PoolAt(l)[x]
  BY <1>2 DEF PoolAt
<1>6. g \in [X -> Nat]
  BY <1>2, <1>4, <1>5
<1>7. X \cap PoolsOf(l, t) = {x \in X : Pools[At(l, x[1])].tokens[x[2]] = t}
  BY DEF PoolsOf
<1>8. X \cap PoolsOf(l, t) \in SUBSET X
  OBVIOUS
<1>9. SumFunctionOnSet(g, X \cap PoolsOf(l, t)) = SumFunctionOnSet(PoolAt(l), X \cap PoolsOf(l, t))
  BY <1>3, <1>4, <1>5, <1>6, <1>8, SumOver
<1>10. PooledIn(l, X, t) = SumFunctionOnSet(g, X \cap PoolsOf(l, t))
  BY <1>2, <1>7 DEF PooledIn
<1>11. QED
  BY <1>9, <1>10

\* A loop has been at places of its list only.
LEMMA BeenKept ==
  ASSUME ListsSound, NEW r, OnItsWay(r)
  PROVE  /\ Been(r, "stake") \in SUBSET Kept("staking")
         /\ BeenTwice(r, "reward") \in SUBSET (Kept("staking") \X (1..2))
         /\ \A l \in Versions : Been(r, l) \in SUBSET Kept(l)
<1>1. \A stage \in {"stake", "reward", "v2", "v3", "v4"} : Been(r, stage) \in SUBSET Kept(ListOf[stage])
  <2>1. ASSUME NEW stage \in {"stake", "reward", "v2", "v3", "v4"}, r.pc = stage
        PROVE  1..(r.i - 1) \subseteq Kept(ListOf[stage])
    BY <2>1 DEF OnItsWay, Kept
  <2>2. QED
    BY <2>1 DEF Been
<1>2. /\ ListOf["stake"] = "staking" /\ ListOf["reward"] = "staking"
      /\ \A l \in Versions : ListOf[l] = l /\ l \in {"stake", "reward", "v2", "v3", "v4"}
  BY DEF ListOf, Versions
<1>3. r.pc = "reward" /\ r.k = 2 => r.i \in Kept("staking")
  BY <1>2 DEF OnItsWay, Kept
<1>4. BeenTwice(r, "reward") \in SUBSET (Kept("staking") \X (1..2))
  <2>1. Been(r, "reward") \in SUBSET Kept("staking")
    BY <1>1, <1>2
  <2>2. 1 \in 1..2
    OBVIOUS
  <2>3. QED
    BY <1>3, <2>1, <2>2 DEF BeenTwice
<1>5. QED
  BY <1>1, <1>2, <1>4

\* Stakes are a number.
LEMMA StakedNat ==
  ASSUME ListsSound, held \in [Places -> Nat], NEW t, NEW I \in SUBSET Kept("staking")
  PROVE  StakedIn(I, t) \in Nat
<1>1. StakedIn(I, t) = SumFunctionOnSet(StakeAt, I \cap StakesOf(t)) /\ IsFiniteSet(I)
  BY StakedIs
<1>2. IsFiniteSet(I \cap StakesOf(t)) /\ I \cap StakesOf(t) \in SUBSET Kept("staking")
  BY <1>1, FS_Subset
<1>3. QED
  BY <1>1, <1>2, StakesAre, SumNat

\* Rewards are a number.
LEMMA RewardsNat ==
  ASSUME ListsSound, held \in [Places -> Nat], NEW t, NEW X \in SUBSET (Kept("staking") \X (1..2))
  PROVE  RewardsIn(X, t) \in Nat
<1>1. RewardsIn(X, t) = SumFunctionOnSet(RewardAt, X \cap RewardsOf(t)) /\ IsFiniteSet(X)
  BY RewardsIs
<1>2. IsFiniteSet(X \cap RewardsOf(t)) /\ X \cap RewardsOf(t) \in SUBSET (Kept("staking") \X (1..2))
  BY <1>1, FS_Subset
<1>3. QED
  BY <1>1, <1>2, StakesAre, SumNat

\* What is where a pass has been is a number.
LEMMA SoFarNat ==
  ASSUME ListsSound, held \in [Places -> Nat], NEW r, OnItsWay(r), NEW t \in Tokens
  PROVE  /\ LiquidSoFar(r, t) \in Nat /\ StakedSoFar(r, t) \in Nat /\ PooledSoFar(r, t) \in Nat
         /\ \A c \in Columns : SoFar(r, t)[c] \in Nat
<1>1. LiquidSoFar(r, t) \in Nat
  <2>1. LiquidOf({t}) \ Awaited(r) \in SUBSET Places
    BY PlacesAre, LiquidAre
  <2>2. QED
    BY <2>1, SumOfNat DEF LiquidSoFar
<1>2. StakedSoFar(r, t) \in Nat
  <2>1. PICK I \in SUBSET Kept("staking") : I = Been(r, "stake")
    BY BeenKept
  <2>2. PICK X \in SUBSET (Kept("staking") \X (1..2)) : X = BeenTwice(r, "reward")
    BY BeenKept
  <2>3. StakedIn(I, t) \in Nat
    BY StakedNat
  <2>4. RewardsIn(X, t) \in Nat
    BY RewardsNat
  <2>5. QED
    BY <2>1, <2>2, <2>3, <2>4 DEF StakedSoFar
<1>3. PooledSoFar(r, t) \in Nat
  <2>1. ASSUME NEW l \in Versions, NEW X \in SUBSET (Kept(l) \X (1..2))
        PROVE  SumFunctionOnSet(PoolAt(l), X \cap PoolsOf(l, t)) \in Nat
    <3>1. PoolAt(l) \in [Kept(l) \X (1..2) -> Nat] /\ IsFiniteSet(Kept(l) \X (1..2))
      BY PoolsAre
    <3>2. IsFiniteSet(X \cap PoolsOf(l, t)) /\ X \cap PoolsOf(l, t) \in SUBSET (Kept(l) \X (1..2))
      BY <3>1, FS_Subset
    <3>3. QED
      BY <3>1, <3>2, SumNat
  <2>2. \A l \in Versions : Been(r, l) \X (1..2) \in SUBSET (Kept(l) \X (1..2))
    BY BeenKept
  <2>3. "v2" \in Versions /\ "v3" \in Versions /\ "v4" \in Versions
    BY DEF Versions
  <2>4. /\ PooledIn("v2", Been(r, "v2") \X (1..2), t) \in Nat
        /\ PooledIn("v3", Been(r, "v3") \X (1..2), t) \in Nat
        /\ PooledIn("v4", Been(r, "v4") \X (1..2), t) \in Nat
    BY <2>1, <2>2, <2>3, PooledAre
  <2>5. QED
    BY <2>4 DEF PooledSoFar
<1>4. QED
  BY <1>1, <1>2, <1>3 DEF SoFar, Columns

\* A pass adds what there is, or fails to read it.
Gained(r, s, d) ==
  /\ s.sum \in [Columns -> [Tokens -> Nat]]
  /\ \/ /\ s.whole = r.whole
        /\ \A c \in Columns, t \in Tokens : s.sum[c][t] = r.sum[c][t] + d[c][t]
     \/ s.whole = FALSE /\ s.sum = r.sum

\* A pass has been somewhere more: it has added what is there, or has not.
LEMMA CountedMore ==
  ASSUME ListsSound, held \in [Places -> Nat], NEW r, NEW s, OnItsWay(r), OnItsWay(s), Counted(r),
         NEW d \in [Columns -> [Tokens -> Nat]],
         \A c \in Columns, t \in Tokens : SoFar(s, t)[c] = SoFar(r, t)[c] + d[c][t],
         Gained(r, s, d)
  PROVE  Counted(s)
<1>1. SUFFICES ASSUME NEW c \in Columns, NEW t \in Tokens
               PROVE  /\ s.sum[c][t] <= SoFar(s, t)[c]
                      /\ s.whole => s.sum[c][t] = SoFar(s, t)[c]
  BY DEF Counted, Gained
<1>2. /\ r.sum[c][t] \in Nat /\ s.sum[c][t] \in Nat /\ d[c][t] \in Nat
      /\ SoFar(r, t)[c] \in Nat /\ SoFar(s, t)[c] \in Nat
  <2>1. SoFar(r, t)[c] \in Nat /\ SoFar(s, t)[c] \in Nat
    BY SoFarNat
  <2>2. r.sum \in [Columns -> [Tokens -> Nat]] /\ s.sum \in [Columns -> [Tokens -> Nat]]
    BY DEF Counted, Gained
  <2>3. QED
    BY <2>1, <2>2
<1>3. r.sum[c][t] <= SoFar(r, t)[c] /\ (r.whole => r.sum[c][t] = SoFar(r, t)[c])
  BY DEF Counted
<1>4. SoFar(s, t)[c] = SoFar(r, t)[c] + d[c][t]
  OBVIOUS
<1>5. CASE s.whole = r.whole /\ s.sum[c][t] = r.sum[c][t] + d[c][t]
  BY <1>2, <1>3, <1>4, <1>5
<1>6. CASE s.whole = FALSE /\ s.sum = r.sum
  BY <1>2, <1>3, <1>4, <1>6
<1>7. QED
  BY <1>5, <1>6 DEF Gained

\* The places of a token.
Among(Q, t) == {x \in Q : TokenAt(x) = t}

\* A pass no longer waits for some places: what is there is added.
LEMMA LiquidMore ==
  ASSUME held \in [Places -> Nat], NEW r, NEW s, NEW Q \in SUBSET LiquidOf(Tokens), NEW t \in Tokens,
         Awaited(r) = Awaited(s) \cup Q, Q \cap Awaited(s) = {}
  PROVE  LiquidSoFar(s, t) = LiquidSoFar(r, t)
           + (IF t \in tokens \ ignored THEN SumOf(Among(Q, t)) ELSE 0)
<1> DEFINE L == LiquidOf({t})
           P == Among(Q, t)
<1>1. \A x \in Q : TokenAt(x) = t => x \in L
  BY TokenAtIs, LiquidAre
<1>2. \A x \in L : TokenAt(x) = t /\ x \in Places
  BY TokenAtIs, PlacesAre, LiquidAre
<1>3. L \ Awaited(s) = (L \ Awaited(r)) \cup P
  <2>1. \A x \in L : x \in Q => x \in P
    BY <1>2 DEF Among
  <2>2. \A x \in P : x \in L /\ x \notin Awaited(s)
    BY <1>1 DEF Among
  <2>3. QED
    BY <2>1, <2>2
<1>4. (L \ Awaited(r)) \cap P = {} /\ L \ Awaited(r) \in SUBSET Places /\ P \in SUBSET Places
  BY <1>1, <1>2 DEF Among
<1> HIDE DEF L, P
<1>5. SumOf(L \ Awaited(s)) = SumOf(L \ Awaited(r)) + SumOf(P)
  BY <1>3, <1>4, SumOfUnion
<1> USE DEF L, P
<1>6. QED
  <2>1. CASE t \in tokens \ ignored
    BY <1>5, <2>1 DEF LiquidSoFar
  <2>2. CASE t \notin tokens \ ignored
    BY <2>2 DEF LiquidSoFar
  <2>3. QED
    BY <2>1, <2>2

\* A stake more.
LEMMA StakedMore ==
  ASSUME ListsSound, held \in [Places -> Nat], NEW t, NEW I \in SUBSET Kept("staking"),
         NEW i \in Kept("staking"), i \notin I
  PROVE  /\ StakedIn(I \cup {i}, t)
              = StakedIn(I, t) + (IF Staked[At("staking", i)].token = t
                                  THEN held[Stake(At("staking", i))] ELSE 0)
         /\ StakedIn(I, t) \in Nat
<1>1. I \cup {i} \in SUBSET Kept("staking") /\ i \in Kept("staking") /\ i \notin I
  OBVIOUS
<1>2. /\ StakedIn(I, t) = SumFunctionOnSet(StakeAt, I \cap StakesOf(t)) /\ IsFiniteSet(I)
      /\ StakedIn(I \cup {i}, t) = SumFunctionOnSet(StakeAt, (I \cup {i}) \cap StakesOf(t))
  BY <1>1, StakedIs
<1>3. StakeAt \in [Kept("staking") -> Nat] /\ StakeAt[i] = held[Stake(At("staking", i))]
  BY StakesAre DEF StakeAt
<1>4. /\ SumFunctionOnSet(StakeAt, (I \cup {i}) \cap StakesOf(t))
           = SumFunctionOnSet(StakeAt, I \cap StakesOf(t))
             + (IF i \in StakesOf(t) THEN StakeAt[i] ELSE 0)
      /\ SumFunctionOnSet(StakeAt, I \cap StakesOf(t)) \in Nat
  BY <1>1, <1>2, <1>3, SumStep
<1>5. i \in StakesOf(t) <=> Staked[At("staking", i)].token = t
  BY DEF StakesOf
<1>6. QED
  BY <1>2, <1>3, <1>4, <1>5

\* A reward more.
LEMMA RewardsMore ==
  ASSUME ListsSound, held \in [Places -> Nat], NEW t, NEW X \in SUBSET (Kept("staking") \X (1..2)),
         NEW i \in Kept("staking"), NEW k \in 1..2, <<i, k>> \notin X
  PROVE  /\ RewardsIn(X \cup {<<i, k>>}, t)
              = RewardsIn(X, t) + (IF Earns(<<i, k>>, t)
                                   THEN held[getPending(At("staking", i), k)] ELSE 0)
         /\ RewardsIn(X, t) \in Nat
<1>1. PICK x \in Kept("staking") \X (1..2) : x = <<i, k>>
  OBVIOUS
<1>2. X \cup {x} \in SUBSET (Kept("staking") \X (1..2)) /\ x \notin X
  BY <1>1
<1>3. /\ RewardsIn(X, t) = SumFunctionOnSet(RewardAt, X \cap RewardsOf(t)) /\ IsFiniteSet(X)
      /\ RewardsIn(X \cup {x}, t) = SumFunctionOnSet(RewardAt, (X \cup {x}) \cap RewardsOf(t))
  BY <1>2, RewardsIs
<1>4. RewardAt \in [Kept("staking") \X (1..2) -> Nat]
  BY StakesAre
<1>5. RewardAt[x] = held[getPending(At("staking", i), k)]
  BY <1>1 DEF RewardAt
<1>6. /\ SumFunctionOnSet(RewardAt, (X \cup {x}) \cap RewardsOf(t))
           = SumFunctionOnSet(RewardAt, X \cap RewardsOf(t))
             + (IF x \in RewardsOf(t) THEN RewardAt[x] ELSE 0)
      /\ SumFunctionOnSet(RewardAt, X \cap RewardsOf(t)) \in Nat
  BY <1>1, <1>2, <1>3, <1>4, SumStep
<1>7. x \in RewardsOf(t) <=> Earns(<<i, k>>, t)
  BY <1>1 DEF RewardsOf
<1>8. QED
  BY <1>1, <1>3, <1>5, <1>6, <1>7

\* A liquidity position more: both its tokens.
LEMMA PooledMore ==
  ASSUME ListsSound, held \in [Places -> Nat], NEW t, NEW l \in Versions, NEW I \in SUBSET Kept(l),
         NEW i \in Kept(l), i \notin I
  PROVE  /\ SumFunctionOnSet(PoolAt(l), ((I \cup {i}) \X (1..2)) \cap PoolsOf(l, t))
              = SumFunctionOnSet(PoolAt(l), (I \X (1..2)) \cap PoolsOf(l, t))
                + ((IF Pools[At(l, i)].tokens[1] = t THEN PoolAt(l)[<<i, 1>>] ELSE 0)
                   + (IF Pools[At(l, i)].tokens[2] = t THEN PoolAt(l)[<<i, 2>>] ELSE 0))
         /\ SumFunctionOnSet(PoolAt(l), (I \X (1..2)) \cap PoolsOf(l, t)) \in Nat
<1> DEFINE D == Kept(l) \X (1..2)
<1>1. PICK A, x, y : A = I \X (1..2) /\ x = <<i, 1>> /\ y = <<i, 2>>
  OBVIOUS
<1>2. /\ A \in SUBSET D /\ x \in D /\ x \notin A
      /\ A \cup {x} \in SUBSET D /\ y \in D /\ y \notin A \cup {x}
  BY <1>1
<1>3. (I \cup {i}) \X (1..2) = (A \cup {x}) \cup {y}
  BY <1>1
<1>4. PoolAt(l) \in [D -> Nat] /\ IsFiniteSet(D)
  BY PoolsAre
<1>5. PICK P, f : P = PoolsOf(l, t) /\ f = PoolAt(l)
  OBVIOUS
<1>6. /\ x \in P <=> Pools[At(l, i)].tokens[1] = t
      /\ y \in P <=> Pools[At(l, i)].tokens[2] = t
  BY <1>1, <1>2, <1>5 DEF PoolsOf
<1>7. f \in [D -> Nat] /\ IsFiniteSet(A) /\ IsFiniteSet(A \cup {x})
  BY <1>2, <1>4, <1>5, FS_Subset
<1> HIDE DEF D
<1>8. /\ SumFunctionOnSet(f, (A \cup {x}) \cap P)
           = SumFunctionOnSet(f, A \cap P) + (IF x \in P THEN f[x] ELSE 0)
      /\ SumFunctionOnSet(f, A \cap P) \in Nat
  BY <1>2, <1>7, SumStep
<1>9. SumFunctionOnSet(f, ((A \cup {x}) \cup {y}) \cap P)
        = SumFunctionOnSet(f, (A \cup {x}) \cap P) + (IF y \in P THEN f[y] ELSE 0)
  BY <1>2, <1>7, SumStep
<1>10. f[x] \in Nat /\ f[y] \in Nat
  BY <1>2, <1>7
<1>11. SumFunctionOnSet(f, ((A \cup {x}) \cup {y}) \cap P)
         = SumFunctionOnSet(f, A \cap P)
           + ((IF x \in P THEN f[x] ELSE 0) + (IF y \in P THEN f[y] ELSE 0))
  <2>1. PICK m : m = SumFunctionOnSet(f, (A \cup {x}) \cap P)
    OBVIOUS
  <2>2. PICK n : n = SumFunctionOnSet(f, A \cap P)
    OBVIOUS
  <2>3. PICK o : o = SumFunctionOnSet(f, ((A \cup {x}) \cup {y}) \cap P)
    OBVIOUS
  <2>4. /\ m = n + (IF x \in P THEN f[x] ELSE 0) /\ n \in Nat
        /\ o = m + (IF y \in P THEN f[y] ELSE 0)
    BY ONLY <1>8, <1>9, <2>1, <2>2, <2>3
  <2>5. o = n + ((IF x \in P THEN f[x] ELSE 0) + (IF y \in P THEN f[y] ELSE 0))
    BY ONLY <2>4, <1>10
  <2>6. QED
    BY ONLY <2>2, <2>3, <2>5
<1>12. SumFunctionOnSet(f, ((I \cup {i}) \X (1..2)) \cap P)
         = SumFunctionOnSet(f, A \cap P)
           + ((IF x \in P THEN f[x] ELSE 0) + (IF y \in P THEN f[y] ELSE 0))
  BY ONLY <1>3, <1>11
<1>13. QED
  BY <1>1, <1>5, <1>6, <1>8, <1>12

\* Where a pass is does not depend on what it has added up.
SameWay(r, s) ==
  /\ s.pc = r.pc /\ s.i = r.i /\ s.k = r.k /\ s.n = r.n
  /\ s.queue = r.queue /\ s.batches = r.batches

\* A pass that has not moved has been where it was.
LEMMA SameWayKeeps ==
  ASSUME NEW r, NEW s, SameWay(r, s)
  PROVE  /\ OnItsWay(r) => OnItsWay(s)
         /\ Asks(r) => Asks(s)
         /\ \A t : SoFar(s, t) = SoFar(r, t)
<1>1. OnItsWay(r) => OnItsWay(s)
  BY DEF SameWay, OnItsWay
<1>2. Asks(r) => Asks(s)
  BY DEF SameWay, Asks
<1>3. /\ \A stage : Been(s, stage) = Been(r, stage) /\ BeenTwice(s, stage) = BeenTwice(r, stage)
      /\ Awaited(s) = Awaited(r)
  BY DEF SameWay, Been, BeenTwice, Awaited
<1>4. \A t : SoFar(s, t) = SoFar(r, t)
  <2>1. SUFFICES ASSUME NEW t PROVE SoFar(s, t) = SoFar(r, t)
    OBVIOUS
  <2>2. LiquidSoFar(s, t) = LiquidSoFar(r, t)
    BY <1>3 DEF LiquidSoFar
  <2>3. StakedSoFar(s, t) = StakedSoFar(r, t)
    BY <1>3 DEF StakedSoFar
  <2>4. PooledSoFar(s, t) = PooledSoFar(r, t)
    <3>1. PICK b : b = [l \in Versions |-> Been(r, l)]
      OBVIOUS
    <3>2. /\ Been(r, "v2") = b["v2"] /\ Been(s, "v2") = b["v2"]
          /\ Been(r, "v3") = b["v3"] /\ Been(s, "v3") = b["v3"]
          /\ Been(r, "v4") = b["v4"] /\ Been(s, "v4") = b["v4"]
      BY <1>3, <3>1 DEF Versions
    <3>3. QED
      BY ONLY <3>2 DEF PooledSoFar
  <2>5. QED
    BY <2>2, <2>3, <2>4 DEF SoFar
<1>5. QED
  BY <1>1, <1>2, <1>4

\* A read by itself, of what is at the next place.
LEMMA SingleKeeps ==
  ASSUME WorthInv, UNCHANGED <<tokens, walletVars>>, NEW u \in Passes, NEW x,
         NEW column \in Columns, NEW next, Single(u, x, column, next),
         DOMAIN next = Fields, next.still = pass[u].still,
         next.sum = pass[u].sum, next.whole = pass[u].whole, pass[u].pc # "rest",
         pass[u].still => /\ OnItsWay(next) /\ Asks(next)
                          /\ x \in Places /\ TokenAt(x) \in Tokens
                          /\ \A c \in Columns, t \in Tokens :
                               SoFar(next, t)[c] = SoFar(pass[u], t)[c]
                                 + (IF c = column /\ t = TokenAt(x) THEN held[x] ELSE 0)
  PROVE  WorthInv'
<1>1. PICK r : r = pass[u]
  OBVIOUS
<1>2. ListsSound /\ held \in [Places -> Nat] /\ (r.still => PassTrue(r))
  BY <1>1 DEF WorthInv, PassesTrue
<1>3. ASSUME NEW s, DOMAIN s = Fields, SameWay(next, s), s.still = r.still,
             r.still => s.sum \in [Columns -> [Tokens -> Nat]],
             \/ /\ s.whole = r.whole
                /\ r.still => \A c \in Columns, t \in Tokens :
                     s.sum[c][t] = r.sum[c][t] + (IF c = column /\ t = TokenAt(x) THEN held[x] ELSE 0)
             \/ s.whole = FALSE /\ s.sum = r.sum,
             pass' = [pass EXCEPT ![u] = s]
      PROVE  WorthInv'
  <2>1. ASSUME r.still PROVE PassTrue(s)
    <3>1. PICK d : d = [c \in Columns |-> [t \in Tokens |->
                         IF c = column /\ t = TokenAt(x) THEN held[x] ELSE 0]]
      OBVIOUS
    <3>2. /\ OnItsWay(next) /\ Asks(next) /\ x \in Places
          /\ \A c \in Columns, t \in Tokens :
               SoFar(next, t)[c] = SoFar(r, t)[c] + (IF c = column /\ t = TokenAt(x) THEN held[x] ELSE 0)
      BY <1>1, <2>1
    <3>3. OnItsWay(s) /\ Asks(s) /\ \A t : SoFar(s, t) = SoFar(next, t)
      BY <1>3, <3>2, SameWayKeeps
    <3>4. d \in [Columns -> [Tokens -> Nat]]
      BY <1>2, <3>1, <3>2
    <3>5. \A c \in Columns, t \in Tokens : SoFar(s, t)[c] = SoFar(r, t)[c] + d[c][t]
      BY <3>1, <3>2, <3>3
    <3>6. OnItsWay(r) /\ Counted(r) /\ s.sum \in [Columns -> [Tokens -> Nat]]
      BY <1>2, <1>3, <2>1 DEF PassTrue
    <3>7. Gained(r, s, d)
      BY <1>3, <2>1, <3>1, <3>6 DEF Gained
    <3>8. Counted(s)
      BY <1>2, <3>3, <3>4, <3>5, <3>6, <3>7, CountedMore
    <3>9. QED
      BY <3>3, <3>8 DEF PassTrue
  <2>2. QED
    BY <1>1, <1>3, <2>1, PassGoesOn
<1>4. CASE pass' = [pass EXCEPT ![u] = [next EXCEPT !.sum[column][TokenAt(x)] = @ + held[x]]]
  <2>1. PICK s : s = [next EXCEPT !.sum[column][TokenAt(x)] = @ + held[x]]
    OBVIOUS
  <2>2. /\ DOMAIN s = Fields /\ s.still = r.still /\ s.whole = r.whole
        /\ s.sum = [r.sum EXCEPT ![column][TokenAt(x)] = @ + held[x]]
    BY <1>1, <2>1 DEF Fields
  <2>3. SameWay(next, s)
    BY <2>1 DEF SameWay, Fields
  <2>4. ASSUME r.still PROVE /\ s.sum \in [Columns -> [Tokens -> Nat]]
                             /\ \A c \in Columns, t \in Tokens : s.sum[c][t] = r.sum[c][t]
                                  + (IF c = column /\ t = TokenAt(x) THEN held[x] ELSE 0)
    <3>1. r.sum \in [Columns -> [Tokens -> Nat]]
      BY <1>2, <2>4 DEF PassTrue, Counted
    <3>2. held[x] \in Nat
      BY <1>1, <1>2, <2>4
    <3>3. PICK tk \in Tokens : tk = TokenAt(x)
      BY <1>1, <2>4
    <3>4. PICK row : row = [r.sum[column] EXCEPT ![tk] = @ + held[x]]
      OBVIOUS
    <3>5. r.sum[column] \in [Tokens -> Nat]
      BY <3>1
    <3>6. /\ row \in [Tokens -> Nat]
          /\ \A t \in Tokens : row[t] = r.sum[column][t] + (IF t = TokenAt(x) THEN held[x] ELSE 0)
      <4>1. \A t \in Tokens : row[t] = IF t = tk THEN r.sum[column][tk] + held[x] ELSE r.sum[column][t]
        BY <3>4, <3>5
      <4>2. \A t \in Tokens : r.sum[column][t] \in Nat
        BY <3>5
      <4>3. row = [t \in Tokens |-> IF t = tk THEN r.sum[column][tk] + held[x] ELSE r.sum[column][t]]
        BY <3>4, <3>5
      <4>4. QED
        BY <3>2, <3>3, <4>1, <4>2, <4>3
    <3>7. s.sum = [r.sum EXCEPT ![column] = row]
      BY <2>2, <3>3, <3>4
    <3>8. s.sum \in [Columns -> [Tokens -> Nat]]
      BY <3>1, <3>6, <3>7
    <3>9. /\ s.sum[column] = row
          /\ \A c \in Columns : c # column => s.sum[c] = r.sum[c]
      BY <3>1, <3>7
    <3>10. \A c \in Columns, t \in Tokens : r.sum[c][t] \in Nat
      BY <3>1
    <3>11. QED
      BY <3>6, <3>8, <3>9, <3>10
  <2>5. pass' = [pass EXCEPT ![u] = s]
    BY <1>4, <2>1
  <2>6. QED
    BY <1>3, <2>2, <2>3, <2>4, <2>5
<1>5. CASE pass' = [pass EXCEPT ![u] = [next EXCEPT !.whole = FALSE]]
  <2>1. PICK s : s = [next EXCEPT !.whole = FALSE]
    OBVIOUS
  <2>2. /\ DOMAIN s = Fields /\ s.still = r.still /\ s.whole = FALSE /\ s.sum = r.sum
    BY <1>1, <2>1 DEF Fields
  <2>3. SameWay(next, s)
    BY <2>1 DEF SameWay, Fields
  <2>4. r.still => s.sum \in [Columns -> [Tokens -> Nat]]
    BY <1>2, <2>2 DEF PassTrue, Counted
  <2>5. pass' = [pass EXCEPT ![u] = s]
    BY <1>5, <2>1
  <2>6. QED
    BY <1>3, <2>2, <2>3, <2>4, <2>5
<1>6. QED
  BY <1>4, <1>5 DEF Single

\* A step that reads nothing.
LEMMA PassedOver ==
  ASSUME WorthInv, UNCHANGED <<tokens, walletVars>>, NEW u \in Passes, NEW next,
         pass' = [pass EXCEPT ![u] = next], pass[u].pc # "rest",
         DOMAIN next = Fields, next.still = pass[u].still,
         next.sum = pass[u].sum, next.whole = pass[u].whole,
         pass[u].still => /\ OnItsWay(next) /\ Asks(next)
                          /\ \A c \in Columns, t \in Tokens :
                               SoFar(next, t)[c] = SoFar(pass[u], t)[c]
  PROVE  WorthInv'
<1>1. PICK r : r = pass[u]
  OBVIOUS
<1>2. ListsSound /\ held \in [Places -> Nat] /\ (r.still => PassTrue(r))
  BY <1>1 DEF WorthInv, PassesTrue
<1>3. ASSUME r.still PROVE PassTrue(next)
  <2>1. Counted(r) /\ OnItsWay(next) /\ Asks(next)
    BY <1>1, <1>2, <1>3 DEF PassTrue
  <2>2. Counted(next)
    BY <1>1, <1>3, <2>1 DEF Counted
  <2>3. QED
    BY <2>1, <2>2 DEF PassTrue
<1>4. QED
  BY <1>1, <1>3, PassGoesOn

\* The next place of a list has not been counted.
LEMMA BeenNext ==
  ASSUME NEW r, NEW s, OnItsWay(r), r.pc \in {"stake", "v2", "v3", "v4"}, r.i <= r.n,
         s.pc = r.pc, s.i = r.i + 1, s.k = r.k, s.n = r.n
  PROVE  /\ \A stage : Been(s, stage) = Been(r, stage) \cup (IF stage = r.pc THEN {r.i} ELSE {})
         /\ BeenTwice(s, "reward") = BeenTwice(r, "reward")
         /\ r.i \in Kept(ListOf[r.pc]) /\ r.i \notin Been(r, r.pc)
         /\ OnItsWay(s)
<1>1. r.i \in Nat \ {0} /\ r.n \in Nat /\ r.n = lists[ListOf[r.pc]].n /\ r.k = 1
  BY DEF OnItsWay
<1>2. 1..(s.i - 1) = (1..(r.i - 1)) \cup {r.i}
  BY <1>1
<1>3. r.pc \notin Through[r.pc]
  BY DEF Through
<1>4. \A stage : Been(s, stage) = Been(r, stage) \cup (IF stage = r.pc THEN {r.i} ELSE {})
  BY <1>2, <1>3 DEF Been
<1>5. BeenTwice(s, "reward") = BeenTwice(r, "reward")
  BY <1>1, <1>4 DEF BeenTwice
<1>6. r.i \in Kept(ListOf[r.pc]) /\ r.i \notin Been(r, r.pc)
  BY <1>1, <1>3 DEF Kept, Been
<1>7. OnItsWay(s)
  BY <1>1 DEF OnItsWay
<1>8. QED
  BY <1>4, <1>5, <1>6, <1>7

\* The stake of the next position.
LEMMA StakeKeeps ==
  ASSUME WorthInv, PricesTypeOK, NEW u \in Passes, ReadStake(u) PROVE WorthInv'
<1>1. PICK r : r = pass[u]
  OBVIOUS
<1>2. PICK next : next = Further(r)
  OBVIOUS
<1>3. PICK p : p = At("staking", r.i)
  OBVIOUS
<1>4. /\ r.pc = "stake" /\ r.i <= r.n
      /\ IF Staked[p].token \in tokens THEN Single(u, Stake(p), "staked", next)
         ELSE pass' = [pass EXCEPT ![u] = next]
      /\ UNCHANGED <<tokens, walletVars>>
  BY <1>1, <1>2, <1>3 DEF ReadStake, Ranging, Position, At, priceVars, walletVars
<1>5. /\ DOMAIN next = Fields /\ next.still = r.still /\ next.sum = r.sum /\ next.whole = r.whole
      /\ DOMAIN r = Fields /\ (r.still => PassTrue(r)) /\ held \in [Places -> Nat] /\ ListsSound
      /\ tokens \subseteq Tokens
  BY <1>1, <1>2, <1>4 DEF WorthInv, PassesTrue, Further, Fields, PricesTypeOK
<1>6. next.pc = r.pc /\ next.i = r.i + 1 /\ next.k = r.k /\ next.n = r.n
      /\ next.queue = r.queue /\ next.batches = r.batches
  BY <1>2, <1>5 DEF Further, Fields
<1>7. ASSUME r.still
      PROVE  /\ OnItsWay(next) /\ Asks(next) /\ p \in DOMAIN Staked
             /\ \A t \in Tokens : /\ SoFar(next, t).liquid = SoFar(r, t).liquid
                                  /\ SoFar(next, t).lp = SoFar(r, t).lp
                                  /\ SoFar(next, t).staked = SoFar(r, t).staked
                                       + (IF Staked[p].token \in tokens /\ Staked[p].token = t
                                          THEN held[Stake(p)] ELSE 0)
  <2>1. OnItsWay(r) /\ Asks(r)
    BY <1>5, <1>7 DEF PassTrue
  <2>2. /\ \A stage : Been(next, stage) = Been(r, stage) \cup (IF stage = r.pc THEN {r.i} ELSE {})
        /\ BeenTwice(next, "reward") = BeenTwice(r, "reward")
        /\ r.i \in Kept(ListOf[r.pc]) /\ r.i \notin Been(r, r.pc)
        /\ OnItsWay(next)
    BY <1>4, <1>6, <2>1, BeenNext
  <2>3. r.i \in Kept("staking") /\ r.i \notin Been(r, "stake")
        /\ Been(next, "stake") = Been(r, "stake") \cup {r.i}
        /\ \A l \in Versions : Been(next, l) = Been(r, l)
    <3>1. ListOf["stake"] = "staking" /\ "stake" \notin Versions
      BY DEF ListOf, Versions
    <3>2. \A l \in Versions : Been(next, l) = Been(r, l) \cup {}
      BY <1>4, <2>2, <3>1
    <3>3. Been(next, "stake") = Been(r, "stake") \cup {r.i}
      BY <1>4, <2>2
    <3>4. QED
      BY <1>4, <2>2, <3>1, <3>2, <3>3
  <2>4. p \in DOMAIN Staked
    BY <1>3, <1>5, <2>3, StakesAre
  <2>5. Asks(next)
    BY <1>6, <2>1 DEF Asks
  <2>6. ASSUME NEW t \in Tokens
        PROVE  /\ LiquidSoFar(next, t) = LiquidSoFar(r, t) /\ PooledSoFar(next, t) = PooledSoFar(r, t)
               /\ StakedSoFar(next, t) = StakedSoFar(r, t)
                    + (IF Staked[p].token \in tokens /\ Staked[p].token = t THEN held[Stake(p)] ELSE 0)
    <3>1. LiquidSoFar(next, t) = LiquidSoFar(r, t)
      BY <1>6 DEF LiquidSoFar, Awaited
    <3>2. PooledSoFar(next, t) = PooledSoFar(r, t)
      BY <2>3 DEF PooledSoFar, Versions
    <3>3. PICK I \in SUBSET Kept("staking") : I = Been(r, "stake")
      BY <1>5, <2>1, BeenKept
    <3>4. /\ StakedIn(I \cup {r.i}, t)
               = StakedIn(I, t) + (IF Staked[p].token = t THEN held[Stake(p)] ELSE 0)
          /\ StakedIn(I, t) \in Nat
      BY <1>3, <1>5, <2>3, <3>3, StakedMore
    <3>5. held[Stake(p)] \in Nat
      BY <1>5, <2>4, PlacesAre
    <3>6. StakedSoFar(r, t) \in Nat
      BY <1>5, <2>1, SoFarNat
    <3>7. PICK m : m = RewardsIn(BeenTwice(r, "reward"), t)
      OBVIOUS
    <3>8. t \in tokens => StakedSoFar(r, t) = StakedIn(I, t) + m
      BY <3>3, <3>7 DEF StakedSoFar
    <3>9. t \in tokens => StakedSoFar(next, t) = StakedIn(I \cup {r.i}, t) + m
      BY <2>2, <2>3, <3>3, <3>7 DEF StakedSoFar
    <3>10. m \in Nat
      <4>1. PICK X \in SUBSET (Kept("staking") \X (1..2)) : X = BeenTwice(r, "reward")
        BY <1>5, <2>1, BeenKept
      <4>2. QED
        BY <1>5, <3>7, <4>1, RewardsNat
    <3>11. CASE t \in tokens
      BY <3>1, <3>2, <3>4, <3>5, <3>8, <3>9, <3>10, <3>11
    <3>12. CASE t \notin tokens
      BY <3>1, <3>2, <3>12 DEF StakedSoFar
    <3>13. QED
      BY <3>1, <3>2, <3>11, <3>12
  <2>7. QED
    BY <2>2, <2>4, <2>5, <2>6 DEF SoFar
<1>8. CASE Staked[p].token \in tokens
  <2>1. Single(u, Stake(p), "staked", next)
    BY <1>4, <1>8
  <2>2. TokenAt(Stake(p)) = Staked[p].token /\ Staked[p].token \in Tokens
    BY <1>5, <1>8, TokenAtIs
  <2>3. ASSUME r.still
        PROVE  /\ OnItsWay(next) /\ Asks(next) /\ Stake(p) \in Places /\ TokenAt(Stake(p)) \in Tokens
               /\ \A c \in Columns, t \in Tokens : SoFar(next, t)[c] = SoFar(r, t)[c]
                    + (IF c = "staked" /\ t = TokenAt(Stake(p)) THEN held[Stake(p)] ELSE 0)
    <3>1. \A t \in Tokens : SoFar(r, t).liquid \in Nat /\ SoFar(r, t).lp \in Nat
      BY <1>5, <2>3, SoFarNat DEF PassTrue, Columns
    <3>2. QED
      BY <1>7, <1>8, <2>2, <2>3, <3>1, PlacesAre DEF Columns
  <2>4. "staked" \in Columns
    BY DEF Columns
  <2>5. pass[u].pc # "rest"
    BY <1>1, <1>4
  <2>6. QED
    BY <1>1, <1>4, <1>5, <2>1, <2>3, <2>4, <2>5, SingleKeeps
<1>9. CASE Staked[p].token \notin tokens
  <2>1. pass' = [pass EXCEPT ![u] = next] /\ pass[u].pc # "rest"
    BY <1>1, <1>4, <1>9
  <2>2. ASSUME r.still
        PROVE  /\ OnItsWay(next) /\ Asks(next)
               /\ \A c \in Columns, t \in Tokens : SoFar(next, t)[c] = SoFar(r, t)[c]
    <3>1. \A t \in Tokens : SoFar(r, t).staked \in Nat
      BY <1>5, <2>2, SoFarNat DEF PassTrue, Columns
    <3>2. QED
      BY <1>7, <1>9, <2>2, <3>1 DEF Columns
  <2>3. /\ DOMAIN next = Fields /\ next.still = pass[u].still
        /\ next.sum = pass[u].sum /\ next.whole = pass[u].whole
        /\ pass[u].still => /\ OnItsWay(next) /\ Asks(next)
                            /\ \A c \in Columns, t \in Tokens : SoFar(next, t)[c] = SoFar(pass[u], t)[c]
    BY <1>1, <1>5, <2>2
  <2>4. QED
    BY <1>4, <2>1, <2>3, PassedOver
<1>10. QED
  BY <1>8, <1>9

\* The next reward of a position has not been counted.
LEMMA RewardNext ==
  ASSUME NEW r, NEW s, OnItsWay(r), r.pc = "reward", r.i <= r.n, s.pc = r.pc, s.n = r.n,
         \/ r.k = 1 /\ s.k = 2 /\ s.i = r.i
         \/ r.k = 2 /\ s.k = 1 /\ s.i = r.i + 1
  PROVE  /\ Been(s, "stake") = Been(r, "stake")
         /\ \A l \in Versions : Been(s, l) = Been(r, l)
         /\ BeenTwice(s, "reward") = BeenTwice(r, "reward") \cup {<<r.i, r.k>>}
         /\ r.i \in Kept("staking") /\ r.k \in 1..2 /\ <<r.i, r.k>> \notin BeenTwice(r, "reward")
         /\ OnItsWay(s)
<1>1. r.i \in Nat \ {0} /\ r.n \in Nat /\ r.n = lists["staking"].n /\ r.k \in 1..2
  BY DEF OnItsWay, ListOf
<1>2. "reward" \notin Through["reward"] /\ "stake" # "reward" /\ \A l \in Versions : l # "reward"
  BY DEF Through, Versions
<1>3. \A stage : stage # "reward" => Been(s, stage) = Been(r, stage)
  BY DEF Been
<1>4. Been(r, "reward") = 1..(r.i - 1) /\ Been(s, "reward") = 1..(s.i - 1)
  BY <1>2 DEF Been
<1>5. OnItsWay(s)
  BY <1>1 DEF OnItsWay, ListOf
<1>6. /\ BeenTwice(s, "reward") = BeenTwice(r, "reward") \cup {<<r.i, r.k>>}
      /\ <<r.i, r.k>> \notin BeenTwice(r, "reward")
  <2>1. CASE r.k = 1 /\ s.k = 2 /\ s.i = r.i
    <3>1. BeenTwice(r, "reward") = (1..(r.i - 1)) \X (1..2)
      <4>1. BeenTwice(r, "reward") = (Been(r, "reward") \X (1..2)) \cup {}
        BY <2>1 DEF BeenTwice
      <4>2. \A A : A \cup {} = A
        OBVIOUS
      <4>3. QED
        BY ONLY <1>4, <4>1, <4>2
    <3>2. BeenTwice(s, "reward") = ((1..(r.i - 1)) \X (1..2)) \cup {<<r.i, 1>>}
      BY <1>4, <2>1 DEF BeenTwice
    <3>3. r.i \notin 1..(r.i - 1)
      BY <1>1
    <3>4. QED
      BY <2>1, <3>1, <3>2, <3>3
  <2>2. CASE r.k = 2 /\ s.k = 1 /\ s.i = r.i + 1
    <3>1. BeenTwice(r, "reward") = ((1..(r.i - 1)) \X (1..2)) \cup {<<r.i, 1>>}
      BY <1>4, <2>2 DEF BeenTwice
    <3>2. BeenTwice(s, "reward") = (1..(s.i - 1)) \X (1..2)
      <4>1. BeenTwice(s, "reward") = (Been(s, "reward") \X (1..2)) \cup {}
        BY <2>2 DEF BeenTwice
      <4>2. \A A : A \cup {} = A
        OBVIOUS
      <4>3. QED
        BY ONLY <1>4, <4>1, <4>2
    <3>3. r.i \notin 1..(r.i - 1) /\ 1..(s.i - 1) = (1..(r.i - 1)) \cup {r.i}
      BY <1>1, <2>2
    <3>4. PICK J, j : J = 1..(r.i - 1) /\ j = r.i
      OBVIOUS
    <3>5. (J \cup {j}) \X (1..2) = (J \X (1..2)) \cup {<<j, 1>>} \cup {<<j, 2>>}
      OBVIOUS
    <3>6. <<j, 2>> \notin (J \X (1..2)) \cup {<<j, 1>>}
      BY <3>3, <3>4
    <3>7. QED
      BY <2>2, <3>1, <3>2, <3>3, <3>4, <3>5, <3>6
  <2>3. QED
    BY <2>1, <2>2
<1>7. r.i \in Kept("staking")
  BY <1>1 DEF Kept
<1>8. QED
  BY <1>1, <1>2, <1>3, <1>5, <1>6, <1>7

\* The next reward: the first if its token is that of the first, as getPending has it.
LEMMA RewardKeeps ==
  ASSUME WorthInv, PricesTypeOK, NEW u \in Passes, ReadReward(u) PROVE WorthInv'
<1>1. PICK r : r = pass[u]
  OBVIOUS
<1>2. PICK next : next = IF r.k = 1 THEN [r EXCEPT !.k = 2] ELSE [Further(r) EXCEPT !.k = 1]
  OBVIOUS
<1>3. PICK p : p = At("staking", r.i)
  OBVIOUS
<1>4. PICK x : x = getPending(p, r.k)
  OBVIOUS
<1>5. /\ r.pc = "reward" /\ r.i <= r.n
      /\ IF r.k \in Rewards(p) THEN Single(u, x, "staked", next)
         ELSE pass' = [pass EXCEPT ![u] = next]
      /\ UNCHANGED <<tokens, walletVars>>
  BY <1>1, <1>2, <1>3, <1>4 DEF ReadReward, Ranging, Position, At, priceVars, walletVars
<1>6. /\ DOMAIN next = Fields /\ next.still = r.still /\ next.sum = r.sum /\ next.whole = r.whole
      /\ DOMAIN r = Fields /\ (r.still => PassTrue(r)) /\ held \in [Places -> Nat] /\ ListsSound
      /\ tokens \subseteq Tokens
  BY <1>1, <1>2, <1>5 DEF WorthInv, PassesTrue, Further, Fields, PricesTypeOK
<1>7. /\ next.pc = r.pc /\ next.n = r.n /\ next.queue = r.queue /\ next.batches = r.batches
      /\ IF r.k = 1 THEN next.k = 2 /\ next.i = r.i ELSE next.k = 1 /\ next.i = r.i + 1
  BY <1>2, <1>6 DEF Further, Fields
<1>8. ASSUME r.still
      PROVE  /\ OnItsWay(next) /\ Asks(next) /\ p \in DOMAIN Staked /\ r.k \in 1..2
             /\ \A t \in Tokens : /\ SoFar(next, t).liquid = SoFar(r, t).liquid
                                  /\ SoFar(next, t).lp = SoFar(r, t).lp
                                  /\ SoFar(next, t).staked = SoFar(r, t).staked
                                       + (IF r.k \in Rewards(p) /\ Staked[p].rewards[r.k] = t
                                          THEN held[x] ELSE 0)
  <2>1. OnItsWay(r) /\ Asks(r)
    BY <1>6, <1>8 DEF PassTrue
  <2>2. r.k \in 1..2
    BY <2>1 DEF OnItsWay
  <2>3. /\ Been(next, "stake") = Been(r, "stake")
        /\ \A l \in Versions : Been(next, l) = Been(r, l)
        /\ BeenTwice(next, "reward") = BeenTwice(r, "reward") \cup {<<r.i, r.k>>}
        /\ r.i \in Kept("staking") /\ <<r.i, r.k>> \notin BeenTwice(r, "reward")
        /\ OnItsWay(next)
    BY <1>5, <1>7, <2>1, <2>2, RewardNext
  <2>4. p \in DOMAIN Staked
    BY <1>3, <1>6, <2>3, StakesAre
  <2>5. Asks(next)
    BY <1>7, <2>1 DEF Asks
  <2>6. ASSUME NEW t \in Tokens
        PROVE  /\ LiquidSoFar(next, t) = LiquidSoFar(r, t) /\ PooledSoFar(next, t) = PooledSoFar(r, t)
               /\ StakedSoFar(next, t) = StakedSoFar(r, t)
                    + (IF r.k \in Rewards(p) /\ Staked[p].rewards[r.k] = t THEN held[x] ELSE 0)
    <3>1. LiquidSoFar(next, t) = LiquidSoFar(r, t)
      BY <1>7 DEF LiquidSoFar, Awaited
    <3>2. PooledSoFar(next, t) = PooledSoFar(r, t)
      BY <2>3 DEF PooledSoFar, Versions
    <3>3. PICK X \in SUBSET (Kept("staking") \X (1..2)) : X = BeenTwice(r, "reward")
      BY <1>6, <2>1, BeenKept
    <3>4. /\ RewardsIn(X \cup {<<r.i, r.k>>}, t)
               = RewardsIn(X, t) + (IF Earns(<<r.i, r.k>>, t) THEN held[x] ELSE 0)
          /\ RewardsIn(X, t) \in Nat
      BY <1>3, <1>4, <1>6, <2>2, <2>3, <3>3, RewardsMore
    <3>5. Earns(<<r.i, r.k>>, t) <=> Staked[p].funcs[r.k] /\ Staked[p].rewards[r.k] = t
      BY <1>3 DEF Earns
    <3>6. t \in tokens => (Earns(<<r.i, r.k>>, t) <=> r.k \in Rewards(p) /\ Staked[p].rewards[r.k] = t)
      BY <2>2, <3>5 DEF Rewards
    <3>7. held[x] \in Nat
      BY <1>4, <1>6, <2>4, PlacesAre DEF getPending
    <3>8. PICK m : m = StakedIn(Been(r, "stake"), t)
      OBVIOUS
    <3>9. m \in Nat
      <4>1. PICK I \in SUBSET Kept("staking") : I = Been(r, "stake")
        BY <1>6, <2>1, BeenKept
      <4>2. QED
        BY <1>6, <3>8, <4>1, StakedNat
    <3>10. t \in tokens => StakedSoFar(r, t) = m + RewardsIn(X, t)
      BY <3>3, <3>8 DEF StakedSoFar
    <3>11. t \in tokens => StakedSoFar(next, t) = m + RewardsIn(X \cup {<<r.i, r.k>>}, t)
      BY <2>3, <3>3, <3>8 DEF StakedSoFar
    <3>12. CASE t \in tokens
      BY <3>1, <3>2, <3>4, <3>6, <3>7, <3>9, <3>10, <3>11, <3>12
    <3>13. CASE t \notin tokens
      BY <3>1, <3>2, <3>13 DEF StakedSoFar, Rewards
    <3>14. QED
      BY <3>12, <3>13
  <2>7. QED
    BY <2>2, <2>3, <2>4, <2>5, <2>6 DEF SoFar
<1>9. CASE r.k \in Rewards(p)
  <2>1. Single(u, x, "staked", next)
    BY <1>5, <1>9
  <2>2. TokenAt(x) = Staked[p].rewards[r.k] /\ Staked[p].rewards[r.k] \in Tokens
    <3>1. r.k \in 1..2 /\ Staked[p].rewards[r.k] \in Tokens
      BY <1>6, <1>9 DEF Rewards
    <3>2. /\ TokenAt(Reward(p, 1)) = Staked[p].rewards[1]
          /\ TokenAt(Reward(p, 2)) = Staked[p].rewards[2]
      BY TokenAtIs
    <3>3. r.k = 1 \/ r.k = 2
      BY <3>1
    <3>4. QED
      BY <1>4, <3>1, <3>2, <3>3 DEF getPending
  <2>3. /\ DOMAIN next = Fields /\ next.still = pass[u].still
        /\ next.sum = pass[u].sum /\ next.whole = pass[u].whole
        /\ pass[u].still =>
             /\ OnItsWay(next) /\ Asks(next) /\ x \in Places /\ TokenAt(x) \in Tokens
             /\ \A c \in Columns, t \in Tokens : SoFar(next, t)[c] = SoFar(pass[u], t)[c]
                  + (IF c = "staked" /\ t = TokenAt(x) THEN held[x] ELSE 0)
    <3>1. SUFFICES ASSUME r.still
                   PROVE  /\ OnItsWay(next) /\ Asks(next) /\ x \in Places /\ TokenAt(x) \in Tokens
                          /\ \A c \in Columns, t \in Tokens : SoFar(next, t)[c] = SoFar(r, t)[c]
                               + (IF c = "staked" /\ t = TokenAt(x) THEN held[x] ELSE 0)
      BY <1>1, <1>6
    <3>2. \A t \in Tokens : SoFar(r, t).liquid \in Nat /\ SoFar(r, t).lp \in Nat
      BY <1>6, <3>1, SoFarNat DEF PassTrue, Columns
    <3>3. x \in Places
      BY <1>4, <1>8, <3>1, PlacesAre DEF getPending
    <3>4. QED
      BY <1>8, <1>9, <2>2, <3>1, <3>2, <3>3 DEF Columns
  <2>4. "staked" \in Columns
    BY DEF Columns
  <2>5. pass[u].pc # "rest"
    BY <1>1, <1>5
  <2>6. QED
    BY <1>5, <2>1, <2>3, <2>4, <2>5, SingleKeeps
<1>10. CASE r.k \notin Rewards(p)
  <2>1. pass' = [pass EXCEPT ![u] = next] /\ pass[u].pc # "rest"
    BY <1>1, <1>5, <1>10
  <2>2. ASSUME r.still
        PROVE  /\ OnItsWay(next) /\ Asks(next)
               /\ \A c \in Columns, t \in Tokens : SoFar(next, t)[c] = SoFar(r, t)[c]
    <3>1. \A t \in Tokens : SoFar(r, t).staked \in Nat
      BY <1>6, <2>2, SoFarNat DEF PassTrue, Columns
    <3>2. QED
      BY <1>8, <1>10, <2>2, <3>1 DEF Columns
  <2>3. /\ DOMAIN next = Fields /\ next.still = pass[u].still
        /\ next.sum = pass[u].sum /\ next.whole = pass[u].whole
        /\ pass[u].still => /\ OnItsWay(next) /\ Asks(next)
                            /\ \A c \in Columns, t \in Tokens : SoFar(next, t)[c] = SoFar(pass[u], t)[c]
    BY <1>1, <1>6, <2>2
  <2>4. QED
    BY <1>5, <2>1, <2>3, PassedOver
<1>11. QED
  BY <1>9, <1>10

\* What its status adds for a token.
Added(l, p, t) ==
  SumFunctionOnSet([k \in 1..2 |-> AmountOf(l, p, k)], {k \in 1..2 : Pools[p].tokens[k] = t})

\* What is pooled at some places of a list.
PooledAt(l, X, t) == SumFunctionOnSet(PoolAt(l), X \cap PoolsOf(l, t))

\* What a pass has been at in the three lists of liquidity positions.
LEMMA PooledSoFarIs ==
  ASSUME ListsSound, held \in [Places -> Nat], NEW r, OnItsWay(r), NEW t
  PROVE  PooledSoFar(r, t) = IF t \in tokens
                             THEN PooledAt("v2", Been(r, "v2") \X (1..2), t)
                                  + PooledAt("v3", Been(r, "v3") \X (1..2), t)
                                  + PooledAt("v4", Been(r, "v4") \X (1..2), t)
                             ELSE 0
<1>1. \A l \in Versions : Been(r, l) \X (1..2) \in SUBSET (Kept(l) \X (1..2))
  BY BeenKept
<1>2. /\ PooledIn("v2", Been(r, "v2") \X (1..2), t) = PooledAt("v2", Been(r, "v2") \X (1..2), t)
      /\ PooledIn("v3", Been(r, "v3") \X (1..2), t) = PooledAt("v3", Been(r, "v3") \X (1..2), t)
      /\ PooledIn("v4", Been(r, "v4") \X (1..2), t) = PooledAt("v4", Been(r, "v4") \X (1..2), t)
  BY <1>1, PooledAre DEF Versions, PooledAt
<1>3. QED
  BY <1>2 DEF PooledSoFar

\* Amounts are numbers.
LEMMA AmountNat ==
  ASSUME held \in [Places -> Nat], NEW l, NEW p \in DOMAIN Pools, NEW k \in 1..2
  PROVE  AmountOf(l, p, k) \in Nat
<1>1. {Liquidity(p, k)} \in SUBSET Places /\ {Liquidity(p, k), Gain(p, k)} \in SUBSET Places
  BY PlacesAre
<1>2. QED
  BY <1>1, SumOfNat DEF AmountOf, Share, Earning

\* A sum of two at most.
LEMMA SumOfTwo ==
  ASSUME NEW f \in [1..2 -> Nat], NEW P \in SUBSET (1..2)
  PROVE  SumFunctionOnSet(f, P) = (IF 1 \in P THEN f[1] ELSE 0) + (IF 2 \in P THEN f[2] ELSE 0)
<1>1. PICK D : D = 1..2
  OBVIOUS
<1>2. /\ {} \in SUBSET D /\ 1 \in D /\ 1 \notin {} /\ {} \cup {1} \in SUBSET D
      /\ 2 \in D /\ 2 \notin {} \cup {1}
  BY <1>1
<1>3. IsFiniteSet({}) /\ IsFiniteSet({} \cup {1})
  BY FS_EmptySet, FS_Singleton, BothFinite
<1>4. SumFunctionOnSet(f, ({} \cup {1}) \cap P)
        = SumFunctionOnSet(f, {} \cap P) + (IF 1 \in P THEN f[1] ELSE 0)
  BY <1>1, <1>2, <1>3, SumStep
<1>5. SumFunctionOnSet(f, (({} \cup {1}) \cup {2}) \cap P)
        = SumFunctionOnSet(f, ({} \cup {1}) \cap P) + (IF 2 \in P THEN f[2] ELSE 0)
  BY <1>1, <1>2, <1>3, SumStep
<1>6. SumFunctionOnSet(f, {} \cap P) = 0
  <2>1. {} \cap P = {}
    OBVIOUS
  <2>2. SumFunctionOnSet(f, {}) = 0
    BY SumEmpty
  <2>3. QED
    BY ONLY <2>1, <2>2
<1>7. (({} \cup {1}) \cup {2}) \cap P = P
  <2>1. \A x \in P : x = 1 \/ x = 2
    OBVIOUS
  <2>2. QED
    BY ONLY <2>1
<1>8. SumFunctionOnSet(f, (({} \cup {1}) \cup {2}) \cap P) = SumFunctionOnSet(f, P)
  BY ONLY <1>7
<1>9. f[1] \in Nat /\ f[2] \in Nat
  OBVIOUS
<1>10. PICK z : z = SumFunctionOnSet(f, ({} \cup {1}) \cap P)
  OBVIOUS
<1>11. z = 0 + (IF 1 \in P THEN f[1] ELSE 0)
  BY ONLY <1>4, <1>6, <1>10
<1>12. SumFunctionOnSet(f, P) = z + (IF 2 \in P THEN f[2] ELSE 0)
  BY ONLY <1>5, <1>8, <1>10
<1>13. QED
  BY ONLY <1>9, <1>11, <1>12

\* A position of which a loop reads the status.
LEMMA PoolNext ==
  ASSUME ListsSound, held \in [Places -> Nat], NEW l \in Versions, NEW r, NEW s, OnItsWay(r), r.pc = l,
         r.i <= r.n, s.pc = r.pc, s.i = r.i + 1, s.k = r.k, s.n = r.n, s.queue = r.queue,
         s.batches = r.batches, NEW p, p = At(l, r.i), NEW t
  PROVE  /\ OnItsWay(s) /\ p \in DOMAIN Pools /\ p \in Present(l)
         /\ LiquidSoFar(s, t) = LiquidSoFar(r, t)
         /\ StakedSoFar(s, t) = StakedSoFar(r, t)
         /\ PooledSoFar(s, t) = PooledSoFar(r, t) + (IF t \in tokens THEN Added(l, p, t) ELSE 0)
         /\ Added(l, p, t) \in Nat
<1>1. r.pc \in {"stake", "v2", "v3", "v4"} /\ r.pc # "stake" /\ ListOf[r.pc] = l
  BY DEF Versions, ListOf
<1>2. /\ \A stage : Been(s, stage) = Been(r, stage) \cup (IF stage = r.pc THEN {r.i} ELSE {})
      /\ BeenTwice(s, "reward") = BeenTwice(r, "reward")
      /\ r.i \in Kept(l) /\ r.i \notin Been(r, l) /\ OnItsWay(s)
  BY <1>1, BeenNext
<1>3. p \in DOMAIN Pools
  BY <1>2, PoolsAre
<1>4. p \in Present(l)
  BY <1>2 DEF Present, At, Kept
<1>5. LiquidSoFar(s, t) = LiquidSoFar(r, t)
  BY DEF LiquidSoFar, Awaited
<1>6. Been(s, l) = Been(r, l) \cup {r.i} /\ \A v : v # l => Been(s, v) = Been(r, v)
  <2>1. \A A : A \cup {} = A
    OBVIOUS
  <2>2. QED
    BY <1>2, <2>1
<1>7. StakedSoFar(s, t) = StakedSoFar(r, t)
  BY <1>1, <1>2, <1>6 DEF StakedSoFar
<1>8. /\ Added(l, p, t) = (IF Pools[p].tokens[1] = t THEN AmountOf(l, p, 1) ELSE 0)
                           + (IF Pools[p].tokens[2] = t THEN AmountOf(l, p, 2) ELSE 0)
       /\ AmountOf(l, p, 1) \in Nat /\ AmountOf(l, p, 2) \in Nat
  <2>1. PICK f : f = [k \in 1..2 |-> AmountOf(l, p, k)]
    OBVIOUS
  <2>2. PICK P : P = {k \in 1..2 : Pools[p].tokens[k] = t}
    BY ONLY <1>3
  <2>3. f \in [1..2 -> Nat] /\ f[1] = AmountOf(l, p, 1) /\ f[2] = AmountOf(l, p, 2)
    BY <1>3, <2>1, AmountNat
  <2>4. P \in SUBSET (1..2) /\ (1 \in P <=> Pools[p].tokens[1] = t) /\ (2 \in P <=> Pools[p].tokens[2] = t)
    BY ONLY <2>2
  <2>5. SumFunctionOnSet(f, P) = (IF 1 \in P THEN f[1] ELSE 0) + (IF 2 \in P THEN f[2] ELSE 0)
    BY ONLY <2>3, <2>4, SumOfTwo
  <2>6. Added(l, p, t) = SumFunctionOnSet(f, P)
    BY ONLY <2>1, <2>2 DEF Added
  <2>7. f[1] \in Nat /\ f[2] \in Nat
    BY ONLY <2>3
  <2>8. QED
    BY ONLY <2>3, <2>4, <2>5, <2>6, <2>7
<1>9. Added(l, p, t) \in Nat
  BY ONLY <1>8
<1>10. PooledAt(l, Been(s, l) \X (1..2), t)
        = PooledAt(l, Been(r, l) \X (1..2), t) + Added(l, p, t)
  <2>1. PICK I \in SUBSET Kept(l) : I = Been(r, l)
    BY BeenKept
  <2>2. /\ SumFunctionOnSet(PoolAt(l), ((I \cup {r.i}) \X (1..2)) \cap PoolsOf(l, t))
              = SumFunctionOnSet(PoolAt(l), (I \X (1..2)) \cap PoolsOf(l, t))
                + ((IF Pools[At(l, r.i)].tokens[1] = t THEN PoolAt(l)[<<r.i, 1>>] ELSE 0)
                   + (IF Pools[At(l, r.i)].tokens[2] = t THEN PoolAt(l)[<<r.i, 2>>] ELSE 0))
    BY <1>2, <2>1, PooledMore
  <2>3. PoolAt(l)[<<r.i, 1>>] = AmountOf(l, p, 1) /\ PoolAt(l)[<<r.i, 2>>] = AmountOf(l, p, 2)
    BY <1>2 DEF PoolAt, AmountOf
  <2>4. /\ PooledAt(l, Been(s, l) \X (1..2), t)
              = SumFunctionOnSet(PoolAt(l), ((I \cup {r.i}) \X (1..2)) \cap PoolsOf(l, t))
        /\ PooledAt(l, Been(r, l) \X (1..2), t)
              = SumFunctionOnSet(PoolAt(l), (I \X (1..2)) \cap PoolsOf(l, t))
    BY ONLY <1>6, <2>1 DEF PooledAt
  <2>5. PooledAt(l, Been(s, l) \X (1..2), t)
          = PooledAt(l, Been(r, l) \X (1..2), t)
            + ((IF Pools[p].tokens[1] = t THEN AmountOf(l, p, 1) ELSE 0)
               + (IF Pools[p].tokens[2] = t THEN AmountOf(l, p, 2) ELSE 0))
    <3>1. SumFunctionOnSet(PoolAt(l), ((I \cup {r.i}) \X (1..2)) \cap PoolsOf(l, t))
            = SumFunctionOnSet(PoolAt(l), (I \X (1..2)) \cap PoolsOf(l, t))
              + ((IF Pools[p].tokens[1] = t THEN AmountOf(l, p, 1) ELSE 0)
                 + (IF Pools[p].tokens[2] = t THEN AmountOf(l, p, 2) ELSE 0))
      <4>1. At(l, r.i) = p
        OBVIOUS
      <4>2. QED
        BY ONLY <2>2, <2>3, <4>1
    <3>2. QED
      BY ONLY <2>4, <3>1
  <2>6. QED
    BY ONLY <1>8, <2>5
<1>11. CASE t \in tokens
  <2>1. PICK b : b = Added(l, p, t)
    OBVIOUS
  <2>2. PICK g : g = [v \in Versions |-> PooledAt(v, Been(r, v) \X (1..2), t)]
    OBVIOUS
  <2>3. PICK h : h = [v \in Versions |-> PooledAt(v, Been(s, v) \X (1..2), t)]
    OBVIOUS
  <2>4. h[l] = g[l] + b /\ \A v \in Versions \ {l} : h[v] = g[v]
    BY <1>6, <1>10, <2>1, <2>2, <2>3
  <2>5. \A v \in Versions : g[v] \in Nat
    <3>1. SUFFICES ASSUME NEW v \in Versions PROVE PooledAt(v, Been(r, v) \X (1..2), t) \in Nat
      BY <2>2
    <3>2. PICK X \in SUBSET (Kept(v) \X (1..2)) : X = Been(r, v) \X (1..2)
      BY BeenKept
    <3>3. PoolAt(v) \in [Kept(v) \X (1..2) -> Nat] /\ IsFiniteSet(Kept(v) \X (1..2))
      BY PoolsAre
    <3>4. IsFiniteSet(X \cap PoolsOf(v, t)) /\ X \cap PoolsOf(v, t) \in SUBSET (Kept(v) \X (1..2))
      BY <3>3, FS_Subset
    <3>5. QED
      BY <3>2, <3>3, <3>4, SumNat DEF PooledAt
  <2>6. b \in Nat
    BY <1>9, <2>1
  <2>7. /\ PooledSoFar(r, t) = g["v2"] + g["v3"] + g["v4"]
        /\ PooledSoFar(s, t) = h["v2"] + h["v3"] + h["v4"]
    BY <1>2, <1>11, <2>2, <2>3, PooledSoFarIs DEF Versions
  <2>8. PooledSoFar(s, t) = PooledSoFar(r, t) + b
    <3>1. l = "v2" \/ l = "v3" \/ l = "v4"
      <4>1. l \in Versions
        OBVIOUS
      <4>2. QED
        BY ONLY <4>1 DEF Versions
    <3>2. g["v2"] \in Nat /\ g["v3"] \in Nat /\ g["v4"] \in Nat
      BY <2>5 DEF Versions
    <3>3. CASE l = "v2"
      <4>1. h["v2"] = g["v2"] + b /\ h["v3"] = g["v3"] /\ h["v4"] = g["v4"]
        BY <2>4, <3>3 DEF Versions
      <4>2. QED
        BY <2>6, <2>7, <3>2, <4>1
    <3>4. CASE l = "v3"
      <4>1. h["v3"] = g["v3"] + b /\ h["v2"] = g["v2"] /\ h["v4"] = g["v4"]
        BY <2>4, <3>4 DEF Versions
      <4>2. QED
        BY <2>6, <2>7, <3>2, <4>1
    <3>5. CASE l = "v4"
      <4>1. h["v4"] = g["v4"] + b /\ h["v3"] = g["v3"] /\ h["v2"] = g["v2"]
        BY <2>4, <3>5 DEF Versions
      <4>2. QED
        BY <2>6, <2>7, <3>2, <4>1
    <3>6. QED
      BY <3>1, <3>3, <3>4, <3>5
  <2>9. QED
    BY <1>2, <1>3, <1>4, <1>5, <1>7, <1>9, <1>11, <2>1, <2>8
<1>12. CASE t \notin tokens
  BY <1>2, <1>3, <1>4, <1>5, <1>7, <1>9, <1>12 DEF PooledSoFar
<1>13. QED
  BY <1>11, <1>12

\* A loop over positions reads the status of the next one.
LEMMA PoolKeeps ==
  ASSUME WorthInv, PricesTypeOK, NEW u \in Passes, NEW l \in Versions, UNCHANGED <<tokens, walletVars>>,
         Ranging(u, l), NEW p, p = At(l, pass[u].i), NEW next, next = Further(pass[u]),
         \/ /\ p \in Present(l)
            /\ pass' = [pass EXCEPT ![u] =
                 [next EXCEPT !.sum = [next.sum EXCEPT !.lp = [t \in Tokens |-> next.sum.lp[t] +
                    (IF t \in tokens THEN Added(l, p, t) ELSE 0)]]]]
         \/ pass' = [pass EXCEPT ![u] = [next EXCEPT !.whole = FALSE]]
         \/ p \notin Present(l) /\ pass' = [pass EXCEPT ![u] = next]
  PROVE  WorthInv'
<1>1. PICK r : r = pass[u]
  OBVIOUS
<1>2. PICK g : g = [t \in Tokens |-> IF t \in tokens THEN Added(l, p, t) ELSE 0]
  OBVIOUS
<1>3. /\ r.pc = l /\ r.i <= r.n /\ r.pc # "rest" /\ p = At(l, r.i) /\ next = Further(r)
      /\ DOMAIN r = Fields /\ (r.still => PassTrue(r)) /\ held \in [Places -> Nat] /\ ListsSound
  BY <1>1 DEF Ranging, WorthInv, PassesTrue, Versions
<1>4. /\ DOMAIN next = Fields /\ next.still = r.still /\ next.sum = r.sum /\ next.whole = r.whole
      /\ next.pc = r.pc /\ next.i = r.i + 1 /\ next.k = r.k /\ next.n = r.n
      /\ next.queue = r.queue /\ next.batches = r.batches
  BY <1>3 DEF Further, Fields
<1>5. ASSUME r.still
      PROVE  /\ OnItsWay(r) /\ Counted(r) /\ OnItsWay(next) /\ Asks(next) /\ p \in Present(l)
             /\ g \in [Tokens -> Nat]
             /\ \A t \in Tokens : /\ LiquidSoFar(next, t) = LiquidSoFar(r, t)
                                  /\ StakedSoFar(next, t) = StakedSoFar(r, t)
                                  /\ PooledSoFar(next, t) = PooledSoFar(r, t) + g[t]
  <2>1. OnItsWay(r) /\ Asks(r) /\ Counted(r)
    BY <1>3, <1>5 DEF PassTrue
  <2>2. Asks(next)
    BY <1>4, <2>1 DEF Asks
  <2>3. ASSUME NEW t
        PROVE  /\ OnItsWay(next) /\ p \in Present(l)
               /\ LiquidSoFar(next, t) = LiquidSoFar(r, t)
               /\ StakedSoFar(next, t) = StakedSoFar(r, t)
               /\ PooledSoFar(next, t) = PooledSoFar(r, t) + (IF t \in tokens THEN Added(l, p, t) ELSE 0)
               /\ Added(l, p, t) \in Nat
    BY <1>3, <1>4, <2>1, PoolNext
  <2>4. g \in [Tokens -> Nat]
    BY <1>2, <2>3
  <2>5. QED
    BY <1>2, <2>1, <2>2, <2>3, <2>4
<1>6. ASSUME NEW s, DOMAIN s = Fields, SameWay(next, s), s.still = r.still, p \in Present(l),
             r.still => \/ /\ s.whole = r.whole /\ s.sum = [r.sum EXCEPT !.lp = [t \in Tokens |-> r.sum.lp[t] + g[t]]]
                        \/ s.whole = FALSE /\ s.sum = r.sum,
             pass' = [pass EXCEPT ![u] = s]
      PROVE  WorthInv'
  <2>1. ASSUME r.still PROVE PassTrue(s)
    <3>1. PICK d : d = [c \in Columns |-> [t \in Tokens |-> IF c = "lp" THEN g[t] ELSE 0]]
      OBVIOUS
    <3>2. d \in [Columns -> [Tokens -> Nat]]
      BY <1>5, <2>1, <3>1
    <3>3. OnItsWay(s) /\ Asks(s) /\ \A t : SoFar(s, t) = SoFar(next, t)
      BY <1>5, <1>6, <2>1, SameWayKeeps
    <3>4. \A c \in Columns, t \in Tokens : SoFar(r, t)[c] \in Nat
      BY <1>3, <1>5, <2>1, SoFarNat
    <3>5. \A c \in Columns, t \in Tokens : SoFar(next, t)[c] = SoFar(r, t)[c] + d[c][t]
      <4>1. \A t \in Tokens : /\ LiquidSoFar(r, t) \in Nat /\ StakedSoFar(r, t) \in Nat
                              /\ PooledSoFar(r, t) \in Nat
        BY <1>3, <1>5, <2>1, SoFarNat
      <4>2. SUFFICES ASSUME NEW t \in Tokens
                     PROVE  /\ LiquidSoFar(next, t) = LiquidSoFar(r, t) + d.liquid[t]
                            /\ StakedSoFar(next, t) = StakedSoFar(r, t) + d.staked[t]
                            /\ PooledSoFar(next, t) = PooledSoFar(r, t) + d.lp[t]
        BY DEF SoFar, Columns
      <4>3. d.liquid[t] = 0 /\ d.staked[t] = 0 /\ d.lp[t] = g[t]
        BY <3>1 DEF Columns
      <4>4. QED
        BY <1>5, <2>1, <4>1, <4>3
    <3>6. r.sum \in [Columns -> [Tokens -> Nat]]
      BY <1>5, <2>1 DEF Counted
    <3>7. CASE s.whole = r.whole /\ s.sum = [r.sum EXCEPT !.lp = [t \in Tokens |-> r.sum.lp[t] + g[t]]]
      <4>1. PICK row : row = [t \in Tokens |-> r.sum.lp[t] + g[t]]
        OBVIOUS
      <4>2. row \in [Tokens -> Nat] /\ \A t \in Tokens : row[t] = r.sum.lp[t] + g[t]
        BY <1>5, <2>1, <3>6, <4>1 DEF Columns
      <4>3. s.sum = [r.sum EXCEPT !.lp = row]
        BY <3>7, <4>1
      <4>4. s.sum \in [Columns -> [Tokens -> Nat]]
        BY <3>6, <4>2, <4>3
      <4>5. s.sum.lp = row /\ \A c \in Columns : c # "lp" => s.sum[c] = r.sum[c]
        BY <3>6, <4>3 DEF Columns
      <4>6. ASSUME NEW c \in Columns, NEW t \in Tokens PROVE s.sum[c][t] = r.sum[c][t] + d[c][t]
        <5>1. r.sum[c][t] \in Nat
          BY <3>6
        <5>2. d[c][t] = IF c = "lp" THEN g[t] ELSE 0
          BY <3>1
        <5>3. QED
          BY <4>2, <4>5, <5>1, <5>2
      <4>7. Gained(r, s, d)
        BY <3>7, <4>4, <4>6 DEF Gained
      <4>8. Counted(s)
        BY <1>3, <1>5, <2>1, <3>2, <3>3, <3>5, <4>7, CountedMore
      <4>9. QED
        BY <3>3, <4>8 DEF PassTrue
    <3>8. CASE s.whole = FALSE /\ s.sum = r.sum
      <4>1. Gained(r, s, d)
        BY <3>6, <3>8 DEF Gained
      <4>2. Counted(s)
        BY <1>3, <1>5, <2>1, <3>2, <3>3, <3>5, <4>1, CountedMore
      <4>3. QED
        BY <3>3, <4>2 DEF PassTrue
    <3>9. QED
      BY <1>6, <2>1, <3>7, <3>8
  <2>2. QED
    BY <1>6, <2>1, PassGoesOn
<1>7. CASE /\ p \in Present(l)
           /\ pass' = [pass EXCEPT ![u] =
                 [next EXCEPT !.sum = [next.sum EXCEPT !.lp = [t \in Tokens |-> next.sum.lp[t] +
                    (IF t \in tokens THEN Added(l, p, t) ELSE 0)]]]]
  <2>1. PICK m : m = [next.sum EXCEPT !.lp = [t \in Tokens |-> next.sum.lp[t] +
                        (IF t \in tokens THEN Added(l, p, t) ELSE 0)]]
    OBVIOUS
  <2>2. PICK s : s = [next EXCEPT !.sum = m]
    OBVIOUS
  <2>3. /\ DOMAIN s = Fields /\ s.still = r.still /\ s.whole = r.whole /\ s.sum = m
        /\ SameWay(next, s)
    BY <1>4, <2>2 DEF Fields, SameWay
  <2>4. m = [r.sum EXCEPT !.lp = [t \in Tokens |-> r.sum.lp[t] + g[t]]]
    <3>1. [t \in Tokens |-> next.sum.lp[t] + (IF t \in tokens THEN Added(l, p, t) ELSE 0)]
          = [t \in Tokens |-> r.sum.lp[t] + g[t]]
      BY <1>2, <1>4
    <3>2. QED
      BY ONLY <1>4, <2>1, <3>1
  <2>5. pass' = [pass EXCEPT ![u] = s]
    BY <1>7, <2>1, <2>2
  <2>6. QED
    BY <1>6, <1>7, <2>3, <2>4, <2>5
<1>8. CASE pass' = [pass EXCEPT ![u] = [next EXCEPT !.whole = FALSE]]
  <2>1. PICK s : s = [next EXCEPT !.whole = FALSE]
    OBVIOUS
  <2>2. /\ DOMAIN s = Fields /\ s.still = r.still /\ s.whole = FALSE /\ s.sum = r.sum
        /\ SameWay(next, s)
    BY <1>4, <2>1 DEF Fields, SameWay
  <2>3. pass' = [pass EXCEPT ![u] = s]
    BY <1>8, <2>1
  <2>4. QED
    <3>1. CASE p \in Present(l)
      BY <1>6, <2>2, <2>3, <3>1
    <3>2. CASE p \notin Present(l)
      BY <1>5, <2>2, <2>3, <3>2, PassGoesOn
    <3>3. QED
      BY <3>1, <3>2
<1>9. CASE p \notin Present(l) /\ pass' = [pass EXCEPT ![u] = next]
  BY <1>4, <1>5, <1>9, PassGoesOn
<1>10. QED
  BY <1>7, <1>8, <1>9

\* The status of the next position of a version.
LEMMA PoolStepsKeep ==
  ASSUME WorthInv, PricesTypeOK, NEW u \in Passes, ReadV2(u) \/ ReadV3(u) \/ ReadV4(u)
  PROVE  WorthInv'
<1>1. PICK l \in Versions : Status(u, l)
  BY DEF ReadV2, ReadV3, ReadV4, Versions
<1>2. PICK next : next = Further(pass[u])
  OBVIOUS
<1>3. PICK p : p = At(l, pass[u].i)
  OBVIOUS
<1>4. AddStatus(next.sum, l, p)
        = [next.sum EXCEPT !.lp = [t \in Tokens |-> next.sum.lp[t] +
             (IF t \in tokens THEN Added(l, p, t) ELSE 0)]]
  BY DEF AddStatus, Added
<1>5. /\ Ranging(u, l) /\ UNCHANGED <<tokens, walletVars>>
      /\ \/ /\ p \in Present(l)
            /\ pass' = [pass EXCEPT ![u] = [next EXCEPT !.sum = AddStatus(next.sum, l, p)]]
         \/ pass' = [pass EXCEPT ![u] = [next EXCEPT !.whole = FALSE]]
         \/ p \notin Present(l) /\ pass' = [pass EXCEPT ![u] = next]
  BY <1>1, <1>2, <1>3 DEF Status, Position, At, priceVars, walletVars
<1>6. QED
  BY <1>2, <1>3, <1>4, <1>5, PoolKeeps

\* The loops over positions.
Loops == {"stake", "reward", "v2", "v3", "v4"}

\* A pass that has been at the same places of the lists.
LEMMA BeenTheSame ==
  ASSUME NEW r, NEW s, \A stage \in Loops : Been(s, stage) = Been(r, stage),
         BeenTwice(s, "reward") = BeenTwice(r, "reward")
  PROVE  \A t : StakedSoFar(s, t) = StakedSoFar(r, t) /\ PooledSoFar(s, t) = PooledSoFar(r, t)
<1>1. SUFFICES ASSUME NEW t
               PROVE StakedSoFar(s, t) = StakedSoFar(r, t) /\ PooledSoFar(s, t) = PooledSoFar(r, t)
  OBVIOUS
<1>2. Been(s, "stake") = Been(r, "stake")
  BY DEF Loops
<1>3. StakedSoFar(s, t) = StakedSoFar(r, t)
  BY <1>2 DEF StakedSoFar
<1>4. PooledSoFar(s, t) = PooledSoFar(r, t)
  <2>1. PICK b : b = [l \in Versions |-> Been(r, l)]
    OBVIOUS
  <2>2. /\ Been(r, "v2") = b["v2"] /\ Been(s, "v2") = b["v2"]
        /\ Been(r, "v3") = b["v3"] /\ Been(s, "v3") = b["v3"]
        /\ Been(r, "v4") = b["v4"] /\ Been(s, "v4") = b["v4"]
    BY <2>1 DEF Versions, Loops
  <2>3. QED
    BY ONLY <2>2 DEF PooledSoFar
<1>5. QED
  BY <1>3, <1>4

\* What is at one place, for a token.
LEMMA SumOfPick ==
  ASSUME held \in [Places -> Nat], NEW x \in Places, NEW t
  PROVE  SumOf(Among({x}, t)) = IF t = TokenAt(x) THEN held[x] ELSE 0
<1>1. CASE t = TokenAt(x)
  <2>1. Among({x}, t) = {x}
    BY <1>1 DEF Among
  <2>2. QED
    BY <1>1, <2>1, SumOfOne
<1>2. CASE t # TokenAt(x)
  <2>1. Among({x}, t) = {}
    BY <1>2 DEF Among
  <2>2. SumOf({}) = 0
    BY SumEmpty DEF SumOf
  <2>3. QED
    BY <1>2, <2>1, <2>2
<1>3. QED
  BY <1>1, <1>2

\* The answer for the first of the queries made by themselves.
LEMMA QueryKeeps ==
  ASSUME WorthInv, PricesTypeOK, NEW u \in Passes, GetBalance(u) \/ GetERC20Balance(u) PROVE WorthInv'
<1>1. PICK r : r = pass[u]
  OBVIOUS
<1>2. PICK next : next = Next1(r)
  OBVIOUS
<1>3. PICK x : x = Head(r.queue)
  OBVIOUS
<1>4. /\ r.queue # <<>> /\ Single(u, x, "liquid", next) /\ UNCHANGED <<tokens, walletVars>>
  BY <1>1, <1>2, <1>3 DEF GetBalance, GetERC20Balance, priceVars, walletVars
<1>5. /\ DOMAIN next = Fields /\ next.still = r.still /\ next.sum = r.sum /\ next.whole = r.whole
      /\ DOMAIN r = Fields /\ (r.pc # "rest" /\ r.still => PassTrue(r))
      /\ held \in [Places -> Nat] /\ ListsSound /\ tokens \subseteq Tokens
      /\ next.pc = r.pc /\ next.i = r.i /\ next.k = r.k /\ next.n = r.n
      /\ next.queue = Tail(r.queue) /\ next.batches = r.batches
  BY <1>1, <1>2, <1>4 DEF WorthInv, PassesTrue, Next1, Fields, PricesTypeOK
<1>6. CASE r.pc = "rest"
  <2>1. CASE pass' = [pass EXCEPT ![u] = [next EXCEPT !.whole = FALSE]]
    <3>1. PICK s : s = [next EXCEPT !.whole = FALSE]
      OBVIOUS
    <3>2. DOMAIN s = Fields /\ s.pc = "rest" /\ pass' = [pass EXCEPT ![u] = s]
      BY <1>5, <1>6, <2>1, <3>1 DEF Fields
    <3>3. QED
      BY <1>4, <3>2, PassGoesOn
  <2>2. CASE pass' = [pass EXCEPT ![u] = [next EXCEPT !.sum["liquid"][TokenAt(x)] = @ + held[x]]]
    <3>1. PICK s : s = [next EXCEPT !.sum["liquid"][TokenAt(x)] = @ + held[x]]
      OBVIOUS
    <3>2. DOMAIN s = Fields /\ s.pc = "rest" /\ pass' = [pass EXCEPT ![u] = s]
      BY <1>5, <1>6, <2>2, <3>1 DEF Fields
    <3>3. QED
      BY <1>4, <3>2, PassGoesOn
  <2>3. QED
    BY <1>4, <2>1, <2>2 DEF Single
<1>7. CASE r.pc # "rest"
  <2>1. ASSUME r.still
        PROVE  /\ OnItsWay(next) /\ Asks(next) /\ x \in Places /\ TokenAt(x) \in Tokens
               /\ \A c \in Columns, t \in Tokens : SoFar(next, t)[c] = SoFar(r, t)[c]
                    + (IF c = "liquid" /\ t = TokenAt(x) THEN held[x] ELSE 0)
    <3>1. OnItsWay(r) /\ Asks(r)
      BY <1>5, <1>7, <2>1 DEF PassTrue
    <3>2. OnItsWay(next)
      BY <1>5, <3>1 DEF OnItsWay
    <3>3. PICK S : S = LiquidOf(tokens \ ignored)
      OBVIOUS
    <3>4. r.queue \in Seq(S) /\ IsInjective(r.queue)
      BY <3>1, <3>3 DEF Asks
    <3>5. /\ x \in S /\ Tail(r.queue) \in Seq(S) /\ DOMAIN r.queue = 1..Len(r.queue) /\ Len(r.queue) \in Nat \ {0}
          /\ Len(Tail(r.queue)) = Len(r.queue) - 1
          /\ \A i \in 1..(Len(r.queue) - 1) : Tail(r.queue)[i] = r.queue[i + 1]
          /\ x = r.queue[1]
      BY <1>3, <1>4, <3>4
    <3>6. PICK n : n = Len(r.queue)
      OBVIOUS
    <3>7. /\ DOMAIN next.queue = 1..(n - 1) /\ n \in Nat \ {0} /\ next.queue \in Seq(S)
          /\ \A i \in 1..(n - 1) : next.queue[i] = r.queue[i + 1] /\ i + 1 \in 1..n
          /\ DOMAIN r.queue = 1..n
      BY <1>5, <3>5, <3>6
    <3>8. x = r.queue[1] /\ 1 \in 1..n
      <4>1. n \in Nat \ {0}
        BY ONLY <3>7
      <4>2. 1 \in 1..n
        BY ONLY <4>1
      <4>3. QED
        BY ONLY <3>5, <4>2
    <3>9. \A i, j \in 1..n : r.queue[i] = r.queue[j] => i = j
      BY <3>4, <3>7 DEF IsInjective
    <3>10. IsInjective(next.queue)
      <4>1. \A i, j \in 1..(n - 1) : next.queue[i] = next.queue[j] => i + 1 = j + 1
        BY <3>7, <3>9
      <4>2. \A i, j \in 1..(n - 1) : i + 1 = j + 1 => i = j
        BY <3>7
      <4>3. QED
        BY <3>7, <4>1, <4>2 DEF IsInjective
    <3>11. Range(r.queue) = Range(next.queue) \cup {x} /\ x \notin Range(next.queue)
      <4>1. \A i \in 1..n : i = 1 \/ (i - 1 \in 1..(n - 1) /\ i = (i - 1) + 1)
        BY <3>7
      <4>2. \A i \in 1..n : r.queue[i] = x \/ r.queue[i] \in Range(next.queue)
        <5>1. SUFFICES ASSUME NEW i \in 1..n PROVE r.queue[i] = x \/ r.queue[i] \in Range(next.queue)
          OBVIOUS
        <5>2. CASE i = 1
          BY ONLY <3>8, <5>2
        <5>3. CASE i # 1
          <6>1. i - 1 \in 1..(n - 1) /\ i = (i - 1) + 1
            BY ONLY <4>1, <5>3, i \in 1..n
          <6>2. next.queue[i - 1] = r.queue[i]
            BY ONLY <3>7, <6>1
          <6>3. QED
            BY ONLY <3>7, <6>1, <6>2, RangeIs
        <5>4. QED
          BY <5>2, <5>3
      <4>3. \A i \in 1..(n - 1) : next.queue[i] \in Range(r.queue)
        BY <3>7, RangeIs
      <4>4. x \in Range(r.queue)
        BY ONLY <3>7, <3>8, RangeIs
      <4>5. \A i \in 1..(n - 1) : i + 1 # 1 /\ 1 \in 1..n
        BY <3>7
      <4>6. \A i \in 1..(n - 1) : next.queue[i] # x
        BY <3>5, <3>7, <3>9, <4>5
      <4>7. QED
        BY <3>7, <4>2, <4>3, <4>4, <4>6, RangeIs
    <3>12. Asks(next)
      <4>1. \A i \in DOMAIN next.queue, j \in DOMAIN next.batches :
              TokenAt(next.queue[i]) \notin next.batches[j].tokens
        BY <1>5, <3>1, <3>7 DEF Asks
      <4>2. next.pc # "liquid" => next.queue = <<>> /\ next.batches = <<>>
        BY <1>4, <1>5, <3>1 DEF Asks
      <4>3. QED
        BY <1>5, <3>1, <3>3, <3>7, <3>10, <4>1, <4>2 DEF Asks
    <3>13. PICK a0 \in Addresses, t0 \in tokens \ ignored : x = Liquid(a0, t0)
      BY <3>3, <3>5, LiquidAre
    <3>14. TokenAt(x) = t0 /\ t0 \in Tokens /\ x \in Places
      BY <1>5, <3>13, TokenAtIs, PlacesAre
    <3>15. PICK B : B = LiquidOf(UNION {b.tokens : b \in Range(r.batches)})
      OBVIOUS
    <3>16. Awaited(r) = Range(r.queue) \cup B /\ Awaited(next) = Range(next.queue) \cup B
      BY <1>5, <3>15 DEF Awaited
    <3>17. x \notin B
      <4>1. \A y \in B : \E b \in Range(r.batches) : TokenAt(y) \in b.tokens
        BY <3>15, TokenAtIs, LiquidAre
      <4>2. \A b \in Range(r.batches) : t0 \notin b.tokens
        <5>1. \A i \in DOMAIN r.queue, j \in DOMAIN r.batches :
                TokenAt(r.queue[i]) \notin r.batches[j].tokens
          BY <3>1 DEF Asks
        <5>2. \A j \in DOMAIN r.batches : t0 \notin r.batches[j].tokens
          BY ONLY <3>7, <3>8, <3>14, <5>1
        <5>3. QED
          BY ONLY <5>2, RangeIs
      <4>3. QED
        BY <3>14, <4>1, <4>2
    <3>18. PICK Q : Q = {x}
      OBVIOUS
    <3>19. Awaited(r) = Awaited(next) \cup Q /\ Q \cap Awaited(next) = {} /\ Q \in SUBSET LiquidOf(Tokens)
      BY <3>11, <3>13, <3>14, <3>16, <3>17, <3>18, LiquidAre
    <3>20. ASSUME NEW t \in Tokens
           PROVE  /\ LiquidSoFar(next, t) = LiquidSoFar(r, t) + (IF t = TokenAt(x) THEN held[x] ELSE 0)
                  /\ StakedSoFar(next, t) = StakedSoFar(r, t)
                  /\ PooledSoFar(next, t) = PooledSoFar(r, t)
      <4>1. LiquidSoFar(next, t) = LiquidSoFar(r, t)
              + (IF t \in tokens \ ignored THEN SumOf(Among(Q, t)) ELSE 0)
        BY <1>5, <3>19, LiquidMore
      <4>2. SumOf(Among(Q, t)) = IF t = TokenAt(x) THEN held[x] ELSE 0
        BY <1>5, <3>14, <3>18, SumOfPick
      <4>3. \A stage : Been(next, stage) = Been(r, stage) /\ BeenTwice(next, stage) = BeenTwice(r, stage)
        BY <1>5 DEF Been, BeenTwice
      <4>4. StakedSoFar(next, t) = StakedSoFar(r, t) /\ PooledSoFar(next, t) = PooledSoFar(r, t)
        BY <4>3, BeenTheSame
      <4>5. (IF t \in tokens \ ignored THEN SumOf(Among(Q, t)) ELSE 0)
              = IF t = TokenAt(x) THEN held[x] ELSE 0
        BY ONLY <3>13, <3>14, <4>2
      <4>6. QED
        BY ONLY <4>1, <4>4, <4>5
    <3>21. \A t \in Tokens : /\ LiquidSoFar(r, t) \in Nat /\ StakedSoFar(r, t) \in Nat
                             /\ PooledSoFar(r, t) \in Nat
      BY <1>5, <3>1, SoFarNat
    <3>22. \A c \in Columns, t \in Tokens : SoFar(next, t)[c] = SoFar(r, t)[c]
             + (IF c = "liquid" /\ t = TokenAt(x) THEN held[x] ELSE 0)
      BY <3>20, <3>21 DEF SoFar, Columns
    <3>23. QED
      BY <3>2, <3>12, <3>14, <3>22
  <2>2. "liquid" \in Columns
    BY DEF Columns
  <2>3. /\ DOMAIN next = Fields /\ next.still = pass[u].still
        /\ next.sum = pass[u].sum /\ next.whole = pass[u].whole /\ pass[u].pc # "rest"
        /\ pass[u].still =>
             /\ OnItsWay(next) /\ Asks(next) /\ x \in Places /\ TokenAt(x) \in Tokens
             /\ \A c \in Columns, t \in Tokens : SoFar(next, t)[c] = SoFar(pass[u], t)[c]
                  + (IF c = "liquid" /\ t = TokenAt(x) THEN held[x] ELSE 0)
    BY <1>1, <1>5, <1>7, <2>1
  <2>4. QED
    BY <1>4, <2>2, <2>3, SingleKeeps
<1>8. QED
  BY <1>6, <1>7

\* The first of a sequence in which nothing comes twice.
LEMMA FirstOfMany ==
  ASSUME NEW S, NEW q \in Seq(S), q # <<>>, IsInjective(q)
  PROVE  /\ Head(q) \in S /\ Tail(q) \in Seq(S) /\ IsInjective(Tail(q))
         /\ Range(q) = Range(Tail(q)) \cup {Head(q)} /\ Head(q) \notin Range(Tail(q))
<1>1. PICK n : n = Len(q)
  OBVIOUS
<1>2. PICK p : p = Tail(q)
  OBVIOUS
<1>3. /\ n \in Nat \ {0} /\ DOMAIN q = 1..n /\ Head(q) = q[1] /\ Head(q) \in S
      /\ p \in Seq(S) /\ DOMAIN p = 1..(n - 1)
      /\ \A i \in 1..(n - 1) : p[i] = q[i + 1] /\ i + 1 \in 1..n
  BY <1>1, <1>2
<1>4. 1 \in 1..n
  BY <1>3
<1>5. \A i, j \in 1..n : q[i] = q[j] => i = j
  BY <1>3 DEF IsInjective
<1>6. IsInjective(p)
  <2>1. \A i, j \in 1..(n - 1) : p[i] = p[j] => i + 1 = j + 1
    BY <1>3, <1>5
  <2>2. \A i, j \in 1..(n - 1) : i + 1 = j + 1 => i = j
    BY <1>3
  <2>3. QED
    BY <1>3, <2>1, <2>2 DEF IsInjective
<1>7. \A i \in 1..n : q[i] = Head(q) \/ q[i] \in Range(p)
  <2>1. SUFFICES ASSUME NEW i \in 1..n PROVE q[i] = Head(q) \/ q[i] \in Range(p)
    OBVIOUS
  <2>2. CASE i = 1
    BY ONLY <1>3, <2>2
  <2>3. CASE i # 1
    <3>1. i - 1 \in 1..(n - 1) /\ i = (i - 1) + 1
      BY <1>3, <2>3
    <3>2. p[i - 1] = q[i]
      BY ONLY <1>3, <3>1
    <3>3. QED
      BY ONLY <1>3, <3>1, <3>2, RangeIs
  <2>4. QED
    BY <2>2, <2>3
<1>8. \A i \in 1..(n - 1) : p[i] \in Range(q)
  BY <1>3, RangeIs
<1>9. Head(q) \in Range(q)
  BY ONLY <1>3, <1>4, RangeIs
<1>10. \A i \in 1..(n - 1) : p[i] # Head(q)
  <2>1. \A i \in 1..(n - 1) : i + 1 # 1
    BY <1>3
  <2>2. QED
    BY ONLY <1>3, <1>4, <1>5, <2>1
<1>11. Range(q) = Range(p) \cup {Head(q)}
  <2>1. \A y \in Range(q) : y \in Range(p) \cup {Head(q)}
    BY ONLY <1>3, <1>7, RangeIs
  <2>2. \A y \in Range(p) \cup {Head(q)} : y \in Range(q)
    BY ONLY <1>3, <1>8, <1>9, RangeIs
  <2>3. QED
    BY ONLY <2>1, <2>2
<1>12. Head(q) \notin Range(p)
  BY ONLY <1>3, <1>10, RangeIs
<1>13. QED
  BY <1>2, <1>3, <1>6, <1>11, <1>12

\* A finite set in a row.
LEMMA SetInRow ==
  ASSUME NEW S, IsFiniteSet(S)
  PROVE  SetToSeq(S) \in Seq(S) /\ IsInjective(SetToSeq(S)) /\ Range(SetToSeq(S)) = S
<1>1. PICK n : n = Cardinality(S)
  OBVIOUS
<1>2. PICK q : q = SetToSeq(S)
  OBVIOUS
<1>3. n \in Nat /\ ExistsBijection(1..n, S)
  BY <1>1, FS_CardinalityType
<1>4. \E g \in [1..n -> S] : IsInjective(g)
  BY <1>3 DEF ExistsBijection, Bijection, Injection, IsInjective
<1>5. q \in [1..n -> S] /\ IsInjective(q)
  <2>1. q = CHOOSE f \in [1..n -> S] : IsInjective(f)
    BY ONLY <1>1, <1>2 DEF SetToSeq
  <2>2. QED
    BY ONLY <1>4, <2>1
<1>6. q \in Injection(1..n, S)
  BY <1>5 DEF Injection, IsInjective
<1>7. Cardinality(1..n) = n /\ IsFiniteSet(1..n)
  BY <1>3, FS_Interval
<1>8. q \in Surjection(1..n, S)
  BY <1>1, <1>6, <1>7, FS_Injection
<1>9. q \in Seq(S)
  BY <1>3, <1>5, FunctionIsSeq
<1>10. \A x \in S : \E j \in 1..n : q[j] = x
  BY <1>8 DEF Surjection
<1>11. Range(q) = S
  <2>1. DOMAIN q = 1..n /\ \A j \in 1..n : q[j] \in S
    BY ONLY <1>5
  <2>2. ASSUME NEW y \in Range(q) PROVE y \in S
    <3>1. PICK i \in DOMAIN q : y = q[i]
      BY RangeIs
    <3>2. QED
      BY <2>1, <3>1
  <2>3. \A y \in S : y \in Range(q)
    BY <1>10, <2>1, RangeIs
  <2>4. QED
    BY <2>2, <2>3
<1>12. QED
  BY <1>2, <1>5, <1>9, <1>11

\* A token that is not ignored is in one batch at most.
LEMMA BatchesAre ==
  /\ \A b \in Batches : b.tokens \subseteq tokens \ ignored
  /\ \A b, d \in Batches : \A t \in b.tokens : t \in d.tokens => b = d
<1>1. ASSUME NEW b \in Batches
      PROVE  \E c \in Range(Chains), n \in BOOLEAN : b = Batch(c, n)
  <2>1. b \in {Batch(c, n) : c \in Range(Chains), n \in BOOLEAN}
    BY DEF Batches
  <2>2. QED
    BY ONLY <2>1 DEF Batch
<1>2. ASSUME NEW c, NEW n
      PROVE  /\ Batch(c, n).tokens = {t \in tokens \ ignored : ChainOf[t] = c /\ (t = NativeOf[c]) = n}
  BY DEF Batch
<1>3. \A b \in Batches : b.tokens \subseteq tokens \ ignored
  BY <1>1, <1>2
<1>4. ASSUME NEW b \in Batches, NEW d \in Batches, NEW t \in b.tokens, t \in d.tokens PROVE b = d
  <2>1. PICK c \in Range(Chains), n \in BOOLEAN : b = Batch(c, n)
    BY <1>1
  <2>2. PICK c2 \in Range(Chains), n2 \in BOOLEAN : d = Batch(c2, n2)
    BY <1>1
  <2>3. ChainOf[t] = c /\ (t = NativeOf[c]) = n
    BY <1>2, <1>4, <2>1
  <2>4. ChainOf[t] = c2 /\ (t = NativeOf[c2]) = n2
    BY <1>2, <1>4, <2>2
  <2>5. c = c2 /\ n = n2
    <3>1. c = c2
      BY <2>3, <2>4
    <3>2. (t = NativeOf[c]) = n /\ (t = NativeOf[c]) = n2
      BY <2>3, <2>4, <3>1
    <3>3. n = n2
      BY ONLY <3>2
    <3>4. QED
      BY <3>1, <3>3
  <2>6. QED
    BY <2>1, <2>2, <2>5
<1>5. QED
  BY <1>3, <1>4

\* The tokens of some batches.
TokensOf(batches) == UNION {b.tokens : b \in Range(batches)}

\* Which tokens they are.
LEMMA TokensOfAre ==
  \A batches, t : t \in TokensOf(batches) <=> \E b \in Range(batches) : t \in b.tokens
BY DEF TokensOf

\* What a sequence has, by index.
LEMMA InSequence ==
  ASSUME NEW S, NEW q \in Seq(S) PROVE \A j \in DOMAIN q : q[j] \in S
OBVIOUS

\* What a sequence has.
LEMMA RangeIn ==
  ASSUME NEW S, NEW q \in Seq(S) PROVE \A y \in Range(q) : y \in S
<1>1. SUFFICES ASSUME NEW y \in Range(q) PROVE y \in S
  OBVIOUS
<1>2. PICK i \in DOMAIN q : y = q[i]
  BY RangeIs
<1>3. QED
  BY <1>2, InSequence

\* A sequence of elements of a larger set.
LEMMA InSequenceOfMore ==
  ASSUME NEW S, NEW T, S \subseteq T, NEW q \in Seq(S) PROVE q \in Seq(T)
OBVIOUS

\* The queries of a batch: each of its places once.
LEMMA QueriesAre ==
  ASSUME PricesTypeOK, NEW b \in Batches
  PROVE  /\ Queries(b) \in Seq(LiquidOf(b.tokens)) /\ IsInjective(Queries(b))
         /\ Range(Queries(b)) = LiquidOf(b.tokens)
         /\ LiquidOf(b.tokens) \in SUBSET LiquidOf(tokens \ ignored)
         /\ LiquidOf(tokens \ ignored) \in SUBSET LiquidOf(Tokens)
         /\ LiquidOf(Tokens) \in SUBSET Places
<1>1. b.tokens \subseteq tokens \ ignored /\ tokens \subseteq Tokens
  BY BatchesAre DEF PricesTypeOK
<1>2. LiquidOf(b.tokens) \in SUBSET LiquidOf(tokens \ ignored)
  BY <1>1, LiquidAre
<1>3. LiquidOf(tokens \ ignored) \in SUBSET LiquidOf(Tokens)
  BY <1>1, LiquidAre
<1>4. LiquidOf(Tokens) \in SUBSET Places
  BY LiquidAre, PlacesAre
<1>5. IsFiniteSet(LiquidOf(b.tokens))
  BY <1>2, <1>3, <1>4, PlacesFinite, FS_Subset
<1>6. QED
  BY <1>2, <1>3, <1>4, <1>5, SetInRow DEF Queries

\* A pass that takes the next batch.
LEMMA BatchTaken ==
  ASSUME PricesTypeOK, NEW r, OnItsWay(r), Asks(r), r.pc = "liquid", r.queue = <<>>, r.batches # <<>>,
         NEW b, b = Head(r.batches),
         NEW s, s.pc = r.pc, s.i = r.i, s.k = r.k, s.n = r.n, s.batches = Tail(r.batches),
         s.queue = <<>> \/ s.queue = Queries(b)
  PROVE  /\ b \in Batches /\ OnItsWay(s) /\ Asks(s)
         /\ s.queue = <<>> => /\ Awaited(r) = Awaited(s) \cup LiquidOf(b.tokens)
                              /\ LiquidOf(b.tokens) \cap Awaited(s) = {}
         /\ s.queue = Queries(b) => Awaited(r) = Awaited(s)
<1>1. r.batches \in Seq(Batches) /\ IsInjective(r.batches)
  BY DEF Asks
<1>2. PICK S : S = Batches
  OBVIOUS
<1>3. /\ b \in S /\ s.batches \in Seq(S) /\ IsInjective(s.batches)
      /\ Range(r.batches) = Range(s.batches) \cup {b} /\ b \notin Range(s.batches)
  BY <1>1, <1>2, FirstOfMany
<1>4. OnItsWay(s)
  BY DEF OnItsWay
<1>5. \A x \in Range(s.batches) : x \in Batches
  <2>1. s.batches \in Seq(S)
    BY <1>3
  <2>2. QED
    BY ONLY <1>2, <2>1, RangeIn
<1>6. \A x \in Range(s.batches) : \A t \in b.tokens : t \notin x.tokens
  BY <1>2, <1>3, <1>5, BatchesAre
<1>7. PICK q : q = Queries(b)
  OBVIOUS
<1>8. PICK P : P = LiquidOf(b.tokens)
  OBVIOUS
<1>9. /\ q \in Seq(P) /\ IsInjective(q) /\ Range(q) = P
      /\ P \in SUBSET LiquidOf(tokens \ ignored)
  BY <1>2, <1>3, <1>7, <1>8, QueriesAre
<1>10. \A y \in P : TokenAt(y) \in b.tokens
  BY <1>8, LiquidAre, TokenAtIs
<1>11. Asks(s)
  <2>1. CASE s.queue = <<>>
    BY <1>2, <1>3, <2>1 DEF Asks, IsInjective
  <2>2. CASE s.queue = q
    <3>1. s.queue \in Seq(LiquidOf(tokens \ ignored)) /\ IsInjective(s.queue)
      BY <1>9, <2>2, InSequenceOfMore
    <3>2. \A i \in DOMAIN q : q[i] \in P
      <4>1. q \in Seq(P)
        BY <1>9
      <4>2. QED
        BY ONLY <4>1
    <3>3. \A j \in DOMAIN s.batches : s.batches[j] \in Range(s.batches)
      BY RangeIs
    <3>4. \A i \in DOMAIN q, j \in DOMAIN s.batches : TokenAt(q[i]) \notin s.batches[j].tokens
      BY <1>6, <1>10, <3>2, <3>3
    <3>5. QED
      BY <1>2, <1>3, <2>2, <3>1, <3>4 DEF Asks
  <2>3. QED
    BY <1>7, <2>1, <2>2
<1>12. PICK T : T = TokensOf(s.batches)
  OBVIOUS
<1>13. TokensOf(r.batches) = T \cup b.tokens /\ \A t \in b.tokens : t \notin T
  <2>1. \A t : t \in TokensOf(r.batches) <=> t \in T \/ t \in b.tokens
    BY <1>3, <1>12, TokensOfAre
  <2>2. QED
    BY <1>6, <1>12, <2>1, TokensOfAre
<1>14. LiquidOf(TokensOf(r.batches)) = LiquidOf(T) \cup P
  BY <1>8, <1>13, LiquidAre
<1>15. P \cap LiquidOf(T) = {}
  <2>1. \A y \in LiquidOf(T) : TokenAt(y) \in T
    BY LiquidAre, TokenAtIs
  <2>2. QED
    BY <1>10, <1>13, <2>1
<1>16. Range(<<>>) = {}
  BY RangeIs
<1>17. Awaited(r) = LiquidOf(T) \cup P
  BY <1>14, <1>16 DEF Awaited, TokensOf
<1>18. Awaited(s) = Range(s.queue) \cup LiquidOf(T)
  BY <1>12 DEF Awaited, TokensOf
<1>19. QED
  BY <1>2, <1>3, <1>4, <1>7, <1>8, <1>9, <1>11, <1>15, <1>16, <1>17, <1>18

\* What the answers to some queries add for a token.
Answered(q, t) ==
  SumFunctionOnSet([i \in DOMAIN q |-> held[q[i]]], {i \in DOMAIN q : TokenAt(q[i]) = t})

\* Each place of a batch is asked for once.
LEMMA AnswersAre ==
  ASSUME PricesTypeOK, held \in [Places -> Nat], NEW b \in Batches, NEW t
  PROVE  /\ Answered(Queries(b), t) = SumOf(Among(LiquidOf(b.tokens), t))
         /\ SumOf(Among(LiquidOf(b.tokens), t)) \in Nat
         /\ t \notin tokens \ ignored => SumOf(Among(LiquidOf(b.tokens), t)) = 0
<1>1. PICK q : q = Queries(b)
  OBVIOUS
<1>2. PICK P : P = LiquidOf(b.tokens)
  OBVIOUS
<1>3. /\ q \in Seq(P) /\ IsInjective(q) /\ Range(q) = P
      /\ P \in SUBSET Places /\ P \in SUBSET LiquidOf(tokens \ ignored)
  BY <1>1, <1>2, QueriesAre
<1>4. PICK D : D = DOMAIN q
  OBVIOUS
<1>5. PICK f : f = [i \in D |-> held[q[i]]]
  OBVIOUS
<1>6. PICK A : A = {i \in D : TokenAt(q[i]) = t}
  OBVIOUS
<1>7. PICK B : B = Among(P, t)
  OBVIOUS
<1>8. \A i \in D : q[i] \in P
  <2>1. q \in Seq(P)
    BY <1>3
  <2>2. QED
    BY ONLY <1>4, <2>1, InSequence
<1>9. f \in [D -> Nat] /\ A \in SUBSET D /\ B \in SUBSET Places
  BY <1>3, <1>5, <1>6, <1>7, <1>8 DEF Among
<1>10. IsFiniteSet(A)
  <2>1. Len(q) \in Nat /\ D = 1..Len(q)
    BY <1>3, <1>4
  <2>2. IsFiniteSet(D)
    BY <2>1, UpToFinite
  <2>3. QED
    BY <1>9, <2>2, FS_Subset
<1>11. PICK h : h = [i \in A |-> q[i]]
  OBVIOUS
<1>12. h \in [A -> B]
  BY <1>6, <1>7, <1>8, <1>11 DEF Among
<1>13. \A x, y \in A : h[x] = h[y] => x = y
  BY <1>3, <1>4, <1>6, <1>11 DEF IsInjective
<1>14. ASSUME NEW y \in B PROVE \E x \in A : h[x] = y
  <2>1. y \in Range(q) /\ TokenAt(y) = t
    BY <1>3, <1>7 DEF Among
  <2>2. PICK i \in D : y = q[i]
    BY <1>4, <2>1, RangeIs
  <2>3. QED
    BY <1>6, <1>11, <2>1, <2>2
<1>15. \A x \in A : f[x] = held[h[x]]
  BY <1>5, <1>6, <1>11
<1>16. SumFunctionOnSet(f, A) = SumFunctionOnSet(held, B)
  BY <1>9, <1>10, <1>12, <1>13, <1>14, <1>15, SumRenamed
<1>17. Answered(q, t) = SumOf(B)
  BY ONLY <1>4, <1>5, <1>6, <1>16 DEF Answered, SumOf
<1>18. SumOf(B) \in Nat
  BY <1>9, SumOfNat
<1>19. ASSUME t \notin tokens \ ignored PROVE SumOf(B) = 0
  <2>1. \A y \in P : TokenAt(y) \in tokens \ ignored
    BY <1>3, LiquidAre, TokenAtIs
  <2>2. B = {}
    BY <1>7, <1>19, <2>1 DEF Among
  <2>3. QED
    BY <2>2, SumEmpty DEF SumOf
<1>20. QED
  BY <1>1, <1>2, <1>7, <1>17, <1>18, <1>19

\* Where a pass has been among the positions.
LEMMA PositionsSoFar ==
  ASSUME NEW r, NEW s, s.pc = r.pc, s.i = r.i, s.k = r.k, s.n = r.n
  PROVE  \A t : StakedSoFar(s, t) = StakedSoFar(r, t) /\ PooledSoFar(s, t) = PooledSoFar(r, t)
<1>1. \A stage : Been(s, stage) = Been(r, stage) /\ BeenTwice(s, stage) = BeenTwice(r, stage)
  BY DEF Been, BeenTwice
<1>2. QED
  BY <1>1, BeenTheSame

\* The next batch, by one call or query by query.
LEMMA BatchKeeps ==
  ASSUME WorthInv, PricesTypeOK, NEW u \in Passes, ReadNative(u) \/ ReadERC20(u) PROVE WorthInv'
<1>1. PICK r : r = pass[u]
  OBVIOUS
<1>2. PICK b : b = Head(r.batches)
  OBVIOUS
<1>3. /\ r.pc = "liquid" /\ r.queue = <<>> /\ r.batches # <<>> /\ UNCHANGED <<tokens, walletVars>>
      /\ \/ pass' = [pass EXCEPT ![u].batches = Tail(@), ![u].sum = AddAll(@, Queries(b))]
         \/ pass' = [pass EXCEPT ![u].batches = Tail(@), ![u].queue = Queries(b)]
  BY <1>1, <1>2 DEF ReadNative, ReadERC20, NextBatch, GetNativeBalancesBatch, GetERC20BalancesBatch,
                    priceVars, walletVars
<1>4. DOMAIN r = Fields /\ (r.still => PassTrue(r)) /\ held \in [Places -> Nat] /\ ListsSound
  BY <1>1, <1>3 DEF WorthInv, PassesTrue
<1>5. CASE pass' = [pass EXCEPT ![u].batches = Tail(@), ![u].queue = Queries(b)]
  <2>1. PICK s : s = [r EXCEPT !.batches = Tail(@), !.queue = Queries(b)]
    OBVIOUS
  <2>2. /\ pass' = [pass EXCEPT ![u] = s]
        /\ DOMAIN s = Fields /\ s.still = r.still /\ s.sum = r.sum /\ s.whole = r.whole
        /\ s.pc = r.pc /\ s.i = r.i /\ s.k = r.k /\ s.n = r.n
        /\ s.batches = Tail(r.batches) /\ s.queue = Queries(b)
    BY <1>1, <1>4, <1>5, <2>1 DEF Fields
  <2>3. ASSUME r.still
        PROVE  /\ OnItsWay(s) /\ Asks(s)
               /\ \A c \in Columns, t \in Tokens : SoFar(s, t)[c] = SoFar(r, t)[c]
    <3>1. OnItsWay(r) /\ Asks(r)
      BY <1>4, <2>3 DEF PassTrue
    <3>2. OnItsWay(s) /\ Asks(s) /\ Awaited(r) = Awaited(s)
      BY <1>2, <1>3, <2>2, <3>1, BatchTaken
    <3>3. \A t : LiquidSoFar(s, t) = LiquidSoFar(r, t)
      BY <3>2 DEF LiquidSoFar
    <3>4. \A t : StakedSoFar(s, t) = StakedSoFar(r, t) /\ PooledSoFar(s, t) = PooledSoFar(r, t)
      BY <2>2, PositionsSoFar
    <3>5. QED
      BY <3>2, <3>3, <3>4 DEF SoFar
  <2>4. QED
    BY <1>1, <1>3, <2>2, <2>3, PassedOver
<1>6. CASE pass' = [pass EXCEPT ![u].batches = Tail(@), ![u].sum = AddAll(@, Queries(b))]
  <2>1. PICK s : s = [r EXCEPT !.batches = Tail(@), !.sum = AddAll(@, Queries(b))]
    OBVIOUS
  <2>2. /\ pass' = [pass EXCEPT ![u] = s]
        /\ DOMAIN s = Fields /\ s.still = r.still /\ s.whole = r.whole
        /\ s.pc = r.pc /\ s.i = r.i /\ s.k = r.k /\ s.n = r.n
        /\ s.batches = Tail(r.batches) /\ s.queue = <<>>
        /\ s.sum = AddAll(r.sum, Queries(b))
    BY <1>1, <1>3, <1>4, <1>6, <2>1 DEF Fields
  <2>3. ASSUME r.still PROVE PassTrue(s)
    <3>1. OnItsWay(r) /\ Asks(r) /\ Counted(r)
      BY <1>4, <2>3 DEF PassTrue
    <3>2. PICK P : P = LiquidOf(b.tokens)
      OBVIOUS
    <3>3. /\ OnItsWay(s) /\ Asks(s) /\ b \in Batches
          /\ Awaited(r) = Awaited(s) \cup P /\ P \cap Awaited(s) = {}
      BY <1>2, <1>3, <2>2, <3>1, <3>2, BatchTaken
    <3>4. P \in SUBSET LiquidOf(Tokens)
      BY <3>2, <3>3, QueriesAre
    <3>5. PICK g : g = [t \in Tokens |-> SumOf(Among(P, t))]
      OBVIOUS
    <3>6. \A t \in Tokens : /\ Answered(Queries(b), t) = g[t] /\ g[t] \in Nat
                            /\ t \notin tokens \ ignored => g[t] = 0
      BY <1>4, <3>2, <3>3, <3>5, AnswersAre
    <3>7. PICK d : d = [c \in Columns |-> [t \in Tokens |-> IF c = "liquid" THEN g[t] ELSE 0]]
      OBVIOUS
    <3>8. d \in [Columns -> [Tokens -> Nat]]
      BY <3>6, <3>7
    <3>9. \A t \in Tokens : LiquidSoFar(s, t) = LiquidSoFar(r, t) + g[t]
      <4>1. SUFFICES ASSUME NEW t \in Tokens PROVE LiquidSoFar(s, t) = LiquidSoFar(r, t) + g[t]
        OBVIOUS
      <4>2. LiquidSoFar(s, t) = LiquidSoFar(r, t)
              + (IF t \in tokens \ ignored THEN SumOf(Among(P, t)) ELSE 0)
        BY <1>4, <3>3, <3>4, LiquidMore
      <4>3. QED
        BY <3>5, <3>6, <4>2
    <3>10. \A t : StakedSoFar(s, t) = StakedSoFar(r, t) /\ PooledSoFar(s, t) = PooledSoFar(r, t)
      BY <2>2, PositionsSoFar
    <3>11. \A t \in Tokens : StakedSoFar(r, t) \in Nat /\ PooledSoFar(r, t) \in Nat
      BY <1>4, <3>1, SoFarNat
    <3>12. \A c \in Columns, t \in Tokens : SoFar(s, t)[c] = SoFar(r, t)[c] + d[c][t]
      BY <3>7, <3>9, <3>10, <3>11 DEF SoFar, Columns
    <3>13. r.sum \in [Columns -> [Tokens -> Nat]]
      BY <3>1 DEF Counted
    <3>14. PICK row : row = [t \in Tokens |-> r.sum["liquid"][t] + g[t]]
      OBVIOUS
    <3>15. s.sum = [r.sum EXCEPT !["liquid"] = row]
      <4>1. row = [t \in Tokens |-> r.sum["liquid"][t] + Answered(Queries(b), t)]
        BY <3>6, <3>14
      <4>2. QED
        BY <2>2, <4>1 DEF AddAll, Answered
    <3>16. /\ s.sum \in [Columns -> [Tokens -> Nat]] /\ row \in [Tokens -> Nat]
      BY <3>6, <3>13, <3>14, <3>15 DEF Columns
    <3>17. \A c \in Columns, t \in Tokens : s.sum[c][t] = r.sum[c][t] + d[c][t]
      BY <3>6, <3>7, <3>13, <3>14, <3>15 DEF Columns
    <3>18. Gained(r, s, d)
      BY <2>2, <3>16, <3>17 DEF Gained
    <3>19. Counted(s)
      BY <1>4, <3>1, <3>3, <3>8, <3>12, <3>18, CountedMore
    <3>20. QED
      BY <3>3, <3>19 DEF PassTrue
  <2>4. QED
    BY <1>3, <2>2, <2>3, PassGoesOn
<1>7. QED
  BY <1>3, <1>5, <1>6

\* The loop that comes after one.
After == [liquid |-> "stake", stake |-> "reward", reward |-> "v2", v2 |-> "v3", v3 |-> "v4",
          v4 |-> "build"]

\* A loop that is through has been at every place of its list, and the next one at none.
LEMMA LoopDone ==
  ASSUME ListsSound, NEW r, OnItsWay(r), r.pc \in DOMAIN After, r.i > r.n,
         NEW s, s.pc = After[r.pc], s.k = r.k,
         s.pc # "build" => s.i = 1 /\ s.n = lists[ListOf[s.pc]].n,
         s.pc = "build" => s.i = r.i /\ s.n = r.n
  PROVE  /\ OnItsWay(s)
         /\ \A stage \in Loops : Been(s, stage) = Been(r, stage)
         /\ BeenTwice(s, "reward") = BeenTwice(r, "reward")
<1>1. /\ r.pc \in {"liquid", "stake", "reward", "v2", "v3", "v4"}
      /\ r.i \in Nat \ {0} /\ r.n \in Nat /\ r.i <= r.n + 1 /\ r.k \in 1..2
      /\ r.k = 2 => r.i <= r.n
      /\ r.pc \in {"stake", "reward", "v2", "v3", "v4"} => r.n = lists[ListOf[r.pc]].n
  BY DEF OnItsWay, After
<1>2. r.k = 1 /\ s.k = 1 /\ r.i - 1 = r.n
  BY <1>1
<1>3. \A l \in Lists : lists[l].n \in Nat
  BY DEF ListsSound
<1>4. s.pc # "build" => s.n \in Nat /\ s.i = 1
  BY <1>1, <1>3 DEF After, ListOf, Lists
<1>5. OnItsWay(s)
  BY <1>1, <1>2, <1>4 DEF OnItsWay, After, Stages
<1>6. 1..(r.i - 1) = 1..r.n /\ (s.pc # "build" => 1..(s.i - 1) = {})
  <2>1. s.pc # "build" => s.i - 1 = 0
    BY <1>4
  <2>2. 1..0 = {}
    OBVIOUS
  <2>3. QED
    BY <1>2, <2>1, <2>2
<1>7. r.pc \in Loops => 1..(r.i - 1) = Kept(ListOf[r.pc])
  BY <1>1, <1>6 DEF Kept, Loops
<1>8. /\ Through[s.pc] = Through[r.pc] \cup {r.pc} /\ r.pc \notin Through[r.pc]
      /\ s.pc \notin Through[r.pc] /\ s.pc \notin Through[s.pc] /\ s.pc # r.pc
      /\ "build" \notin Loops
  BY <1>1 DEF Through, After, Loops
<1>9. ASSUME NEW stage \in Loops PROVE Been(s, stage) = Been(r, stage)
  <2>1. CASE stage \in Through[r.pc]
    BY <1>8, <2>1 DEF Been
  <2>2. CASE stage = r.pc
    BY <1>7, <1>8, <2>2 DEF Been
  <2>3. CASE stage = s.pc
    BY <1>6, <1>8, <2>3 DEF Been
  <2>4. CASE stage \notin Through[r.pc] /\ stage # r.pc /\ stage # s.pc
    BY <1>8, <2>4 DEF Been
  <2>5. QED
    BY <2>1, <2>2, <2>3, <2>4
<1>10. BeenTwice(s, "reward") = BeenTwice(r, "reward")
  BY <1>2, <1>9 DEF BeenTwice, Loops
<1>11. QED
  BY <1>5, <1>9, <1>10

\* From a loop to the next.
LEMMA LeaveKeeps ==
  ASSUME WorthInv, NEW u \in Passes, Leave(u) PROVE WorthInv'
<1>1. PICK r : r = pass[u]
  OBVIOUS
<1>2. PICK s : s = CASE r.pc = "liquid" -> Enter(r, "stake", "staking")
                     [] r.pc = "stake" -> Enter(r, "reward", "staking")
                     [] r.pc = "reward" -> Enter(r, "v2", "v2")
                     [] r.pc = "v2" -> Enter(r, "v3", "v3")
                     [] r.pc = "v3" -> Enter(r, "v4", "v4")
                     [] r.pc = "v4" -> [r EXCEPT !.pc = "build"]
  OBVIOUS
<1>3. /\ r.pc \in {"liquid", "stake", "reward", "v2", "v3", "v4"}
      /\ r.batches = <<>> /\ r.queue = <<>> /\ r.i > r.n
      /\ pass' = [pass EXCEPT ![u] = s] /\ UNCHANGED <<tokens, walletVars>>
  BY <1>1, <1>2 DEF Leave, priceVars, walletVars
<1>4. DOMAIN r = Fields /\ (r.still => PassTrue(r)) /\ ListsSound
  BY <1>1, <1>3 DEF WorthInv, PassesTrue
<1>5. /\ DOMAIN s = Fields /\ s.still = r.still /\ s.sum = r.sum /\ s.whole = r.whole
      /\ s.pc = After[r.pc] /\ s.k = r.k /\ s.batches = <<>> /\ s.queue = <<>>
      /\ s.pc # "build" => s.i = 1 /\ s.n = lists[ListOf[s.pc]].n
      /\ s.pc = "build" => s.i = r.i /\ s.n = r.n
  <2>1. CASE r.pc = "liquid"
    <3>1. s = Enter(r, "stake", "staking")
      BY ONLY <1>2, <2>1
    <3>2. QED
      BY <1>3, <1>4, <2>1, <3>1 DEF Enter, Fields, After, ListOf
  <2>2. CASE r.pc = "stake"
    <3>1. s = Enter(r, "reward", "staking")
      BY ONLY <1>2, <2>2
    <3>2. QED
      BY <1>3, <1>4, <2>2, <3>1 DEF Enter, Fields, After, ListOf
  <2>3. CASE r.pc = "reward"
    <3>1. s = Enter(r, "v2", "v2")
      BY ONLY <1>2, <2>3
    <3>2. QED
      BY <1>3, <1>4, <2>3, <3>1 DEF Enter, Fields, After, ListOf
  <2>4. CASE r.pc = "v2"
    <3>1. s = Enter(r, "v3", "v3")
      BY ONLY <1>2, <2>4
    <3>2. QED
      BY <1>3, <1>4, <2>4, <3>1 DEF Enter, Fields, After, ListOf
  <2>5. CASE r.pc = "v3"
    <3>1. s = Enter(r, "v4", "v4")
      BY ONLY <1>2, <2>5
    <3>2. QED
      BY <1>3, <1>4, <2>5, <3>1 DEF Enter, Fields, After, ListOf
  <2>6. CASE r.pc = "v4"
    <3>1. s = [r EXCEPT !.pc = "build"]
      BY ONLY <1>2, <2>6
    <3>2. QED
      BY <1>3, <1>4, <2>6, <3>1 DEF Fields, After
  <2>7. QED
    BY <1>3, <2>1, <2>2, <2>3, <2>4, <2>5, <2>6
<1>6. ASSUME r.still
      PROVE  /\ OnItsWay(s) /\ Asks(s)
             /\ \A c \in Columns, t \in Tokens : SoFar(s, t)[c] = SoFar(r, t)[c]
  <2>1. OnItsWay(r) /\ Asks(r)
    BY <1>4, <1>6 DEF PassTrue
  <2>2. r.pc \in DOMAIN After
    BY <1>3 DEF After
  <2>3. /\ OnItsWay(s) /\ \A stage \in Loops : Been(s, stage) = Been(r, stage)
        /\ BeenTwice(s, "reward") = BeenTwice(r, "reward")
    BY <1>3, <1>4, <1>5, <2>1, <2>2, LoopDone
  <2>4. Asks(s)
    BY <1>3, <1>5, <2>1 DEF Asks
  <2>5. \A t : LiquidSoFar(s, t) = LiquidSoFar(r, t)
    BY <1>3, <1>5 DEF LiquidSoFar, Awaited
  <2>6. \A t : StakedSoFar(s, t) = StakedSoFar(r, t) /\ PooledSoFar(s, t) = PooledSoFar(r, t)
    BY <2>3, BeenTheSame
  <2>7. QED
    BY <2>3, <2>4, <2>5, <2>6 DEF SoFar
<1>7. QED
  BY <1>1, <1>3, <1>5, <1>6, PassedOver DEF Fields

\* A token that is not ignored is in a batch.
LEMMA EachInBatch ==
  ASSUME PricesTypeOK, NEW t \in tokens \ ignored
  PROVE  \E b \in Batches : t \in b.tokens
<1>1. PICK c : c = ChainOf[t]
  OBVIOUS
<1>2. c \in Range(Chains)
  <2>1. t \in Tokens
    BY DEF PricesTypeOK
  <2>2. c \in {Chains[i] : i \in DOMAIN Chains}
    BY <1>1, <2>1, Markets
  <2>3. QED
    BY <2>2, RangeIs
<1>3. PICK n \in BOOLEAN : n = (t = NativeOf[c])
  OBVIOUS
<1>4. PICK b : b = Batch(c, n)
  OBVIOUS
<1>5. t \in b.tokens
  BY <1>1, <1>3, <1>4 DEF Batch
<1>6. b \in {Batch(c2, n2) : c2 \in Range(Chains), n2 \in BOOLEAN}
  <2>1. \E c2 \in Range(Chains), n2 \in BOOLEAN : b = Batch(c2, n2)
    BY <1>2, <1>4
  <2>2. QED
    BY ONLY <2>1
<1>7. b \in Batches
  BY <1>5, <1>6 DEF Batches
<1>8. QED
  BY <1>5, <1>7

\* There are finitely many batches.
LEMMA BatchesFinite ==
  ASSUME PricesTypeOK PROVE IsFiniteSet(Batches)
<1>1. PICK A : A = tokens \ ignored
  OBVIOUS
<1>2. PICK B : B = Batches
  OBVIOUS
<1>3. PICK f : f = [t \in A |-> CHOOSE b \in B : t \in b.tokens]
  OBVIOUS
<1>4. \A t \in A : f[t] \in B /\ t \in f[t].tokens
  BY <1>1, <1>2, <1>3, EachInBatch
<1>5. ASSUME NEW b \in B PROVE \E t \in A : f[t] = b
  <2>1. b.tokens # {}
    BY <1>2 DEF Batches
  <2>2. PICK t : t \in b.tokens
    BY <2>1
  <2>3. t \in A
    BY <1>1, <1>2, <2>2, BatchesAre
  <2>4. f[t] = b
    BY <1>2, <1>4, <2>2, <2>3, BatchesAre
  <2>5. QED
    BY <2>3, <2>4
<1>6. f \in [A -> B]
  BY <1>3, <1>4
<1>7. IsFiniteSet(A)
  <2>1. A \in SUBSET Tokens /\ IsFiniteSet(Tokens)
    BY <1>1, WalletIsFinite DEF PricesTypeOK
  <2>2. QED
    BY <2>1, FS_Subset
<1>8. QED
  BY <1>2, <1>5, <1>6, <1>7, ImageFinite

\* The rows of a finite set.
LEMMA RowsAre ==
  ASSUME NEW S, IsFiniteSet(S), NEW q \in SetToSeqs(S)
  PROVE  q \in Seq(S) /\ IsInjective(q) /\ Range(q) = S
<1>1. PICK n : n = Cardinality(S)
  OBVIOUS
<1>2. n \in Nat
  BY <1>1, FS_CardinalityType
<1>3. q \in [1..n -> S] /\ \A i, j \in 1..n : i # j => q[i] # q[j]
  BY <1>1 DEF SetToSeqs
<1>4. IsInjective(q) /\ q \in Injection(1..n, S)
  BY <1>3 DEF Injection, IsInjective
<1>5. Cardinality(1..n) = n /\ IsFiniteSet(1..n)
  BY <1>2, FS_Interval
<1>6. q \in Surjection(1..n, S)
  BY <1>1, <1>4, <1>5, FS_Injection
<1>7. q \in Seq(S)
  BY <1>2, <1>3, FunctionIsSeq
<1>8. \A x \in S : \E j \in 1..n : q[j] = x
  BY <1>6 DEF Surjection
<1>9. Range(q) = S
  <2>1. DOMAIN q = 1..n /\ \A j \in 1..n : q[j] \in S
    BY ONLY <1>3
  <2>2. \A y \in Range(q) : y \in S
    BY <1>7, RangeIn
  <2>3. \A y \in S : y \in Range(q)
    BY <1>8, <2>1, RangeIs
  <2>4. QED
    BY <2>2, <2>3
<1>10. QED
  BY <1>4, <1>7, <1>9

\* A pass that begins has been nowhere.
LEMMA NowhereYet ==
  ASSUME PricesTypeOK, ListsSound, held \in [Places -> Nat], NEW r, r.pc = "liquid", r.i = 1, r.k = 1,
         r.queue = <<>>, Range(r.batches) = Batches, NEW t \in Tokens
  PROVE  SoFar(r, t) = [liquid |-> 0, staked |-> 0, lp |-> 0]
<1>1. LiquidSoFar(r, t) = 0
  <2>1. CASE t \in tokens \ ignored
    <3>1. PICK b \in Batches : t \in b.tokens
      BY <2>1, EachInBatch
    <3>2. t \in TokensOf(r.batches)
      BY <3>1, TokensOfAre
    <3>3. \A y \in LiquidOf({t}) : y \in LiquidOf(TokensOf(r.batches))
      BY <3>2, LiquidAre
    <3>4. LiquidOf({t}) \ Awaited(r) = {}
      BY <3>3 DEF Awaited, TokensOf
    <3>5. SumOf({}) = 0
      BY SumEmpty DEF SumOf
    <3>6. QED
      BY <3>4, <3>5 DEF LiquidSoFar
  <2>2. CASE t \notin tokens \ ignored
    BY <2>2 DEF LiquidSoFar
  <2>3. QED
    BY <2>1, <2>2
<1>2. PICK none : none = {}
  OBVIOUS
<1>3. /\ Been(r, "stake") = none /\ BeenTwice(r, "reward") = none
      /\ Been(r, "v2") \X (1..2) = none /\ Been(r, "v3") \X (1..2) = none
      /\ Been(r, "v4") \X (1..2) = none
  <2>1. \A stage \in Loops : Been(r, stage) = {}
    BY DEF Been, Through, Loops
  <2>2. QED
    BY <1>2, <2>1 DEF BeenTwice, Loops
<1>4. StakedSoFar(r, t) = 0
  <2>1. StakedIn(none, t) = SumFunctionOnSet(StakeAt, none \cap StakesOf(t))
    BY <1>2, StakedIs
  <2>2. RewardsIn(none, t) = SumFunctionOnSet(RewardAt, none \cap RewardsOf(t))
    BY <1>2, RewardsIs
  <2>3. \A A : none \cap A = none
    BY <1>2
  <2>4. SumFunctionOnSet(StakeAt, none) = 0 /\ SumFunctionOnSet(RewardAt, none) = 0
    BY <1>2, StakesAre, SumEmpty
  <2>5. StakedIn(none, t) = 0 /\ RewardsIn(none, t) = 0
    BY ONLY <2>1, <2>2, <2>3, <2>4
  <2>6. QED
    BY <1>3, <2>5 DEF StakedSoFar
<1>5. PooledSoFar(r, t) = 0
  <2>1. \A l \in Versions : SumFunctionOnSet(PoolAt(l), none) = 0
    BY <1>2, PoolsAre, SumEmpty
  <2>2. \A A : none \cap A = none
    BY <1>2
  <2>3. "v2" \in Versions /\ "v3" \in Versions /\ "v4" \in Versions
    BY DEF Versions
  <2>4. /\ PooledIn("v2", none, t) = SumFunctionOnSet(PoolAt("v2"), none \cap PoolsOf("v2", t))
        /\ PooledIn("v3", none, t) = SumFunctionOnSet(PoolAt("v3"), none \cap PoolsOf("v3", t))
        /\ PooledIn("v4", none, t) = SumFunctionOnSet(PoolAt("v4"), none \cap PoolsOf("v4", t))
    BY <1>2, <2>3, PooledAre
  <2>5. /\ PooledIn("v2", none, t) = 0
        /\ PooledIn("v3", none, t) = 0
        /\ PooledIn("v4", none, t) = 0
    BY ONLY <2>1, <2>2, <2>3, <2>4
  <2>6. /\ PooledIn("v2", Been(r, "v2") \X (1..2), t) = 0
        /\ PooledIn("v3", Been(r, "v3") \X (1..2), t) = 0
        /\ PooledIn("v4", Been(r, "v4") \X (1..2), t) = 0
    BY ONLY <1>3, <2>5
  <2>7. QED
    BY <2>6 DEF PooledSoFar
<1>6. QED
  BY <1>1, <1>4, <1>5 DEF SoFar

\* Prices and the pane do not matter.
LEMMA PassesStay ==
  ASSUME WorthInv, UNCHANGED <<tokens, walletVars, pass>> PROVE WorthInv'
<1>1. tokens' = tokens /\ held' = held /\ pass' = pass /\ ListsSound'
  BY ListsKept DEF WorthInv, walletVars
<1>2. ASSUME NEW x \in Passes, pass[x].pc # "rest", pass[x].still PROVE PassTrue(pass[x])'
  <2>1. PassTrue(pass[x])
    BY <1>2 DEF WorthInv, PassesTrue
  <2>2. PICK r : r = pass[x]
    OBVIOUS
  <2>3. PassTrue(r)'
    BY <2>1, <2>2, PassKept
  <2>4. r = pass'[x]
    BY <1>1, <2>2
  <2>5. QED
    BY <2>3, <2>4
<1>3. PassesTrue'
  BY <1>1, <1>2 DEF WorthInv, PassesTrue
<1>4. QED
  BY <1>1, <1>3 DEF WorthInv

\* A pass that has been told that things moved promises nothing.
LEMMA StirKeeps ==
  ASSUME WorthInv, Stir, held' \in [Places -> Nat], ListsSound' PROVE WorthInv'
<1>1. DOMAIN pass' = Passes
  BY DEF Stir
<1>2. \A u \in Passes : pass[u].pc # "rest" => ~pass'[u].still
  BY DEF Stir, WorthInv, PassesTrue, Fields
<1>3. \A u \in Passes : DOMAIN pass'[u] = Fields /\ (pass[u].pc = "rest" => pass'[u].pc = "rest")
  BY DEF Stir, WorthInv, PassesTrue, Fields
<1>4. PassesTrue'
  BY <1>2, <1>3 DEF PassesTrue
<1>5. QED
  BY <1>1, <1>4 DEF WorthInv

\* A pass may begin.
LEMMA StartedKeeps ==
  ASSUME WorthInv, PricesTypeOK, NEW u \in Passes, NEW on, Started(u, on),
         UNCHANGED <<tokens, walletVars>>
  PROVE  WorthInv'
<1>1. CASE UNCHANGED pass
  BY <1>1, PassesStay
<1>2. ASSUME NEW order \in SetToSeqs(Batches),
             pass' = [pass EXCEPT ![u] = [Rest EXCEPT !.pc = "liquid", !.batches = order]]
      PROVE  WorthInv'
  <2>1. PICK s : s = [Rest EXCEPT !.pc = "liquid", !.batches = order]
    OBVIOUS
  <2>2. /\ DOMAIN s = Fields /\ s.pc = "liquid" /\ s.batches = order /\ s.queue = <<>>
        /\ s.i = 1 /\ s.k = 1 /\ s.n = 0 /\ s.sum = Nothing
    BY <2>1 DEF Rest, Fields
  <2>3. PICK S : S = Batches
    OBVIOUS
  <2>4. order \in Seq(S) /\ IsInjective(order) /\ Range(order) = S
    BY <2>3, BatchesFinite, RowsAre
  <2>5. OnItsWay(s)
    BY <2>2 DEF OnItsWay, Stages
  <2>6. Asks(s)
    BY <2>2, <2>3, <2>4 DEF Asks, IsInjective
  <2>7. ListsSound /\ held \in [Places -> Nat]
    BY DEF WorthInv
  <2>8. \A t \in Tokens : SoFar(s, t) = [liquid |-> 0, staked |-> 0, lp |-> 0]
    BY <2>2, <2>3, <2>4, <2>7, NowhereYet
  <2>9. Counted(s)
    <3>1. /\ s.sum \in [Columns -> [Tokens -> Nat]]
          /\ \A c \in Columns, t \in Tokens : s.sum[c][t] = 0
      BY <2>2 DEF Nothing
    <3>2. \A c \in Columns, t \in Tokens : SoFar(s, t)[c] = 0
      BY <2>8 DEF Columns
    <3>3. QED
      BY <3>1, <3>2 DEF Counted
  <2>10. PassTrue(s)
    BY <2>5, <2>6, <2>9 DEF PassTrue
  <2>11. QED
    BY <1>2, <2>1, <2>2, <2>10, PassGoesOn
<1>3. QED
  BY <1>1, <1>2 DEF Started

\* The list is made, and the pass is over.
LEMMA BuildKeeps ==
  ASSUME WorthInv, NEW u \in Passes, BuildList(u) PROVE WorthInv'
<1>1. pass' = [pass EXCEPT ![u] = Rest] /\ UNCHANGED <<tokens, walletVars>>
  BY DEF BuildList, priceVars, walletVars
<1>2. DOMAIN Rest = Fields /\ Rest.pc = "rest"
  BY DEF Rest, Fields
<1>3. QED
  BY <1>1, <1>2, PassGoesOn

\* One of a token goes elsewhere.
LEMMA MoveKeeps ==
  ASSUME WorthInv, NEW x \in Places, NEW y \in Places, Move(x, y) PROVE WorthInv'
<1>1. /\ x # y /\ held[x] > 0 /\ held' = [held EXCEPT ![x] = @ - 1, ![y] = @ + 1]
      /\ Stir /\ lists' = lists
  BY DEF Move
<1>2. held \in [Places -> Nat] /\ ListsSound
  BY DEF WorthInv
<1>3. held' \in [Places -> Nat]
  BY <1>1, <1>2
<1>4. ListsSound'
  BY <1>1, <1>2 DEF ListsSound, At, Kept
<1>5. QED
  BY <1>1, <1>3, <1>4, StirKeeps

\* One list is replaced by another of positions of its kind, each there once.
LEMMA ListReplaced ==
  ASSUME ListsSound, NEW l \in Lists, NEW b \in Seq(OfList(l)), NEW n \in Nat, n <= Len(b),
         \A j, k \in 1..n : b[j] = b[k] => j = k,
         lists' = [lists EXCEPT ![l] = [a |-> b, n |-> n]]
  PROVE  ListsSound'
<1>1. lists \in [Lists -> [a : UNION {Seq(OfList(m)) : m \in Lists}, n : Nat]]
  BY DEF ListsSound
<1>2. /\ lists'[l] = [a |-> b, n |-> n]
      /\ \A m \in Lists : m # l => lists'[m] = lists[m]
  <2>1. DOMAIN lists = Lists
    BY <1>1
  <2>2. QED
    BY ONLY <2>1, l \in Lists, lists' = [lists EXCEPT ![l] = [a |-> b, n |-> n]]
<1>3. [a |-> b, n |-> n] \in [a : UNION {Seq(OfList(m)) : m \in Lists}, n : Nat]
  <2>1. b \in UNION {Seq(OfList(m)) : m \in Lists}
    OBVIOUS
  <2>2. QED
    BY <2>1
<1>4. lists' \in [Lists -> [a : UNION {Seq(OfList(m)) : m \in Lists}, n : Nat]]
  BY ONLY <1>1, <1>3, lists' = [lists EXCEPT ![l] = [a |-> b, n |-> n]]
<1>5. ASSUME NEW m \in Lists
      PROVE  /\ lists'[m].a \in Seq(OfList(m)) /\ lists'[m].n <= Len(lists'[m].a)
             /\ \A j, k \in 1..lists'[m].n : lists'[m].a[j] = lists'[m].a[k] => j = k
  <2>1. CASE m = l
    <3>1. lists'[m].a = b /\ lists'[m].n = n
      BY <1>2, <2>1
    <3>2. QED
      BY <2>1, <3>1
  <2>2. CASE m # l
    BY <1>2, <2>2 DEF ListsSound, At, Kept
  <2>3. QED
    BY <2>1, <2>2
<1>6. QED
  BY <1>4, <1>5 DEF ListsSound, At, Kept

\* A position goes: those behind it move down, and each is still there once.
LEMMA RemoveKeeps ==
  ASSUME WorthInv, NEW l \in Lists, NEW i, RemovePosition(l, i) PROVE WorthInv'
<1>1. PICK a : a = lists[l].a
  OBVIOUS
<1>2. PICK n : n = lists[l].n
  OBVIOUS
<1>3. PICK b : b = [k \in DOMAIN a |-> IF k \in i..(n - 1) THEN a[k + 1] ELSE a[k]]
  OBVIOUS
<1>4. PICK S : S = OfList(l)
  OBVIOUS
<1>5. /\ i \in 1..n /\ Stir /\ held' = held
      /\ lists' = [lists EXCEPT ![l] = [a |-> b, n |-> n - 1]]
  BY <1>1, <1>2, <1>3 DEF RemovePosition
<1>6. /\ lists \in [Lists -> [a : UNION {Seq(OfList(m)) : m \in Lists}, n : Nat]]
      /\ a \in Seq(S) /\ n \in Nat /\ n <= Len(a)
      /\ \A j, k \in 1..n : a[j] = a[k] => j = k
  BY <1>1, <1>2, <1>4 DEF WorthInv, ListsSound, At, Kept
<1>7. i \in 1..n /\ n \in Nat /\ n - 1 \in Nat /\ Len(a) \in Nat /\ DOMAIN a = 1..Len(a)
  BY <1>5, <1>6
<1>8. b \in Seq(S) /\ Len(b) = Len(a)
  <2>1. \A k \in 1..Len(a) : k \in i..(n - 1) => k + 1 \in 1..Len(a)
    BY <1>6, <1>7
  <2>2. \A k \in 1..Len(a) : a[k] \in S
    BY <1>6
  <2>3. \A k \in 1..Len(a) : b[k] \in S
    BY <1>3, <1>7, <2>1, <2>2
  <2>4. DOMAIN b = 1..Len(a)
    BY <1>3, <1>7
  <2>5. b \in [1..Len(a) -> S]
    BY <1>3, <1>7, <2>3
  <2>6. QED
    BY <1>7, <2>4, <2>5
<1>9. \A j, k \in 1..(n - 1) : b[j] = b[k] => j = k
  <2>1. SUFFICES ASSUME NEW j \in 1..(n - 1), NEW k \in 1..(n - 1), b[j] = b[k] PROVE j = k
    OBVIOUS
  <2>2. PICK p : p = [m \in 1..(n - 1) |-> IF m \in i..(n - 1) THEN m + 1 ELSE m]
    OBVIOUS
  <2>3. j \in DOMAIN a /\ k \in DOMAIN a
    BY <1>6, <1>7
  <2>4. /\ p[j] = IF j \in i..(n - 1) THEN j + 1 ELSE j
        /\ p[k] = IF k \in i..(n - 1) THEN k + 1 ELSE k
    <3>1. \A m \in 1..(n - 1) : p[m] = IF m \in i..(n - 1) THEN m + 1 ELSE m
      BY ONLY <2>2
    <3>2. QED
      BY <3>1
  <2>5. (j \in i..(n - 1) <=> j >= i) /\ (k \in i..(n - 1) <=> k >= i)
    BY <1>7
  <2>6. i \in Nat /\ j \in Nat /\ k \in Nat /\ j + 1 \in 1..n /\ k + 1 \in 1..n /\ j \in 1..n /\ k \in 1..n
    BY <1>7
  <2>7. /\ b[j] = IF j \in i..(n - 1) THEN a[j + 1] ELSE a[j]
        /\ b[k] = IF k \in i..(n - 1) THEN a[k + 1] ELSE a[k]
    <3>1. \A m \in DOMAIN a : b[m] = IF m \in i..(n - 1) THEN a[m + 1] ELSE a[m]
      BY ONLY <1>3
    <3>2. QED
      BY <2>3, <3>1
  <2>8. p[j] \in 1..n /\ p[k] \in 1..n /\ b[j] = a[p[j]] /\ b[k] = a[p[k]]
    BY ONLY <2>4, <2>6, <2>7
  <2>9. p[j] = p[k]
    BY ONLY <1>6, <2>1, <2>8
  <2>10. /\ p[j] = IF j >= i THEN j + 1 ELSE j
         /\ p[k] = IF k >= i THEN k + 1 ELSE k
    BY ONLY <2>4, <2>5
  <2>11. PICK x : x = p[j]
    OBVIOUS
  <2>12. /\ i \in Nat /\ j \in Nat /\ k \in Nat
         /\ x = IF j >= i THEN j + 1 ELSE j
         /\ x = IF k >= i THEN k + 1 ELSE k
    BY ONLY <2>6, <2>9, <2>10, <2>11
  <2>13. QED
    BY ONLY <2>12
<1>10. ListsSound'
  <2>1. ListsSound
    BY DEF WorthInv
  <2>2. n - 1 \in Nat /\ n - 1 <= Len(b)
    BY <1>6, <1>7, <1>8
  <2>3. QED
    BY <1>4, <1>5, <1>8, <1>9, <2>1, <2>2, ListReplaced
<1>11. held' \in [Places -> Nat]
  BY <1>5 DEF WorthInv
<1>12. QED
  BY <1>5, <1>10, <1>11, StirKeeps

\* A position comes, that was not there.
LEMMA AddKeeps ==
  ASSUME WorthInv, NEW l \in Lists, NEW p \in OfList(l), AddPosition(l, p) PROVE WorthInv'
<1>1. PICK a : a = lists[l].a
  OBVIOUS
<1>2. PICK n : n = lists[l].n
  OBVIOUS
<1>3. PICK b : b = IF n < Len(a) THEN [a EXCEPT ![n + 1] = p] ELSE Append(a, p)
  OBVIOUS
<1>4. /\ \A k \in 1..n : a[k] # p
      /\ Stir /\ held' = held
      /\ lists' = [lists EXCEPT ![l] = [a |-> b, n |-> n + 1]]
  BY <1>1, <1>2, <1>3 DEF AddPosition, Present
<1>5. /\ a \in Seq(OfList(l)) /\ n \in Nat /\ n <= Len(a) /\ Len(a) \in Nat
      /\ \A j, k \in 1..n : a[j] = a[k] => j = k
  BY <1>1, <1>2 DEF WorthInv, ListsSound, At, Kept
<1>6. /\ b \in Seq(OfList(l)) /\ n + 1 <= Len(b) /\ b[n + 1] = p
      /\ \A k \in 1..n : b[k] = a[k]
  <2>1. CASE n < Len(a)
    BY <1>3, <1>5, <2>1
  <2>2. CASE ~(n < Len(a))
    <3>1. n = Len(a)
      BY <1>5, <2>2
    <3>2. QED
      BY <1>3, <1>5, <2>2, <3>1
  <2>3. QED
    BY <2>1, <2>2
<1>7. \A j, k \in 1..(n + 1) : b[j] = b[k] => j = k
  <2>1. SUFFICES ASSUME NEW j \in 1..(n + 1), NEW k \in 1..(n + 1), b[j] = b[k] PROVE j = k
    OBVIOUS
  <2>2. (j \in 1..n \/ j = n + 1) /\ (k \in 1..n \/ k = n + 1)
    BY <1>5
  <2>3. QED
    BY <1>4, <1>5, <1>6, <2>1, <2>2
<1>8. ListsSound'
  <2>1. ListsSound /\ n + 1 \in Nat
    BY <1>5 DEF WorthInv
  <2>2. QED
    BY <1>4, <1>6, <1>7, <2>1, ListReplaced
<1>9. held' \in [Places -> Nat]
  BY <1>4 DEF WorthInv
<1>10. QED
  BY <1>4, <1>8, <1>9, StirKeeps

\* The positions change places.
LEMMA SortKeeps ==
  ASSUME WorthInv, SortPositions PROVE WorthInv'
<1>1. PICK l : l = "v3"
  OBVIOUS
<1>2. PICK a : a = lists[l].a
  OBVIOUS
<1>3. PICK n : n = lists[l].n
  OBVIOUS
<1>4. l \in Lists
  BY <1>1 DEF Lists
<1>5. /\ a \in Seq(OfList(l)) /\ n \in Nat /\ n <= Len(a) /\ Len(a) \in Nat
      /\ \A j, k \in 1..n : a[j] = a[k] => j = k
  BY <1>2, <1>3, <1>4 DEF WorthInv, ListsSound, At, Kept
<1>6. Stir /\ held' = held
  BY DEF SortPositions
<1>7. PICK f \in [1..n -> 1..n] :
        /\ IsInjective(f)
        /\ lists' = [lists EXCEPT ![l] =
                       [a |-> [k \in DOMAIN a |-> IF k \in DOMAIN f THEN a[f[k]] ELSE a[k]],
                        n |-> n]]
  <2>1. PICK f \in [1..lists["v3"].n -> 1..lists["v3"].n] :
          /\ IsInjective(f)
          /\ lists' = [lists EXCEPT !["v3"] =
                         [a |-> [k \in DOMAIN lists["v3"].a |->
                                   IF k \in DOMAIN f THEN lists["v3"].a[f[k]]
                                   ELSE lists["v3"].a[k]],
                          n |-> lists["v3"].n]]
    BY Zenon DEF SortPositions
  <2>2. lists["v3"].a = a /\ lists["v3"].n = n
    BY <1>1, <1>2, <1>3
  <2>3. QED
    BY ONLY <1>1, <2>1, <2>2, Zenon
<1>8. PICK b : b = [k \in DOMAIN a |-> IF k \in DOMAIN f THEN a[f[k]] ELSE a[k]]
  OBVIOUS
<1>9. DOMAIN a = 1..Len(a) /\ DOMAIN f = 1..n /\ \A k \in 1..n : f[k] \in 1..n /\ k \in 1..Len(a)
  BY <1>5, <1>7
<1>10. /\ \A k \in 1..Len(a) : b[k] = IF k \in 1..n THEN a[f[k]] ELSE a[k]
       /\ DOMAIN b = 1..Len(a)
  BY <1>8, <1>9
<1>11. b \in Seq(OfList(l)) /\ Len(b) = Len(a)
  <2>1. \A k \in 1..Len(a) : a[k] \in OfList(l)
    BY <1>5
  <2>2. \A k \in 1..Len(a) : b[k] \in OfList(l)
    BY <1>9, <1>10, <2>1
  <2>3. b \in [1..Len(a) -> OfList(l)]
    BY <1>8, <1>9, <2>2
  <2>4. b \in Seq(OfList(l))
    BY <1>5, <2>3, FunctionIsSeq
  <2>5. QED
    BY <1>5, <1>10, <2>4
<1>12. \A j, k \in 1..n : b[j] = b[k] => j = k
  BY <1>5, <1>7, <1>9, <1>10 DEF IsInjective
<1>13. lists' = [lists EXCEPT ![l] = [a |-> b, n |-> n]]
  BY ONLY <1>7, <1>8
<1>14. ListsSound'
  <2>1. ListsSound /\ n <= Len(b)
    BY <1>5, <1>11 DEF WorthInv
  <2>2. QED
    BY <1>4, <1>5, <1>11, <1>12, <1>13, <2>1, ListReplaced
<1>15. held' \in [Places -> Nat]
  BY <1>6 DEF WorthInv
<1>16. QED
  BY <1>6, <1>14, <1>15, StirKeeps

\* The steps of the pane.
LEMMA PassStepKeeps ==
  ASSUME WorthInv, PricesTypeOK, NEW u \in Passes, PassStep(u) PROVE WorthInv'
<1>1. CASE ReadNative(u) \/ ReadERC20(u)
  BY <1>1, BatchKeeps
<1>2. CASE GetBalance(u) \/ GetERC20Balance(u)
  BY <1>2, QueryKeeps
<1>3. CASE Leave(u)
  BY <1>3, LeaveKeeps
<1>4. CASE ReadStake(u)
  BY <1>4, StakeKeeps
<1>5. CASE ReadReward(u)
  BY <1>5, RewardKeeps
<1>6. CASE ReadV2(u) \/ ReadV3(u) \/ ReadV4(u)
  BY <1>6, PoolStepsKeep
<1>7. CASE BuildList(u)
  BY <1>7, BuildKeeps
<1>8. ASSUME NEW p, Begin(u, p) PROVE WorthInv'
  <2>1. Started(u, pane.on) /\ UNCHANGED <<tokens, walletVars>>
    BY <1>8 DEF Begin
  <2>2. QED
    BY <2>1, StartedKeeps
<1>9. CASE scheduleUpdate(u)
  <2>1. CASE UNCHANGED <<tokens, walletVars, pass>>
    BY <2>1, PassesStay
  <2>2. QED
    BY <1>8, <1>9, <2>1 DEF scheduleUpdate
<1>10. CASE WakeUp(u)
  BY <1>8, <1>10 DEF WakeUp
<1>11. CASE SetOn(u)
  <2>1. Started(u, TRUE) /\ UNCHANGED <<tokens, walletVars>>
    BY <1>11 DEF SetOn, priceVars
  <2>2. QED
    BY <2>1, StartedKeeps
<1>12. QED
  BY <1>1, <1>2, <1>3, <1>4, <1>5, <1>6, <1>7, <1>9, <1>10, <1>11 DEF PassStep

\* The steps of the user and of the blockchains.
LEMMA UserStepKeeps ==
  ASSUME WorthInv, UserStep PROVE WorthInv'
<1>1. ASSUME NEW t \in Tokens, AddToken(t) \/ DeleteToken(t) \/ Ignore(t) \/ Unignore(t)
      PROVE  WorthInv'
  <2>1. Stir /\ held' = held /\ lists' = lists
    BY <1>1 DEF AddToken, DeleteToken, Ignore, Unignore, walletVars
  <2>2. held' \in [Places -> Nat] /\ ListsSound'
    BY <2>1 DEF WorthInv, ListsSound, At, Kept
  <2>3. QED
    BY <2>1, <2>2, StirKeeps
<1>2. ASSUME NEW x \in Places, NEW y \in Places, Move(x, y) PROVE WorthInv'
  BY <1>2, MoveKeeps
<1>3. ASSUME NEW l \in Lists, NEW i, RemovePosition(l, i) PROVE WorthInv'
  BY <1>3, RemoveKeeps
<1>4. CASE SetOff \/ Elapse \/ rebuildTemplate
  <2>1. UNCHANGED <<tokens, walletVars, pass>>
    BY <1>4 DEF SetOff, Elapse, rebuildTemplate, priceVars
  <2>2. QED
    BY <2>1, PassesStay
<1>5. ASSUME NEW l \in Lists, NEW p \in OfList(l), AddPosition(l, p) PROVE WorthInv'
  BY <1>5, AddKeeps
<1>6. CASE SortPositions
  BY <1>6, SortKeeps
<1>7. QED
  BY <1>1, <1>2, <1>3, <1>4, <1>5, <1>6 DEF UserStep

\* The steps of an update of prices.
LEMMA MarketStepKeeps ==
  ASSUME WorthInv, MarketStep PROVE WorthInv'
<1>1. UNCHANGED <<tokens, walletVars, pass>>
  BY DEF MarketStep, Pricing, Update, DS_Update, DSAssign, DSFails, DSDone, CMC_Update, CMCAssign,
         CMCFails, Updated, SetFeeder, EditFeed, Quoted
<1>2. QED
  BY <1>1, PassesStay

\* Every step keeps it.
LEMMA StepWorth ==
  ASSUME WorthInv, PricesTypeOK, [PortfolioNext]_portfolioVars PROVE WorthInv'
<1>1. CASE UNCHANGED portfolioVars
  <2>1. UNCHANGED <<tokens, walletVars, pass>>
    BY <1>1 DEF portfolioVars, priceVars
  <2>2. QED
    BY <2>1, PassesStay
<1>2. CASE MarketStep
  BY <1>2, MarketStepKeeps
<1>3. CASE UserStep
  BY <1>3, UserStepKeeps
<1>4. CASE \E u \in Passes : u \in budget.passes /\ PassStep(u)
  BY <1>4, PassStepKeeps
<1>5. QED
  BY <1>1, <1>2, <1>3, <1>4 DEF PortfolioNext

\* It holds to begin with: no pass is on its way.
LEMMA InitWorth ==
  ASSUME PortfolioInit PROVE WorthInv
<1>1. PICK w \in Worlds : /\ held = [x \in Places |-> w.held[x]]
                          /\ lists = [l \in Lists |-> [a |-> w.lists[l], n |-> Len(w.lists[l])]]
  BY DEF PortfolioInit
<1>2. /\ \A x \in Places : w.held[x] \in Nat
      /\ \A l \in Lists : w.lists[l] \in Seq(OfList(l)) /\ IsInjective(w.lists[l])
  BY WorldsAssumption DEF IsWorld
<1>3. held \in [Places -> Nat]
  BY <1>1, <1>2
<1>4. \A l \in Lists : lists[l].a = w.lists[l] /\ lists[l].n = Len(w.lists[l])
  BY <1>1
<1>5. \A l \in Lists : Len(w.lists[l]) \in Nat /\ DOMAIN w.lists[l] = 1..Len(w.lists[l])
  BY <1>2
<1>6. lists \in [Lists -> [a : UNION {Seq(OfList(l)) : l \in Lists}, n : Nat]]
  <2>1. PICK S : S = UNION {Seq(OfList(l)) : l \in Lists}
    OBVIOUS
  <2>2. \A l \in Lists : w.lists[l] \in S
    BY <1>2, <2>1
  <2>3. \A l \in Lists : [a |-> w.lists[l], n |-> Len(w.lists[l])] \in [a : S, n : Nat]
    BY ONLY <1>5, <2>2
  <2>4. lists \in [Lists -> [a : S, n : Nat]]
    BY ONLY <1>1, <2>3
  <2>5. QED
    BY <2>1, <2>4
<1>7. ListsSound
  <2>1. ASSUME NEW l \in Lists
        PROVE  /\ lists[l].a \in Seq(OfList(l)) /\ lists[l].n <= Len(lists[l].a)
               /\ \A i, j \in 1..lists[l].n : lists[l].a[i] = lists[l].a[j] => i = j
    <3>1. PICK a : a = w.lists[l]
      OBVIOUS
    <3>2. a \in Seq(OfList(l)) /\ IsInjective(a) /\ lists[l].a = a /\ lists[l].n = Len(a)
      BY <1>2, <1>4, <3>1
    <3>3. Len(a) \in Nat /\ DOMAIN a = 1..Len(a)
      BY <3>2
    <3>4. \A i, j \in 1..Len(a) : a[i] = a[j] => i = j
      BY <3>2, <3>3 DEF IsInjective
    <3>5. QED
      BY <3>2, <3>3, <3>4
  <2>2. QED
    BY <1>6, <2>1 DEF ListsSound, At, Kept
<1>8. pass = [u \in Passes |-> Rest] /\ DOMAIN Rest = Fields /\ Rest.pc = "rest"
  BY DEF PortfolioInit, Rest, Fields
<1>9. QED
  BY <1>3, <1>7, <1>8 DEF WorthInv, PassesTrue

\* When it is through, a pass has been everywhere.
LEMMA AtTheEnd ==
  ASSUME ListsSound, NEW r, OnItsWay(r), Asks(r), r.pc = "build", NEW t \in Tokens
  PROVE  /\ LiquidSoFar(r, t) = TableSum.liquid[t]
         /\ StakedSoFar(r, t) = TableSum.staked[t]
         /\ PooledSoFar(r, t) = TableSum.lp[t]
<1>1. LiquidSoFar(r, t) = TableSum.liquid[t]
  <2>1. r.queue = <<>> /\ r.batches = <<>>
    BY DEF Asks
  <2>2. Range(<<>>) = {}
    BY RangeIs
  <2>3. \A x : x \notin TokensOf(<<>>)
    BY <2>2, TokensOfAre
  <2>4. \A y : y \notin Awaited(r)
    BY <2>1, <2>2, <2>3, LiquidAre DEF Awaited, TokensOf
  <2>5. PICK P : P = LiquidOf({t})
    OBVIOUS
  <2>6. P \ Awaited(r) = P
    BY <2>4
  <2>7. LiquidSoFar(r, t) = IF t \in tokens \ ignored THEN SumOf(P) ELSE 0
    BY ONLY <2>5, <2>6 DEF LiquidSoFar
  <2>8. TableSum.liquid[t] = IF t \in tokens THEN (IF t \in ignored THEN 0 ELSE SumOf(P)) ELSE 0
    BY <2>5 DEF TableSum, TableLiquid
  <2>9. QED
    BY <2>7, <2>8
<1>2. /\ Been(r, "stake") = Kept("staking") /\ BeenTwice(r, "reward") = Kept("staking") \X (1..2)
      /\ Been(r, "v2") = Kept("v2") /\ Been(r, "v3") = Kept("v3") /\ Been(r, "v4") = Kept("v4")
  <2>1. /\ Been(r, "stake") = Kept("staking") /\ Been(r, "reward") = Kept("staking")
        /\ Been(r, "v2") = Kept("v2") /\ Been(r, "v3") = Kept("v3") /\ Been(r, "v4") = Kept("v4")
    BY DEF Been, Through, ListOf
  <2>2. PICK K : K = Kept("staking") \X (1..2)
    OBVIOUS
  <2>3. K \cup {} = K
    OBVIOUS
  <2>4. BeenTwice(r, "reward") = K
    BY ONLY <2>1, <2>2, <2>3, r.pc = "build" DEF BeenTwice
  <2>5. QED
    BY <2>1, <2>2, <2>4
<1>3. StakedSoFar(r, t) = TableSum.staked[t]
  <2>1. StakedSoFar(r, t) = IF t \in tokens THEN TableStaked(t) + TableRewards(t) ELSE 0
    BY ONLY <1>2 DEF StakedSoFar, TableStaked, TableRewards
  <2>2. QED
    BY <2>1 DEF TableSum
<1>4. PooledSoFar(r, t) = TableSum.lp[t]
  <2>1. PooledSoFar(r, t) = IF t \in tokens THEN TableV2(t) + TableV3(t) + TableV4(t) ELSE 0
    BY ONLY <1>2 DEF PooledSoFar, TableV2, TableV3, TableV4
  <2>2. QED
    BY <2>1 DEF TableSum
<1>5. QED
  BY <1>1, <1>3, <1>4

\* What the list says of the tokens, from what a pass has added up.
InfosOf(sum) == {InfoOf(sum, t) : t \in Worthy(sum)}

\* Which infos they are.
LEMMA InfosAre ==
  \A sum, x : x \in InfosOf(sum) <=> \E t \in Worthy(sum) : x = InfoOf(sum, t)
BY DEF InfosOf

\* ByValue chooses a row of them, the most valuable first: there is one.
LEMMA ListIs ==
  ASSUME PricesTypeOK, NEW sum, sum.liquid \in [Tokens -> Nat], sum.staked \in [Tokens -> Nat],
         sum.lp \in [Tokens -> Nat], NEW list, list = ByValue(InfosOf(sum))
  PROVE  /\ Range(list) = InfosOf(sum)
         /\ \A i \in DOMAIN list : \A j \in 1..i : list[j].usd >= list[i].usd
<1>1. PICK S : S = InfosOf(sum)
  OBVIOUS
<1>2. PICK W : W = Worthy(sum)
  OBVIOUS
<1>3. W \in SUBSET Tokens /\ IsFiniteSet(W)
  <2>1. W \in SUBSET Tokens /\ IsFiniteSet(Tokens)
    BY <1>2, WalletIsFinite DEF Worthy
  <2>2. QED
    BY <2>1, FS_Subset
<1>4. IsFiniteSet(S)
  <2>1. PICK f : f = [t \in W |-> InfoOf(sum, t)]
    OBVIOUS
  <2>2. f \in [W -> S] /\ \A x \in S : \E t \in W : f[t] = x
    BY <1>1, <1>2, <2>1, InfosAre
  <2>3. QED
    BY <1>3, <2>2, ImageFinite
<1>5. \A x \in S : x.usd \in Nat
  <2>1. ASSUME NEW t \in Tokens PROVE price[t] * Total(sum, t) \in Nat
    <3>1. price[t] \in Nat
      BY Markets DEF PricesTypeOK
    <3>2. Total(sum, t) \in Nat
      BY DEF Total
    <3>3. \A a, b \in Nat : a * b \in Nat
      OBVIOUS
    <3>4. QED
      BY <3>1, <3>2, <3>3
  <2>2. QED
    BY <1>1, <1>2, <1>3, <2>1, InfosAre DEF InfoOf
<1>6. PICK v : v = [x \in S |-> x.usd]
  OBVIOUS
<1>7. v \in [S -> Nat]
  BY <1>5, <1>6
<1>8. PICK row : Descends(row, S, v)
  BY <1>4, <1>7, SortedExists
<1>9. \E q \in SetToSeqs(S) : \A i, j \in 1..Len(q) : i < j => q[i].usd >= q[j].usd
  <2>1. row \in SetToSeqs(S) /\ \A i, j \in 1..Len(row) : i < j => row[i].usd >= row[j].usd
    <3>1. PICK n : n = Cardinality(S)
      OBVIOUS
    <3>2. n \in Nat
      BY <1>4, <3>1, FS_CardinalityType
    <3>3. row \in SetToSeqs(S) /\ \A i, j \in 1..n : i < j => v[row[i]] >= v[row[j]]
      BY <1>8, <3>1 DEF Descends
    <3>4. row \in [1..n -> S]
      BY <3>1, <3>3 DEF SetToSeqs
    <3>5. row \in Seq(S) /\ Len(row) = n
      BY <3>2, <3>4, FunctionIsSeq
    <3>6. \A i \in 1..n : v[row[i]] = row[i].usd
      BY <1>6, <3>4
    <3>7. QED
      BY <3>3, <3>5, <3>6
  <2>2. QED
    BY <2>1
<1>10. /\ list \in SetToSeqs(S)
       /\ \A i, j \in 1..Len(list) : i < j => list[i].usd >= list[j].usd
  <2>1. list = CHOOSE q \in SetToSeqs(S) : \A i, j \in 1..Len(q) : i < j => q[i].usd >= q[j].usd
    BY <1>1 DEF ByValue
  <2>2. QED
    BY ONLY <1>9, <2>1
<1>11. list \in Seq(S) /\ Range(list) = S
  BY <1>4, <1>10, RowsAre
<1>12. ASSUME NEW i \in DOMAIN list, NEW j \in 1..i PROVE list[j].usd >= list[i].usd
  <2>1. i \in 1..Len(list) /\ Len(list) \in Nat /\ j \in 1..Len(list)
    BY <1>11
  <2>2. CASE j = i
    <3>1. list[i].usd \in Nat
      BY <1>5, <1>11
    <3>2. QED
      BY <2>2, <3>1
  <2>3. CASE j # i
    <3>1. j < i
      BY <2>1, <2>3
    <3>2. QED
      BY <1>10, <2>1, <3>1
  <2>4. QED
    BY <2>2, <2>3
<1>13. QED
  BY <1>1, <1>11, <1>12

\* The kinds of places.
LEMMA KindsAre ==
  ASSUME NEW x \in Places
  PROVE  \/ \E a \in Addresses, t \in Tokens : x = Liquid(a, t)
         \/ \E p \in DOMAIN Staked : x = Stake(p)
         \/ \E p \in DOMAIN Staked, k \in 1..2 : x = Reward(p, k)
         \/ \E p \in DOMAIN Pools, k \in 1..2 : x = Liquidity(p, k)
         \/ \E p \in DOMAIN Pools, k \in 1..2 : x = Gain(p, k)
         \/ \E p \in DOMAIN Pools, k \in 1..2 : x = Owed(p, k)
<1>1. CASE x \in {Liquid(a, t) : a \in Addresses, t \in Tokens}
  BY <1>1
<1>2. CASE x \in {Stake(p) : p \in DOMAIN Staked}
  BY <1>2
<1>3. CASE x \in {Reward(p, k) : p \in DOMAIN Staked, k \in 1..2}
  BY <1>3
<1>4. CASE x \in {Liquidity(p, k) : p \in DOMAIN Pools, k \in 1..2}
  BY <1>4
<1>5. CASE x \in {Gain(p, k) : p \in DOMAIN Pools, k \in 1..2}
  BY <1>5
<1>6. CASE x \in {Owed(p, k) : p \in DOMAIN Pools, k \in 1..2}
  BY <1>6
<1>7. QED
  BY <1>1, <1>2, <1>3, <1>4, <1>5, <1>6 DEF Places

\* The kinds are told apart, and say what they are of.
LEMMA KindOf ==
  /\ \A a, t : Liquid(a, t)[1] = "liquid"
  /\ \A p : Stake(p)[1] = "stake" /\ Stake(p)[2] = p
  /\ \A p, k : Reward(p, k)[1] = "reward" /\ Reward(p, k)[2] = p /\ Reward(p, k)[3] = k
  /\ \A p, k : Liquidity(p, k)[1] = "liquidity" /\ Liquidity(p, k)[2] = p /\ Liquidity(p, k)[3] = k
  /\ \A p, k : Gain(p, k)[1] = "gain" /\ Gain(p, k)[2] = p /\ Gain(p, k)[3] = k
  /\ \A p, k : Owed(p, k)[1] = "owed"
BY DEF Liquid, Stake, Reward, Liquidity, Gain, Owed

\* Which places of each kind count.
LEMMA CountsAre ==
  /\ \A a, t : Counts(Liquid(a, t)) <=> t \in tokens \ ignored
  /\ \A p : Counts(Stake(p)) <=> Staked[p].token \in tokens /\ p \in Present("staking")
  /\ \A p, k : Counts(Reward(p, k)) <=> /\ Staked[p].rewards[k] \in tokens
                                        /\ p \in Present("staking") /\ Staked[p].funcs[k]
  /\ \A p, k : Counts(Liquidity(p, k)) <=> /\ Pools[p].tokens[k] \in tokens
                                           /\ p \in Present(Pools[p].version)
  /\ \A p, k : Counts(Gain(p, k)) <=> /\ Pools[p].tokens[k] \in tokens
                                      /\ Pools[p].version # "v2" /\ p \in Present(Pools[p].version)
<1>1. \A a, t : Counts(Liquid(a, t)) <=> t \in tokens \ ignored
  <2>1. \A a, t : Liquid(a, t)[1] = "liquid" /\ TokenAt(Liquid(a, t)) = t
    BY KindOf, TokenAtIs
  <2>2. QED
    BY <2>1 DEF Counts
<1>2. \A p : Counts(Stake(p)) <=> Staked[p].token \in tokens /\ p \in Present("staking")
  <2>1. \A p : Stake(p)[1] = "stake" /\ Stake(p)[2] = p /\ TokenAt(Stake(p)) = Staked[p].token
    BY KindOf, TokenAtIs
  <2>2. QED
    BY <2>1 DEF Counts
<1>3. \A p, k : Counts(Reward(p, k)) <=> /\ Staked[p].rewards[k] \in tokens
                                         /\ p \in Present("staking") /\ Staked[p].funcs[k]
  <2>1. SUFFICES ASSUME NEW p, NEW k
                 PROVE  Counts(Reward(p, k)) <=> /\ Staked[p].rewards[k] \in tokens
                                                 /\ p \in Present("staking") /\ Staked[p].funcs[k]
    OBVIOUS
  <2>2. PICK x : x = Reward(p, k)
    OBVIOUS
  <2>3. x[1] = "reward" /\ x[2] = p /\ x[3] = k /\ TokenAt(x) = Staked[p].rewards[k]
    BY <2>2, KindOf, TokenAtIs
  <2>4. Counts(x) <=> /\ TokenAt(x) \in tokens
                      /\ x[2] \in Present("staking") /\ Staked[x[2]].funcs[x[3]]
    BY <2>3 DEF Counts
  <2>5. QED
    BY ONLY <2>2, <2>3, <2>4
<1>4. \A p, k : Counts(Liquidity(p, k)) <=> /\ Pools[p].tokens[k] \in tokens
                                            /\ p \in Present(Pools[p].version)
  <2>1. \A p, k : /\ Liquidity(p, k)[1] = "liquidity" /\ Liquidity(p, k)[2] = p
                  /\ TokenAt(Liquidity(p, k)) = Pools[p].tokens[k]
    BY KindOf, TokenAtIs
  <2>2. QED
    BY <2>1 DEF Counts
<1>5. \A p, k : Counts(Gain(p, k)) <=> /\ Pools[p].tokens[k] \in tokens
                                       /\ Pools[p].version # "v2" /\ p \in Present(Pools[p].version)
  <2>1. SUFFICES ASSUME NEW p, NEW k
                 PROVE  Counts(Gain(p, k)) <=> /\ Pools[p].tokens[k] \in tokens /\ Pools[p].version # "v2"
                                               /\ p \in Present(Pools[p].version)
    OBVIOUS
  <2>2. PICK x : x = Gain(p, k)
    OBVIOUS
  <2>3. x[1] = "gain" /\ x[2] = p /\ TokenAt(x) = Pools[p].tokens[k]
    BY <2>2, KindOf, TokenAtIs
  <2>4. Counts(x) <=> /\ TokenAt(x) \in tokens /\ Pools[x[2]].version # "v2"
                      /\ x[2] \in Present(Pools[x[2]].version)
    BY <2>3 DEF Counts
  <2>5. QED
    BY ONLY <2>2, <2>3, <2>4
<1>6. QED
  BY <1>1, <1>2, <1>3, <1>4, <1>5

\* The places that count, of a token and a column.
PlacesOf(c, t) == {x \in Places : x[1] \in Columned[c] /\ TokenAt(x) = t /\ Counts(x)}

\* The worth of a token is what is at them.
LEMMA WorthIs ==
  \A c, t : Worth(c, t) = SumOf(PlacesOf(c, t))
BY DEF Worth, PlacesOf

\* The table of "token balance" is right in its liquid column.
LEMMA LiquidIsWorth ==
  ASSUME held \in [Places -> Nat], PricesTypeOK, NEW t \in Tokens
  PROVE  TableSum.liquid[t] = Worth("liquid", t)
<1>1. PICK P : P = LiquidOf({t})
  OBVIOUS
<1>2. TableSum.liquid[t] = IF t \in tokens \ ignored THEN SumOf(P) ELSE 0
  BY <1>1 DEF TableSum, TableLiquid
<1>3. Columned["liquid"] = {"liquid"}
  BY DEF Columned
<1>4. \A x : x \in PlacesOf("liquid", t) <=> t \in tokens \ ignored /\ x \in P
  <2>1. ASSUME NEW x \in Places, x[1] = "liquid" PROVE \E a \in Addresses, s \in Tokens : x = Liquid(a, s)
    BY <2>1, KindsAre, KindOf
  <2>2. ASSUME NEW x \in PlacesOf("liquid", t) PROVE t \in tokens \ ignored /\ x \in P
    <3>1. x \in Places /\ x[1] = "liquid" /\ TokenAt(x) = t /\ Counts(x)
      BY <1>3 DEF PlacesOf
    <3>2. PICK a \in Addresses, s \in Tokens : x = Liquid(a, s)
      BY <2>1, <3>1
    <3>3. s = t
      BY <3>1, <3>2, TokenAtIs
    <3>4. QED
      BY <1>1, <3>1, <3>2, <3>3, CountsAre, LiquidAre
  <2>3. ASSUME t \in tokens \ ignored, NEW x \in P PROVE x \in PlacesOf("liquid", t)
    <3>1. PICK a \in Addresses : x = Liquid(a, t)
      BY <1>1, LiquidAre
    <3>2. x \in Places /\ x[1] = "liquid" /\ TokenAt(x) = t /\ Counts(x)
      BY <2>3, <3>1, PlacesAre, KindOf, TokenAtIs, CountsAre
    <3>3. QED
      BY <1>3, <3>2 DEF PlacesOf
  <2>4. QED
    BY <2>2, <2>3
<1>5. CASE t \in tokens \ ignored
  <2>1. PlacesOf("liquid", t) = P
    BY <1>4, <1>5
  <2>2. QED
    BY <1>2, <1>5, <2>1, WorthIs
<1>6. CASE t \notin tokens \ ignored
  <2>1. PlacesOf("liquid", t) = {}
    BY <1>4, <1>6
  <2>2. SumOf({}) = 0
    BY SumEmpty DEF SumOf
  <2>3. QED
    BY <1>2, <1>6, <2>1, <2>2, WorthIs
<1>7. QED
  BY <1>5, <1>6

\* Read address by address.
LEMMA BalanceIs ==
  ASSUME held \in [Places -> Nat], NEW t \in Tokens
  PROVE  /\ TokenBalance(t) = SumOf(LiquidOf({t}))
         /\ [a \in Addresses |-> held[Liquid(a, t)]] \in [Addresses -> Nat]
<1>1. PICK P : P = LiquidOf({t})
  OBVIOUS
<1>2. PICK f : f = [a \in Addresses |-> held[Liquid(a, t)]]
  OBVIOUS
<1>3. PICK h : h = [a \in Addresses |-> Liquid(a, t)]
  OBVIOUS
<1>4. f \in [Addresses -> Nat] /\ \A a \in Addresses : f[a] = held[h[a]]
  BY <1>2, <1>3, PlacesAre
<1>5. h \in [Addresses -> P] /\ P \in SUBSET Places
  BY <1>1, <1>3, PlacesAre, LiquidAre
<1>6. \A x, y \in Addresses : h[x] = h[y] => x = y
  BY <1>3 DEF Liquid
<1>7. \A y \in P : \E x \in Addresses : h[x] = y
  BY <1>1, <1>3, LiquidAre
<1>8. IsFiniteSet(Addresses) /\ Addresses \in SUBSET Addresses
  BY WalletIsFinite
<1>9. SumFunctionOnSet(f, Addresses) = SumFunctionOnSet(held, P)
  BY <1>4, <1>5, <1>6, <1>7, <1>8, SumRenamed
<1>10. QED
  BY <1>1, <1>2, <1>4, <1>9 DEF TokenBalance, SumOf

\* The positions in a list.
LEMMA PresentAre ==
  \A l, p : p \in Present(l) <=> \E i \in Kept(l) : p = At(l, i)
BY DEF Present, Kept, At

\* Each is there once.
LEMMA OncePresent ==
  ASSUME ListsSound, NEW l \in Lists
  PROVE  \A i, j \in Kept(l) : At(l, i) = At(l, j) => i = j
BY DEF ListsSound

\* No place counts for a token the wallet does not have.
LEMMA NoneCounts ==
  ASSUME NEW c, NEW t, t \notin tokens PROVE PlacesOf(c, t) = {}
BY DEF PlacesOf, Counts

\* The places of a kind.
OfKind(what, c, t) == {x \in PlacesOf(c, t) : x[1] = what}

\* The stakes of the table are those at the places that count.
LEMMA StakesAreWorth ==
  ASSUME ListsSound, held \in [Places -> Nat], NEW t \in tokens
  PROVE  TableStaked(t) = SumOf(OfKind("stake", "staked", t))
<1>1. PICK A : A = StakesOf(t)
  OBVIOUS
<1>2. PICK K : K = Kept("staking")
  OBVIOUS
<1>3. PICK B : B = OfKind("stake", "staked", t)
  OBVIOUS
<1>4. PICK f : f = StakeAt
  OBVIOUS
<1>5. PICK h : h = [i \in A |-> Stake(At("staking", i))]
  OBVIOUS
<1>6. /\ \A i \in K : At("staking", i) \in DOMAIN Staked /\ f[i] = held[Stake(At("staking", i))]
      /\ IsFiniteSet(K) /\ f \in [K -> Nat]
  BY <1>2, <1>4, StakesAre DEF StakeAt
<1>7. A \in SUBSET K /\ A = K \cap A /\ IsFiniteSet(A)
      /\ \A i \in K : i \in A <=> Staked[At("staking", i)].token = t
  <2>1. A \in SUBSET K /\ \A i \in K : i \in A <=> Staked[At("staking", i)].token = t
    BY <1>1, <1>2 DEF StakesOf
  <2>2. QED
    BY <1>6, <2>1, FS_Subset
<1>8. TableStaked(t) = SumFunctionOnSet(f, A)
  <2>1. StakedIn(K, t) = SumFunctionOnSet(f, K \cap A)
    BY <1>1, <1>2, <1>4, StakedIs
  <2>2. QED
    BY ONLY <1>2, <1>7, <2>1 DEF TableStaked
<1>9. B \in SUBSET Places
  BY <1>3 DEF OfKind, PlacesOf
<1>10. \A x : x \in B <=> x \in Places /\ x[1] = "stake" /\ TokenAt(x) = t /\ Counts(x)
  BY <1>3 DEF OfKind, PlacesOf, Columned
<1>11. ASSUME NEW i \in A PROVE h[i] \in B /\ f[i] = held[h[i]]
  <2>1. PICK p : p = At("staking", i)
    OBVIOUS
  <2>2. p \in DOMAIN Staked /\ Staked[p].token = t /\ p \in Present("staking") /\ h[i] = Stake(p)
    BY <1>2, <1>5, <1>6, <1>7, <2>1, PresentAre
  <2>3. QED
    BY <1>6, <1>7, <1>10, <2>1, <2>2, PlacesAre, KindOf, TokenAtIs, CountsAre
<1>12. ASSUME NEW x \in B PROVE \E i \in A : h[i] = x
  <2>1. x \in Places /\ x[1] = "stake" /\ TokenAt(x) = t /\ Counts(x)
    BY <1>10
  <2>2. PICK p \in DOMAIN Staked : x = Stake(p)
    BY <2>1, KindsAre, KindOf
  <2>3. Staked[p].token = t /\ p \in Present("staking")
    BY <2>1, <2>2, TokenAtIs, CountsAre
  <2>4. PICK i \in K : p = At("staking", i)
    BY <1>2, <2>3, PresentAre
  <2>5. QED
    BY <1>5, <1>7, <2>2, <2>3, <2>4
<1>13. \A i, j \in A : h[i] = h[j] => i = j
  <2>1. \A i, j \in K : At("staking", i) = At("staking", j) => i = j
    BY <1>2, OncePresent DEF Lists
  <2>2. SUFFICES ASSUME NEW i \in A, NEW j \in A, h[i] = h[j] PROVE i = j
    OBVIOUS
  <2>3. Stake(At("staking", i)) = Stake(At("staking", j))
    BY <1>5, <2>2
  <2>4. At("staking", i) = At("staking", j)
    BY <2>3, KindOf
  <2>5. QED
    BY <1>7, <2>1, <2>4
<1>14. h \in [A -> B]
  BY <1>5, <1>11
<1>15. SumFunctionOnSet(f, A) = SumFunctionOnSet(held, B)
  BY <1>6, <1>7, <1>9, <1>11, <1>12, <1>13, <1>14, SumRenamed
<1>16. QED
  BY <1>3, <1>8, <1>15 DEF SumOf

\* So are the rewards, unless the first of a position is read twice.
LEMMA RewardsAreWorth ==
  ASSUME ListsSound, held \in [Places -> Nat], NEW t \in tokens, ~ReadTwice(t)
  PROVE  TableRewards(t) = SumOf(OfKind("reward", "staked", t))
<1>1. PICK A : A = RewardsOf(t)
  OBVIOUS
<1>2. PICK K : K = Kept("staking")
  OBVIOUS
<1>3. PICK B : B = OfKind("reward", "staked", t)
  OBVIOUS
<1>4. PICK f : f = RewardAt
  OBVIOUS
<1>5. PICK h : h = [x \in A |-> Reward(At("staking", x[1]), x[2])]
  OBVIOUS
<1>6. /\ \A i \in K : At("staking", i) \in DOMAIN Staked
      /\ \A x \in K \X (1..2) : f[x] = held[getPending(At("staking", x[1]), x[2])]
      /\ IsFiniteSet(K \X (1..2)) /\ f \in [K \X (1..2) -> Nat]
  BY <1>2, <1>4, StakesAre DEF RewardAt
<1>7. /\ A \in SUBSET (K \X (1..2)) /\ A = (K \X (1..2)) \cap A /\ IsFiniteSet(A)
      /\ \A x \in K \X (1..2) : x \in A <=> Earns(x, t)
  <2>1. A \in SUBSET (K \X (1..2)) /\ \A x \in K \X (1..2) : x \in A <=> Earns(x, t)
    BY <1>1, <1>2 DEF RewardsOf
  <2>2. QED
    BY <1>6, <2>1, FS_Subset
<1>8. TableRewards(t) = SumFunctionOnSet(f, A)
  <2>1. RewardsIn(K \X (1..2), t) = SumFunctionOnSet(f, (K \X (1..2)) \cap A)
    BY <1>1, <1>2, <1>4, RewardsIs
  <2>2. QED
    BY ONLY <1>2, <1>7, <2>1 DEF TableRewards
<1>9. B \in SUBSET Places
  BY <1>3 DEF OfKind, PlacesOf
<1>10. \A x : x \in B <=> x \in Places /\ x[1] = "reward" /\ TokenAt(x) = t /\ Counts(x)
  BY <1>3 DEF OfKind, PlacesOf, Columned
<1>11. ASSUME NEW x \in A PROVE h[x] \in B /\ f[x] = held[h[x]]
  <2>1. PICK p : p = At("staking", x[1])
    OBVIOUS
  <2>2. PICK k \in 1..2 : k = x[2]
    BY <1>7
  <2>3. x[1] \in K /\ Earns(x, t)
    BY <1>7
  <2>4. Staked[p].funcs[k] /\ Staked[p].rewards[k] = t
    BY <2>1, <2>2, <2>3 DEF Earns
  <2>5. p \in DOMAIN Staked /\ p \in Present("staking") /\ h[x] = Reward(p, k)
    BY <1>2, <1>5, <1>6, <2>1, <2>2, <2>3, PresentAre
  <2>6. h[x] \in B
    BY <1>10, <2>4, <2>5, PlacesAre, KindOf, TokenAtIs, CountsAre
  <2>7. getPending(p, k) = Reward(p, k)
    <3>1. CASE k = 1
      BY <3>1 DEF getPending
    <3>2. CASE k = 2
      <4>1. Staked[p].rewards[1] # t
        BY <2>4, <2>5, <3>2 DEF ReadTwice
      <4>2. QED
        BY <2>4, <3>2, <4>1 DEF getPending
    <3>3. QED
      BY <3>1, <3>2
  <2>8. f[x] = held[getPending(p, k)]
    BY <1>6, <1>7, <2>1, <2>2
  <2>9. QED
    BY <2>5, <2>6, <2>7, <2>8
<1>12. ASSUME NEW y \in B PROVE \E x \in A : h[x] = y
  <2>1. y \in Places /\ y[1] = "reward" /\ TokenAt(y) = t /\ Counts(y)
    BY <1>10
  <2>2. PICK p \in DOMAIN Staked, k \in 1..2 : y = Reward(p, k)
    BY <2>1, KindsAre, KindOf
  <2>3. Staked[p].rewards[k] = t /\ p \in Present("staking") /\ Staked[p].funcs[k]
    BY <2>1, <2>2, TokenAtIs, CountsAre
  <2>4. PICK i \in K : p = At("staking", i)
    BY <1>2, <2>3, PresentAre
  <2>5. PICK x : x = <<i, k>>
    OBVIOUS
  <2>6. x \in K \X (1..2) /\ x[1] = i /\ x[2] = k
    BY <2>4, <2>5
  <2>7. Earns(x, t)
    BY <2>3, <2>4, <2>6 DEF Earns
  <2>8. QED
    BY <1>5, <1>7, <2>2, <2>4, <2>6, <2>7
<1>13. \A x, y \in A : h[x] = h[y] => x = y
  <2>1. \A i, j \in K : At("staking", i) = At("staking", j) => i = j
    BY <1>2, OncePresent DEF Lists
  <2>2. SUFFICES ASSUME NEW x \in A, NEW y \in A, h[x] = h[y] PROVE x = y
    OBVIOUS
  <2>3. Reward(At("staking", x[1]), x[2]) = Reward(At("staking", y[1]), y[2])
    BY <1>5, <2>2
  <2>4. At("staking", x[1]) = At("staking", y[1]) /\ x[2] = y[2]
    BY <2>3, KindOf
  <2>5. x[1] \in K /\ y[1] \in K /\ x = <<x[1], x[2]>> /\ y = <<y[1], y[2]>>
    BY <1>7
  <2>6. QED
    BY <2>1, <2>4, <2>5
<1>14. h \in [A -> B]
  BY <1>5, <1>11
<1>15. SumFunctionOnSet(f, A) = SumFunctionOnSet(held, B)
  <2>1. PICK D : D = K \X (1..2)
    OBVIOUS
  <2>2. f \in [D -> Nat] /\ A \in SUBSET D /\ IsFiniteSet(A)
    BY <1>6, <1>7, <2>1
  <2>3. QED
    BY <1>9, <1>11, <1>12, <1>13, <1>14, <2>2, SumRenamed
<1>16. QED
  BY <1>3, <1>8, <1>15 DEF SumOf

\* The table is right in its column of stakes.
LEMMA StakedIsWorth ==
  ASSUME ListsSound, held \in [Places -> Nat], NEW t \in Tokens, ~ReadTwice(t)
  PROVE  TableSum.staked[t] = Worth("staked", t)
<1>1. PICK P : P = OfKind("stake", "staked", t)
  OBVIOUS
<1>2. PICK Q : Q = OfKind("reward", "staked", t)
  OBVIOUS
<1>3. PlacesOf("staked", t) = P \cup Q /\ P \cap Q = {} /\ P \in SUBSET Places /\ Q \in SUBSET Places
  BY <1>1, <1>2 DEF OfKind, PlacesOf, Columned
<1>4. SumOf(P \cup Q) = SumOf(P) + SumOf(Q)
  BY <1>3, SumOfUnion
<1>5. Worth("staked", t) = SumOf(P) + SumOf(Q)
  <2>1. Worth("staked", t) = SumOf(PlacesOf("staked", t))
    BY WorthIs
  <2>2. PlacesOf("staked", t) = P \cup Q
    BY <1>3
  <2>3. QED
    BY ONLY <1>4, <2>1, <2>2, Zenon
<1>6. TableSum.staked[t] = IF t \in tokens THEN TableStaked(t) + TableRewards(t) ELSE 0
  BY DEF TableSum
<1>7. CASE t \in tokens
  BY <1>1, <1>2, <1>5, <1>6, <1>7, StakesAreWorth, RewardsAreWorth
<1>8. CASE t \notin tokens
  <2>1. PlacesOf("staked", t) = {}
    BY <1>8, NoneCounts
  <2>2. SumOf({}) = 0
    BY SumEmpty DEF SumOf
  <2>3. QED
    BY <1>6, <1>8, <2>1, <2>2, WorthIs
<1>9. QED
  BY <1>7, <1>8

\* The places of the positions of a version.
PoolPlaces(l, t) == {x \in PlacesOf("lp", t) : Pools[x[2]].version = l}

\* The pools of the table are those at the places that count.
LEMMA PoolsAreWorth ==
  ASSUME ListsSound, held \in [Places -> Nat], NEW l \in Versions, NEW t \in tokens
  PROVE  SumFunctionOnSet(PoolAt(l), PoolsOf(l, t)) = SumOf(PoolPlaces(l, t))
<1>1. PICK K : K = Kept(l)
  OBVIOUS
<1>2. PICK E : E = K \X (1..2)
  OBVIOUS
<1>3. PICK g : g = PoolAt(l)
  OBVIOUS
<1>4. PICK B : B = PoolsOf(l, t)
  OBVIOUS
<1>5. PICK A : A = PoolPlaces(l, t)
  OBVIOUS
<1>6. /\ \A i \in K : At(l, i) \in DOMAIN Pools /\ Pools[At(l, i)].version = l
      /\ g \in [E -> Nat] /\ IsFiniteSet(E)
      /\ \A x \in E : g[x] = AmountOf(l, At(l, x[1]), x[2])
  BY <1>1, <1>2, <1>3, PoolsAre DEF PoolAt, AmountOf
<1>7. /\ B \in SUBSET E /\ IsFiniteSet(B)
      /\ \A x \in E : x \in B <=> Pools[At(l, x[1])].tokens[x[2]] = t
  <2>1. B \in SUBSET E /\ \A x \in E : x \in B <=> Pools[At(l, x[1])].tokens[x[2]] = t
    BY <1>1, <1>2, <1>4 DEF PoolsOf
  <2>2. QED
    BY <1>6, <2>1, FS_Subset
<1>8. /\ A \in SUBSET Places
      /\ \A x : x \in A <=> /\ x \in Places /\ x[1] \in {"liquidity", "gain"} /\ TokenAt(x) = t
                            /\ Counts(x) /\ Pools[x[2]].version = l
  BY <1>5 DEF PoolPlaces, PlacesOf, Columned
<1>9. IsFiniteSet(A)
  BY <1>8, PlacesFinite, FS_Subset
<1>10. \A i, j \in K : At(l, i) = At(l, j) => i = j
  <2>1. l \in Lists
    BY DEF Versions, Lists
  <2>2. QED
    BY <1>1, <2>1, OncePresent
<1>11. \A p : p \in Present(l) <=> \E i \in K : p = At(l, i)
  BY <1>1, PresentAre
<1>12. ASSUME NEW x \in A
       PROVE  \E i \in K, k \in 1..2 :
                /\ At(l, i) = x[2] /\ x[3] = k /\ Pools[x[2]].tokens[k] = t
                /\ \/ x = Liquidity(At(l, i), k)
                   \/ l # "v2" /\ x = Gain(At(l, i), k)
  <2>1. CASE x[1] = "liquidity"
    <3>1. PICK p \in DOMAIN Pools, k \in 1..2 : x = Liquidity(p, k)
      BY <1>8, <2>1, KindsAre, KindOf
    <3>2. x[2] = p /\ x[3] = k /\ Pools[p].tokens[k] = t /\ Pools[p].version = l
      BY <1>8, <3>1, KindOf, TokenAtIs
    <3>3. p \in Present(l)
      BY <1>8, <3>1, <3>2, CountsAre
    <3>4. PICK i \in K : p = At(l, i)
      BY <1>11, <3>3
    <3>5. QED
      BY <3>1, <3>2, <3>4
  <2>2. CASE x[1] = "gain"
    <3>1. PICK p \in DOMAIN Pools, k \in 1..2 : x = Gain(p, k)
      BY <1>8, <2>2, KindsAre, KindOf
    <3>2. x[2] = p /\ x[3] = k /\ Pools[p].tokens[k] = t /\ Pools[p].version = l
      BY <1>8, <3>1, KindOf, TokenAtIs
    <3>3. p \in Present(l) /\ l # "v2"
      BY <1>8, <3>1, <3>2, CountsAre
    <3>4. PICK i \in K : p = At(l, i)
      BY <1>11, <3>3
    <3>5. QED
      BY <3>1, <3>2, <3>3, <3>4
  <2>3. QED
    BY <1>8, <2>1, <2>2
<1>13. PICK h : h = [x \in A |-> <<CHOOSE i \in K : At(l, i) = x[2], x[3]>>]
  OBVIOUS
<1>14. ASSUME NEW x \in A, NEW i \in K, At(l, i) = x[2] PROVE h[x] = <<i, x[3]>>
  <2>1. (CHOOSE j \in K : At(l, j) = x[2]) = i
    BY <1>10, <1>14
  <2>2. QED
    BY <1>13, <2>1
<1>15. ASSUME NEW x \in A PROVE h[x] \in B
  <2>1. PICK i \in K, k \in 1..2 : At(l, i) = x[2] /\ x[3] = k /\ Pools[x[2]].tokens[k] = t
    BY <1>12
  <2>2. h[x] = <<i, k>>
    BY <1>14, <2>1
  <2>3. PICK b : b = <<i, k>>
    OBVIOUS
  <2>4. b \in E /\ b[1] = i /\ b[2] = k
    BY <1>2, <2>3
  <2>5. QED
    BY <1>7, <2>1, <2>2, <2>3, <2>4
<1>16. h \in [A -> B]
  BY <1>13, <1>15
<1>17. ASSUME NEW b \in B PROVE g[b] = SumFunctionOnSet(held, {x \in A : h[x] = b})
  <2>1. b \in E /\ b = <<b[1], b[2]>> /\ b[1] \in K /\ b[2] \in 1..2
    BY <1>2, <1>7
  <2>2. PICK p : p = At(l, b[1])
    OBVIOUS
  <2>3. PICK k \in 1..2 : k = b[2]
    BY <2>1
  <2>4. /\ p \in DOMAIN Pools /\ Pools[p].version = l /\ Pools[p].tokens[k] = t
        /\ p \in Present(l) /\ g[b] = AmountOf(l, p, k)
    BY <1>6, <1>7, <1>11, <2>1, <2>2, <2>3
  <2>5. PICK P : P = {x \in A : h[x] = b}
    OBVIOUS
  <2>6. ASSUME NEW x \in P PROVE x = Liquidity(p, k) \/ (l # "v2" /\ x = Gain(p, k))
    <3>1. x \in A /\ h[x] = b
      BY <2>5
    <3>2. PICK i \in K, m \in 1..2 : /\ At(l, i) = x[2] /\ x[3] = m
                                     /\ \/ x = Liquidity(At(l, i), m)
                                        \/ l # "v2" /\ x = Gain(At(l, i), m)
      BY <1>12, <3>1
    <3>3. h[x] = <<i, m>>
      BY <1>14, <3>1, <3>2
    <3>4. i = b[1] /\ m = k
      BY <2>3, <3>1, <3>3
    <3>5. QED
      BY <2>2, <3>2, <3>4
  <2>7. ASSUME NEW x, x = Liquidity(p, k) \/ (l # "v2" /\ x = Gain(p, k)) PROVE x \in P
    <3>1. x[2] = p /\ x[3] = k /\ x[1] \in {"liquidity", "gain"} /\ x \in Places /\ TokenAt(x) = t
      BY <2>4, <2>7, KindOf, PlacesAre, TokenAtIs
    <3>2. Counts(x)
      BY <2>4, <2>7, CountsAre
    <3>3. x \in A
      BY <1>8, <2>4, <3>1, <3>2
    <3>4. h[x] = <<b[1], k>>
      BY <1>14, <2>1, <2>2, <3>1, <3>3
    <3>5. QED
      BY <2>1, <2>3, <2>5, <3>3, <3>4
  <2>8. CASE l = "v2"
    <3>1. P = {Liquidity(p, k)}
      BY <2>6, <2>7, <2>8
    <3>2. AmountOf(l, p, k) = SumFunctionOnSet(held, {Liquidity(p, k)})
      BY <2>8 DEF AmountOf, Share, SumOf
    <3>3. SumFunctionOnSet(held, P) = SumFunctionOnSet(held, {Liquidity(p, k)})
      BY ONLY <3>1, Zenon
    <3>4. QED
      BY <2>4, <2>5, <3>2, <3>3
  <2>9. CASE l # "v2"
    <3>1. P = {Liquidity(p, k), Gain(p, k)}
      BY <2>6, <2>7, <2>9
    <3>2. AmountOf(l, p, k) = SumFunctionOnSet(held, {Liquidity(p, k), Gain(p, k)})
      BY <2>9 DEF AmountOf, Earning, SumOf
    <3>3. SumFunctionOnSet(held, P) = SumFunctionOnSet(held, {Liquidity(p, k), Gain(p, k)})
      BY ONLY <3>1, Zenon
    <3>4. QED
      BY <2>4, <2>5, <3>2, <3>3
  <2>10. QED
    BY <2>8, <2>9
<1>18. SumFunctionOnSet(held, A) = SumFunctionOnSet(g, B)
  <2>1. \A b \in B : g[b] = SumFunctionOnSet(held, {x \in A : h[x] = b})
    BY <1>17
  <2>2. /\ held \in [Places -> Nat] /\ A \in SUBSET Places /\ IsFiniteSet(A)
        /\ g \in [E -> Nat] /\ B \in SUBSET E /\ IsFiniteSet(B) /\ h \in [A -> B]
    BY <1>6, <1>7, <1>8, <1>9, <1>16
  <2>3. QED
    BY ONLY <2>1, <2>2, SumByParts
<1>19. QED
  BY <1>3, <1>4, <1>5, <1>18 DEF SumOf

\* What a table says is in the positions of each version.
TablePools(l, t) == SumFunctionOnSet(PoolAt(l), PoolsOf(l, t))

\* The three versions of the table.
LEMMA TablePoolsAre ==
  ASSUME ListsSound, held \in [Places -> Nat], NEW t
  PROVE  /\ TableV2(t) = TablePools("v2", t) /\ TableV3(t) = TablePools("v3", t)
         /\ TableV4(t) = TablePools("v4", t)
<1>1. \A l : (Kept(l) \X (1..2)) \cap PoolsOf(l, t) = PoolsOf(l, t)
  BY DEF PoolsOf
<1>2. /\ PooledIn("v2", Kept("v2") \X (1..2), t)
           = SumFunctionOnSet(PoolAt("v2"), (Kept("v2") \X (1..2)) \cap PoolsOf("v2", t))
      /\ PooledIn("v3", Kept("v3") \X (1..2), t)
           = SumFunctionOnSet(PoolAt("v3"), (Kept("v3") \X (1..2)) \cap PoolsOf("v3", t))
      /\ PooledIn("v4", Kept("v4") \X (1..2), t)
           = SumFunctionOnSet(PoolAt("v4"), (Kept("v4") \X (1..2)) \cap PoolsOf("v4", t))
  <2>1. \A l : Kept(l) \X (1..2) \in SUBSET (Kept(l) \X (1..2))
    OBVIOUS
  <2>2. QED
    BY <2>1, PooledAre DEF Versions
<1>3. QED
  BY ONLY <1>1, <1>2 DEF TableV2, TableV3, TableV4, TablePools

\* The table is right in its column of pools.
LEMMA PooledIsWorth ==
  ASSUME ListsSound, held \in [Places -> Nat], NEW t \in Tokens
  PROVE  TableSum.lp[t] = Worth("lp", t)
<1>1. PICK P : P = PoolPlaces("v2", t)
  OBVIOUS
<1>2. PICK Q : Q = PoolPlaces("v3", t)
  OBVIOUS
<1>3. PICK R : R = PoolPlaces("v4", t)
  OBVIOUS
<1>4. \A x \in PlacesOf("lp", t) : Pools[x[2]].version \in {"v2", "v3", "v4"}
  <2>1. SUFFICES ASSUME NEW x \in PlacesOf("lp", t) PROVE Pools[x[2]].version \in {"v2", "v3", "v4"}
    OBVIOUS
  <2>2. x \in Places /\ x[1] \in {"liquidity", "gain"}
    BY DEF PlacesOf, Columned
  <2>3. x[2] \in DOMAIN Pools
    BY <2>2, KindsAre, KindOf
  <2>4. QED
    BY <2>3, WalletIsFinite DEF Lists
<1>5. /\ PlacesOf("lp", t) = (P \cup Q) \cup R /\ P \cap Q = {} /\ (P \cup Q) \cap R = {}
      /\ P \in SUBSET Places /\ Q \in SUBSET Places /\ R \in SUBSET Places
  <2>1. PlacesOf("lp", t) \in SUBSET Places
    BY DEF PlacesOf
  <2>2. QED
    BY <1>1, <1>2, <1>3, <1>4, <2>1 DEF PoolPlaces
<1>6. SumOf((P \cup Q) \cup R) = (SumOf(P) + SumOf(Q)) + SumOf(R)
  <2>1. SumOf(P \cup Q) = SumOf(P) + SumOf(Q)
    BY <1>5, SumOfUnion
  <2>2. PICK S : S = P \cup Q
    OBVIOUS
  <2>3. S \in SUBSET Places /\ S \cap R = {}
    BY <1>5, <2>2
  <2>4. SumOf(S \cup R) = SumOf(S) + SumOf(R)
    BY <1>5, <2>3, SumOfUnion
  <2>5. QED
    BY ONLY <2>1, <2>2, <2>4, Zenon
<1>7. Worth("lp", t) = (SumOf(P) + SumOf(Q)) + SumOf(R)
  <2>1. Worth("lp", t) = SumOf(PlacesOf("lp", t))
    BY WorthIs
  <2>2. PlacesOf("lp", t) = (P \cup Q) \cup R
    BY <1>5
  <2>3. QED
    BY ONLY <1>6, <2>1, <2>2, Zenon
<1>8. TableSum.lp[t] = IF t \in tokens THEN TableV2(t) + TableV3(t) + TableV4(t) ELSE 0
  BY DEF TableSum
<1>9. CASE t \in tokens
  <2>1. /\ TableV2(t) = SumOf(P) /\ TableV3(t) = SumOf(Q) /\ TableV4(t) = SumOf(R)
    BY <1>1, <1>2, <1>3, <1>9, PoolsAreWorth, TablePoolsAre DEF TablePools, Versions
  <2>2. QED
    BY <1>7, <1>8, <1>9, <2>1
<1>10. CASE t \notin tokens
  <2>1. PlacesOf("lp", t) = {}
    BY <1>10, NoneCounts
  <2>2. SumOf({}) = 0
    BY SumEmpty DEF SumOf
  <2>3. QED
    BY <1>8, <1>10, <2>1, <2>2, WorthIs
<1>11. QED
  BY <1>9, <1>10

\* Zeros add up to zero.
LEMMA SumOfNothing ==
  ASSUME NEW D, NEW f \in [D -> Nat], NEW A \in SUBSET D, IsFiniteSet(A), \A x \in A : f[x] = 0
  PROVE  SumFunctionOnSet(f, A) = 0
<1>1. SumFunctionOnSet(f, A) = SumFunctionOnSet(f, A) + SumFunctionOnSet(f, A)
  <2>1. \A x \in A : f[x] = f[x] + f[x]
    OBVIOUS
  <2>2. QED
    BY <2>1, SumPlus
<1>2. PICK s \in Nat : s = SumFunctionOnSet(f, A)
  BY SumNat
<1>3. s = s + s
  BY ONLY <1>1, <1>2, Zenon
<1>4. s = 0
  BY ONLY <1>3, s \in Nat
<1>5. QED
  BY <1>2, <1>4

\* What is staked, by its owners.
LEMMA StakesByOwner ==
  ASSUME ListsSound, held \in [Places -> Nat], AllOwned, NEW t, NEW f,
         f = [a \in Addresses |-> AddressStaked(a, t)]
  PROVE  f \in [Addresses -> Nat] /\ SumFunctionOnSet(f, Addresses) = TableStaked(t)
<1>1. PICK K : K = Kept("staking")
  OBVIOUS
<1>2. PICK A : A = StakesOf(t)
  OBVIOUS
<1>3. PICK g : g = StakeAt
  OBVIOUS
<1>4. PICK h : h = [i \in A |-> Staked[At("staking", i)].owner]
  OBVIOUS
<1>5. g \in [K -> Nat] /\ IsFiniteSet(K)
  BY <1>1, <1>3, StakesAre
<1>6. A \in SUBSET K /\ IsFiniteSet(A)
  <2>1. A \in SUBSET K
    BY <1>1, <1>2 DEF StakesOf
  <2>2. QED
    BY <1>5, <2>1, FS_Subset
<1>7. \A i \in K : Staked[At("staking", i)].owner \in Addresses
  BY <1>1, PresentAre DEF AllOwned
<1>8. h \in [A -> Addresses]
  BY <1>4, <1>6, <1>7
<1>9. ASSUME NEW a \in Addresses
      PROVE  f[a] \in Nat /\ f[a] = SumFunctionOnSet(g, {i \in A : h[i] = a})
  <2>1. PICK I : I = OwnStakes(a)
    OBVIOUS
  <2>2. I \in SUBSET K /\ \A i \in K : i \in I <=> Staked[At("staking", i)].owner = a
    BY <1>1, <2>1 DEF OwnStakes
  <2>3. {i \in A : h[i] = a} = I \cap A
    BY <1>4, <1>6, <2>2
  <2>4. StakedIn(I, t) = SumFunctionOnSet(g, I \cap A) /\ StakedIn(I, t) \in Nat
    BY <1>1, <1>2, <1>3, <2>2, StakedIs, StakedNat
  <2>5. f[a] = StakedIn(I, t)
    BY <2>1 DEF AddressStaked
  <2>6. SumFunctionOnSet(g, {i \in A : h[i] = a}) = SumFunctionOnSet(g, I \cap A)
    BY ONLY <2>3, Zenon
  <2>7. QED
    BY ONLY <2>4, <2>5, <2>6
<1>10. f \in [Addresses -> Nat]
  BY <1>9
<1>11. SumFunctionOnSet(g, A) = SumFunctionOnSet(f, Addresses)
  <2>1. \A a \in Addresses : f[a] = SumFunctionOnSet(g, {i \in A : h[i] = a})
    BY <1>9
  <2>2. Addresses \in SUBSET Addresses /\ IsFiniteSet(Addresses)
    BY WalletIsFinite
  <2>3. QED
    BY ONLY <1>5, <1>6, <1>8, <1>10, <2>1, <2>2, SumByParts
<1>12. TableStaked(t) = SumFunctionOnSet(g, A)
  <2>1. StakedIn(K, t) = SumFunctionOnSet(g, K \cap A)
    BY <1>1, <1>2, <1>3, StakedIs
  <2>2. K \cap A = A
    BY <1>6
  <2>3. QED
    BY ONLY <1>1, <2>1, <2>2 DEF TableStaked
<1>13. QED
  BY <1>10, <1>11, <1>12

\* The rewards, by the owners of their positions.
LEMMA RewardsByOwner ==
  ASSUME ListsSound, held \in [Places -> Nat], AllOwned, NEW t, NEW f,
         f = [a \in Addresses |-> AddressRewards(a, t)]
  PROVE  f \in [Addresses -> Nat] /\ SumFunctionOnSet(f, Addresses) = TableRewards(t)
<1>1. PICK K : K = Kept("staking") \X (1..2)
  OBVIOUS
<1>2. PICK A : A = RewardsOf(t)
  OBVIOUS
<1>3. PICK g : g = RewardAt
  OBVIOUS
<1>4. PICK h : h = [x \in A |-> Staked[At("staking", x[1])].owner]
  OBVIOUS
<1>5. g \in [K -> Nat] /\ IsFiniteSet(K)
  BY <1>1, <1>3, StakesAre
<1>6. A \in SUBSET K /\ IsFiniteSet(A)
  <2>1. A \in SUBSET K
    BY <1>1, <1>2 DEF RewardsOf
  <2>2. QED
    BY <1>5, <2>1, FS_Subset
<1>7. \A x \in K : x[1] \in Kept("staking") /\ Staked[At("staking", x[1])].owner \in Addresses
  BY <1>1, PresentAre DEF AllOwned
<1>8. h \in [A -> Addresses]
  BY <1>4, <1>6, <1>7
<1>9. ASSUME NEW a \in Addresses
      PROVE  f[a] \in Nat /\ f[a] = SumFunctionOnSet(g, {x \in A : h[x] = a})
  <2>1. PICK X : X = OwnStakes(a) \X (1..2)
    OBVIOUS
  <2>2. X \in SUBSET K /\ \A x \in K : x \in X <=> Staked[At("staking", x[1])].owner = a
    BY <1>1, <2>1 DEF OwnStakes
  <2>3. {x \in A : h[x] = a} = X \cap A
    BY <1>4, <1>6, <2>2
  <2>4. RewardsIn(X, t) = SumFunctionOnSet(g, X \cap A) /\ RewardsIn(X, t) \in Nat
    BY <1>1, <1>2, <1>3, <2>2, RewardsIs, RewardsNat
  <2>5. f[a] = RewardsIn(X, t)
    BY <2>1 DEF AddressRewards
  <2>6. SumFunctionOnSet(g, {x \in A : h[x] = a}) = SumFunctionOnSet(g, X \cap A)
    BY ONLY <2>3, Zenon
  <2>7. QED
    BY ONLY <2>4, <2>5, <2>6
<1>10. f \in [Addresses -> Nat]
  BY <1>9
<1>11. SumFunctionOnSet(g, A) = SumFunctionOnSet(f, Addresses)
  <2>1. \A a \in Addresses : f[a] = SumFunctionOnSet(g, {x \in A : h[x] = a})
    BY <1>9
  <2>2. Addresses \in SUBSET Addresses /\ IsFiniteSet(Addresses)
    BY WalletIsFinite
  <2>3. QED
    BY ONLY <1>5, <1>6, <1>8, <1>10, <2>1, <2>2, SumByParts
<1>12. TableRewards(t) = SumFunctionOnSet(g, A)
  <2>1. RewardsIn(K, t) = SumFunctionOnSet(g, K \cap A)
    BY <1>1, <1>2, <1>3, RewardsIs
  <2>2. K \cap A = A
    BY <1>6
  <2>3. QED
    BY ONLY <1>1, <2>1, <2>2 DEF TableRewards
<1>13. QED
  BY <1>10, <1>11, <1>12

\* The pools of a version, by their owners.
LEMMA PoolsByOwner ==
  ASSUME ListsSound, held \in [Places -> Nat], AllOwned, NEW l \in Versions, NEW t, NEW f,
         f = [a \in Addresses |-> PooledAt(l, Own(l, a) \X (1..2), t)]
  PROVE  f \in [Addresses -> Nat] /\ SumFunctionOnSet(f, Addresses) = TablePools(l, t)
<1>1. PICK K : K = Kept(l) \X (1..2)
  OBVIOUS
<1>2. PICK A : A = PoolsOf(l, t)
  OBVIOUS
<1>3. PICK g : g = PoolAt(l)
  OBVIOUS
<1>4. PICK h : h = [x \in A |-> Pools[At(l, x[1])].owner]
  OBVIOUS
<1>5. g \in [K -> Nat] /\ IsFiniteSet(K)
  BY <1>1, <1>3, PoolsAre
<1>6. A \in SUBSET K /\ IsFiniteSet(A)
  <2>1. A \in SUBSET K
    BY <1>1, <1>2 DEF PoolsOf
  <2>2. QED
    BY <1>5, <2>1, FS_Subset
<1>7. \A x \in K : x[1] \in Kept(l) /\ Pools[At(l, x[1])].owner \in Addresses
  <2>1. l \in Lists \ {"staking"}
    BY DEF Versions, Lists
  <2>2. QED
    BY <1>1, <2>1, PresentAre DEF AllOwned
<1>8. h \in [A -> Addresses]
  BY <1>4, <1>6, <1>7
<1>9. ASSUME NEW a \in Addresses
      PROVE  f[a] \in Nat /\ f[a] = SumFunctionOnSet(g, {x \in A : h[x] = a})
  <2>1. PICK X : X = Own(l, a) \X (1..2)
    OBVIOUS
  <2>2. X \in SUBSET K /\ \A x \in K : x \in X <=> Pools[At(l, x[1])].owner = a
    BY <1>1, <2>1 DEF Own
  <2>3. {x \in A : h[x] = a} = X \cap A
    BY <1>4, <1>6, <2>2
  <2>4. f[a] = SumFunctionOnSet(g, X \cap A)
    BY <1>2, <1>3, <2>1 DEF PooledAt
  <2>5. SumFunctionOnSet(g, X \cap A) \in Nat
    <3>1. PICK B : B = X \cap A
      OBVIOUS
    <3>2. B \in SUBSET K /\ B \in SUBSET A
      BY <1>6, <3>1
    <3>3. IsFiniteSet(B)
      BY <1>6, <3>2, FS_Subset
    <3>4. SumFunctionOnSet(g, B) \in Nat
      BY <1>5, <3>2, <3>3, SumNat
    <3>5. QED
      BY ONLY <3>1, <3>4, Zenon
  <2>6. SumFunctionOnSet(g, {x \in A : h[x] = a}) = SumFunctionOnSet(g, X \cap A)
    BY ONLY <2>3, Zenon
  <2>7. QED
    BY ONLY <2>4, <2>5, <2>6
<1>10. f \in [Addresses -> Nat]
  BY <1>9
<1>11. SumFunctionOnSet(g, A) = SumFunctionOnSet(f, Addresses)
  <2>1. \A a \in Addresses : f[a] = SumFunctionOnSet(g, {x \in A : h[x] = a})
    BY <1>9
  <2>2. Addresses \in SUBSET Addresses /\ IsFiniteSet(Addresses)
    BY WalletIsFinite
  <2>3. QED
    BY ONLY <1>5, <1>6, <1>8, <1>10, <2>1, <2>2, SumByParts
<1>12. QED
  BY <1>2, <1>3, <1>10, <1>11 DEF TablePools

\* The sum over the addresses of what "address balances" says, for a column.
ByAddress(c, t) == [a \in Addresses |-> showAddressBalances(a)[c][t]]

\* What the addresses hold adds up to what the table says.
LEMMA LiquidByAddress ==
  ASSUME held \in [Places -> Nat], PricesTypeOK, NEW t \in Tokens
  PROVE  SumFunctionOnSet(ByAddress("liquid", t), Addresses) = TableSum.liquid[t]
<1>1. PICK f : f = ByAddress("liquid", t)
  OBVIOUS
<1>2. \A a \in Addresses :
        f[a] = IF t \in tokens THEN (IF t \in ignored THEN 0 ELSE held[Liquid(a, t)]) ELSE 0
  BY <1>1 DEF ByAddress, showAddressBalances, AddressLiquid
<1>3. TableSum.liquid[t] = IF t \in tokens THEN (IF t \in ignored THEN 0 ELSE SumOf(LiquidOf({t}))) ELSE 0
  BY DEF TableSum, TableLiquid
<1>4. CASE t \in tokens \ ignored
  <2>1. f = [a \in Addresses |-> held[Liquid(a, t)]]
    BY <1>1, <1>2, <1>4 DEF ByAddress
  <2>2. SumFunctionOnSet(f, Addresses) = TokenBalance(t)
    BY <2>1 DEF TokenBalance
  <2>3. QED
    BY <1>1, <1>3, <1>4, <2>2, BalanceIs
<1>5. CASE t \notin tokens \ ignored
  <2>1. \A a \in Addresses : f[a] = 0
    BY <1>2, <1>5
  <2>2. f \in [Addresses -> Nat]
    BY <1>1, <2>1 DEF ByAddress
  <2>3. SumFunctionOnSet(f, Addresses) = 0
    BY <2>1, <2>2, WalletIsFinite, SumOfNothing
  <2>4. QED
    BY <1>1, <1>3, <1>5, <2>3
<1>6. QED
  BY <1>4, <1>5

\* So do their stakes and rewards.
LEMMA StakedByAddress ==
  ASSUME ListsSound, held \in [Places -> Nat], AllOwned, NEW t \in Tokens
  PROVE  SumFunctionOnSet(ByAddress("staked", t), Addresses) = TableSum.staked[t]
<1>1. PICK f : f = ByAddress("staked", t)
  OBVIOUS
<1>2. \A a \in Addresses :
        f[a] = IF t \in tokens THEN AddressStaked(a, t) + AddressRewards(a, t) ELSE 0
  BY <1>1 DEF ByAddress, showAddressBalances
<1>3. TableSum.staked[t] = IF t \in tokens THEN TableStaked(t) + TableRewards(t) ELSE 0
  BY DEF TableSum
<1>4. CASE t \in tokens
  <2>1. PICK g : g = [a \in Addresses |-> AddressStaked(a, t)]
    OBVIOUS
  <2>2. PICK h : h = [a \in Addresses |-> AddressRewards(a, t)]
    OBVIOUS
  <2>3. g \in [Addresses -> Nat] /\ SumFunctionOnSet(g, Addresses) = TableStaked(t)
    BY <2>1, StakesByOwner
  <2>4. h \in [Addresses -> Nat] /\ SumFunctionOnSet(h, Addresses) = TableRewards(t)
    BY <2>2, RewardsByOwner
  <2>5. \A a \in Addresses : f[a] = g[a] + h[a]
    BY <1>2, <1>4, <2>1, <2>2
  <2>6. f \in [Addresses -> Nat]
    BY <1>1, <2>3, <2>4, <2>5 DEF ByAddress
  <2>7. SumFunctionOnSet(f, Addresses) = SumFunctionOnSet(g, Addresses) + SumFunctionOnSet(h, Addresses)
    BY <2>3, <2>4, <2>5, <2>6, WalletIsFinite, SumPlus
  <2>8. QED
    BY <1>1, <1>3, <1>4, <2>3, <2>4, <2>7
<1>5. CASE t \notin tokens
  <2>1. \A a \in Addresses : f[a] = 0
    BY <1>2, <1>5
  <2>2. f \in [Addresses -> Nat]
    BY <1>1, <2>1 DEF ByAddress
  <2>3. SumFunctionOnSet(f, Addresses) = 0
    BY <2>1, <2>2, WalletIsFinite, SumOfNothing
  <2>4. QED
    BY <1>1, <1>3, <1>5, <2>3
<1>6. QED
  BY <1>4, <1>5

\* The pools of an address.
LEMMA AddressPoolsAre ==
  ASSUME ListsSound, held \in [Places -> Nat], NEW t, NEW a
  PROVE  /\ AddressV2(a, t) = PooledAt("v2", Own("v2", a) \X (1..2), t)
         /\ AddressV3(a, t) = PooledAt("v3", Own("v3", a) \X (1..2), t)
         /\ AddressV4(a, t) = PooledAt("v4", Own("v4", a) \X (1..2), t)
<1>1. \A l : Own(l, a) \X (1..2) \in SUBSET (Kept(l) \X (1..2))
  BY DEF Own
<1>2. QED
  BY <1>1, PooledAre DEF Versions, AddressV2, AddressV3, AddressV4, PooledAt

\* And their pools.
LEMMA PooledByAddress ==
  ASSUME ListsSound, held \in [Places -> Nat], AllOwned, NEW t \in Tokens
  PROVE  SumFunctionOnSet(ByAddress("lp", t), Addresses) = TableSum.lp[t]
<1>1. PICK f : f = ByAddress("lp", t)
  OBVIOUS
<1>2. \A a \in Addresses :
        f[a] = IF t \in tokens THEN AddressV2(a, t) + AddressV3(a, t) + AddressV4(a, t) ELSE 0
  BY <1>1 DEF ByAddress, showAddressBalances
<1>3. TableSum.lp[t] = IF t \in tokens THEN TableV2(t) + TableV3(t) + TableV4(t) ELSE 0
  BY DEF TableSum
<1>4. CASE t \in tokens
  <2>1. PICK g2 : g2 = [a \in Addresses |-> PooledAt("v2", Own("v2", a) \X (1..2), t)]
    OBVIOUS
  <2>2. PICK g3 : g3 = [a \in Addresses |-> PooledAt("v3", Own("v3", a) \X (1..2), t)]
    OBVIOUS
  <2>3. PICK g4 : g4 = [a \in Addresses |-> PooledAt("v4", Own("v4", a) \X (1..2), t)]
    OBVIOUS
  <2>4. g2 \in [Addresses -> Nat] /\ SumFunctionOnSet(g2, Addresses) = TablePools("v2", t)
    BY <2>1, PoolsByOwner DEF Versions
  <2>5. g3 \in [Addresses -> Nat] /\ SumFunctionOnSet(g3, Addresses) = TablePools("v3", t)
    BY <2>2, PoolsByOwner DEF Versions
  <2>6. g4 \in [Addresses -> Nat] /\ SumFunctionOnSet(g4, Addresses) = TablePools("v4", t)
    BY <2>3, PoolsByOwner DEF Versions
  <2>7. PICK g : g = [a \in Addresses |-> g2[a] + g3[a]]
    OBVIOUS
  <2>8. g \in [Addresses -> Nat] /\ \A a \in Addresses : g[a] = g2[a] + g3[a]
    BY <2>4, <2>5, <2>7
  <2>9. \A a \in Addresses : f[a] = g[a] + g4[a]
    BY <1>2, <1>4, <2>1, <2>2, <2>3, <2>8, AddressPoolsAre
  <2>10. f \in [Addresses -> Nat]
    BY <1>1, <2>6, <2>8, <2>9 DEF ByAddress
  <2>11. IsFiniteSet(Addresses) /\ Addresses \in SUBSET Addresses
    BY WalletIsFinite
  <2>12. SumFunctionOnSet(f, Addresses) = SumFunctionOnSet(g, Addresses) + SumFunctionOnSet(g4, Addresses)
    BY ONLY <2>6, <2>8, <2>9, <2>10, <2>11, SumPlus
  <2>13. SumFunctionOnSet(g, Addresses) = SumFunctionOnSet(g2, Addresses) + SumFunctionOnSet(g3, Addresses)
    BY ONLY <2>4, <2>5, <2>8, <2>11, SumPlus
  <2>14. /\ TableV2(t) = TablePools("v2", t) /\ TableV3(t) = TablePools("v3", t)
         /\ TableV4(t) = TablePools("v4", t)
    BY TablePoolsAre
  <2>15. QED
    BY <1>1, <1>3, <1>4, <2>4, <2>5, <2>6, <2>12, <2>13, <2>14
<1>5. CASE t \notin tokens
  <2>1. \A a \in Addresses : f[a] = 0
    BY <1>2, <1>5
  <2>2. f \in [Addresses -> Nat]
    BY <1>1, <2>1 DEF ByAddress
  <2>3. SumFunctionOnSet(f, Addresses) = 0
    BY <2>1, <2>2, WalletIsFinite, SumOfNothing
  <2>4. QED
    BY <1>1, <1>3, <1>5, <2>3
<1>6. QED
  BY <1>4, <1>5

HasList == "list" \in DOMAIN pane

\* The table says what there is.
LEMMA SetsEqual ==
  ASSUME ListsSound, held \in [Places -> Nat], PricesTypeOK, NEW t \in Tokens, ~ReadTwice(t),
         NEW c \in Columns
  PROVE  TableSum[c][t] = Worth(c, t)
<1>1. CASE c = "liquid"
  BY <1>1, LiquidIsWorth DEF TableSum
<1>2. CASE c = "staked"
  BY <1>2, StakedIsWorth DEF TableSum
<1>3. CASE c = "lp"
  BY <1>3, PooledIsWorth DEF TableSum
<1>4. QED
  BY <1>1, <1>2, <1>3 DEF Columns

\* A pass that is through has what the table says, or less after a read that failed.
LEMMA SumIsTable ==
  ASSUME ListsSound, NEW r, r.pc = "build", PassTrue(r), NEW t \in Tokens, NEW c \in Columns
  PROVE  /\ r.sum[c][t] \in Nat
         /\ r.sum[c][t] <= TableSum[c][t]
         /\ r.whole => r.sum[c][t] = TableSum[c][t]
<1>1. /\ LiquidSoFar(r, t) = TableSum.liquid[t]
      /\ StakedSoFar(r, t) = TableSum.staked[t]
      /\ PooledSoFar(r, t) = TableSum.lp[t]
  BY AtTheEnd DEF PassTrue
<1>2. SoFar(r, t)[c] = TableSum[c][t]
  <2>1. CASE c = "liquid"
    BY <1>1, <2>1 DEF SoFar, TableSum
  <2>2. CASE c = "staked"
    BY <1>1, <2>2 DEF SoFar, TableSum
  <2>3. CASE c = "lp"
    BY <1>1, <2>3 DEF SoFar, TableSum
  <2>4. QED
    BY <2>1, <2>2, <2>3 DEF Columns
<1>3. /\ r.sum \in [Columns -> [Tokens -> Nat]]
      /\ r.sum[c][t] <= SoFar(r, t)[c]
      /\ r.whole => r.sum[c][t] = SoFar(r, t)[c]
  BY DEF PassTrue, Counted
<1>4. QED
  BY <1>2, <1>3

\* The table is of numbers.
LEMMA TableNat ==
  ASSUME ListsSound, held \in [Places -> Nat], PricesTypeOK, NEW r, r.pc = "build", PassTrue(r)
  PROVE  \A c \in Columns : TableSum[c] \in [Tokens -> Nat]
<1>1. ASSUME NEW t \in Tokens
      PROVE  TableSum.liquid[t] \in Nat /\ TableSum.staked[t] \in Nat /\ TableSum.lp[t] \in Nat
  BY AtTheEnd, SoFarNat DEF PassTrue
<1>2. TableSum.liquid \in [Tokens -> Nat] /\ TableSum.staked \in [Tokens -> Nat]
      /\ TableSum.lp \in [Tokens -> Nat]
  BY <1>1 DEF TableSum
<1>3. QED
  BY <1>2 DEF Columns

\* "address balances" adds up to the table, column by column.
LEMMA AddressesAgree ==
  ASSUME ListsSound, held \in [Places -> Nat], PricesTypeOK, AllOwned, NEW c \in Columns,
         NEW t \in Tokens
  PROVE  SumFunctionOnSet([a \in Addresses |-> showAddressBalances(a)[c][t]], Addresses)
           = TableSum[c][t]
<1>1. SumFunctionOnSet(ByAddress(c, t), Addresses) = TableSum[c][t]
  <2>1. CASE c = "liquid"
    BY <2>1, LiquidByAddress DEF TableSum
  <2>2. CASE c = "staked"
    BY <2>2, StakedByAddress DEF TableSum
  <2>3. CASE c = "lp"
    BY <2>3, PooledByAddress DEF TableSum
  <2>4. QED
    BY <2>1, <2>2, <2>3 DEF Columns
<1>2. QED
  BY <1>1 DEF ByAddress

\* "token balance" of one token is what the table says is liquid.
LEMMA BalancesAgree ==
  ASSUME held \in [Places -> Nat], PricesTypeOK, NEW t \in tokens \ ignored
  PROVE  TokenBalance(t) = TableSum.liquid[t]
<1>1. t \in Tokens /\ t \in tokens /\ t \notin ignored
  BY DEF PricesTypeOK
<1>2. TableSum.liquid[t] = SumOf(LiquidOf({t}))
  BY <1>1 DEF TableSum, TableLiquid
<1>3. QED
  BY <1>1, <1>2, BalanceIs

\* What ListIsTrue says of a list, and of whether every read for it was answered.
SaysWhatIsHeld(list, whole) ==
  /\ \A i \in DOMAIN list :
       LET x == list[i]
       IN  /\ ~ReadTwice(x.token) =>
                \A c \in Columns : /\ x[c] <= Worth(c, x.token)
                                   /\ whole => x[c] = Worth(c, x.token)
           /\ \A j \in 1..i : list[j].usd >= x.usd
  /\ whole => Range(list) = Range(showTokenBalanceTable)

\* A list built of what a pass has added up.
LEMMA ListOfPass ==
  ASSUME ListsSound, held \in [Places -> Nat], PricesTypeOK, NEW r, r.pc = "build", PassTrue(r),
         NEW list, list = ByValue(InfosOf(r.sum))
  PROVE  SaysWhatIsHeld(list, r.whole)
<1>1. r.sum \in [Columns -> [Tokens -> Nat]]
  BY DEF PassTrue, Counted
<1>2. r.sum.liquid \in [Tokens -> Nat] /\ r.sum.staked \in [Tokens -> Nat]
      /\ r.sum.lp \in [Tokens -> Nat]
  BY <1>1 DEF Columns
<1>3. /\ Range(list) = InfosOf(r.sum)
      /\ \A i \in DOMAIN list : \A j \in 1..i : list[j].usd >= list[i].usd
  BY <1>2, ListIs
<1>4. ASSUME NEW i \in DOMAIN list, ~ReadTwice(list[i].token), NEW c \in Columns
      PROVE  /\ list[i][c] <= Worth(c, list[i].token)
             /\ r.whole => list[i][c] = Worth(c, list[i].token)
  <2>1. list[i] \in InfosOf(r.sum)
    BY <1>3 DEF Range
  <2>2. PICK t \in Worthy(r.sum) : list[i] = InfoOf(r.sum, t)
    BY <2>1, InfosAre
  <2>3. t \in Tokens
    BY DEF Worthy
  <2>4. list[i].token = t /\ list[i][c] = r.sum[c][t]
    BY <2>2 DEF InfoOf, Columns
  <2>5. /\ r.sum[c][t] <= TableSum[c][t]
        /\ r.whole => r.sum[c][t] = TableSum[c][t]
    BY <2>3, SumIsTable
  <2>6. TableSum[c][t] = Worth(c, t)
    BY <1>4, <2>3, <2>4, SetsEqual
  <2>7. QED
    BY <2>4, <2>5, <2>6
<1>5. ASSUME r.whole PROVE Range(list) = Range(showTokenBalanceTable)
  <2>1. PICK s : s = TableSum
    OBVIOUS
  <2>2. \A c \in Columns : s[c] \in [Tokens -> Nat]
    BY <2>1, TableNat
  <2>3. s.liquid \in [Tokens -> Nat] /\ s.staked \in [Tokens -> Nat] /\ s.lp \in [Tokens -> Nat]
    BY <2>2 DEF Columns
  <2>4. PICK table : table = ByValue(InfosOf(s))
    OBVIOUS
  <2>5. Range(table) = InfosOf(s)
    BY <2>3, <2>4, ListIs
  <2>6. showTokenBalanceTable = table
    BY <2>1, <2>4 DEF showTokenBalanceTable, InfosOf
  <2>7. \A t \in Tokens : /\ r.sum.liquid[t] = s.liquid[t] /\ r.sum.staked[t] = s.staked[t]
                          /\ r.sum.lp[t] = s.lp[t]
    BY <1>5, <2>1, SumIsTable DEF Columns
  <2>8. \A t \in Tokens : Total(r.sum, t) = Total(s, t) /\ InfoOf(r.sum, t) = InfoOf(s, t)
    BY <2>7 DEF Total, InfoOf
  <2>9. Worthy(r.sum) = Worthy(s) /\ Worthy(s) \subseteq Tokens
    BY <2>8 DEF Worthy
  <2>10. InfosOf(r.sum) = InfosOf(s)
    BY <2>8, <2>9, InfosAre
  <2>11. QED
    BY <1>3, <2>5, <2>6, <2>10
<1>6. QED
  BY <1>3, <1>4, <1>5 DEF SaysWhatIsHeld

\* The list that a pass puts on the pane.
LEMMA TrueList ==
  ASSUME WorthInv, PricesTypeOK, HasList, NEW u \in Passes, BuildList(u), pass[u].still
  PROVE  SaysWhatIsHeld(pane'.list, pass[u].whole)
<1>1. PICK r : r = pass[u]
  OBVIOUS
<1>2. r.pc = "build" /\ pane' = [pane EXCEPT !.list = ByValue(InfosOf(r.sum)), !.posted = TRUE]
  BY <1>1 DEF BuildList, InfosOf
<1>3. PICK list : list = ByValue(InfosOf(r.sum))
  OBVIOUS
<1>4. pane'.list = list
  BY <1>2, <1>3 DEF HasList
<1>5. PassTrue(r) /\ ListsSound /\ held \in [Places -> Nat]
  BY <1>1, <1>2 DEF WorthInv, PassesTrue
<1>6. SaysWhatIsHeld(list, r.whole)
  BY <1>2, <1>3, <1>5, ListOfPass
<1>7. QED
  BY <1>1, <1>4, <1>6

\* The pane keeps its fields.
LEMMA PaneKeepsItsList ==
  HasList /\ [PortfolioNext]_portfolioVars => HasList'
<1> SUFFICES ASSUME HasList, [PortfolioNext]_portfolioVars PROVE HasList'
  OBVIOUS
<1>1. CASE UNCHANGED pane
  BY <1>1 DEF HasList
<1>2. ASSUME NEW u \in Passes, PassStep(u) PROVE HasList'
  <2>1. CASE BuildList(u)
    BY <2>1 DEF BuildList, HasList
  <2>2. CASE scheduleUpdate(u)
    BY <2>2 DEF scheduleUpdate, Begin, HasList
  <2>3. CASE WakeUp(u) \/ SetOn(u)
    BY <2>3 DEF WakeUp, SetOn, Begin, HasList
  <2>4. QED
    BY <1>1, <1>2, <2>1, <2>2, <2>3 DEF PassStep, ReadNative, ReadERC20, GetBalance,
       GetERC20Balance, Leave, ReadStake, ReadReward, ReadV2, ReadV3, ReadV4, Status
<1>3. CASE UserStep
  <2>1. CASE SetOff \/ Elapse \/ rebuildTemplate
    BY <2>1 DEF SetOff, Elapse, rebuildTemplate, HasList
  <2>2. QED
    BY <1>1, <1>3, <2>1 DEF UserStep, AddToken, DeleteToken, Ignore, Unignore, Move,
                            RemovePosition, AddPosition, SortPositions
<1>4. CASE MarketStep
  BY <1>1, <1>4 DEF MarketStep, Pricing
<1>5. QED
  BY <1>1, <1>2, <1>3, <1>4 DEF PortfolioNext, portfolioVars

-----------------------------------------------------------------------------
\* At every moment a pass that nothing disturbed has added up what is where it
\* has been, each place once: the invariant below the next.
THEOREM WorthInvariant == PortfolioSpec => [](WorthInv /\ HasList)
<1>1. PortfolioInit => WorthInv /\ HasList
  BY InitWorth DEF PortfolioInit, HasList
<1>2. PricesTypeOK /\ (WorthInv /\ HasList) /\ [PortfolioNext]_portfolioVars
        => (WorthInv /\ HasList)'
  BY StepWorth, PaneKeepsItsList
<1>3. QED
  BY <1>1, <1>2, PriceTypes, PTL DEF PortfolioSpec

\* However many passes overlap, and whatever moves meanwhile, the list of one that nothing
\* disturbed says of each token what is held, each place counted once, the most valuable token
\* first, as the tables of "token balance" and "address balances" do; and less only after a read
\* that failed.
THEOREM WorthIsListed == PortfolioSpec => ListIsTrue
<1> DEFINE Listed(u) ==
             /\ \A i \in DOMAIN pane'.list :
                  LET x == pane'.list[i]
                  IN  /\ ~ReadTwice(x.token) =>
                           \A c \in Columns : /\ x[c] <= Worth(c, x.token)
                                              /\ pass[u].whole => x[c] = Worth(c, x.token)
                      /\ \A j \in 1..i : pane'.list[j].usd >= x.usd
             /\ pass[u].whole => Range(pane'.list) = Range(showTokenBalanceTable)
             /\ \A t \in tokens \ ignored : TokenBalance(t) = TableSum.liquid[t]
             /\ AllOwned =>
                  \A c \in Columns, t \in Tokens :
                    SumFunctionOnSet([a \in Addresses |-> showAddressBalances(a)[c][t]], Addresses)
                      = TableSum[c][t]
<1>1. ASSUME WorthInv, PricesTypeOK, HasList, NEW u \in Passes, BuildList(u), pass[u].still
      PROVE  Listed(u)
  <2>1. SaysWhatIsHeld(pane'.list, pass[u].whole)
    BY <1>1, TrueList
  <2>2. ListsSound /\ held \in [Places -> Nat]
    BY <1>1 DEF WorthInv
  <2>3. \A t \in tokens \ ignored : TokenBalance(t) = TableSum.liquid[t]
    BY <1>1, <2>2, BalancesAgree
  <2>4. ASSUME AllOwned, NEW c \in Columns, NEW t \in Tokens
        PROVE  SumFunctionOnSet([a \in Addresses |-> showAddressBalances(a)[c][t]], Addresses)
                 = TableSum[c][t]
    BY <1>1, <2>2, <2>4, AddressesAgree
  <2>5. QED
    BY <2>1, <2>3, <2>4 DEF SaysWhatIsHeld
<1>2. (WorthInv /\ HasList) /\ PricesTypeOK /\ [PortfolioNext]_portfolioVars
        => [\A u \in Passes : BuildList(u) /\ pass[u].still => Listed(u)]_portfolioVars
  BY <1>1
<1>3. QED
  BY <1>2, WorthInvariant, PriceTypes, PTL DEF PortfolioSpec, ListIsTrue
=============================================================================
