------------------------------- MODULE Prices -------------------------------
(***************************************************************************)
(* The prices of the tokens (price/, command/price.go).  A token follows   *)
(* a pair of DexScreener or a slug of CoinMarketCap.  Every so often, and  *)
(* when the user asks, Update asks DexScreener for the pairs of each       *)
(* blockchain and CoinMarketCap for all slugs, while the user goes on to   *)
(* change what the tokens follow.  The native token of a blockchain and    *)
(* the token that wraps it are worth the same: one that follows nothing is *)
(* given the price of the other.                                           *)
(***************************************************************************)
EXTENDS Naturals, FiniteSets, Sequences

CONSTANTS
  Tokens,
  NoToken,
  Chains,     \* w.Blockchains, in order
  ChainOf,    \* of a token
  NativeOf,   \* of a blockchain: its native token
  WrappedOf,  \* of a blockchain: the token that wraps it, or NoToken
  chain_names,  \* the blockchains that DexScreener knows
  Pairs,      \* of a pair of DexScreener: its blockchain and tokens
  Slugs,      \* of a slug of CoinMarketCap: the tokens with its symbol
  NoFeed,
  CMC_API_KEY,  \* is there a key for CoinMarketCap?
  Quotes,     \* prices; 0 stands for one that cannot be read
  MaxNews     \* bound: events the panes have not heard of

ASSUME Markets ==
  /\ NoToken \notin Tokens
  /\ Chains \in Seq({Chains[i] : i \in DOMAIN Chains})
  /\ ChainOf \in [Tokens -> {Chains[i] : i \in DOMAIN Chains}]
  /\ DOMAIN Pairs \cap DOMAIN Slugs = {} /\ NoFeed \notin DOMAIN Pairs \cup DOMAIN Slugs
  /\ Quotes \subseteq Nat /\ {0, 1} \subseteq Quotes
  /\ MaxNews \in Nat \ {0}

Feeds == DOMAIN Pairs \cup DOMAIN Slugs

VARIABLES
  tokens,  \* w.Tokens, as a set
  feed,    \* of a token: what it follows (PriceFeeder and PriceFeedParam)
  price,   \* of a token
  quote,   \* of a feed: what the market gives
  upd,     \* the update that runs: its step and what it has found so far
  news     \* events "saved", "updated" and "connected" that no pane has heard

priceVars == <<tokens, feed, price, quote, upd, news>>

Idle == [pc |-> "idle", i |-> 1, todo |-> {}, asked |-> {}, n_ds |-> FALSE,
         n_cmc |-> FALSE, calm |-> TRUE]

Heard(n) == news' = IF news + n > MaxNews THEN MaxNews ELSE news + n

\* What an update in progress notices, and no property is stated of.
Disturbed == upd' = IF upd.pc = "idle" THEN upd ELSE [upd EXCEPT !.calm = FALSE]

(***************************************************************************)
(* Looking for what to follow.                                             *)
(***************************************************************************)
DS_GetPriceInfoList(t) ==
  IF ChainOf[t] \in chain_names
  THEN {p \in DOMAIN Pairs : Pairs[p].chain = ChainOf[t] /\ t \in Pairs[p].tokens}
  ELSE {}

CMC_GetPriceInfoList(t) == {s \in DOMAIN Slugs : CMC_API_KEY /\ t \in Slugs[s]}

\* Nothing is offered when DexScreener does not know the blockchain, whatever
\* CoinMarketCap has.
GetPriceInfoList(t) ==
  IF ChainOf[t] \in chain_names
  THEN DS_GetPriceInfoList(t) \cup CMC_GetPriceInfoList(t)
  ELSE {}

Twin(t) ==
  LET c == ChainOf[t]
  IN  IF t = NativeOf[c] THEN WrappedOf[c]
      ELSE IF t = WrappedOf[c] THEN NativeOf[c] ELSE NoToken

\* "price set_feeder": the twin is set as well.
SetFeeder(t, f) ==
  /\ t \in tokens
  /\ f \in GetPriceInfoList(t)
  /\ feed' = [s \in Tokens |-> IF s = t \/ (s = Twin(t) /\ s \in tokens) THEN f ELSE feed[s]]
  /\ Heard(1)
  /\ Disturbed
  /\ UNCHANGED <<tokens, price, quote>>

\* The dialog that edits a token sets this one only.
EditFeed(t, f) ==
  /\ t \in tokens
  /\ feed' = [feed EXCEPT ![t] = f]
  /\ Heard(1)
  /\ Disturbed
  /\ UNCHANGED <<tokens, price, quote>>

Quoted(f, q) ==
  /\ quote[f] # q
  /\ quote' = [quote EXCEPT ![f] = q]
  /\ Disturbed
  /\ UNCHANGED <<tokens, feed, price, news>>

(***************************************************************************)
(* Update.                                                                 *)
(***************************************************************************)
Update ==
  /\ upd.pc = "idle"
  /\ upd' = [Idle EXCEPT !.pc = "chain"]
  /\ UNCHANGED <<tokens, feed, price, quote, news>>

\* The tokens of the next blockchain that follow a pair.
DS_Update ==
  /\ upd.pc = "chain" /\ upd.i <= Len(Chains)
  /\ LET c == Chains[upd.i]
         todo == {t \in tokens : ChainOf[t] = c /\ feed[t] \in DOMAIN Pairs}
     IN  upd' = IF c \in chain_names /\ todo # {}
                THEN [upd EXCEPT !.pc = "pairs", !.todo = todo,
                                 !.asked = {feed[t] : t \in todo}]
                ELSE [upd EXCEPT !.i = @ + 1]
  /\ UNCHANGED <<tokens, feed, price, quote, news>>

\* DexScreener is asked for pairs of one blockchain and has no others.
DSGetPairs(c) == {p \in upd.asked : Pairs[p].chain = c}

\* Variant: the twin is given the price even when it follows something itself.
PricedAlways(todo, answered) ==
  [t \in Tokens |->
     CASE t \in todo /\ feed[t] \in answered -> quote[feed[t]]
       [] t \in tokens /\ Twin(t) \in todo /\ feed[Twin(t)] \in answered
            -> quote[feed[Twin(t)]]
       [] OTHER -> price[t]]

\* Variant: the twin is left alone.
PricedAlone(todo, answered) ==
  [t \in Tokens |->
     IF t \in todo /\ feed[t] \in answered THEN quote[feed[t]] ELSE price[t]]

\* What is followed is looked at again now that the answer is here. The twin is
\* given the price when it follows nothing.
Priced(todo, answered) ==
  [t \in Tokens |->
     IF t \in todo /\ feed[t] \in answered THEN quote[feed[t]]
     ELSE IF /\ t \in tokens /\ feed[t] = NoFeed
             /\ Twin(t) \in todo /\ feed[Twin(t)] \in answered
          THEN quote[feed[Twin(t)]]
          ELSE price[t]]

SetsAny(todo, answered) == \E t \in todo : feed[t] \in answered

DSAssign ==
  /\ upd.pc = "pairs"
  /\ LET answered == DSGetPairs(Chains[upd.i])
     IN  /\ price' = Priced(upd.todo, answered)
         /\ upd' = [upd EXCEPT !.pc = "chain", !.i = @ + 1, !.todo = {}, !.asked = {},
                               !.n_ds = @ \/ SetsAny(upd.todo, answered)]
  /\ UNCHANGED <<tokens, feed, quote, news>>

\* The first blockchain that has no answer is the last: nothing counts as set.
DSFails ==
  /\ upd.pc = "pairs"
  /\ upd' = [upd EXCEPT !.pc = "slugs", !.todo = {}, !.asked = {}, !.n_ds = FALSE,
                        !.calm = FALSE]
  /\ UNCHANGED <<tokens, feed, price, quote, news>>

DSDone ==
  /\ upd.pc = "chain" /\ upd.i > Len(Chains)
  /\ upd' = [upd EXCEPT !.pc = "slugs"]
  /\ UNCHANGED <<tokens, feed, price, quote, news>>

\* All slugs at once, whatever the blockchain.
CMC_Update ==
  /\ upd.pc = "slugs"
  /\ LET asked == {feed[t] : t \in tokens} \cap DOMAIN Slugs
     IN  upd' = IF asked # {} /\ CMC_API_KEY
                THEN [upd EXCEPT !.pc = "quotes", !.asked = asked]
                ELSE [upd EXCEPT !.pc = "done"]
  /\ UNCHANGED <<tokens, feed, price, quote, news>>

CMC_GetLatest(slugs) == slugs

\* The tokens are those of now.
CMCAssign ==
  /\ upd.pc = "quotes"
  /\ LET answered == CMC_GetLatest(upd.asked)
     IN  /\ price' = Priced(tokens, answered)
         /\ upd' = [upd EXCEPT !.pc = "done", !.asked = {}, !.n_cmc = SetsAny(tokens, answered)]
  /\ UNCHANGED <<tokens, feed, quote, news>>

CMCFails ==
  /\ upd.pc = "quotes"
  /\ upd' = [upd EXCEPT !.pc = "done", !.asked = {}, !.calm = FALSE]
  /\ UNCHANGED <<tokens, feed, price, quote, news>>

\* The wallet is saved and the panes told when a price was set.
Updated ==
  /\ upd.pc = "done"
  /\ upd' = Idle
  /\ Heard(IF upd.n_ds \/ upd.n_cmc THEN 2 ELSE 0)
  /\ UNCHANGED <<tokens, feed, price, quote>>

UpdateStep == Update \/ DS_Update \/ DSAssign \/ DSFails \/ DSDone \/ CMC_Update
              \/ CMCAssign \/ CMCFails \/ Updated

-----------------------------------------------------------------------------
Updates ==
  [pc : {"idle", "chain", "pairs", "slugs", "quotes", "done"}, i : 1..Len(Chains) + 1,
   todo : SUBSET Tokens, asked : SUBSET Feeds, n_ds : BOOLEAN, n_cmc : BOOLEAN,
   calm : BOOLEAN]

PricesTypeOK ==
  /\ tokens \subseteq Tokens
  /\ feed \in [Tokens -> Feeds \cup {NoFeed}]
  /\ price \in [Tokens -> Quotes]
  /\ quote \in [Feeds -> Quotes]
  /\ news \in 0..MaxNews
  /\ upd \in Updates

\* Whatever the user does while an answer is on its way, a price that changes
\* is the one quoted for what the token follows by now or, if it follows
\* nothing, for what its twin follows.
PricedByItsFeed ==
  [][\A t \in Tokens : price'[t] # price[t] =>
       LET f == IF feed[t] = NoFeed THEN feed[Twin(t)] ELSE feed[t]
       IN  f \in Feeds /\ price'[t] = quote[f]]_priceVars

\* Can an update find a price for the token?
Reached(t) ==
  \/ feed[t] \in DOMAIN Pairs /\ Pairs[feed[t]].chain = ChainOf[t]
     /\ ChainOf[t] \in chain_names
  \/ feed[t] \in DOMAIN Slugs /\ CMC_API_KEY

\* An update that nothing disturbed has priced all it could: each token by what
\* it follows, and a twin that follows nothing the same ("they should share the
\* same price", command/price.go:233). If it changed any, the panes are told.
UpdateReachesAll ==
  [][Updated /\ upd.calm =>
       /\ \A t \in tokens :
            /\ Reached(t) => price[t] = quote[feed[t]]
            /\ feed[t] = NoFeed /\ Twin(t) \in tokens /\ Reached(Twin(t))
                 => price[t] = price[Twin(t)]
       /\ (\E t \in tokens : Reached(t)) => news' > 0]_priceVars
=============================================================================
