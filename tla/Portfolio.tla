----------------------------- MODULE Portfolio -----------------------------
(***************************************************************************)
(* What the wallet is worth: the token pane (ui/pane_token.go) and the     *)
(* tables of "token balance" and "address balances" (command/token.go,     *)
(* command/address.go), which add up, token by token, what the addresses   *)
(* hold, what is staked, the rewards and the liquidity positions.  The     *)
(* pane works in goroutines that read the blockchains one answer after the *)
(* other (updateList); several may be on their way, while funds move,      *)
(* positions go, prices change and the user changes the tokens.  A table   *)
(* is a function of what is held: it is here as if it were read in no      *)
(* time.                                                                   *)
(***************************************************************************)
EXTENDS Prices, FiniteSetsExt, SequencesExt

CONSTANTS
  Addresses,  \* w.Addresses
  Multicall,  \* the blockchains with a multicall contract
  Staked,     \* of a staking position: its owner and the tokens of its provider
  Pools,      \* of a liquidity position: its version, owner and two tokens
  MinTokenValue,
  Passes,     \* updateList, at most so many at once
  Worlds      \* what there is to begin with, and what may happen

Lists == {"staking", "v2", "v3", "v4"}
Columns == {"liquid", "staked", "lp"}

\* A place where tokens are.
Liquid(a, t) == <<"liquid", a, t>>
Stake(p) == <<"stake", p>>
Reward(p, k) == <<"reward", p, k>>
Liquidity(p, k) == <<"liquidity", p, k>>
Gain(p, k) == <<"gain", p, k>>
\* What the contract owes the owner of a v3 position, until it is collected.
Owed(p, k) == <<"owed", p, k>>

Places ==
  {Liquid(a, t) : a \in Addresses, t \in Tokens}
  \cup {Stake(p) : p \in DOMAIN Staked}
  \cup {Reward(p, k) : p \in DOMAIN Staked, k \in 1..2}
  \cup {Liquidity(p, k) : p \in DOMAIN Pools, k \in 1..2}
  \cup {Gain(p, k) : p \in DOMAIN Pools, k \in 1..2}
  \cup {Owed(p, k) : p \in DOMAIN Pools, k \in 1..2}

TokenAt(x) ==
  CASE x[1] = "liquid" -> x[3]
    [] x[1] = "stake" -> Staked[x[2]].token
    [] x[1] = "reward" -> Staked[x[2]].rewards[x[3]]
    [] OTHER -> Pools[x[2]].tokens[x[3]]

\* The positions a list may have.
OfList(l) == IF l = "staking" THEN DOMAIN Staked ELSE {p \in DOMAIN Pools : Pools[p].version = l}

\* Tokens with what they follow and a price of each, as in the wallet's file, and no position
\* twice.
IsWorld(w) ==
  /\ w.tokens \subseteq Tokens
  /\ w.feed \in [Tokens -> Feeds \cup {NoFeed}]
  /\ w.price \in [Tokens -> Quotes]
  /\ \A x \in Places : w.held[x] \in Nat
  /\ \A l \in Lists : w.lists[l] \in Seq(OfList(l)) /\ IsInjective(w.lists[l])

ASSUME WorldsAssumption == \A w \in Worlds : IsWorld(w)

ASSUME WalletIsFinite ==
  /\ \A S \in {Addresses, Tokens, DOMAIN Staked, DOMAIN Pools} : IsFiniteSet(S)
  /\ \A p \in DOMAIN Pools : Pools[p].version \in Lists \ {"staking"}
  /\ MinTokenValue \in Nat

VARIABLES
  ignored,  \* tokens the user has put aside
  lists,    \* the positions: slices, their first n elements
  held,     \* of a place: how much is there
  pass,     \* the goroutines that run updateList
  pane,     \* the token pane
  budget    \* bound: how many moves, quotes, failures, updates and steps of the
            \* user are left, and the passes there may be

walletVars == <<ignored, lists, held>>
portfolioVars == <<priceVars, walletVars, pass, pane, budget>>

Nothing == [c \in Columns |-> [t \in Tokens |-> 0]]
Rest == [pc |-> "rest", batches |-> <<>>, queue |-> <<>>, i |-> 1, k |-> 1, n |-> 0,
         sum |-> Nothing, still |-> TRUE, whole |-> TRUE]

\* token_info_list: a token, what there is of it and its value.
Info == [token : Tokens, liquid : Nat, staked : Nat, lp : Nat, usd : Nat]

Spend(what) == budget[what] > 0 /\ budget' = [budget EXCEPT ![what] = @ - 1]

\* Every pass on its way is told that things are not as they were.
Stir == pass' = [u \in Passes |-> IF pass[u].pc = "rest" THEN pass[u]
                                  ELSE [pass[u] EXCEPT !.still = FALSE]]

(***************************************************************************)
(* Reading balances. A batch goes through one call to the multicall        *)
(* contract, which answers for one moment, or fails altogether; then each  *)
(* query is made by itself, and one that fails counts for nothing.         *)
(***************************************************************************)
LiquidOf(T) == {Liquid(a, t) : a \in Addresses, t \in T}

Queries(b) == SetToSeq(LiquidOf(b.tokens))

multiCall(b) == b.chain \in Multicall

\* Variant: the answers go to the queries in the opposite order.
AddAllReversed(sum, queue) ==
  [sum EXCEPT !.liquid = [t \in Tokens |-> @[t] +
     SumFunctionOnSet([i \in DOMAIN queue |-> held[queue[Len(queue) + 1 - i]]],
                      {i \in DOMAIN queue : TokenAt(queue[i]) = t})]]

AddAll(sum, queue) ==
  [sum EXCEPT !.liquid = [t \in Tokens |-> @[t] +
     SumFunctionOnSet([i \in DOMAIN queue |-> held[queue[i]]],
                      {i \in DOMAIN queue : TokenAt(queue[i]) = t})]]

GetNativeBalancesBatch(u, b) ==
  /\ b.native
  /\ \/ /\ multiCall(b)
        /\ pass' = [pass EXCEPT ![u].batches = Tail(@), ![u].sum = AddAll(@, Queries(b))]
        /\ UNCHANGED budget
     \/ /\ pass' = [pass EXCEPT ![u].batches = Tail(@), ![u].queue = Queries(b)]
        /\ IF multiCall(b) THEN Spend("fails") ELSE UNCHANGED budget

\* With no multicall contract the call fails.
GetERC20BalancesBatch(u, b) ==
  /\ ~b.native
  /\ \/ /\ multiCall(b)
        /\ pass' = [pass EXCEPT ![u].batches = Tail(@), ![u].sum = AddAll(@, Queries(b))]
        /\ UNCHANGED budget
     \/ /\ pass' = [pass EXCEPT ![u].batches = Tail(@), ![u].queue = Queries(b)]
        /\ IF multiCall(b) THEN Spend("fails") ELSE UNCHANGED budget

NextBatch(u) == pass[u].pc = "liquid" /\ pass[u].queue = <<>> /\ pass[u].batches # <<>>

ReadNative(u) ==
  /\ NextBatch(u) /\ GetNativeBalancesBatch(u, Head(pass[u].batches))
  /\ UNCHANGED <<priceVars, walletVars, pane>>

ReadERC20(u) ==
  /\ NextBatch(u) /\ GetERC20BalancesBatch(u, Head(pass[u].batches))
  /\ UNCHANGED <<priceVars, walletVars, pane>>

\* One read by itself of what is at the place x, into a column.
Single(u, x, column, next) ==
  \/ /\ pass' = [pass EXCEPT ![u] = [next EXCEPT !.sum[column][TokenAt(x)] = @ + held[x]]]
     /\ UNCHANGED budget
  \/ pass' = [pass EXCEPT ![u] = [next EXCEPT !.whole = FALSE]] /\ Spend("fails")

Next1(r) == [r EXCEPT !.queue = Tail(@)]

GetBalance(u) ==
  /\ pass[u].queue # <<>>
  /\ LET x == Head(pass[u].queue)
     IN  TokenAt(x) = NativeOf[ChainOf[TokenAt(x)]] /\ Single(u, x, "liquid", Next1(pass[u]))
  /\ UNCHANGED <<priceVars, walletVars, pane>>

GetERC20Balance(u) ==
  /\ pass[u].queue # <<>>
  /\ LET x == Head(pass[u].queue)
     IN  TokenAt(x) # NativeOf[ChainOf[TokenAt(x)]] /\ Single(u, x, "liquid", Next1(pass[u]))
  /\ UNCHANGED <<priceVars, walletVars, pane>>

(***************************************************************************)
(* Reading positions. A loop takes the elements that its slice had when it *)
(* began; an element that is taken out of the slice moves those behind it  *)
(* down, under the loop's feet.                                            *)
(***************************************************************************)
Present(l) == {lists[l].a[k] : k \in 1..lists[l].n}
Position(u, l) == lists[l].a[pass[u].i]
Ranging(u, stage) == pass[u].pc = stage /\ pass[u].i <= pass[u].n
Further(r) == [r EXCEPT !.i = @ + 1]

Enter(r, stage, l) == [r EXCEPT !.pc = stage, !.i = 1, !.n = lists[l].n]
Leave(u) ==
  /\ pass[u].pc \in {"liquid", "stake", "reward", "v2", "v3", "v4"}
  /\ pass[u].batches = <<>> /\ pass[u].queue = <<>> /\ pass[u].i > pass[u].n
  /\ LET r == pass[u]
     IN pass' = [pass EXCEPT ![u] =
                   CASE r.pc = "liquid" -> Enter(r, "stake", "staking")
                     [] r.pc = "stake" -> Enter(r, "reward", "staking")
                     [] r.pc = "reward" -> Enter(r, "v2", "v2")
                     [] r.pc = "v2" -> Enter(r, "v3", "v3")
                     [] r.pc = "v3" -> Enter(r, "v4", "v4")
                     [] r.pc = "v4" -> [r EXCEPT !.pc = "build"]]
  /\ UNCHANGED <<priceVars, walletVars, pane, budget>>

\* A token the wallet does not have is passed over.
ReadStake(u) ==
  /\ Ranging(u, "stake")
  /\ LET p == Position(u, "staking")
     IN  IF Staked[p].token \in tokens
         THEN Single(u, Stake(p), "staked", Further(pass[u]))
         ELSE pass' = [pass EXCEPT ![u] = Further(@)] /\ UNCHANGED budget
  /\ UNCHANGED <<priceVars, walletVars, pane>>

Rewards(p) == {k \in 1..2 : Staked[p].funcs[k] /\ Staked[p].rewards[k] \in tokens}

\* Which reward is meant is told by its token.
getPending(p, k) ==
  IF Staked[p].rewards[k] = Staked[p].rewards[1] THEN Reward(p, 1) ELSE Reward(p, 2)

\* The two rewards of a position, one after the other.
ReadReward(u) ==
  /\ Ranging(u, "reward")
  /\ LET p == Position(u, "staking")
         r == pass[u]
         next == IF r.k = 1 THEN [r EXCEPT !.k = 2] ELSE [Further(r) EXCEPT !.k = 1]
     IN  IF r.k \in Rewards(p)
         THEN Single(u, getPending(p, r.k), "staked", next)
         ELSE pass' = [pass EXCEPT ![u] = next] /\ UNCHANGED budget
  /\ UNCHANGED <<priceVars, walletVars, pane>>

SumOf(places) == SumFunctionOnSet(held, places)

\* What a status says of a token of the position, with and without what it has gained.
Share(p, k) == SumOf({Liquidity(p, k)})
Earning(p, k) == SumOf({Liquidity(p, k), Gain(p, k)})
AmountOf(l, p, k) == IF l = "v2" THEN Share(p, k) ELSE Earning(p, k)

\* It is added for the tokens the wallet has.
AddStatus(sum, l, p) ==
  [sum EXCEPT !.lp = [t \in Tokens |-> @[t] +
     (IF t \in tokens
      THEN SumFunctionOnSet([k \in 1..2 |-> AmountOf(l, p, k)],
                            {k \in 1..2 : Pools[p].tokens[k] = t})
      ELSE 0)]]

\* The status of a position that is no longer kept is an error.
Status(u, l) ==
  /\ Ranging(u, l)
  /\ LET p == Position(u, l)
         next == Further(pass[u])
     IN  \/ /\ p \in Present(l)
            /\ pass' = [pass EXCEPT ![u] = [next EXCEPT !.sum = AddStatus(@, l, p)]]
            /\ UNCHANGED budget
         \/ /\ p \in Present(l) /\ Spend("fails")
            /\ pass' = [pass EXCEPT ![u] = [next EXCEPT !.whole = FALSE]]
         \/ /\ p \notin Present(l) /\ UNCHANGED budget
            /\ pass' = [pass EXCEPT ![u] = next]
  /\ UNCHANGED <<priceVars, walletVars, pane>>

ReadV2(u) == Status(u, "v2")
ReadV3(u) == Status(u, "v3")
ReadV4(u) == Status(u, "v4")

(***************************************************************************)
(* The list.                                                               *)
(***************************************************************************)
Total(sum, t) == sum.liquid[t] + sum.staked[t] + sum.lp[t]

\* Tokens with something, worth enough.
Worthy(sum) == {t \in Tokens : Total(sum, t) > 0 /\ price[t] * Total(sum, t) >= MinTokenValue}

InfoOf(sum, t) == [token |-> t, liquid |-> sum.liquid[t], staked |-> sum.staked[t],
                   lp |-> sum.lp[t], usd |-> price[t] * Total(sum, t)]

\* The most valuable first. The order of those of the same value is left open in the code.
ByValue(infos) ==
  CHOOSE list \in SetToSeqs(infos) :
    \A i, j \in 1..Len(list) : i < j => list[i].usd >= list[j].usd

\* The list is shown when the main loop comes to it.
BuildList(u) ==
  /\ pass[u].pc = "build"
  /\ LET list == ByValue({InfoOf(pass[u].sum, t) : t \in Worthy(pass[u].sum)})
     IN  pane' = [pane EXCEPT !.list = list, !.posted = TRUE]
  /\ pass' = [pass EXCEPT ![u] = Rest]
  /\ UNCHANGED <<priceVars, walletVars, budget>>

\* The list of that moment.
rebuildTemplate ==
  /\ pane.posted
  /\ pane' = [pane EXCEPT !.posted = FALSE, !.shown = pane.list]
  /\ UNCHANGED <<priceVars, walletVars, pass, budget>>

(***************************************************************************)
(* When the pane reads.                                                    *)
(***************************************************************************)
\* Tokens that are not ignored, by blockchain, the native ones first.
Batch(c, n) == [chain |-> c, native |-> n,
                tokens |-> {t \in tokens \ ignored :
                              ChainOf[t] = c /\ (t = NativeOf[c]) = n}]

Batches ==
  {b \in {Batch(c, n) : c \in Range(Chains), n \in BOOLEAN} : b.tokens # {}}

\* The blockchains come in any order.
InTurn(batches) ==
  \A i, j \in DOMAIN batches :
    i < j /\ batches[i].chain = batches[j].chain => j = i + 1 /\ batches[i].native

\* A pass begins. Nothing is done for a wallet without tokens, and what was shown stays.
Started(u, on) ==
  IF on /\ tokens # {}
  THEN \E order \in SetToSeqs(Batches) :
         /\ InTurn(order)
         /\ pass' = [pass EXCEPT ![u] = [Rest EXCEPT !.pc = "liquid", !.batches = order]]
  ELSE UNCHANGED pass

Begin(u, p) ==
  /\ pass[u].pc = "rest"
  /\ pane' = p
  /\ Started(u, pane.on)
  /\ UNCHANGED <<tokens, feed, price, quote, upd, walletVars, budget>>

\* Two seconds at least between two updates: an event that comes earlier makes
\* one wait, and those that come while it waits are taken with it.
scheduleUpdate(u) ==
  /\ news > 0 /\ news' = news - 1
  /\ IF pane.pending \/ pane.recent
     THEN /\ pane' = [pane EXCEPT !.pending = TRUE]
          /\ UNCHANGED <<tokens, feed, price, quote, upd, walletVars, pass, budget>>
     ELSE Begin(u, [pane EXCEPT !.recent = TRUE])

Elapse ==
  /\ pane.recent
  /\ pane' = [pane EXCEPT !.recent = FALSE]
  /\ UNCHANGED <<priceVars, walletVars, pass, budget>>

WakeUp(u) ==
  /\ pane.pending /\ ~pane.recent
  /\ Begin(u, [pane EXCEPT !.pending = FALSE, !.recent = TRUE])
  /\ UNCHANGED news

SetOn(u) ==
  /\ ~pane.on /\ pass[u].pc = "rest"
  /\ Spend("user")
  /\ pane' = [pane EXCEPT !.on = TRUE]
  /\ Started(u, TRUE)
  /\ UNCHANGED <<priceVars, walletVars>>

SetOff ==
  /\ pane.on
  /\ Spend("user")
  /\ pane' = [pane EXCEPT !.on = FALSE]
  /\ UNCHANGED <<priceVars, walletVars, pass>>

(***************************************************************************)
(* The user, the blockchains and the other panes.                          *)
(***************************************************************************)
\* "token add": the command has looked for the token, and asked the contract
\* for its symbol, before the wallet looks once more.
AddToken(t) ==
  /\ t \notin tokens /\ Spend("user")
  /\ tokens' = tokens \cup {t}
  /\ Heard(1) /\ Disturbed /\ Stir
  /\ UNCHANGED <<feed, price, quote, walletVars, pane>>

DeleteToken(t) ==
  /\ t \in tokens /\ Spend("user")
  /\ tokens' = tokens \ {t}
  /\ ignored' = ignored \ {t}
  /\ Heard(1) /\ Disturbed /\ Stir
  /\ UNCHANGED <<feed, price, quote, lists, held, pane>>

Ignore(t) ==
  /\ t \in tokens /\ Spend("user")
  /\ ignored' = ignored \cup {t}
  /\ Heard(1) /\ Stir
  /\ UNCHANGED <<tokens, feed, price, quote, upd, lists, held, pane>>

Unignore(t) ==
  /\ t \in tokens /\ Spend("user")
  /\ ignored' = ignored \ {t}
  /\ Heard(1) /\ Stir
  /\ UNCHANGED <<tokens, feed, price, quote, upd, lists, held, pane>>

\* One of a token goes from one place to another: a transfer, a stake, a swap
\* of the pool.
Move(x, y) ==
  /\ x # y /\ TokenAt(x) = TokenAt(y) /\ held[x] > 0
  /\ held' = [held EXCEPT ![x] = @ - 1, ![y] = @ + 1]
  /\ Stir
  /\ UNCHANGED <<priceVars, ignored, lists, pane>>

\* append(s[:i], s[i+1:]...): in place.
RemovePosition(l, i) ==
  /\ i \in 1..lists[l].n
  /\ Spend("user")
  /\ lists' = [lists EXCEPT ![l] =
                 [a |-> [k \in DOMAIN @.a |-> IF k \in i..(@.n - 1) THEN @.a[k + 1] ELSE @.a[k]],
                  n |-> @.n - 1]]
  /\ Heard(1) /\ Stir
  /\ UNCHANGED <<tokens, feed, price, quote, upd, ignored, held, pane>>

\* append(s, p): where there is room, in place.
AddPosition(l, p) ==
  /\ p \in OfList(l) \ Present(l)
  /\ Spend("user")
  /\ lists' = [lists EXCEPT ![l] =
                 [a |-> IF @.n < Len(@.a) THEN [@.a EXCEPT ![lists[l].n + 1] = p]
                        ELSE Append(@.a, p),
                  n |-> @.n + 1]]
  /\ Heard(1) /\ Stir
  /\ UNCHANGED <<tokens, feed, price, quote, upd, ignored, held, pane>>

\* "lp_v3 list" sorts the very slice of the wallet by blockchain and exchange, and tells
\* nobody. Positions of one exchange come in any order.
SortPositions ==
  /\ lists["v3"].n > 1
  /\ Spend("user")
  /\ \E f \in [1..lists["v3"].n -> 1..lists["v3"].n] :
       /\ IsInjective(f)
       /\ lists' = [lists EXCEPT !["v3"] =
                      [a |-> [k \in DOMAIN @.a |-> IF k \in DOMAIN f THEN @.a[f[k]] ELSE @.a[k]],
                       n |-> @.n]]
  /\ Stir
  /\ UNCHANGED <<priceVars, ignored, held, pane>>

(***************************************************************************)
(* The tables of "token balance" and "address balances".                   *)
(***************************************************************************)
\* Each loop goes over the places in a list.
Kept(l) == 1..lists[l].n
At(l, i) == lists[l].a[i]

StakedIn(I, t) ==
  SumFunctionOnSet([i \in I |-> held[Stake(At("staking", i))]],
                   {i \in I : Staked[At("staking", i)].token = t})

\* x: where a position is in its list, and which of its two rewards or tokens is meant.
Earns(x, t) ==
  LET s == Staked[At("staking", x[1])] IN s.funcs[x[2]] /\ s.rewards[x[2]] = t

RewardsIn(X, t) ==
  SumFunctionOnSet([x \in X |-> held[getPending(At("staking", x[1]), x[2])]],
                   {x \in X : Earns(x, t)})

PooledIn(l, X, t) ==
  SumFunctionOnSet([x \in X |-> AmountOf(l, At(l, x[1]), x[2])],
                   {x \in X : Pools[At(l, x[1])].tokens[x[2]] = t})

TableLiquid(t) == IF t \in ignored THEN 0 ELSE SumOf(LiquidOf({t}))
TableStaked(t) == StakedIn(Kept("staking"), t)
TableRewards(t) == RewardsIn(Kept("staking") \X (1..2), t)
TableV2(t) == PooledIn("v2", Kept("v2") \X (1..2), t)
TableV3(t) == PooledIn("v3", Kept("v3") \X (1..2), t)
TableV4(t) == PooledIn("v4", Kept("v4") \X (1..2), t)

TableSum ==
  [liquid |-> [t \in Tokens |-> IF t \in tokens THEN TableLiquid(t) ELSE 0],
   staked |-> [t \in Tokens |-> IF t \in tokens THEN TableStaked(t) + TableRewards(t) ELSE 0],
   lp |-> [t \in Tokens |-> IF t \in tokens THEN TableV2(t) + TableV3(t) + TableV4(t) ELSE 0]]

showTokenBalanceTable == ByValue({InfoOf(TableSum, t) : t \in Worthy(TableSum)})

\* "address balances": the same of one address, from the positions it owns.
OwnStakes(a) == {i \in Kept("staking") : Staked[At("staking", i)].owner = a}
Own(l, a) == {i \in Kept(l) : Pools[At(l, i)].owner = a}

AddressLiquid(a, t) == IF t \in ignored THEN 0 ELSE held[Liquid(a, t)]
AddressStaked(a, t) == StakedIn(OwnStakes(a), t)
AddressRewards(a, t) == RewardsIn(OwnStakes(a) \X (1..2), t)
AddressV2(a, t) == PooledIn("v2", Own("v2", a) \X (1..2), t)
AddressV3(a, t) == PooledIn("v3", Own("v3", a) \X (1..2), t)
AddressV4(a, t) == PooledIn("v4", Own("v4", a) \X (1..2), t)

showAddressBalances(a) ==
  [liquid |-> [t \in Tokens |-> IF t \in tokens THEN AddressLiquid(a, t) ELSE 0],
   staked |-> [t \in Tokens |-> IF t \in tokens
                                THEN AddressStaked(a, t) + AddressRewards(a, t) ELSE 0],
   lp |-> [t \in Tokens |-> IF t \in tokens
                            THEN AddressV2(a, t) + AddressV3(a, t) + AddressV4(a, t) ELSE 0]]

\* "token balance" of one token: read address by address.
TokenBalance(t) == SumFunctionOnSet([a \in Addresses |-> held[Liquid(a, t)]], Addresses)

-----------------------------------------------------------------------------
PortfolioInit ==
  /\ \E w \in Worlds :
       /\ tokens = w.tokens /\ feed = w.feed /\ held = [x \in Places |-> w.held[x]]
       /\ lists = [l \in Lists |-> [a |-> w.lists[l], n |-> Len(w.lists[l])]]
       /\ price = w.price /\ budget = w.budget
       /\ pane = [on |-> w.on, pending |-> FALSE, recent |-> FALSE, posted |-> FALSE,
                  list |-> <<>>, shown |-> <<>>]
  /\ quote = [f \in Feeds |-> 1]
  /\ upd = Idle /\ news = 1 /\ ignored = {}
  /\ pass = [u \in Passes |-> Rest]

Pricing(A) == A /\ UNCHANGED <<walletVars, pass, pane>>

MarketStep ==
  \/ Spend("updates") /\ Pricing(Update)
  \/ Pricing(DS_Update \/ DSAssign \/ DSDone \/ CMC_Update \/ CMCAssign \/ Updated)
     /\ UNCHANGED budget
  \/ Spend("fails") /\ Pricing(DSFails \/ CMCFails)
  \/ Spend("user") /\ \E t \in Tokens, f \in Feeds : Pricing(SetFeeder(t, f))
  \/ Spend("user") /\ \E t \in Tokens, f \in Feeds \cup {NoFeed} : Pricing(EditFeed(t, f))
  \/ Spend("quotes") /\ \E f \in Feeds, q \in Quotes : Pricing(Quoted(f, q))

PassStep(u) ==
  \/ ReadNative(u) \/ ReadERC20(u) \/ GetBalance(u) \/ GetERC20Balance(u)
  \/ Leave(u) \/ ReadStake(u) \/ ReadReward(u) \/ ReadV2(u) \/ ReadV3(u) \/ ReadV4(u)
  \/ BuildList(u) \/ scheduleUpdate(u) \/ WakeUp(u) \/ SetOn(u)

UserStep ==
  \/ \E t \in Tokens : AddToken(t) \/ DeleteToken(t) \/ Ignore(t) \/ Unignore(t)
  \/ Spend("moves") /\ \E x, y \in Places : Move(x, y)
  \/ \E l \in Lists, i \in 1..2 : RemovePosition(l, i)
  \/ \E l \in Lists : \E p \in OfList(l) : AddPosition(l, p)
  \/ SortPositions
  \/ SetOff \/ Elapse \/ rebuildTemplate

PortfolioNext ==
  MarketStep \/ UserStep \/ \E u \in Passes : u \in budget.passes /\ PassStep(u)

PortfolioSpec == PortfolioInit /\ [][PortfolioNext]_portfolioVars

-----------------------------------------------------------------------------
PortfolioTypeOK ==
  /\ PricesTypeOK
  /\ ignored \subseteq tokens
  /\ held \in [Places -> Nat]
  /\ \A u \in Passes : pass[u].i \in 1..pass[u].n + 1 /\ pass[u].k \in 1..2
  /\ Range(pane.list) \cup Range(pane.shown) \subseteq Info

\* What the wallet knows of: its tokens, in the places it keeps, and nothing of what a v3
\* position is owed.
Counts(x) ==
  /\ TokenAt(x) \in tokens
  /\ CASE x[1] = "liquid" -> TokenAt(x) \notin ignored
       [] x[1] = "stake" -> x[2] \in Present("staking")
       [] x[1] = "reward" -> x[2] \in Present("staking") /\ Staked[x[2]].funcs[x[3]]
       [] x[1] = "liquidity" -> x[2] \in Present(Pools[x[2]].version)
       [] x[1] = "gain" -> /\ Pools[x[2]].version # "v2"
                           /\ x[2] \in Present(Pools[x[2]].version)
       [] x[1] = "owed" -> FALSE

Columned == [liquid |-> {"liquid"}, staked |-> {"stake", "reward"}, lp |-> {"liquidity", "gain"}]

Worth(c, t) == SumOf({x \in Places : x[1] \in Columned[c] /\ TokenAt(x) = t /\ Counts(x)})

\* Two rewards of one token are told apart by it: the first is read twice.
ReadTwice(t) ==
  \E p \in Present("staking") : /\ Staked[p].funcs[2]
                                /\ Staked[p].rewards[1] = t /\ Staked[p].rewards[2] = t

\* The positions of an address stay when the user removes it from the wallet.
AllOwned ==
  /\ \A p \in Present("staking") : Staked[p].owner \in Addresses
  /\ \A l \in Lists \ {"staking"} : \A p \in Present(l) : Pools[p].owner \in Addresses

\* However passes overlap, and by whatever way a balance is read, a pass during
\* which nothing moved, the tokens stayed, and no list of positions was changed
\* or so much as sorted, lists of each token what the wallet's places hold, each
\* counted once, the most valuable token first: what "token balance" prints, in
\* its table and for one token, and what "address balances" prints adds up to.
\* A read that fails only makes it less.
ListIsTrue ==
  [][\A u \in Passes : BuildList(u) /\ pass[u].still =>
       /\ \A i \in DOMAIN pane'.list :
            LET x == pane'.list[i]
            IN  /\ ~ReadTwice(x.token) =>
                     \A c \in Columns : /\ x[c] <= Worth(c, x.token)
                                        /\ pass[u].whole => x[c] = Worth(c, x.token)
                /\ \A j \in 1..i : pane'.list[j].usd >= x.usd
       /\ pass[u].whole => Range(pane'.list) = Range(showTokenBalanceTable)
       /\ \A t \in tokens \ ignored : TokenBalance(t) = TableSum.liquid[t]
       /\ AllOwned =>
            \A c \in Columns, t \in Tokens :
              SumFunctionOnSet([a \in Addresses |-> showAddressBalances(a)[c][t]], Addresses)
                = TableSum[c][t]]_portfolioVars
=============================================================================
