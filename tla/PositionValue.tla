--------------------------- MODULE PositionValue ---------------------------
(***************************************************************************)
(* What a position is worth and what it has earned, as lp_v2, lp_v3 and    *)
(* lp_v4 work it out from a few numbers read from a pool: pure functions.  *)
(*                                                                         *)
(* A pool counts the fees of one unit of liquidity since it was made, in   *)
(* all (growth), and for each end of a range what was earned on the other  *)
(* side of it (lower, upper: crossing an end turns it over), all modulo a  *)
(* word. A position keeps what the growth inside its range was when it was *)
(* last touched (last). A V3 pool pays nothing out when it is touched:     *)
(* what was earned and taken out is owed until it is collected (owed). The *)
(* numbers are read in one call that answers for one block, when the       *)
(* blockchain has a multicall contract, or one after the other, while the  *)
(* pool goes on.                                                           *)
(***************************************************************************)
EXTENDS Integers, Sequences

CONSTANTS
  Word,      \* 2^256: growth is counted modulo this
  Unit,      \* 2^128: one whole of the growth
  Scale,     \* 2^96: one whole of the square root of a price
  TickWord,  \* 2^24: a tick is a signed number of 24 bits
  FlagWord,  \* 2^8: a flag in front of the ticks
  Growths, Gains, Liquidities, Prices  \* values to try

ASSUME Words ==
  /\ {Word, Unit, Scale, TickWord, FlagWord} \subseteq Nat \ {0, 1}
  /\ TickWord % 2 = 0
  /\ Growths \subseteq 0..Word - 1
  /\ Gains \cup Liquidities \cup Prices \subseteq Nat

(***************************************************************************)
(* Fees. A tick is the side of the range: 0 below, 1 inside, 2 above.      *)
(***************************************************************************)
\* Variant: below zero.
subIn256Signed(x, y) == x - y

subIn256(x, y) == IF x - y < 0 THEN Word + (x - y) ELSE x - y

getFeeGrowthInside(tick, growth, lower, upper) ==
  LET above == IF tick >= 2 THEN subIn256(growth, upper) ELSE upper
      below == IF tick >= 1 THEN lower ELSE subIn256(growth, lower)
  IN subIn256(subIn256(growth, below), above)

getFeeGrowthInsideV4(currentTick, growth, lower, upper) ==
  LET above == IF currentTick >= 2 THEN subIn256(growth, upper) ELSE upper
      below == IF currentTick >= 1 THEN lower ELSE subIn256(growth, lower)
  IN subIn256(subIn256(growth, below), above)

\* r: the numbers as they were read.
calculateFees(r) ==
  ((getFeeGrowthInside(r.tick, r.growth, r.lower, r.upper) - r.last) * r.liquidity) \div Unit

calculateV4Fees(r) ==
  (subIn256(getFeeGrowthInsideV4(r.tick, r.growth, r.lower, r.upper), r.last) * r.liquidity)
    \div Unit

(***************************************************************************)
(* Reading. at says in which block each number is read, among the blocks.  *)
(* lp_v4 asks for the liquidity in a call of its own, before the others.   *)
(***************************************************************************)
get_nft_position(b)       == [last |-> b.last, liquidity |-> b.liquidity, owed |-> b.owed]
get_slot0(b)              == b.tick
get_fee_growth(b)         == b.growth
get_tick(b, end)          == b[end]

ReadV3(blocks, at) ==
  [tick |-> get_slot0(blocks[at.slot0]), growth |-> get_fee_growth(blocks[at.growth]),
   lower |-> get_tick(blocks[at.lower], "lower"), upper |-> get_tick(blocks[at.upper], "upper"),
   last |-> get_nft_position(blocks[at.last]).last,
   owed |-> get_nft_position(blocks[at.last]).owed,
   liquidity |-> get_nft_position(blocks[at.liquidity]).liquidity]

getNftPosition(b)         == [liquidity |-> b.liquidity]
getSlot0(b)               == b.tick
getFeeGrowthGlobals(b)    == b.growth
getTickInfo(b, end)       == b[end]
getPositionFeeGrowth(b)   == b.last

ReadV4(blocks, at) ==
  [tick |-> getSlot0(blocks[at.slot0]), growth |-> getFeeGrowthGlobals(blocks[at.growth]),
   lower |-> getTickInfo(blocks[at.lower], "lower"),
   upper |-> getTickInfo(blocks[at.upper], "upper"),
   last |-> getPositionFeeGrowth(blocks[at.last]),
   liquidity |-> getNftPosition(blocks[at.liquidity]).liquidity]

Orders(n) == [liquidity : 1..n, slot0 : 1..n, growth : 1..n, lower : 1..n, upper : 1..n,
              last : 1..n]

mc_getV3PositionInfo(n) ==
  {[liquidity |-> k, slot0 |-> k, growth |-> k, lower |-> k, upper |-> k, last |-> k] :
     k \in 1..n}

getV3PositionInfo(n) ==
  {at \in Orders(n) : /\ at.liquidity = at.last
                      /\ at.last <= at.slot0 /\ at.slot0 <= at.growth
                      /\ at.growth <= at.lower /\ at.lower <= at.upper}

getPositionStatusViaMulticall(n) ==
  {[liquidity |-> j, slot0 |-> k, growth |-> k, lower |-> k, upper |-> k, last |-> k] :
     <<j, k>> \in {p \in (1..n) \X (1..n) : p[1] <= p[2]}}

calculateV4FeesReads(n) ==
  {at \in Orders(n) : /\ at.liquidity <= at.slot0 /\ at.slot0 <= at.growth
                      /\ at.growth <= at.lower /\ at.lower <= at.upper
                      /\ at.upper <= at.last}

(***************************************************************************)
(* Amounts: what the liquidity amounts to at a price. lp_v2 takes the      *)
(* share of the reserves; what could not be read counts as nothing.        *)
(***************************************************************************)
calculateAmounts(liquidity, price, lower, upper) ==
  IF price <= lower
  THEN [amount0 |-> ((upper - lower) * liquidity * Scale) \div (lower * upper),
        amount1 |-> 0, in_range |-> FALSE]
  ELSE IF price >= upper
  THEN [amount0 |-> 0, amount1 |-> ((upper - lower) * liquidity) \div Scale,
        in_range |-> FALSE]
  ELSE [amount0 |-> ((upper - price) * liquidity * Scale) \div (price * upper),
        amount1 |-> ((price - lower) * liquidity) \div Scale,
        in_range |-> TRUE]

LiquidityV4(liquidity, price, lower, upper) ==
  IF liquidity > 0 /\ price > 0 THEN calculateAmounts(liquidity, price, lower, upper)
  ELSE [amount0 |-> 0, amount1 |-> 0, in_range |-> FALSE]

\* unread: the numbers of a pair that the node did not give.
getBalanceOf(pair, unread)   == IF "balance" \in unread THEN 0 ELSE pair.balance
getTotalSupply(pair, unread) == IF "supply" \in unread THEN 0 ELSE pair.supply
get_reserves(pair, unread)   == IF "reserve" \in unread THEN 0 ELSE pair.reserve

LiquidityV2(pair, unread) ==
  LET balance == getBalanceOf(pair, unread)
      supply  == getTotalSupply(pair, unread)
  IN IF supply > 0 /\ balance > 0 THEN (get_reserves(pair, unread) * balance) \div supply ELSE 0

(***************************************************************************)
(* The word in which the V4 position manager packs a position, from the    *)
(* low end: a flag of 8 bits, the two ticks, the pool; and the ticks as    *)
(* they go into the key of a V3 position.                                  *)
(***************************************************************************)
signExtend24(val) == IF val >= TickWord \div 2 THEN val - TickWord ELSE val

UnpackPosition(word) ==
  LET ticks == word \div FlagWord
  IN [lower |-> signExtend24(ticks % TickWord),
      upper |-> signExtend24((ticks \div TickWord) % TickWord),
      pool  |-> ticks \div (TickWord * TickWord)]

Int24 == -(TickWord \div 2) .. (TickWord \div 2 - 1)

int24ToBytes(value) == IF value \notin Int24 THEN -1 ELSE value % TickWord

(***************************************************************************)
(* The pool itself, a contract: trades move the price and leave fees to    *)
(* the liquidity in range. Touching a position sets its liquidity: a V4    *)
(* pool pays out what it earned at once; a V3 pool owes that and the       *)
(* liquidity taken out, a token for each unit, until all is collected.     *)
(* earned counts the same as the growth, without a word to wrap.           *)
(***************************************************************************)
Inside(b) ==
  (b.growth - (IF b.tick >= 1 THEN b.lower ELSE b.growth - b.lower)
            - (IF b.tick >= 2 THEN b.growth - b.upper ELSE b.upper)) % Word

Pools ==
  {[b EXCEPT !.last = Inside(b)] :
     b \in [tick : 0..2, growth : Growths, lower : Growths, upper : Growths,
            last : {0}, liquidity : Liquidities, earned : {0}, owed : {0},
            touches : {0}]}

Trades  == [kind : {"trade"}, fees : Gains, to : 0..2]
Touches == [kind : {"touch"}, liquidity : Liquidities \cup {0}, collect : BOOLEAN]

Turned(x, growth, crossed) == IF crossed THEN (growth - x) % Word ELSE x

Trade(b, m) ==
  LET g == (b.growth + m.fees) % Word
  IN [b EXCEPT !.tick = m.to, !.growth = g,
               !.lower = Turned(@, g, (b.tick >= 1) # (m.to >= 1)),
               !.upper = Turned(@, g, (b.tick >= 2) # (m.to >= 2)),
               !.earned = IF b.tick = 1 THEN @ + m.fees ELSE @]

Fees(b) == (b.earned * b.liquidity) \div Unit

TakenOut(b, m) == IF m.liquidity < b.liquidity THEN b.liquidity - m.liquidity ELSE 0

Touch(b, m) ==
  [b EXCEPT !.last = Inside(b), !.earned = 0, !.liquidity = m.liquidity, !.touches = @ + 1,
            !.owed = IF m.collect THEN 0 ELSE @ + Fees(b) + TakenOut(b, m)]

After(b, m) == IF m.kind = "trade" THEN Trade(b, m) ELSE Touch(b, m)

Histories ==
  UNION {{<<b, After(b, m), After(After(b, m), n)>> : m, n \in Trades \cup Touches} :
           b \in Pools}

Payable(b) == Fees(b) + b.owed

(***************************************************************************)
(* Properties.                                                             *)
(***************************************************************************)
\* The price stays on its side and nobody touches the position while it is read.
Still(h, at) ==
  LET read == {at[f] : f \in DOMAIN at}
      span == {k \in DOMAIN h : \E i, j \in read : i <= k /\ k <= j}
  IN \A j, k \in span : h[j].tick = h[k].tick /\ h[j].touches = h[k].touches

(* The fees shown are those the pool would pay out in the block its growth *)
(* was read in, whatever wrapped around since the pool was made: always    *)
(* when all is read in one call, and one by one as long as the price stays *)
(* on its side of the range. lp_v3 falls short of them by the tokens owed, *)
(* which it reads and leaves out, and is right only as long as the growth  *)
(* inside has not wrapped since the position was touched.                  *)
FeesAreRight ==
  \A h \in Histories :
    /\ \A at \in getPositionStatusViaMulticall(Len(h)) \cup calculateV4FeesReads(Len(h)) :
         Still(h, at) => calculateV4Fees(ReadV4(h, at)) = Fees(h[at.growth])
    /\ \A at \in mc_getV3PositionInfo(Len(h)) \cup getV3PositionInfo(Len(h)) :
         LET r == ReadV3(h, at)
         IN Still(h, at) /\ (r.last <= getFeeGrowthInside(r.tick, r.growth, r.lower, r.upper))
              => calculateFees(r) = Payable(h[at.growth]) - r.owed

(* As the price rises the position turns from the first token into the     *)
(* second and never back, it holds only one of them outside its range, and *)
(* two owners of a pair are never shown more than the pair has, whatever   *)
(* could not be read.                                                      *)
AmountsFollowPrice ==
  /\ \A l \in Liquidities, lower, upper, p, q \in Prices :
       lower < upper /\ p <= q =>
         LET a == LiquidityV4(l, p, lower, upper)
             b == LiquidityV4(l, q, lower, upper)
         IN /\ a.amount0 >= b.amount0 /\ a.amount1 <= b.amount1
            /\ a.in_range = (lower < p /\ p < upper)
            /\ p <= lower => a.amount1 = 0
            /\ p >= upper => a.amount0 = 0
  /\ \A reserve \in Prices, mine, yours \in 0..2,
        unread \in SUBSET {"balance", "supply", "reserve"} :
       LET pair(balance) ==
             [reserve |-> reserve, supply |-> mine + yours, balance |-> balance]
       IN LiquidityV2(pair(mine), unread) + LiquidityV2(pair(yours), unread) <= reserve

(* The ticks and the pool of a position survive their packing, negative    *)
(* ticks and the ends of 24 bits included, and no two ticks share a key.   *)
TicksSurvive ==
  /\ \A lower, upper \in Int24, pool \in 0..2, flag \in 0..FlagWord - 1 :
       LET ticks == (pool * TickWord + (upper % TickWord)) * TickWord + (lower % TickWord)
       IN UnpackPosition(ticks * FlagWord + flag)
            = [lower |-> lower, upper |-> upper, pool |-> pool]
  /\ \A s, t \in Int24 : int24ToBytes(s) = int24ToBytes(t) => s = t

(* What the wallet says a position is worth is what the contracts say.     *)
ValuesAreRight == FeesAreRight /\ AmountsFollowPrice /\ TicksSurvive
=============================================================================
