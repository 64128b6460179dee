----------------------------- MODULE NetworkProofs -----------------------------
(***************************************************************************)
(* Two servers at the network's side, each for itself.  The rate limiter   *)
(* settles on the wallet and keeps its back-off, for all rates,            *)
(* percentages and times, however many goroutines save a rate.  The        *)
(* websocket server lists each connection once and leaves each subscriber  *)
(* with what the wallet says, for any connections and changes.             *)
(***************************************************************************)
EXTENDS RateLimiter, WebApps, SequenceLemmas

-----------------------------------------------------------------------------
(* The rate limiter.                                                       *)

\* A limiter that differs from the wallet, and was told of the last change, has a goroutine
\* or a message under way that makes up for it: a "saved" for its mode, and for its rate a
\* goroutine of that rate too.
Follows ==
  limiter # NoLimiter /\ saved = 0 /\ ~unannounced =>
    /\ limiter.auto = Settings(chain).auto
    /\ ~limiter.auto => limiter.rate = Settings(chain).rate
    /\ limiter.rate \in {Settings(chain).rate} \cup DOMAIN saves \cup DOMAIN writes

IInv == TypeOK /\ Follows /\ owed = backoff

-----------------------------------------------------------------------------
\* What the wallet has for a chain makes a limiter.
LEMMA SettingsType ==
  ASSUME NEW c \in Chain
  PROVE  Settings(c) \in Limiter
BY RatesAssumption DEF Settings, Chain, Limiter, Rate

\* A rate that goes up or down by its percentage stays between the least and the greatest.
LEMMA TunedType ==
  ASSUME NEW rate \in Rate
  PROVE  Increased(rate) \in Rate /\ Decreased(rate) \in Rate
<1>1. /\ maxRateLimit \in Nat \ {0} /\ minRateLimit \in Nat \ {0}
      /\ increasePercent \in Nat /\ decreasePercent \in Nat
  BY RatesAssumption
<1>2. ASSUME NEW p \in Nat PROVE (rate * p) \div 100 \in Nat
  <2>1. rate * p \in Nat
    BY DEF Rate
  <2>2. QED
    BY <2>1
<1>3. (rate * increasePercent) \div 100 \in Nat /\ (rate * decreasePercent) \div 100 \in Nat
  BY <1>1, <1>2
<1>4. QED
  BY <1>1, <1>3 DEF Increased, Decreased, Least, Greatest, Rate

\* Goroutines of one kind, as TypeOK has them.
Bag(bag) == DOMAIN bag \subseteq Rate /\ \A r \in DOMAIN bag : bag[r] \in 1..MaxSaves

\* One more goroutine of a kind.
LEMMA StartLemma ==
  ASSUME NEW bag, Bag(bag), NEW r \in Rate, Room(bag, r)
  PROVE  Bag(Start(bag, r)) /\ DOMAIN Start(bag, r) = DOMAIN bag \cup {r}
<1>1. DOMAIN Start(bag, r) = DOMAIN bag \cup {r}
  BY DEF Start
<1>2. ASSUME NEW s \in DOMAIN bag \cup {r} PROVE Start(bag, r)[s] \in 1..MaxSaves
  <2>1. Start(bag, r)[s] = Pending(bag, s) + IF s = r THEN 1 ELSE 0
    BY DEF Start
  <2>2. CASE s = r
    BY <2>1, <2>2, SavesAssumption DEF Pending, Room, Bag
  <2>3. CASE s # r
    BY <2>1, <2>3, SavesAssumption DEF Pending, Bag
  <2>4. QED
    BY <2>2, <2>3
<1>3. QED
  BY <1>1, <1>2 DEF Bag

\* One goroutine less of a kind.
LEMMA EndLemma ==
  ASSUME NEW bag, Bag(bag), NEW r \in DOMAIN bag
  PROVE  Bag(End(bag, r)) /\ DOMAIN bag \subseteq DOMAIN End(bag, r) \cup {r}
<1>1. DOMAIN End(bag, r) = {t \in DOMAIN bag : t # r \/ bag[t] > 1}
  BY DEF End
<1>2. ASSUME NEW s \in DOMAIN End(bag, r) PROVE End(bag, r)[s] \in 1..MaxSaves
  <2>1. End(bag, r)[s] = IF s = r THEN bag[s] - 1 ELSE bag[s]
    BY <1>1 DEF End
  <2>2. bag[s] \in 1..MaxSaves /\ (s = r => bag[s] > 1)
    BY <1>1 DEF Bag
  <2>3. QED
    BY <2>1, <2>2, SavesAssumption
<1>3. QED
  BY <1>1, <1>2 DEF Bag

-----------------------------------------------------------------------------
\* There is no limiter at the start, and nothing to save.
LEMMA InitLemma == Init => IInv
<1> SUFFICES ASSUME Init PROVE IInv
  OBVIOUS
<1>1. chain \in Chain
  BY UserAssumption DEF Init, Chain
<1>2. DOMAIN NoGoroutine = {}
  BY DEF NoGoroutine
<1>3. TypeOK
  <2>1. strays \in BOOLEAN /\ unannounced \in BOOLEAN
    BY Zenon DEF Init
  <2>2. QED
    BY <1>1, <1>2, <2>1, TimesAssumption, SavesAssumption DEF Init, TypeOK
<1>4. QED
  BY <1>3 DEF Init, IInv, Follows

\* A save leaves a message under way, or a change nobody is told of.
LEMMA SaveEnds ==
  ASSUME saved \in 0..MaxSaves, MaxSaves \in Nat, unannounced \in BOOLEAN,
         Announced \/ Unsaved
  PROVE  /\ saved' \in 0..MaxSaves /\ unannounced' \in BOOLEAN
         /\ saved' # 0 \/ unannounced'
<1>1. CASE Announced
  <2>1. saved' \in 0..MaxSaves /\ saved' # 0
    BY <1>1 DEF Announced
  <2>2. unannounced' \in BOOLEAN
    BY <1>1, Zenon DEF Announced
  <2>3. QED
    BY <2>1, <2>2
<1>2. CASE Unsaved
  <2>1. unannounced' = TRUE /\ saved' = saved
    BY <1>2 DEF Unsaved
  <2>2. unannounced' \in BOOLEAN /\ unannounced'
    BY <2>1, Zenon
  <2>3. QED
    BY <2>1, <2>2
<1>3. QED
  BY <1>1, <1>2

\* One step for each operation; the bags of goroutines are left to their lemmas.
LEMMA StepLemma == IInv /\ [Next]_vars => IInv'
<1> SUFFICES ASSUME IInv, [Next]_vars PROVE IInv'
  OBVIOUS
<1>0. /\ limiter \in Limiter \cup {NoLimiter}
      /\ sinceCall \in 0..Second /\ sinceSuccess \in 0..(increaseInterval + 1)
      /\ backoff \in 0..backoffTime /\ calls \in 0..MaxCalls
      /\ Bag(saves) /\ Bag(writes)
      /\ chain \in Chain /\ saved \in 0..MaxSaves
      /\ strays \in BOOLEAN /\ unannounced \in BOOLEAN /\ owed \in 0..backoffTime
      /\ increaseInterval \in Nat /\ backoffTime \in Nat /\ Second \in Nat
      /\ MaxCalls \in Nat /\ MaxSaves \in Nat
      /\ Follows /\ owed = backoff
  BY TimesAssumption, SavesAssumption DEF IInv, TypeOK, Bag
<1>1. CASE UNCHANGED vars
  BY <1>1 DEF vars, clocks, store, IInv, TypeOK, Follows
<1>2. CASE GetRateLimiter
  <2>1. Settings(chain) \in Limiter
    BY <1>0, SettingsType
  <2>2. limiter' \in Limiter /\ limiter' = Settings(chain)
    BY <1>2, <2>1 DEF GetRateLimiter
  <2>3. strays' \in BOOLEAN /\ unannounced' \in BOOLEAN
    BY <1>0, <1>2, Zenon DEF GetRateLimiter
  <2>4. TypeOK'
    BY <1>0, <1>2, <2>2, <2>3 DEF GetRateLimiter, TypeOK, Bag
  <2>5. QED
    BY <1>0, <1>2, <2>2, <2>4 DEF GetRateLimiter, IInv, Follows
<1>3. CASE WaitForToken
  <2> DEFINE rate == IF Due THEN Increased(limiter.rate) ELSE limiter.rate
  <2>1. limiter \in Limiter
    BY <1>0, <1>3 DEF WaitForToken
  <2>2. rate \in Rate
    BY <2>1, TunedType DEF Limiter
  <2> HIDE DEF rate
  <2>3. /\ rate > limiter.rate => Room(saves, rate) /\ limiter.auto
        /\ limiter' = [limiter EXCEPT !.rate = rate]
        /\ saves' = IF rate > limiter.rate THEN Start(saves, rate) ELSE saves
        /\ ~(rate > limiter.rate) => rate = limiter.rate
    <3>1. ~(rate > limiter.rate) => rate = limiter.rate
      BY <2>1, RatesAssumption
         DEF rate, Due, Increased, Least, Limiter, Rate
    <3>2. QED
      BY <1>3, <2>1, <3>1 DEF WaitForToken, rate, Due, Limiter, Rate
  <2>4. limiter' \in Limiter
    BY <2>1, <2>2, <2>3 DEF Limiter
  <2>5. /\ Bag(saves')
        /\ DOMAIN saves \subseteq DOMAIN saves'
        /\ rate > limiter.rate => rate \in DOMAIN saves'
    <3>1. CASE rate > limiter.rate
      <4>1. Bag(saves) /\ Room(saves, rate) /\ saves' = Start(saves, rate)
        BY <1>0, <2>3, <3>1
      <4>2. Bag(saves') /\ DOMAIN saves' = DOMAIN saves \cup {rate}
        BY <2>2, <4>1, StartLemma
      <4>3. QED
        BY <4>2
    <3>2. CASE ~(rate > limiter.rate)
      BY <1>0, <2>3, <3>2
    <3>3. QED
      BY <3>1, <3>2
  <2>6. TypeOK'
    BY <1>0, <1>3, <2>4, <2>5 DEF WaitForToken, TypeOK, Bag
  <2>7. Follows'
    <3> SUFFICES ASSUME saved' = 0, ~unannounced'
                 PROVE  /\ limiter'.auto = Settings(chain').auto
                        /\ ~limiter'.auto => limiter'.rate = Settings(chain').rate
                        /\ limiter'.rate \in {Settings(chain').rate} \cup DOMAIN saves'
                                               \cup DOMAIN writes'
      BY DEF Follows
    <3>1. chain' = chain /\ writes' = writes /\ saved = 0 /\ ~unannounced /\ limiter # NoLimiter
      BY <1>3 DEF WaitForToken
    <3>2. /\ limiter.auto = Settings(chain).auto
          /\ ~limiter.auto => limiter.rate = Settings(chain).rate
          /\ limiter.rate \in {Settings(chain).rate} \cup DOMAIN saves \cup DOMAIN writes
      BY <1>0, <3>1 DEF Follows
    <3>3. limiter'.auto = limiter.auto /\ limiter'.rate = rate
      BY <2>1, <2>3 DEF Limiter
    <3>4. QED
      BY <2>3, <2>5, <3>1, <3>2, <3>3
  <2>8. owed' = backoff'
    BY <1>0, <1>3 DEF WaitForToken
  <2>9. QED
    BY <2>6, <2>7, <2>8 DEF IInv
<1>4. CASE OnSuccess
  <2>1. TypeOK'
    BY <1>0, <1>4 DEF OnSuccess, store, TypeOK, Bag
  <2>2. QED
    BY <1>0, <1>4, <2>1 DEF OnSuccess, store, IInv, Follows
<1>5. CASE OnRateLimitError
  <2> DEFINE rate == IF limiter.auto THEN Decreased(limiter.rate) ELSE limiter.rate
  <2> DEFINE less == rate < limiter.rate
  <2>1. CASE limiter = NoLimiter
    <3>1. ~less
      BY <2>1 DEF NoLimiter
    <3>2. limiter' = NoLimiter /\ saves' = saves
      BY <1>5, <2>1, <3>1 DEF OnRateLimitError, NoLimiter
    <3>3. TypeOK'
      BY <1>0, <1>5, <3>2 DEF OnRateLimitError, TypeOK, Bag
    <3>4. QED
      BY <1>0, <1>5, <3>2, <3>3 DEF OnRateLimitError, IInv, Follows
  <2>2. CASE limiter \in Limiter
    <3>1. rate \in Rate
      BY <2>2, TunedType DEF Limiter
    <3>2. /\ less => Room(saves, rate) /\ limiter.auto
          /\ limiter' = [limiter EXCEPT !.rate = IF less THEN rate ELSE @]
          /\ saves' = IF less THEN Start(saves, rate) ELSE saves
      BY <1>5, <2>2 DEF OnRateLimitError, Limiter, Rate
    <3> HIDE DEF rate, less
    <3>3. /\ Bag(saves')
          /\ DOMAIN saves \subseteq DOMAIN saves'
          /\ less => rate \in DOMAIN saves'
      <4>1. CASE less
        <5>1. Bag(saves) /\ Room(saves, rate) /\ saves' = Start(saves, rate)
          BY <1>0, <3>2, <4>1
        <5>2. Bag(saves') /\ DOMAIN saves' = DOMAIN saves \cup {rate}
          BY <3>1, <5>1, StartLemma
        <5>3. QED
          BY <5>2
      <4>2. CASE ~less
        BY <1>0, <3>2, <4>2
      <4>3. QED
        BY <4>1, <4>2
    <3>4. limiter' \in Limiter
      BY <2>2, <3>1, <3>2 DEF Limiter
    <3>5. TypeOK'
      BY <1>0, <1>5, <3>3, <3>4 DEF OnRateLimitError, TypeOK, Bag
    <3>6. Follows'
      <4> SUFFICES ASSUME saved' = 0, ~unannounced'
                   PROVE  /\ limiter'.auto = Settings(chain').auto
                          /\ ~limiter'.auto => limiter'.rate = Settings(chain').rate
                          /\ limiter'.rate \in {Settings(chain').rate} \cup DOMAIN saves'
                                                 \cup DOMAIN writes'
        BY DEF Follows
      <4>1. chain' = chain /\ writes' = writes /\ saved = 0 /\ ~unannounced /\ limiter # NoLimiter
        BY <1>5, <2>2 DEF OnRateLimitError, NoLimiter, Limiter, Rate
      <4>2. /\ limiter.auto = Settings(chain).auto
            /\ ~limiter.auto => limiter.rate = Settings(chain).rate
            /\ limiter.rate \in {Settings(chain).rate} \cup DOMAIN saves \cup DOMAIN writes
        BY <1>0, <4>1 DEF Follows
      <4>3. /\ limiter'.auto = limiter.auto
            /\ limiter'.rate = IF less THEN rate ELSE limiter.rate
        BY <2>2, <3>2 DEF Limiter
      <4>4. QED
        BY <3>2, <3>3, <4>1, <4>2, <4>3
    <3>7. owed' = backoff'
      BY <1>5 DEF OnRateLimitError
    <3>8. QED
      BY <3>5, <3>6, <3>7 DEF IInv
  <2>3. QED
    BY <1>0, <2>1, <2>2
<1>6. CASE OnOtherError
  <2>1. TypeOK'
    BY <1>0, <1>6 DEF OnOtherError, clocks, store, TypeOK, Bag
  <2>2. QED
    BY <1>0, <1>6, <2>1 DEF OnOtherError, clocks, store, IInv, Follows
<1>7. ASSUME NEW r \in DOMAIN saves \cup DOMAIN writes, PersistCheck(r) PROVE IInv'
  <2>1. r \in DOMAIN saves /\ r \in Rate /\ Room(writes, r)
    BY <1>0, <1>7 DEF PersistCheck, Bag
  <2> DEFINE go == Settings(chain).auto /\ chain.rate # r
  <2> HIDE DEF go
  <2>2. saves' = End(saves, r) /\ writes' = IF go THEN Start(writes, r) ELSE writes
    BY <1>7 DEF PersistCheck, go
  <2>3. Bag(saves') /\ DOMAIN saves \subseteq DOMAIN saves' \cup {r}
    BY <1>0, <2>1, <2>2, EndLemma
  <2>4. /\ Bag(writes') /\ DOMAIN writes \subseteq DOMAIN writes'
        /\ go => r \in DOMAIN writes'
    <3>1. CASE go
      BY <1>0, <2>1, <2>2, <3>1, StartLemma
    <3>2. CASE ~go
      BY <1>0, <2>2, <3>2
    <3>3. QED
      BY <3>1, <3>2
  <2>5. UNCHANGED <<limiter, clocks, calls, strays, chain, saved, unannounced, owed>>
    BY <1>7 DEF PersistCheck
  <2>6. TypeOK'
    BY <1>0, <2>3, <2>4, <2>5 DEF TypeOK, Bag, clocks
  <2>7. Follows'
    <3> SUFFICES ASSUME limiter # NoLimiter, saved = 0, ~unannounced
                 PROVE  /\ limiter.auto = Settings(chain).auto
                        /\ ~limiter.auto => limiter.rate = Settings(chain).rate
                        /\ limiter.rate \in {Settings(chain).rate} \cup DOMAIN saves'
                                               \cup DOMAIN writes'
      BY <2>5 DEF Follows
    <3>1. /\ limiter.auto = Settings(chain).auto
          /\ ~limiter.auto => limiter.rate = Settings(chain).rate
          /\ limiter.rate \in {Settings(chain).rate} \cup DOMAIN saves \cup DOMAIN writes
      BY <1>0 DEF Follows
    <3>2. ~go /\ limiter.rate = r => limiter.rate = Settings(chain).rate
      <4>1. CASE ~Settings(chain).auto
        BY <3>1, <4>1
      <4>2. CASE chain.rate = r
        BY <2>1, <4>2 DEF Settings, Rate
      <4>3. QED
        BY <4>1, <4>2 DEF go
    <3>3. QED
      BY <2>3, <2>4, <3>1, <3>2
  <2>8. QED
    BY <1>0, <2>5, <2>6, <2>7 DEF IInv, clocks
<1>8. ASSUME NEW r \in DOMAIN saves \cup DOMAIN writes, PersistWrite(r) PROVE IInv'
  <2>1. r \in DOMAIN writes /\ r \in Rate
    BY <1>0, <1>8 DEF PersistWrite, Bag
  <2>2. Bag(writes') /\ chain' \in Chain
    BY <1>0, <1>8, <2>1, EndLemma DEF PersistWrite, Chain, Rate
  <2>3. /\ saved' \in 0..MaxSaves /\ unannounced' \in BOOLEAN
        /\ saved' # 0 \/ unannounced'
    BY <1>0, <1>8, SaveEnds DEF PersistWrite
  <2>4. TypeOK'
    BY <1>0, <1>8, <2>2, <2>3 DEF PersistWrite, clocks, TypeOK, Bag
  <2>5. QED
    BY <1>0, <1>8, <2>3, <2>4 DEF PersistWrite, clocks, IInv, Follows
<1>9. CASE UpdateRateLimiterSettings
  <2>1. Settings(chain) \in Limiter
    BY <1>0, SettingsType
  <2>2. limiter' \in {NoLimiter, Settings(chain)} /\ chain' = chain
    BY <1>9 DEF UpdateRateLimiterSettings
  <2>3. unannounced' \in BOOLEAN
    BY <1>9, Zenon DEF UpdateRateLimiterSettings
  <2>4. TypeOK'
    BY <1>0, <1>9, <2>1, <2>3 DEF UpdateRateLimiterSettings, clocks, TypeOK, Bag
  <2>5. QED
    BY <1>0, <1>9, <2>2, <2>4 DEF UpdateRateLimiterSettings, clocks, IInv, Follows
<1>10. ASSUME NEW rate \in UserRates, NEW auto \in BOOLEAN, EditBlockchain(rate, auto)
       PROVE  IInv'
  <2>1. chain' \in Chain
    BY <1>10, UserAssumption DEF EditBlockchain, Chain
  <2>2. /\ saved' \in 0..MaxSaves /\ unannounced' \in BOOLEAN
        /\ saved' # 0 \/ unannounced'
    BY <1>0, <1>10, SaveEnds DEF EditBlockchain
  <2>3. TypeOK'
    BY <1>0, <1>10, <2>1, <2>2 DEF EditBlockchain, clocks, TypeOK, Bag
  <2>4. QED
    BY <1>0, <1>10, <2>2, <2>3 DEF EditBlockchain, clocks, IInv, Follows
<1>11. CASE SaveWallet
  <2>1. saved' \in 0..MaxSaves /\ saved' # 0
    BY <1>0, <1>11 DEF SaveWallet, Announced
  <2>2. TypeOK'
    BY <1>0, <1>11, <2>1 DEF SaveWallet, Announced, clocks, TypeOK, Bag
  <2>3. QED
    BY <1>0, <1>11, <2>1, <2>2 DEF SaveWallet, clocks, IInv, Follows
<1>12. CASE Tick
  <2>1. TypeOK'
    BY <1>0, <1>12 DEF Tick, Least, Greatest, store, TypeOK, Bag
  <2>2. QED
    BY <1>0, <1>12, <2>1 DEF Tick, Least, Greatest, store, IInv, Follows
<1>13. CASE PersistStray
  <2>1. /\ saved' \in 0..MaxSaves
        /\ saved' = 0 => saved = 0
        /\ unannounced' = unannounced
    BY <1>0, <1>13 DEF PersistStray, Announced
  <2>2. TypeOK'
    <3>1. strays' \in BOOLEAN
      BY <1>13, Zenon DEF PersistStray
    <3>2. unannounced \in BOOLEAN
      BY <1>0
    <3>3. unannounced' \in BOOLEAN
      <4>1. unannounced' = unannounced
        BY <2>1
      <4>2. QED
        BY <3>2, <4>1, Zenon
    <3>4. UNCHANGED <<limiter, clocks, calls, saves, writes, chain, owed>>
      BY <1>13, Zenon DEF PersistStray
    <3>5. saved' \in 0..MaxSaves
      BY <2>1
    <3>6. QED
      BY <1>0, <3>1, <3>3, <3>4, <3>5 DEF clocks, TypeOK, Bag
  <2>3. QED
    BY <1>0, <1>13, <2>1, <2>2 DEF PersistStray, clocks, IInv, Follows
<1>14. ASSUME NEW rate \in UserRates, NEW auto \in BOOLEAN, OpenWallet(rate, auto)
       PROVE  IInv'
  <2>1. chain' \in Chain
    BY <1>14, UserAssumption DEF OpenWallet, Chain
  <2>2. saved' \in 0..MaxSaves /\ strays' \in BOOLEAN /\ unannounced' = TRUE
    BY <1>0, <1>14 DEF OpenWallet
  <2>3. DOMAIN writes' = {}
    BY <1>14 DEF OpenWallet, NoGoroutine
  <2>4. TypeOK'
    BY <1>0, <1>14, <2>1, <2>2, <2>3 DEF OpenWallet, clocks, TypeOK, Bag
  <2>5. QED
    BY <1>0, <1>14, <2>2, <2>4 DEF OpenWallet, clocks, IInv, Follows
<1>15. QED
  BY <1>1, <1>2, <1>3, <1>4, <1>5, <1>6, <1>7, <1>8, <1>9, <1>10, <1>11, <1>12, <1>13,
     <1>14 DEF Next, Persist

-----------------------------------------------------------------------------
\* The invariant of the limiter in all its parts.
THEOREM LimiterInvariant == Spec => []IInv
BY InitLemma, StepLemma, PTL DEF Spec

\* Types; that no rate is ever 0 keeps waitForToken from dividing by it.
THEOREM RateNeverZero == Spec => []TypeOK
<1>1. IInv => TypeOK
  BY DEF IInv
<1>2. QED
  BY <1>1, LimiterInvariant, PTL

\* When no save and no "saved" is under way the limiter of eth/eth_server.go does what the
\* wallet says, however tuning, saving and reading back were interleaved, unless the
\* settings last changed by a save that failed or with the wallet opened.
THEOREM LimiterSettles == Spec => []SettlesOnWallet
<1>1. IInv => SettlesOnWallet
  <2> SUFFICES ASSUME IInv, Settled, limiter # NoLimiter
               PROVE  limiter = Settings(chain)
    BY DEF SettlesOnWallet
  <2>1. limiter \in Limiter /\ Settings(chain) \in Limiter
    BY SettingsType DEF IInv, TypeOK
  <2>2. DOMAIN saves = {} /\ DOMAIN writes = {} /\ saved = 0 /\ ~unannounced
    BY DEF Settled, NoGoroutine
  <2>3. limiter.auto = Settings(chain).auto /\ limiter.rate = Settings(chain).rate
    BY <2>2 DEF IInv, Follows
  <2>4. QED
    BY <2>1, <2>3 DEF Limiter
<1>2. QED
  BY <1>1, LimiterInvariant, PTL

\* After a 429 no caller of waitForToken gets its token before the back-off is over,
\* whatever settings arrive in between.
THEOREM BackoffKept == Spec => BackoffIsKept
<1>1. IInv /\ [Next]_vars => [calls' > calls => owed = 0]_vars
  <2> SUFFICES ASSUME IInv, Next, calls' > calls PROVE owed = 0
    OBVIOUS
  <2>1. calls \in Int /\ owed = backoff
    BY SavesAssumption DEF IInv, TypeOK
  <2>2. WaitForToken
    BY <2>1 DEF Next, GetRateLimiter, OnSuccess, OnRateLimitError, OnOtherError, Persist,
                PersistCheck, PersistWrite, PersistStray, UpdateRateLimiterSettings,
                EditBlockchain, SaveWallet, OpenWallet, Tick
  <2>3. QED
    BY <2>1, <2>2 DEF WaitForToken
<1>2. QED
  BY <1>1, LimiterInvariant, PTL DEF Spec, BackoffIsKept

-----------------------------------------------------------------------------
(* The websocket server.                                                   *)

\* The connection is in WSConnections.
Listed(c) == Contains(listed, c)

\* A broadcast about the event is still to begin.
Coming(e) == Contains(jobs, e) \/ \E i \in 1..Len(queue) : e \in queue[i]

\* The website switched its own chain, and nobody was told.
Excused(e) == e = "chainChanged" /\ switched

\* The broadcast under way is about the event and has the connection before it.
ToCome(c, e) ==
  told # None /\ told.event = e /\ \E k \in 1..Len(view) : k >= turn /\ view[k] = c

Handled == {"read", "connect", "switch", "serve", "reply", "write"}
Unserved == {"none", "consent", "blocked"}

ListedSound == Distinct(listed) /\ \A c \in Conns : Listed(c) => pc[c] \in Handled

\* A connection without a handler has subscribed to nothing.
Newcomers == \A c \in Conns : pc[c] \in Unserved => subs[c] = {}

\* A pointer that is not stale is to the origin in the wallet, a handler's and the loop's.
Pointers ==
  /\ \A c \in Conns : pc[c] = "switch" /\ c \notin stale => origin # None
  /\ told # None /\ told.live => origin # None

\* While no connection ended under the broadcast, append has no room in its array.
ViewFits ==
  told # None /\ told.shared /\ told.event \notin skipped => Len(view) <= Len(listed)

\* A broadcast that does not read the wallet tells what the wallet says, unless another
\* one follows it.
TellsTrue ==
  ~stuck /\ told # None /\ ~told.live /\ origin # None =>
    \/ told.value = origin[told.event]
    \/ Excused(told.event) \/ Coming(told.event)

\* A subscriber that was not told what the wallet says will be told.
Knows(c, e) == heard[c][e] = origin[e] \/ Excused(e) \/ Coming(e) \/ ToCome(c, e)

Informed ==
  ~stuck /\ origin # None =>
    \A c \in Conns, e \in Events :
      Listed(c) /\ e \in subs[c] /\ e \notin skipped => Knows(c, e)

WebInv ==
  /\ WebTypeOK /\ ListedSound /\ Newcomers /\ Pointers /\ ViewFits /\ TellsTrue
  /\ Informed

-----------------------------------------------------------------------------
(* Types.                                                                  *)

\* One address less: the rest has none twice.
LEMMA AddressRemoved ==
  ASSUME NEW o \in Origin, NEW a \in Addresses
  PROVE  LET s == RemoveFirst(o.accountsChanged, a)
         IN  s \in Seq(Addresses) /\ IsInjective(s) /\ ~Contains(s, a)
<1> DEFINE r == o.accountsChanged  s == RemoveFirst(r, a)
<1>1. r \in Seq(Addresses) /\ IsInjective(r)
  BY DEF Origin
<1>2. Distinct(r)
  BY <1>1 DEF IsInjective, Distinct
<1>3. s \in Seq(Addresses) /\ Distinct(s) /\ ~Contains(s, a)
  BY <1>1, <1>2, RemoveFirstType, RemoveFirstElements
<1> HIDE DEF s, r
<1>4. IsInjective(s)
  BY <1>3 DEF IsInjective, Distinct
<1>5. QED
  BY <1>3, <1>4 DEF s, r

\* Another list of addresses in an origin.
LEMMA SetAddressesType ==
  ASSUME origin \in Origin, NEW s \in Seq(Addresses), IsInjective(s)
  PROVE  /\ SetAddresses(s) \in Origin /\ SetAddresses(s) # None
         /\ SetAddresses(s).accountsChanged = s
         /\ SetAddresses(s).chainChanged = origin.chainChanged
<1>1. SetAddresses(s) \in Origin
  BY DEF SetAddresses, Origin
<1>2. QED
  BY <1>1, NoneAssumption DEF SetAddresses, Origin

\* Another chain in an origin.
LEMMA SetChainType ==
  ASSUME origin \in Origin, NEW k \in Chains
  PROVE  LET o == [origin EXCEPT !.chainChanged = k]
         IN  /\ o \in Origin /\ o # None
             /\ o.accountsChanged = origin.accountsChanged /\ o.chainChanged = k
<1>1. [origin EXCEPT !.chainChanged = k] \in Origin
  BY DEF Origin
<1>2. QED
  BY <1>1, NoneAssumption DEF Origin

\* What an origin says about an event.
LEMMA OriginSays ==
  ASSUME NEW o \in Origin, NEW e \in Events
  PROVE  o[e] \in Chains \cup Seq(Addresses)
BY DEF Origin, Events

\* One more element at the end.
LEMMA AppendType ==
  ASSUME NEW S, NEW s \in Seq(S), NEW e \in S
  PROVE  Append(s, e) \in Seq(S)
BY AppendProperties

\* A list of one address.
LEMMA OneAddress ==
  ASSUME NEW a \in Addresses
  PROVE  <<a>> \in Seq(Addresses) /\ IsInjective(<<a>>)
<1>1. <<a>> \in Seq(Addresses) /\ Len(<<a>>) = 1 /\ DOMAIN <<a>> = 1..1
  OBVIOUS
<1>2. QED
  BY <1>1 DEF IsInjective

\* A command that changes the origin and sends an event about all that changed; one that
\* removes it turns the pointers stale, and a broadcast tells what it said.
Revision(o, E) ==
  /\ Change(o, E)
  /\ E \in SUBSET Events
  /\ UNCHANGED <<stuck, jobs, view, turn, writing>>
  /\ \/ /\ o \in Origin /\ o # None
        /\ \A e \in Events \ E : o[e] = origin[e]
        /\ UNCHANGED <<stale, told>>
     \/ /\ o = None /\ E = Events
        /\ stale' = {c \in Conns : pc[c] = "switch"}
        /\ told' = IF told = None \/ ~told.live THEN told
                   ELSE [told EXCEPT !.value = origin[told.event], !.live = FALSE]

\* Each command is a revision, but for the one that removes the last address.
LEMMA CommandRevises ==
  ASSUME WebTypeOK, Command
  PROVE  RemoveLastAddress \/ \E o, E : Revision(o, E)
<1>1. {"chainChanged"} \in SUBSET Events /\ {"accountsChanged"} \in SUBSET Events
  BY DEF Events
<1>2. ASSUME NEW k \in Chains, SetOriginChain(k) PROVE \E o, E : Revision(o, E)
  <2> DEFINE o == [origin EXCEPT !.chainChanged = k]
  <2>1. Change(o, {"chainChanged"}) /\ UNCHANGED <<stale, stuck, loop>> /\ origin # None
    BY <1>2 DEF SetOriginChain, Change
  <2>2. origin \in Origin
    BY <2>1 DEF WebTypeOK
  <2>3. o \in Origin /\ o # None /\ o.accountsChanged = origin.accountsChanged
    BY <2>2, SetChainType
  <2> HIDE DEF o
  <2>4. \A e \in Events \ {"chainChanged"} : o[e] = origin[e]
    BY <2>3 DEF Events
  <2>5. Revision(o, {"chainChanged"})
    BY <1>1, <2>1, <2>3, <2>4 DEF Revision, loop
  <2>6. QED
    BY <2>5
<1>3. ASSUME NEW s \in Seq(Addresses), IsInjective(s), origin # None,
             Change(SetAddresses(s), {"accountsChanged"}), UNCHANGED <<stale, stuck, loop>>
      PROVE  \E o, E : Revision(o, E)
  <2>1. origin \in Origin
    BY <1>3 DEF WebTypeOK
  <2> DEFINE o == SetAddresses(s)
  <2>2. o \in Origin /\ o # None /\ o.chainChanged = origin.chainChanged
    BY <1>3, <2>1, SetAddressesType
  <2> HIDE DEF o
  <2>3. \A e \in Events \ {"accountsChanged"} : o[e] = origin[e]
    BY <2>2 DEF Events
  <2>4. Revision(o, {"accountsChanged"})
    BY <1>1, <1>3, <2>2, <2>3 DEF Revision, loop, o
  <2>5. QED
    BY <2>4
<1>4. ASSUME NEW a \in Addresses, AddOriginAddress(a) PROVE \E o, E : Revision(o, E)
  <2> DEFINE r == origin.accountsChanged
             s == IF Contains(r, a) THEN r ELSE Append(r, a)
  <2>1. origin # None /\ Change(SetAddresses(s), {"accountsChanged"})
        /\ UNCHANGED <<stale, stuck, loop>>
    BY <1>4 DEF AddOriginAddress, Change
  <2>2. r \in Seq(Addresses) /\ IsInjective(r)
    BY <2>1 DEF WebTypeOK, Origin
  <2>3. Distinct(r)
    BY <2>2 DEF IsInjective, Distinct
  <2> HIDE DEF r
  <2>4. s \in Seq(Addresses) /\ Distinct(s)
    BY <2>2, <2>3, AppendContains
  <2> HIDE DEF s
  <2>5. IsInjective(s)
    BY <2>4 DEF IsInjective, Distinct
  <2>6. QED
    BY <1>3, <2>1, <2>4, <2>5
<1>5. ASSUME NEW a \in Addresses, PromoteOriginAddress(a) PROVE \E o, E : Revision(o, E)
  <2> DEFINE r == RemoveFirst(origin.accountsChanged, a)  s == <<a>> \o r
  <2>1. origin # None /\ Change(SetAddresses(s), {"accountsChanged"})
        /\ UNCHANGED <<stale, stuck, loop>>
    BY <1>5 DEF PromoteOriginAddress
  <2>2. r \in Seq(Addresses) /\ IsInjective(r) /\ ~Contains(r, a)
    BY <2>1, AddressRemoved DEF WebTypeOK
  <2> HIDE DEF r
  <2>3. Distinct(r)
    BY <2>2 DEF IsInjective, Distinct
  <2>4. s \in Seq(Addresses) /\ Distinct(s)
    BY <2>2, <2>3, ConsContains
  <2> HIDE DEF s
  <2>5. IsInjective(s)
    BY <2>4 DEF IsInjective, Distinct
  <2>6. QED
    BY <1>3, <2>1, <2>4, <2>5
<1>6. ASSUME NEW a \in Addresses, RemoveOriginAddress(a) PROVE \E o, E : Revision(o, E)
  <2> DEFINE s == RemoveFirst(origin.accountsChanged, a)
  <2>1. origin # None /\ Change(SetAddresses(s), {"accountsChanged"})
        /\ UNCHANGED <<stale, stuck, loop>>
    BY <1>6 DEF RemoveOriginAddress
  <2>2. s \in Seq(Addresses) /\ IsInjective(s)
    BY <2>1, AddressRemoved DEF WebTypeOK
  <2> HIDE DEF s
  <2>3. QED
    BY <1>3, <2>1, <2>2
<1>7. ASSUME RemoveOrigin PROVE \E o, E : Revision(o, E)
  <2>1. Revision(None, Events)
    BY <1>7 DEF RemoveOrigin, Revision
  <2>2. QED
    BY <2>1
<1>8. QED
  BY <1>2, <1>4, <1>5, <1>6, <1>7 DEF Command

\* The broadcast under way when the origin is removed goes on with what it said.
LEMMA RevisionTold ==
  ASSUME WebTypeOK, NEW o, NEW E, Revision(o, E)
  PROVE  \/ told' = told
         \/ /\ o = None /\ E = Events
            /\ told # None /\ told' # None /\ told' \in Telling
            /\ told.live /\ ~told'.live
            /\ told'.event = told.event /\ told'.shared = told.shared
<1> SUFFICES ASSUME told' # told
             PROVE  /\ o = None /\ E = Events
                    /\ told # None /\ told' # None /\ told' \in Telling
                    /\ told.live /\ ~told'.live
                    /\ told'.event = told.event /\ told'.shared = told.shared
  OBVIOUS
<1>1. /\ o = None /\ E = Events
      /\ told # None /\ told.live
      /\ told' = [told EXCEPT !.value = origin[told.event], !.live = FALSE]
  BY DEF Revision
<1>2. told \in Telling
  BY <1>1 DEF WebTypeOK
<1>3. origin \in Origin
  BY DEF Revision, Change, WebTypeOK
<1>4. origin[told.event] \in Chains \cup Seq(Addresses)
  BY <1>2, <1>3, OriginSays DEF Telling
<1> DEFINE v == origin[told.event]
<1> HIDE DEF v
<1>5. /\ told'.event = told.event /\ told'.shared = told.shared
      /\ told'.value = v /\ told'.live = FALSE
      /\ told' = [event |-> told.event, value |-> v, live |-> FALSE, shared |-> told.shared]
  BY <1>1, <1>2 DEF Telling, v
<1>6. told' \in Telling
  BY <1>2, <1>4, <1>5 DEF Telling, v
<1>7. QED
  BY <1>1, <1>5, <1>6, NoneAssumption

\* The types, after a revision.
LEMMA RevisionTypes ==
  ASSUME WebTypeOK, NEW o, NEW E, Revision(o, E)
  PROVE  WebTypeOK'
<1> USE DEF Revision, Change
<1>1. UNCHANGED <<up, server, routed, listed, pc, alive, subs, heard, requests, skipped,
                  stuck, jobs, view, turn, writing>>
  BY DEF serverVars, subscriptions
<1>2. origin' = None \/ origin' \in Origin
  OBVIOUS
<1>3. queue' \in Seq(SUBSET Events)
  BY DEF WebTypeOK
<1>4. stale' \subseteq Conns /\ switched' \in BOOLEAN
  BY DEF WebTypeOK
<1>5. told' = None \/ told' \in Telling
  BY RevisionTold DEF WebTypeOK
<1>6. changes' \in 0..MaxChanges
  BY BoundsAssumption DEF WebTypeOK
<1>7. QED
  BY <1>1, <1>2, <1>3, <1>4, <1>5, <1>6 DEF WebTypeOK

\* The types, after a step of a handler or of its browser.
LEMMA HandlerTypes ==
  ASSUME WebTypeOK, NEW c \in Conns, Handler(c)
  PROVE  WebTypeOK'
<1> USE DEF WebTypeOK, At, Goto
<1>1. CASE Refused(c)
  BY <1>1 DEF Refused, serverVars, wallet, subscriptions, loop, counts, webHistory
<1>2. CASE Serve(c)
  <2>1. subs' \in [Conns -> SUBSET Events]
    BY <1>2 DEF Serve, subscriptions
  <2>2. heard' \in [Conns -> [Events -> Chains \cup Seq(Addresses) \cup {None}]]
    <3>1. UNCHANGED heard \/ \E e \in Events, v \in Chains \cup Seq(Addresses) \cup {None} :
                               heard' = [heard EXCEPT ![c][e] = v]
      <4>1. \A e \in Events : origin # None => origin[e] \in Chains \cup Seq(Addresses)
        BY OriginSays
      <4>2. QED
        BY <1>2, <4>1 DEF Serve, subscriptions
    <3>2. ASSUME NEW e \in Events, NEW v \in Chains \cup Seq(Addresses) \cup {None},
                 heard' = [heard EXCEPT ![c][e] = v]
          PROVE  heard' \in [Conns -> [Events -> Chains \cup Seq(Addresses) \cup {None}]]
      <4> DEFINE f == [heard[c] EXCEPT ![e] = v]
      <4>1. f \in [Events -> Chains \cup Seq(Addresses) \cup {None}]
        OBVIOUS
      <4>2. heard' = [heard EXCEPT ![c] = f]
        BY <3>2
      <4> HIDE DEF f
      <4>3. QED
        BY <4>1, <4>2
    <3>3. QED
      BY <3>1, <3>2
  <2>3. QED
    BY <1>2, <2>1, <2>2 DEF Serve, serverVars, wallet, loop, counts, webHistory
<1>3. CASE Reply(c)
  BY <1>3 DEF Reply, serverVars, wallet, subscriptions, loop, counts, webHistory
<1>4. CASE Written(c)
  BY <1>4 DEF Written, serverVars, wallet, subscriptions, loop, counts, webHistory
<1>5. CASE Close(c)
  <2>1. listed' \in Seq(Conns)
    BY <1>5, RemoveFirstType DEF Close
  <2>2. view' \in Seq(Conns) /\ Len(view') = Len(view)
    <3>1. CASE view' = ShiftOut(view, c)
      <4>1. \A i \in DOMAIN view : i < Len(listed) => listed[i + 1] \in Conns
        OBVIOUS
      <4>2. DOMAIN ShiftOut(view, c) = 1..Len(view)
        BY DEF ShiftOut
      <4>3. \A i \in 1..Len(view) : ShiftOut(view, c)[i] \in Conns
        BY <4>1 DEF ShiftOut
      <4>4. ShiftOut(view, c) \in [1..Len(view) -> Conns]
        BY <4>2, <4>3 DEF ShiftOut
      <4>5. Len(view) \in Nat
        OBVIOUS
      <4>6. view' \in Seq(Conns)
        <5>1. ShiftOut(view, c) \in UNION {[1..n -> Conns] : n \in Nat}
          BY <4>4, <4>5
        <5>2. QED
          BY <3>1, <5>1, SeqDef
      <4>7. QED
        BY <3>1, <4>2, <4>5, <4>6
    <3>2. QED
      BY <1>5, <3>1 DEF Close
  <2>3. skipped' \subseteq Events
    BY <1>5 DEF Close, Telling
  <2>4. QED
    BY <1>5, <2>1, <2>2, <2>3 DEF Close, serverVars, wallet, subscriptions, counts
<1>6. QED
  BY <1>1, <1>2, <1>3, <1>4, <1>5 DEF Handler

\* The types, after a step the user or the browser makes.
LEMMA UserTypes ==
  ASSUME WebTypeOK, Pointers, NEW c \in Conns, User(c)
  PROVE  WebTypeOK'
<1> USE DEF WebTypeOK, At, Goto
<1>1. CASE Connect(c)
  BY <1>1 DEF Connect, serverVars, wallet, subscriptions, loop, counts, webHistory
<1>2. CASE Allow(c)
  <2>1. /\ listed' \in Seq(Conns) /\ alive' \subseteq Conns
        /\ UNCHANGED <<up, serverVars, stale, subscriptions, wallet, queue, jobs, turn,
                       writing, counts, webHistory>>
    BY <1>2 DEF Allow
  <2>2. pc' \in [Conns -> {"none", "consent", "blocked", "over", "read", "connect",
                           "switch", "serve", "reply", "write"}]
    BY <1>2 DEF Allow
  <2>3. view' \in Seq(Conns) /\ Len(view') = Len(view)
    <3>1. view' = view \/ (/\ Len(listed) < Len(view)
                           /\ view' = [view EXCEPT ![Len(listed) + 1] = c])
      BY <1>2 DEF Allow
    <3>2. ASSUME Len(listed) < Len(view), view' = [view EXCEPT ![Len(listed) + 1] = c]
          PROVE  view' \in Seq(Conns) /\ Len(view') = Len(view)
      <4>1. Len(listed) + 1 \in 1..Len(view)
        BY <3>2
      <4>2. QED
        BY <3>2, <4>1, ExceptSeq
    <3>3. QED
      BY <3>1, <3>2
  <2>4. told' = None \/ told' \in Telling
    <3>1. told' = told \/ (told # None /\ told' = [told EXCEPT !.shared = FALSE])
      BY <1>2 DEF Allow
    <3>2. QED
      BY <3>1 DEF Telling
  <2>5. QED
    BY <2>1, <2>2, <2>3, <2>4 DEF serverVars, wallet, subscriptions, counts, webHistory
<1>3. CASE Deny(c)
  BY <1>3 DEF Deny, serverVars, wallet, subscriptions, loop, counts, webHistory
<1>4. CASE Disconnect(c)
  BY <1>4 DEF Disconnect, serverVars, wallet, subscriptions, loop, counts, webHistory
<1>5. CASE ReadEth(c)
  BY <1>5, BoundsAssumption
     DEF ReadEth, serverVars, wallet, subscriptions, loop, webHistory
<1>6. CASE ReadSwitch(c)
  BY <1>6, BoundsAssumption
     DEF ReadSwitch, serverVars, wallet, subscriptions, loop, webHistory
<1>7. ASSUME NEW k \in Chains, NEW a \in Addresses, ConnectOk(c, k, a)
      PROVE  WebTypeOK'
  <2>1. MakeOrigin(k, <<a>>) \in Origin
    BY OneAddress DEF MakeOrigin, Origin
  <2>2. origin' = None \/ origin' \in Origin
    BY <1>7, <2>1 DEF ConnectOk
  <2>3. queue' \in Seq(SUBSET Events)
    <3>1. Events \in SUBSET Events
      OBVIOUS
    <3>2. queue' = Append(queue, Events) \/ queue' = queue
      BY <1>7 DEF ConnectOk
    <3>3. QED
      <4>1. queue \in Seq(SUBSET Events)
        OBVIOUS
      <4> HIDE DEF WebTypeOK
      <4>2. Append(queue, Events) \in Seq(SUBSET Events)
        BY <3>1, <4>1, AppendType
      <4>3. QED
        BY <3>2, <4>1, <4>2
  <2>4. pc' \in [Conns -> {"none", "consent", "blocked", "over", "read", "connect",
                           "switch", "serve", "reply", "write"}]
    BY <1>7 DEF ConnectOk
  <2>5. QED
    BY <1>7, <2>2, <2>3, <2>4 DEF ConnectOk, serverVars, subscriptions, loop, counts
<1>8. ASSUME NEW k \in Chains, SwitchOk(c, k)
      PROVE  WebTypeOK'
  <2>1. CASE origin # None
    BY <1>8, <2>1, SetChainType
       DEF SwitchOk, serverVars, subscriptions, loop, counts
  <2>2. CASE origin = None
    BY <1>8, <2>2
       DEF SwitchOk, Pointers, serverVars, subscriptions, loop, counts
  <2>3. QED
    BY <2>1, <2>2
<1>9. QED
  BY <1>1, <1>2, <1>3, <1>4, <1>5, <1>6, <1>7, <1>8 DEF User

\* The types, after a step of the loop.
LEMMA LoopTypes ==
  ASSUME WebTypeOK, Pointers, Loop
  PROVE  WebTypeOK'
<1> USE DEF WebTypeOK, Idle
<1>1. CASE TakeEvent
  <2>1. queue' \in Seq(SUBSET Events)
    BY <1>1 DEF TakeEvent
  <2>2. jobs' \in Seq(Events)
    <3>1. /\ <<"chainChanged">> \in Seq(Events) /\ <<"accountsChanged">> \in Seq(Events)
          /\ <<>> \in Seq(Events)
      BY DEF Events
    <3>2. QED
      BY <1>1, <3>1, ConcatProperties DEF TakeEvent
  <2>3. QED
    BY <1>1, <2>1, <2>2
       DEF TakeEvent, serverVars, handlers, wallet, subscriptions, counts, webHistory
<1>2. CASE Broadcast
  <2> DEFINE e == Head(jobs)
  <2>1. jobs' \in Seq(Events) /\ e \in Events
    BY <1>2 DEF Broadcast
  <2>2. CASE origin = None
    BY <1>2, <2>1, <2>2
       DEF Broadcast, serverVars, handlers, wallet, subscriptions, counts, webHistory
  <2>3. CASE origin # None
    <3>1. origin[e] \in Chains \cup Seq(Addresses)
      BY <2>1, <2>3, OriginSays
    <3>2. told' \in Telling
      <4>1. (e = "chainChanged") \in BOOLEAN /\ TRUE \in BOOLEAN
        OBVIOUS
      <4>2. told' = [event |-> e, value |-> origin[e], live |-> e = "chainChanged",
                     shared |-> TRUE]
        BY <1>2, <2>3 DEF Broadcast
      <4> HIDE DEF e
      <4>3. QED
        BY <2>1, <3>1, <4>1, <4>2 DEF Telling
    <3>3. view' \in Seq(Conns) /\ turn' \in 1..(Len(view') + 1)
      BY <1>2, <2>3 DEF Broadcast
    <3>4. skipped' \subseteq Events
      BY <1>2, <2>3 DEF Broadcast
    <3>5. QED
      BY <1>2, <2>1, <3>2, <3>3, <3>4
         DEF Broadcast, serverVars, handlers, wallet, subscriptions, counts
  <2>4. QED
    BY <2>2, <2>3
<1>3. CASE Tell
  <2> DEFINE c == view[turn]  e == told.event
  <2>1. c \in Conns /\ told \in Telling /\ e \in Events /\ turn' \in 1..(Len(view) + 1)
    BY <1>3 DEF Tell, Telling
  <2>2. /\ UNCHANGED <<serverVars, listed, handlers, subs, wallet, queue, jobs, told,
                       view, counts, webHistory>>
        /\ up' \in BOOLEAN /\ writing' \in Conns \cup {None}
    BY <1>3, <2>1 DEF Tell
  <2>3. heard' \in [Conns -> [Events -> Chains \cup Seq(Addresses) \cup {None}]]
    <3>1. heard' = heard \/ heard' = [heard EXCEPT ![c][e] = IF told.live THEN origin[e]
                                                             ELSE told.value]
      BY <1>3 DEF Tell
    <3> DEFINE v == IF told.live THEN origin[e] ELSE told.value
    <3>2. v \in Chains \cup Seq(Addresses)
      <4>1. CASE told.live
        <5>1. origin \in Origin
          BY <1>3, <4>1 DEF Tell, Pointers
        <5>2. QED
          BY <2>1, <4>1, <5>1, OriginSays
      <4>2. CASE ~told.live
        BY <2>1, <4>2 DEF Telling
      <4>3. QED
        BY <4>1, <4>2
    <3>3. QED
      <4> DEFINE f == [heard[c] EXCEPT ![e] = v]
      <4>1. f \in [Events -> Chains \cup Seq(Addresses) \cup {None}]
        BY <2>1, <3>2
      <4>2. heard' = heard \/ heard' = [heard EXCEPT ![c] = f]
        BY <3>1
      <4> HIDE DEF f
      <4>3. QED
        BY <2>1, <4>1, <4>2
  <2>4. QED
    BY <2>1, <2>2, <2>3 DEF serverVars, handlers, wallet, counts, webHistory
<1>4. CASE Sent
  BY <1>4 DEF Sent, serverVars, handlers, wallet, subscriptions, counts, webHistory
<1>5. CASE Told
  BY <1>5 DEF Told, serverVars, handlers, wallet, subscriptions, counts, webHistory
<1>6. QED
  BY <1>1, <1>2, <1>3, <1>4, <1>5 DEF Loop

\* The types, after the server starts, stops or fails, or the last address is removed.
LEMMA ServerTypes ==
  ASSUME WebTypeOK, StartWS \/ StopWS \/ ServeFails \/ RemoveLastAddress
  PROVE  WebTypeOK'
<1>1. CASE StartWS
  BY <1>1 DEF WebTypeOK, StartWS, handlers, wallet, subscriptions, loop, counts, webHistory
<1>2. CASE StopWS
  <2>1. /\ UNCHANGED <<up, routed, pc, stale, subs, heard, origin, stuck, queue, jobs, told,
                       view, turn, writing, requests, changes, switched, skipped>>
        /\ server' = FALSE /\ listed' = <<>> /\ alive' \subseteq alive
    BY <1>2 DEF StopWS, wallet, subscriptions, loop, counts, webHistory
  <2>2. listed' \in Seq(Conns)
    BY <2>1
  <2>3. QED
    BY <2>1, <2>2 DEF WebTypeOK
<1>3. CASE ServeFails
  BY <1>3
     DEF WebTypeOK, ServeFails, handlers, wallet, subscriptions, loop, counts, webHistory
<1>4. CASE RemoveLastAddress
  <2>1. <<>> \in Seq(Addresses) /\ IsInjective(<<>>)
    BY DEF IsInjective
  <2>2. origin' \in Origin
    BY <1>4, <2>1, SetAddressesType DEF RemoveLastAddress, WebTypeOK
  <2>3. QED
    BY <1>4, <2>2
       DEF WebTypeOK, RemoveLastAddress, serverVars, handlers, subscriptions, loop, counts,
           webHistory
<1>5. QED
  BY <1>1, <1>2, <1>3, <1>4

\* The types, after any step.
LEMMA WebTypesStep ==
  ASSUME WebTypeOK, Pointers, WebNext
  PROVE  WebTypeOK'
<1>1. ASSUME NEW c \in Conns, Handler(c) PROVE WebTypeOK'
  BY <1>1, HandlerTypes
<1>2. ASSUME NEW c \in Conns, User(c) PROVE WebTypeOK'
  BY <1>2, UserTypes
<1>3. ASSUME Command PROVE WebTypeOK'
  BY <1>3, CommandRevises, RevisionTypes, ServerTypes
<1>4. ASSUME Loop PROVE WebTypeOK'
  BY <1>4, LoopTypes
<1>5. QED
  BY <1>1, <1>2, <1>3, <1>4, ServerTypes DEF WebNext

-----------------------------------------------------------------------------
(* The connections and their handlers.                                     *)

\* How the handler of a connection goes on, and what that does to the list.
Move(c, l) ==
  /\ pc' = [pc EXCEPT ![c] = l]
  /\ \/ pc[c] \in Handled /\ l \in Handled /\ listed' = listed
     \/ pc[c] \in Unserved /\ l \in Unserved \cup {"over"} /\ listed' = listed
     \/ pc[c] = "consent" /\ l = "read" /\ listed' = Append(listed, c)
     \/ pc[c] \in Handled /\ l = "over" /\ listed' = RemoveFirst(listed, c)

\* A step moves one handler, or none; then the list stays, or the server stops.
LEMMA HandlersMove ==
  ASSUME WebTypeOK, WebNext
  PROVE  \/ pc' = pc /\ (listed' = listed \/ listed' = <<>>)
         \/ \E c \in Conns : \E l : Move(c, l)
<1> USE DEF At, Goto, Handled, Unserved, Move
<1>1. ASSUME NEW c \in Conns, Handler(c)
      PROVE  \E l : Move(c, l)
  <2>1. CASE Refused(c)
    BY <2>1 DEF Refused
  <2>2. CASE Serve(c)
    BY <2>2 DEF Serve
  <2>3. CASE Reply(c)
    BY <2>3 DEF Reply
  <2>4. CASE Written(c)
    BY <2>4 DEF Written
  <2>5. CASE Close(c)
    BY <2>5 DEF Close
  <2>6. QED
    BY <1>1, <2>1, <2>2, <2>3, <2>4, <2>5 DEF Handler
<1>2. ASSUME NEW c \in Conns, User(c)
      PROVE  (pc' = pc /\ listed' = listed) \/ \E l : Move(c, l)
  <2>1. CASE Connect(c)
    BY <2>1 DEF Connect
  <2>2. CASE Allow(c)
    BY <2>2 DEF Allow
  <2>3. CASE Deny(c)
    BY <2>3 DEF Deny
  <2>4. CASE Disconnect(c)
    BY <2>4 DEF Disconnect
  <2>5. CASE ReadEth(c)
    BY <2>5 DEF ReadEth
  <2>6. CASE ReadSwitch(c)
    BY <2>6 DEF ReadSwitch
  <2>7. ASSUME NEW k \in Chains, NEW a \in Addresses, ConnectOk(c, k, a)
        PROVE  \E l : Move(c, l)
    BY <2>7 DEF ConnectOk
  <2>8. ASSUME NEW k \in Chains, SwitchOk(c, k)
        PROVE  (pc' = pc /\ listed' = listed) \/ \E l : Move(c, l)
    BY <2>8 DEF SwitchOk
  <2>9. QED
    BY <1>2, <2>1, <2>2, <2>3, <2>4, <2>5, <2>6, <2>7, <2>8 DEF User
<1>3. ASSUME Command
      PROVE  pc' = pc /\ listed' = listed
  BY <1>3, CommandRevises DEF RemoveLastAddress, Revision, Change, handlers
<1>4. ASSUME Loop
      PROVE  pc' = pc /\ listed' = listed
  BY <1>4 DEF Loop, TakeEvent, Broadcast, Tell, Sent, Told, handlers
<1>5. ASSUME StartWS \/ StopWS \/ ServeFails
      PROVE  pc' = pc /\ (listed' = listed \/ listed' = <<>>)
  BY <1>5 DEF StartWS, StopWS, ServeFails, handlers
<1>6. QED
  BY <1>1, <1>2, <1>3, <1>4, <1>5 DEF WebNext

\* The list stays without duplicates, of connections that have their handler.
LEMMA ListedSoundStep ==
  ASSUME WebTypeOK, ListedSound, WebNext
  PROVE  ListedSound'
<1>1. listed \in Seq(Conns) /\ Distinct(listed)
  BY DEF WebTypeOK, ListedSound
<1>2. \A c \in Conns : Contains(listed, c) => pc[c] \in Handled
  BY DEF ListedSound, Listed
<1>3. CASE pc' = pc /\ listed' = listed
  BY <1>1, <1>2, <1>3 DEF ListedSound, Listed
<1>4. CASE pc' = pc /\ listed' = <<>>
  BY <1>4 DEF ListedSound, Listed, Distinct, Contains
<1>5. ASSUME NEW c \in Conns, NEW l, Move(c, l)
      PROVE  ListedSound'
  <2>1. \A d \in Conns : pc'[d] = IF d = c THEN l ELSE pc[d]
    BY <1>5 DEF Move, WebTypeOK
  <2>2. CASE pc[c] \in Handled /\ l \in Handled /\ listed' = listed
    BY <1>1, <1>2, <2>1, <2>2 DEF ListedSound, Listed
  <2>3. CASE pc[c] \in Unserved /\ listed' = listed
    <3>1. ~Contains(listed, c)
      BY <1>2, <2>3 DEF Handled, Unserved
    <3>2. QED
      BY <1>1, <1>2, <2>1, <2>3, <3>1 DEF ListedSound, Listed
  <2>4. CASE pc[c] = "consent" /\ l = "read" /\ listed' = Append(listed, c)
    <3>1. ~Contains(listed, c) /\ l \in Handled
      BY <1>2, <2>4 DEF Handled
    <3>2. /\ Distinct(listed')
          /\ \A d : Contains(listed', d) <=> Contains(listed, d) \/ d = c
      BY <1>1, <2>4, <3>1, AppendContains
    <3>3. QED
      BY <1>2, <2>1, <3>1, <3>2 DEF ListedSound, Listed
  <2>5. CASE listed' = RemoveFirst(listed, c)
    <3>1. /\ Distinct(listed')
          /\ \A d : Contains(listed', d) <=> Contains(listed, d) /\ d # c
      BY <1>1, <2>5, RemoveFirstElements
    <3>2. QED
      BY <1>2, <2>1, <3>1 DEF ListedSound, Listed
  <2>6. QED
    BY <1>5, <2>2, <2>3, <2>4, <2>5 DEF Move
<1>6. QED
  BY <1>3, <1>4, <1>5, HandlersMove

\* Only a handler that serves changes its subscriptions, and it goes on to reply.
LEMMA SubscribesWhenServed ==
  ASSUME WebTypeOK, WebNext
  PROVE  subs' = subs \/ \E c \in Conns : Serve(c)
<1>1. ASSUME NEW c \in Conns, Handler(c), ~Serve(c) PROVE subs' = subs
  BY <1>1 DEF Handler, Refused, Reply, Written, Close, subscriptions
<1>2. ASSUME NEW c \in Conns, User(c) PROVE subs' = subs
  BY <1>2 DEF User, Connect, Allow, Deny, Disconnect, ReadEth, ReadSwitch, ConnectOk,
              SwitchOk, subscriptions
<1>3. ASSUME Command PROVE subs' = subs
  BY <1>3, CommandRevises DEF RemoveLastAddress, Revision, Change, subscriptions
<1>4. ASSUME Loop PROVE subs' = subs
  BY <1>4 DEF Loop, TakeEvent, Broadcast, Tell, Sent, Told, subscriptions
<1>5. ASSUME StartWS \/ StopWS \/ ServeFails PROVE subs' = subs
  BY <1>5 DEF StartWS, StopWS, ServeFails, subscriptions
<1>6. QED
  BY <1>1, <1>2, <1>3, <1>4, <1>5 DEF WebNext

\* What serving a request does to the subscriptions.
LEMMA ServeDoes ==
  ASSUME WebTypeOK, NEW c \in Conns, Serve(c)
  PROVE  /\ pc[c] = "serve" /\ pc' = [pc EXCEPT ![c] = "reply"]
         /\ \A d \in Conns : d # c => subs'[d] = subs[d] /\ heard'[d] = heard[d]
         /\ \A e \in Events : \/ e \notin subs'[c]
                              \/ e \in subs[c] /\ heard'[c][e] = heard[c][e]
                              \/ origin # None => heard'[c][e] = origin[e]
<1>1. pc[c] = "serve" /\ pc' = [pc EXCEPT ![c] = "reply"]
  BY DEF Serve, At, Goto
<1>2. CASE UNCHANGED subscriptions
  BY <1>1, <1>2 DEF subscriptions
<1>3. ASSUME NEW f \in Events, subs' = [subs EXCEPT ![c] = subs[c] \ {f}],
             heard' = [heard EXCEPT ![c][f] = None]
      PROVE  /\ \A d \in Conns : d # c => subs'[d] = subs[d] /\ heard'[d] = heard[d]
             /\ \A e \in Events : \/ e \notin subs'[c]
                                  \/ e \in subs[c] /\ heard'[c][e] = heard[c][e]
  <2> DEFINE E == subs[c] \ {f}
  <2>1. subs' = [subs EXCEPT ![c] = E]
    BY <1>3
  <2> HIDE DEF E
  <2>2. /\ \A d \in Conns : d # c => subs'[d] = subs[d] /\ heard'[d] = heard[d]
        /\ subs'[c] = E /\ \A e \in Events \ {f} : heard'[c][e] = heard[c][e]
    <3> DEFINE g == [heard[c] EXCEPT ![f] = None]
    <3>1. heard' = [heard EXCEPT ![c] = g]
      BY <1>3
    <3>2. \A e \in Events \ {f} : g[e] = heard[c][e]
      BY DEF WebTypeOK
    <3> HIDE DEF g
    <3>3. QED
      BY <2>1, <3>1, <3>2 DEF WebTypeOK
  <2>3. QED
    BY <2>2 DEF E
<1>4. ASSUME NEW f \in Events, subs' = [subs EXCEPT ![c] = subs[c] \cup {f}],
             heard' = [heard EXCEPT ![c][f] = IF origin = None THEN None ELSE origin[f]]
      PROVE  /\ \A d \in Conns : d # c => subs'[d] = subs[d] /\ heard'[d] = heard[d]
             /\ \A e \in Events : \/ e \notin subs'[c]
                                  \/ e \in subs[c] /\ heard'[c][e] = heard[c][e]
                                  \/ origin # None => heard'[c][e] = origin[e]
  <2> DEFINE E == subs[c] \cup {f}  v == IF origin = None THEN None ELSE origin[f]
  <2>1. subs' = [subs EXCEPT ![c] = E] /\ heard' = [heard EXCEPT ![c][f] = v]
    BY <1>4
  <2> HIDE DEF E, v
  <2>2. /\ \A d \in Conns : d # c => subs'[d] = subs[d] /\ heard'[d] = heard[d]
        /\ subs'[c] = E /\ heard'[c][f] = v
        /\ \A e \in Events \ {f} : heard'[c][e] = heard[c][e]
    <3> DEFINE g == [heard[c] EXCEPT ![f] = v]
    <3>1. heard' = [heard EXCEPT ![c] = g]
      BY <2>1
    <3>2. g[f] = v /\ \A e \in Events \ {f} : g[e] = heard[c][e]
      BY DEF WebTypeOK
    <3> HIDE DEF g
    <3>3. QED
      BY <2>1, <3>1, <3>2 DEF WebTypeOK
  <2>3. QED
    BY <2>2 DEF E, v
<1>5. \/ UNCHANGED subscriptions
      \/ \E f \in Events : /\ subs' = [subs EXCEPT ![c] = subs[c] \ {f}]
                           /\ heard' = [heard EXCEPT ![c][f] = None]
      \/ \E f \in Events :
           /\ subs' = [subs EXCEPT ![c] = subs[c] \cup {f}]
           /\ heard' = [heard EXCEPT ![c][f] = IF origin = None THEN None ELSE origin[f]]
  BY DEF Serve, WebTypeOK
<1>6. QED
  BY <1>1, <1>2, <1>3, <1>4, <1>5

\* A connection without a handler goes on having subscribed to nothing.
LEMMA NewcomersStep ==
  ASSUME WebTypeOK, Newcomers, WebNext
  PROVE  Newcomers'
<1> SUFFICES ASSUME NEW c \in Conns, pc'[c] \in Unserved
             PROVE  subs'[c] = {}
  BY DEF Newcomers
<1>1. pc[c] \in Unserved
  <2>1. ASSUME NEW d \in Conns, NEW l, Move(d, l) PROVE pc[c] \in Unserved
    BY <2>1 DEF Move, Handled, Unserved, WebTypeOK
  <2>2. QED
    BY <2>1, HandlersMove
<1>2. subs[c] = {}
  BY <1>1 DEF Newcomers
<1>3. ASSUME NEW d \in Conns, Serve(d) PROVE subs'[c] = subs[c]
  <2>1. d # c
    BY <1>1, <1>3, ServeDoes DEF Unserved
  <2>2. QED
    BY <1>3, <2>1, ServeDoes
<1>4. QED
  BY <1>2, <1>3, SubscribesWhenServed

\* A pointer goes stale when what it points to is removed.
LEMMA PointersStep ==
  ASSUME WebTypeOK, Pointers, WebNext
  PROVE  Pointers'
<1> USE DEF At, Goto
<1>1. ASSUME UNCHANGED <<origin, stale>>,
             \A c \in Conns : pc'[c] = "switch" => pc[c] = "switch",
             told' = told
      PROVE  Pointers'
  BY <1>1 DEF Pointers
<1>2. ASSUME NEW c \in Conns, Handler(c) PROVE Pointers'
  BY <1>1, <1>2
     DEF Handler, Refused, Serve, Reply, Written, Close, loop, wallet, WebTypeOK
<1>3. ASSUME NEW c \in Conns, User(c) PROVE Pointers'
  <2>1. CASE Connect(c) \/ Deny(c) \/ Disconnect(c) \/ ReadEth(c)
    BY <1>1, <2>1 DEF Connect, Deny, Disconnect, ReadEth, loop, wallet, WebTypeOK
  <2>2. CASE Allow(c)
    <3>1. told' = told \/ (told # None /\ told' = [told EXCEPT !.shared = FALSE])
      BY <2>2 DEF Allow
    <3>2. told' # None => told # None /\ told'.live = told.live
      BY <3>1 DEF WebTypeOK, Telling
    <3>3. QED
      BY <2>2, <3>2 DEF Allow, Pointers, wallet, WebTypeOK
  <2>3. CASE ReadSwitch(c)
    BY <2>3 DEF ReadSwitch, Pointers, loop, wallet, WebTypeOK
  <2>4. ASSUME NEW k \in Chains, NEW a \in Addresses, ConnectOk(c, k, a)
        PROVE  Pointers'
    <3>1. origin' = origin \/ (origin = None /\ origin' = MakeOrigin(k, <<a>>))
      BY <2>4 DEF ConnectOk
    <3>2. MakeOrigin(k, <<a>>) \in Origin
      BY OneAddress DEF MakeOrigin, Origin
    <3>3. origin' # None \/ origin' = origin
      BY <3>1, <3>2, NoneAssumption
    <3>4. QED
      BY <2>4, <3>3 DEF ConnectOk, Pointers, loop, WebTypeOK
  <2>5. ASSUME NEW k \in Chains, SwitchOk(c, k)
        PROVE  Pointers'
    <3>1. origin' # None \/ origin' = origin
      BY <2>5, SetChainType DEF SwitchOk, Pointers, WebTypeOK
    <3>2. QED
      BY <2>5, <3>1 DEF SwitchOk, Pointers, loop, WebTypeOK
  <2>6. QED
    BY <1>3, <2>1, <2>2, <2>3, <2>4, <2>5 DEF User
<1>4. ASSUME NEW o, NEW E, Revision(o, E) PROVE Pointers'
  <2>1. pc' = pc /\ origin' = o
    BY <1>4 DEF Revision, Change
  <2>2. CASE o # None
    <3>1. told' = told
      BY <1>4, <2>2, RevisionTold
    <3>2. QED
      BY <1>4, <2>1, <2>2, <3>1 DEF Revision, Change, Pointers
  <2>3. CASE o = None
    <3>1. stale' = {c \in Conns : pc[c] = "switch"}
      BY <1>4, <2>3 DEF Revision
    <3>2. told' = None \/ ~told'.live
      BY <1>4, <2>3 DEF Revision, WebTypeOK, Telling
    <3>3. QED
      BY <2>1, <2>3, <3>1, <3>2 DEF Pointers
  <2>4. QED
    BY <2>2, <2>3
<1>5. ASSUME RemoveLastAddress PROVE Pointers'
  <2>1. <<>> \in Seq(Addresses) /\ IsInjective(<<>>)
    BY DEF IsInjective
  <2>2. origin' # None
    BY <1>5, <2>1, SetAddressesType DEF RemoveLastAddress, WebTypeOK
  <2>3. QED
    BY <1>5, <2>2 DEF RemoveLastAddress, Pointers, handlers, loop
<1>6. ASSUME Loop PROVE Pointers'
  <2>1. CASE TakeEvent \/ Tell \/ Sent
    BY <1>1, <2>1 DEF TakeEvent, Tell, Sent, handlers, wallet
  <2>2. CASE Broadcast \/ Told
    BY <2>2 DEF Broadcast, Told, Pointers, handlers, wallet
  <2>3. QED
    BY <1>6, <2>1, <2>2 DEF Loop
<1>7. ASSUME StartWS \/ StopWS \/ ServeFails PROVE Pointers'
  BY <1>1, <1>7 DEF StartWS, StopWS, ServeFails, handlers, wallet, loop
<1>8. QED
  BY <1>2, <1>3, <1>4, <1>5, <1>6, <1>7, CommandRevises DEF WebNext

-----------------------------------------------------------------------------
(* What the subscribers are told.                                          *)

Truthful == ViewFits /\ TellsTrue /\ Informed

\* What the invariants about broadcasts are about.
facts == <<listed, subs, heard, origin, stuck, queue, jobs, told, view, turn, switched,
           skipped>>

\* A step that leaves all that alone.
LEMMA FactsStay ==
  ASSUME Truthful, UNCHANGED facts
  PROVE  Truthful'
BY DEF facts, Truthful, ViewFits, TellsTrue, Informed, Knows, Excused, Coming, ToCome,
       Listed

\* The steps that do not.
LEMMA FactsUntouched ==
  ASSUME WebNext
  PROVE  \/ UNCHANGED facts
         \/ \E c \in Conns : Allow(c) \/ Close(c) \/ Serve(c)
         \/ \E c \in Conns : \E k \in Chains : SwitchOk(c, k)
         \/ \E c \in Conns : \E k \in Chains : \E a \in Addresses : ConnectOk(c, k, a)
         \/ Command
         \/ StopWS \/ TakeEvent \/ Broadcast \/ Tell \/ Told
<1>1. ASSUME NEW c \in Conns, Refused(c) \/ Reply(c) \/ Written(c) PROVE UNCHANGED facts
  BY <1>1 DEF Refused, Reply, Written, facts, subscriptions, wallet, loop, webHistory
<1>2. ASSUME NEW c \in Conns,
             Connect(c) \/ Deny(c) \/ Disconnect(c) \/ ReadEth(c) \/ ReadSwitch(c)
      PROVE  UNCHANGED facts
  BY <1>2 DEF Connect, Deny, Disconnect, ReadEth, ReadSwitch, facts, subscriptions, wallet,
              loop, webHistory
<1>3. ASSUME Sent \/ StartWS \/ ServeFails PROVE UNCHANGED facts
  BY <1>3 DEF Sent, StartWS, ServeFails, facts, subscriptions, wallet, loop, webHistory
<1>4. QED
  BY <1>1, <1>2, <1>3 DEF WebNext, Handler, User, Loop

\* A new connection is appended: it has subscribed to nothing yet, and takes a place in the
\* array of the broadcast only after another was lost.
LEMMA AllowTruthful ==
  ASSUME WebInv, NEW c \in Conns, Allow(c)
  PROVE  Truthful'
<1> USE DEF WebInv
<1>1. /\ listed' = Append(listed, c)
      /\ UNCHANGED <<subs, heard, origin, stuck, queue, jobs, turn, switched, skipped>>
      /\ pc[c] = "consent"
  BY DEF Allow, At, subscriptions, wallet, webHistory
<1>2. subs[c] = {}
  BY <1>1 DEF Newcomers, Unserved
<1>3. /\ Len(listed') = Len(listed) + 1 /\ Len(listed) \in Nat /\ Len(view) \in Nat
      /\ \A d : Contains(listed', d) <=> Contains(listed, d) \/ d = c
  BY <1>1, AppendContains DEF WebTypeOK
<1>4. \/ view' = view /\ told' = told
      \/ view' = view /\ told # None /\ told' = [told EXCEPT !.shared = FALSE]
      \/ told' = told /\ told # None /\ told.shared /\ Len(listed) < Len(view)
  BY DEF Allow
<1>5. told' # told => /\ told # None /\ told' # None /\ ~told'.shared
                      /\ told'.event = told.event /\ told'.live = told.live
                      /\ told'.value = told.value
  <2> SUFFICES ASSUME told' # told
               PROVE  /\ told # None /\ told' # None /\ ~told'.shared
                      /\ told'.event = told.event /\ told'.live = told.live
                      /\ told'.value = told.value
    OBVIOUS
  <2>1. told \in Telling /\ told # None /\ told' = [told EXCEPT !.shared = FALSE]
    BY <1>4 DEF WebTypeOK
  <2>2. told' \in Telling
    BY <2>1 DEF Telling
  <2>3. QED
    BY <2>1, <2>2, NoneAssumption DEF Telling
<1>6. view' # view => told' = told /\ told # None /\ told.event \in skipped
  BY <1>3, <1>4 DEF ViewFits
<1>7. ViewFits'
  BY <1>1, <1>3, <1>5, <1>6 DEF ViewFits
<1>8. TellsTrue'
  BY <1>1, <1>5 DEF TellsTrue, Excused, Coming
<1>9. Informed'
  <2> SUFFICES ASSUME NEW d \in Conns, NEW e \in Events,
                      ~stuck, origin # None, Listed(d)', e \in subs[d], e \notin skipped
               PROVE  Knows(d, e)'
    BY <1>1 DEF Informed
  <2>1. d # c /\ Listed(d)
    BY <1>2, <1>3 DEF Listed
  <2>2. Knows(d, e)
    BY <2>1 DEF Informed
  <2>3. ToCome(d, e) => ToCome(d, e)'
    BY <1>1, <1>5, <1>6 DEF ToCome
  <2>4. QED
    BY <1>1, <2>2, <2>3 DEF Knows, Excused, Coming
<1>10. QED
  BY <1>7, <1>8, <1>9 DEF Truthful

\* A connection ends: if a broadcast ranges over the array, its event is one that may skip.
LEMMA CloseTruthful ==
  ASSUME WebInv, NEW c \in Conns, Close(c)
  PROVE  Truthful'
<1> USE DEF WebInv
<1>1. /\ listed' = RemoveFirst(listed, c)
      /\ UNCHANGED <<subs, heard, origin, stuck, queue, jobs, turn, told, switched>>
      /\ skipped \subseteq skipped'
  BY DEF Close, subscriptions, wallet
<1>2. told # None /\ told.shared /\ Contains(listed, c) => told.event \in skipped'
  BY DEF Close
<1>3. view' # view => told # None /\ told.event \in skipped'
  BY DEF Close
<1>4. \A d : Contains(listed', d) => Contains(listed, d)
  BY <1>1, RemoveFirstElements DEF WebTypeOK, ListedSound
<1>5. ~Contains(listed, c) => listed' = listed
  BY <1>1 DEF RemoveFirst, Contains
<1>6. ViewFits'
  BY <1>1, <1>2, <1>3, <1>5 DEF ViewFits
<1>7. TellsTrue'
  BY <1>1 DEF TellsTrue, Excused, Coming
<1>8. Informed'
  <2> SUFFICES ASSUME NEW d \in Conns, NEW e \in Events,
                      ~stuck, origin # None, Listed(d)', e \in subs[d], e \notin skipped'
               PROVE  Knows(d, e)'
    BY <1>1 DEF Informed
  <2>1. Listed(d) /\ e \notin skipped
    BY <1>1, <1>4 DEF Listed
  <2>2. Knows(d, e)
    BY <2>1 DEF Informed
  <2>3. ToCome(d, e) => ToCome(d, e)'
    BY <1>1, <1>3 DEF ToCome
  <2>4. QED
    BY <1>1, <2>2, <2>3 DEF Knows, Excused, Coming
<1>9. QED
  BY <1>6, <1>7, <1>8 DEF Truthful

\* The server stops between two broadcasts, and no connection is left.
LEMMA StopTruthful ==
  ASSUME WebInv, StopWS
  PROVE  Truthful'
<1>1. /\ listed' = <<>> /\ told = None
      /\ told' = told
  BY DEF StopWS, Idle, loop
<1>2. \A d : ~Contains(listed', d)
  BY <1>1 DEF Contains
<1>3. QED
  BY <1>1, <1>2 DEF Truthful, ViewFits, TellsTrue, Informed, Listed

\* A subscription begins with what the wallet says.
LEMMA ServeTruthful ==
  ASSUME WebInv, NEW c \in Conns, Serve(c)
  PROVE  Truthful'
<1> USE DEF WebInv
<1>1. UNCHANGED <<listed, origin, stuck, queue, jobs, turn, told, view, switched, skipped>>
  BY DEF Serve, wallet, loop, webHistory
<1>2. ViewFits' /\ TellsTrue'
  BY <1>1 DEF Truthful, ViewFits, TellsTrue, Excused, Coming
<1>3. Informed'
  <2> SUFFICES ASSUME NEW d \in Conns, NEW e \in Events,
                      ~stuck, origin # None, Listed(d), e \in subs'[d], e \notin skipped
               PROVE  Knows(d, e)'
    BY <1>1 DEF Informed, Listed
  <2>1. \/ e \in subs[d] /\ heard'[d][e] = heard[d][e]
        \/ heard'[d][e] = origin[e]
    BY ServeDoes
  <2>2. CASE e \in subs[d] /\ heard'[d][e] = heard[d][e]
    <3>1. Knows(d, e)
      BY <2>2 DEF Informed
    <3>2. QED
      BY <1>1, <2>2, <3>1 DEF Knows, Excused, Coming, ToCome
  <2>3. CASE heard'[d][e] = origin[e]
    BY <1>1, <2>3 DEF Knows
  <2>4. QED
    BY <2>1, <2>2, <2>3
<1>4. QED
  BY <1>2, <1>3 DEF Truthful

\* An event in the queue is coming.
LEMMA ComingQueued ==
  ASSUME WebTypeOK, NEW E, queue' = Append(queue, E), jobs' = jobs
  PROVE  \A e : Coming(e) \/ e \in E => Coming(e)'
<1>1. /\ Len(queue) \in Nat /\ Len(queue') = Len(queue) + 1
      /\ queue'[Len(queue) + 1] = E
      /\ \A i \in 1..Len(queue) : queue'[i] = queue[i]
  BY DEF WebTypeOK
<1>2. Len(queue) + 1 \in 1..Len(queue') /\ \A i \in 1..Len(queue) : i \in 1..Len(queue')
  BY <1>1
<1>3. QED
  BY <1>1, <1>2 DEF Coming

\* A new origin: both of its events are sent.
LEMMA ConnectTruthful ==
  ASSUME WebInv, NEW c \in Conns, NEW k \in Chains, NEW a \in Addresses, ConnectOk(c, k, a)
  PROVE  Truthful'
<1> USE DEF WebInv
<1>1. UNCHANGED <<listed, subs, heard, stuck, jobs, told, view, turn, skipped>>
  BY DEF ConnectOk, subscriptions, loop
<1>2. CASE origin # None
  <2>1. UNCHANGED <<origin, queue, switched>>
    BY <1>2 DEF ConnectOk
  <2>2. QED
    BY <1>1, <2>1, FactsStay DEF facts, Truthful
<1>3. CASE origin = None
  <2>1. queue' = Append(queue, Events)
    BY <1>3 DEF ConnectOk
  <2>2. \A e \in Events : Coming(e)'
    BY <1>1, <2>1, ComingQueued
  <2>3. told # None => told.event \in Events
    BY DEF WebTypeOK, Telling
  <2>4. QED
    BY <1>1, <2>2, <2>3 DEF Truthful, ViewFits, TellsTrue, Informed, Knows
<1>4. QED
  BY <1>2, <1>3

\* The website switches its chain, of which nobody is told.
LEMMA SwitchTruthful ==
  ASSUME WebInv, NEW c \in Conns, NEW k \in Chains, SwitchOk(c, k)
  PROVE  Truthful'
<1> USE DEF WebInv
<1>1. UNCHANGED <<listed, subs, heard, stuck, jobs, queue, told, view, turn, skipped>>
  BY DEF SwitchOk, subscriptions, loop
<1>2. CASE c \in stale
  <2>1. UNCHANGED <<origin, switched>>
    BY <1>2 DEF SwitchOk
  <2>2. QED
    BY <1>1, <2>1, FactsStay DEF facts, Truthful
<1>3. CASE c \notin stale
  <2>1. origin \in Origin
    BY <1>3 DEF SwitchOk, At, Pointers, WebTypeOK
  <2>2. /\ origin' = [origin EXCEPT !.chainChanged = k]
        /\ switched' = (switched \/ k # origin.chainChanged)
    BY <1>3 DEF SwitchOk
  <2>3. origin'.accountsChanged = origin.accountsChanged /\ origin'.chainChanged = k
    BY <2>1, <2>2, SetChainType
  <2>4. \A e \in Events : origin'[e] = origin[e] \/ Excused(e)'
    BY <2>2, <2>3 DEF Events, Excused
  <2>5. \A e \in Events : Excused(e) => Excused(e)'
    BY <2>2 DEF Excused
  <2>6. origin # None
    BY <2>1, NoneAssumption
  <2>7. ViewFits'
    BY <1>1 DEF ViewFits
  <2>8. TellsTrue'
    <3> SUFFICES ASSUME ~stuck, told # None, ~told.live
                 PROVE  \/ told.value = origin'[told.event]
                        \/ Excused(told.event)' \/ Coming(told.event)
      BY <1>1 DEF TellsTrue, Coming
    <3>1. told.event \in Events
      BY DEF WebTypeOK, Telling
    <3>2. told.value = origin[told.event] \/ Excused(told.event) \/ Coming(told.event)
      BY <2>6 DEF TellsTrue
    <3>3. QED
      BY <1>1, <2>4, <2>5, <3>1, <3>2 DEF Excused
  <2>9. Informed'
    <3> SUFFICES ASSUME NEW d \in Conns, NEW e \in Events,
                        ~stuck, Listed(d), e \in subs[d], e \notin skipped
                 PROVE  Knows(d, e)'
      BY <1>1 DEF Informed, Listed
    <3>1. Knows(d, e)
      BY <2>6 DEF Informed
    <3>2. (Coming(e) => Coming(e)') /\ (ToCome(d, e) => ToCome(d, e)')
      BY <1>1 DEF Coming, ToCome
    <3>3. QED
      BY <1>1, <2>4, <2>5, <3>1, <3>2 DEF Knows
  <2>10. QED
    BY <2>7, <2>8, <2>9 DEF Truthful
<1>4. QED
  BY <1>2, <1>3

\* A command sends an event about all it changed.
LEMMA RevisionTruthful ==
  ASSUME WebInv, NEW o, NEW E, Revision(o, E)
  PROVE  Truthful'
<1> USE DEF WebInv
<1>1. /\ UNCHANGED <<listed, subs, heard, stuck, jobs, view, turn, skipped>>
      /\ origin' = o /\ queue' = Append(queue, E) /\ origin # None
      /\ switched' = (switched /\ "chainChanged" \notin E)
  BY DEF Revision, Change, subscriptions
<1>2. \A e : Coming(e) \/ e \in E => Coming(e)'
  BY <1>1, ComingQueued
<1>3. told' # told => told' # None /\ told # None /\ told'.event = told.event
                      /\ told'.shared = told.shared
  BY RevisionTold
<1>4. ViewFits'
  BY <1>1, <1>3 DEF ViewFits
<1>5. CASE o = None
  BY <1>1, <1>4, <1>5 DEF Truthful, TellsTrue, Informed
<1>6. CASE o # None
  <2>1. told' = told /\ \A e \in Events \ E : o[e] = origin[e]
    BY <1>6, RevisionTold DEF Revision
  <2>2. \A e \in Events : Excused(e) => Excused(e)' \/ e \in E
    BY <1>1 DEF Excused
  <2>3. TellsTrue'
    <3> SUFFICES ASSUME ~stuck, told # None, ~told.live
                 PROVE  \/ told.value = o[told.event]
                        \/ Excused(told.event)' \/ Coming(told.event)'
      BY <1>1, <2>1 DEF TellsTrue
    <3>1. told.event \in Events
      BY DEF WebTypeOK, Telling
    <3>2. told.value = origin[told.event] \/ Excused(told.event) \/ Coming(told.event)
      BY <1>1 DEF TellsTrue
    <3>3. QED
      BY <1>2, <2>1, <2>2, <3>1, <3>2
  <2>4. Informed'
    <3> SUFFICES ASSUME NEW d \in Conns, NEW e \in Events,
                        ~stuck, Listed(d), e \in subs[d], e \notin skipped
                 PROVE  Knows(d, e)'
      BY <1>1 DEF Informed, Listed
    <3>1. Knows(d, e)
      BY <1>1 DEF Informed
    <3>2. ToCome(d, e) => ToCome(d, e)'
      BY <1>1, <2>1 DEF ToCome
    <3>3. QED
      BY <1>1, <1>2, <2>1, <2>2, <3>1, <3>2 DEF Knows
  <2>5. QED
    BY <1>4, <2>3, <2>4 DEF Truthful
<1>7. QED
  BY <1>5, <1>6

\* After the last address is removed no goroutine changes the wallet any more.
LEMMA RemoveLastTruthful ==
  ASSUME WebInv, RemoveLastAddress
  PROVE  Truthful'
<1>1. UNCHANGED <<listed, told, view, skipped>> /\ stuck'
  BY DEF RemoveLastAddress, loop, webHistory
<1>2. QED
  BY <1>1 DEF WebInv, Truthful, ViewFits, TellsTrue, Informed

\* The loop reads an event: what was to come of it still is.
LEMMA TakeTruthful ==
  ASSUME WebInv, TakeEvent
  PROVE  Truthful'
<1> USE DEF WebInv
<1>1. /\ UNCHANGED <<listed, subs, heard, origin, stuck, told, view, turn, switched,
                     skipped>>
      /\ jobs = <<>> /\ queue # <<>> /\ queue' = Tail(queue)
  BY DEF TakeEvent, Idle, subscriptions, wallet, webHistory
<1>2. \A e \in Events : e \in Head(queue) => Contains(jobs', e)
  <2> DEFINE s == IF "chainChanged" \in Head(queue) THEN <<"chainChanged">> ELSE <<>>
             t == IF "accountsChanged" \in Head(queue) THEN <<"accountsChanged">> ELSE <<>>
  <2>1. /\ "chainChanged" \in Head(queue) => Contains(s, "chainChanged")
        /\ "accountsChanged" \in Head(queue) => Contains(t, "accountsChanged")
    BY DEF Contains
  <2>2. s \in Seq(Events) /\ t \in Seq(Events)
    <3>1. /\ <<"chainChanged">> \in Seq(Events) /\ <<"accountsChanged">> \in Seq(Events)
          /\ <<>> \in Seq(Events)
      BY DEF Events
    <3>2. QED
      BY <3>1
  <2>3. jobs' = s \o t
    BY DEF TakeEvent
  <2> HIDE DEF s, t
  <2>4. \A e : Contains(s, e) \/ Contains(t, e) => Contains(jobs', e)
    <3>1. /\ Len(s) \in Nat /\ Len(t) \in Nat /\ Len(jobs') = Len(s) + Len(t)
          /\ \A i \in 1..Len(s) : jobs'[i] = s[i] /\ i \in 1..Len(jobs')
      BY <2>2, <2>3
    <3>2. \A i \in 1..Len(t) : jobs'[Len(s) + i] = t[i] /\ Len(s) + i \in 1..Len(jobs')
      BY <2>2, <2>3, <3>1
    <3>3. QED
      BY <3>1, <3>2 DEF Contains
  <2>5. QED
    BY <2>1, <2>4 DEF Events
<1>3. \A e \in Events : Coming(e) => Coming(e)'
  <2> SUFFICES ASSUME NEW e \in Events, Coming(e) PROVE Coming(e)'
    OBVIOUS
  <2>1. PICK i \in 1..Len(queue) : e \in queue[i]
    BY <1>1 DEF Coming, Contains
  <2>2. /\ Len(queue) \in Nat /\ Len(queue') = Len(queue) - 1 /\ Head(queue) = queue[1]
        /\ \A j \in 1..(Len(queue) - 1) : queue'[j] = queue[j + 1]
    BY <1>1 DEF WebTypeOK
  <2>3. CASE i = 1
    BY <1>2, <2>1, <2>2, <2>3 DEF Coming
  <2>4. CASE i # 1
    <3>1. i - 1 \in 1..Len(queue') /\ (i - 1) + 1 = i
      BY <2>2, <2>4
    <3>2. queue'[i - 1] = queue[i]
      BY <2>2, <3>1
    <3>3. QED
      BY <2>1, <3>1, <3>2 DEF Coming
  <2>5. QED
    BY <2>3, <2>4
<1>4. told = None
  BY DEF TakeEvent, Idle
<1>5. Informed'
  <2> SUFFICES ASSUME NEW d \in Conns, NEW e \in Events,
                      ~stuck, origin # None, Listed(d), e \in subs[d], e \notin skipped
               PROVE  Knows(d, e)'
    BY <1>1 DEF Informed, Listed
  <2>1. Knows(d, e)
    BY DEF Informed
  <2>2. QED
    BY <1>1, <1>3, <2>1 DEF Knows, Excused, ToCome
<1>6. QED
  BY <1>1, <1>4, <1>5 DEF Truthful, ViewFits, TellsTrue

\* A broadcast begins: every connection is before it, and it tells what the wallet says.
LEMMA BroadcastTruthful ==
  ASSUME WebInv, Broadcast
  PROVE  Truthful'
<1> USE DEF WebInv
<1> DEFINE e == Head(jobs)
<1>1. /\ UNCHANGED <<listed, subs, heard, origin, stuck, queue, switched>>
      /\ jobs # <<>> /\ jobs' = Tail(jobs) /\ told = None
  BY DEF Broadcast, subscriptions, wallet
<1>2. CASE origin = None
  <2>1. told' = None
    BY <1>1, <1>2 DEF Broadcast
  <2>2. QED
    BY <1>1, <1>2, <2>1 DEF Truthful, ViewFits, TellsTrue, Informed
<1>3. CASE origin # None
  <2>1. /\ told' = [event |-> e, value |-> origin[e], live |-> e = "chainChanged",
                    shared |-> TRUE]
        /\ view' = listed /\ turn' = 1 /\ skipped' = skipped \ {e}
    BY <1>3 DEF Broadcast
  <2>2. told' # None
    <3>1. WebTypeOK'
      BY LoopTypes DEF Loop
    <3>2. e \in Events
      BY <1>1 DEF WebTypeOK
    <3>3. origin[e] \in Chains \cup Seq(Addresses)
      BY <1>3, <3>2, OriginSays DEF WebTypeOK
    <3>4. (e = "chainChanged") \in BOOLEAN
      OBVIOUS
    <3> HIDE DEF e
    <3>5. told' \in Telling
      BY <2>1, <3>2, <3>3, <3>4 DEF Telling
    <3>6. QED
      BY <3>5, NoneAssumption
  <2>3. told'.event = e /\ told'.value = origin[e]
    BY <2>1
  <2>4. \A f : Coming(f) => Coming(f)' \/ f = e
    <3>1. /\ Len(jobs) \in Nat /\ Len(jobs') = Len(jobs) - 1 /\ e = jobs[1]
          /\ \A j \in 1..(Len(jobs) - 1) : jobs'[j] = jobs[j + 1]
      BY <1>1 DEF WebTypeOK
    <3> HIDE DEF e
    <3>2. \A i \in 1..Len(jobs) :
            i = 1 \/ (i - 1 \in 1..Len(jobs') /\ jobs'[i - 1] = jobs[i])
      <4> SUFFICES ASSUME NEW i \in 1..Len(jobs), i # 1
                   PROVE  i - 1 \in 1..Len(jobs') /\ jobs'[i - 1] = jobs[i]
        OBVIOUS
      <4>1. i - 1 \in 1..Len(jobs') /\ (i - 1) + 1 = i
        BY <3>1
      <4>2. QED
        BY <3>1, <4>1
    <3>3. QED
      BY <1>1, <3>1, <3>2 DEF Coming, Contains
  <2> HIDE DEF e
  <2>5. ViewFits'
    BY <1>1, <2>1 DEF ViewFits, WebTypeOK
  <2>6. TellsTrue'
    BY <1>1, <2>3 DEF TellsTrue
  <2>7. Informed'
    <3> SUFFICES ASSUME NEW d \in Conns, NEW f \in Events,
                        ~stuck, Listed(d), f \in subs[d], f \notin skipped'
                 PROVE  Knows(d, f)'
      BY <1>1 DEF Informed, Listed
    <3>1. CASE f = e
      <4>1. \E i \in 1..Len(view') : i >= turn' /\ view'[i] = d
        BY <2>1 DEF Listed, Contains
      <4>2. QED
        BY <2>2, <2>3, <3>1, <4>1 DEF Knows, ToCome
    <3>2. CASE f # e
      <4>1. Knows(d, f) /\ ~ToCome(d, f)
        BY <1>1, <1>3, <2>1, <3>2 DEF Informed, ToCome
      <4>2. QED
        BY <1>1, <2>4, <3>2, <4>1 DEF Knows, Excused
    <3>3. QED
      BY <3>1, <3>2
  <2>8. QED
    BY <2>5, <2>6, <2>7 DEF Truthful
<1>4. QED
  BY <1>2, <1>3

\* A subscriber is told what the wallet says, unless another broadcast follows.
LEMMA TellTruthful ==
  ASSUME WebInv, Tell
  PROVE  Truthful'
<1> USE DEF WebInv
<1> DEFINE c == view[turn]  e == told.event
           v == IF told.live THEN origin[e] ELSE told.value
<1>1. /\ UNCHANGED <<listed, subs, origin, stuck, queue, jobs, told, view, switched,
                     skipped>>
      /\ told # None /\ turn <= Len(view) /\ turn' = turn + 1
      /\ heard' = IF e \notin subs[c] THEN heard ELSE [heard EXCEPT ![c][e] = v]
  BY DEF Tell, wallet, webHistory
<1>2. c \in Conns /\ e \in Events /\ turn \in Nat
  BY <1>1 DEF WebTypeOK, Telling
<1>3. ~stuck /\ origin # None => v = origin[e] \/ Excused(e) \/ Coming(e)
  BY <1>1 DEF TellsTrue
<1> HIDE DEF v
<1>4. \A d \in Conns, f \in Events :
        heard'[d][f] = IF d = c /\ f = e /\ e \in subs[c] THEN v ELSE heard[d][f]
  <2> DEFINE g == [heard[c] EXCEPT ![e] = v]
  <2>1. heard' = IF e \notin subs[c] THEN heard ELSE [heard EXCEPT ![c] = g]
    BY <1>1
  <2>2. \A f \in Events : g[f] = IF f = e THEN v ELSE heard[c][f]
    BY <1>2 DEF WebTypeOK
  <2>3. heard \in [Conns -> [Events -> Chains \cup Seq(Addresses) \cup {None}]]
    BY DEF WebTypeOK
  <2> HIDE DEF g, c, e, WebInv
  <2>4. QED
    BY <2>1, <2>2, <2>3
<1> HIDE DEF c, e
<1>5. ViewFits' /\ TellsTrue'
  BY <1>1 DEF ViewFits, TellsTrue, Excused, Coming
<1>6. Informed'
  <2> SUFFICES ASSUME NEW d \in Conns, NEW f \in Events,
                      ~stuck, origin # None, Listed(d), f \in subs[d], f \notin skipped
               PROVE  Knows(d, f)'
    BY <1>1 DEF Informed, Listed
  <2>1. Knows(d, f)
    BY DEF Informed
  <2>2. CASE d = c /\ f = e
    <3>1. heard'[d][f] = v
      BY <1>2, <1>4, <2>2
    <3>2. QED
      BY <1>1, <1>3, <2>2, <3>1 DEF Knows, Excused, Coming
  <2>3. CASE ~(d = c /\ f = e)
    <3>1. heard'[d][f] = heard[d][f]
      BY <1>4, <2>3
    <3>2. ToCome(d, f) => ToCome(d, f)'
      <4> SUFFICES ASSUME ToCome(d, f) PROVE ToCome(d, f)'
        OBVIOUS
      <4>1. PICK i \in 1..Len(view) : i >= turn /\ view[i] = d
        BY DEF ToCome
      <4>2. f = e
        BY DEF ToCome, e
      <4>3. i # turn
        BY <2>3, <4>1, <4>2 DEF c
      <4>4. i >= turn + 1
        BY <1>2, <4>1, <4>3
      <4>5. QED
        BY <1>1, <4>1, <4>4 DEF ToCome
    <3>3. QED
      BY <1>1, <2>1, <3>1, <3>2 DEF Knows, Excused, Coming
  <2>4. QED
    BY <2>2, <2>3
<1>7. QED
  BY <1>5, <1>6 DEF Truthful

\* A broadcast ends with no connection before it.
LEMMA ToldTruthful ==
  ASSUME WebInv, Told
  PROVE  Truthful'
<1> USE DEF WebInv
<1>1. /\ UNCHANGED <<listed, subs, heard, origin, stuck, queue, jobs, switched, skipped>>
      /\ told' = None /\ turn > Len(view)
  BY DEF Told, subscriptions, wallet, webHistory
<1>2. \A d, f : ~ToCome(d, f)
  <2>1. turn \in Nat /\ Len(view) \in Nat
    BY DEF WebTypeOK
  <2>2. QED
    BY <1>1, <2>1 DEF ToCome
<1>3. Informed'
  <2> SUFFICES ASSUME NEW d \in Conns, NEW f \in Events,
                      ~stuck, origin # None, Listed(d), f \in subs[d], f \notin skipped
               PROVE  Knows(d, f)'
    BY <1>1 DEF Informed, Listed
  <2>1. Knows(d, f)
    BY DEF Informed
  <2>2. QED
    BY <1>1, <1>2, <2>1 DEF Knows, Excused, Coming
<1>4. QED
  BY <1>1, <1>3 DEF Truthful, ViewFits, TellsTrue

-----------------------------------------------------------------------------
(* The theorems.                                                           *)

\* The invariant holds at first.
LEMMA WebInvInit ==
  WebInit => WebInv
<1> SUFFICES ASSUME WebInit PROVE WebInv
  OBVIOUS
<1> USE DEF WebInit
<1>1. <<>> \in Seq(Conns) /\ <<>> \in Seq(Events) /\ <<>> \in Seq(SUBSET Events)
      /\ Len(<<>>) = 0
  OBVIOUS
<1>2. 0 \in 0..MaxRequests /\ 0 \in 0..MaxChanges
  BY BoundsAssumption
<1>3. WebTypeOK
  <2>1. {up, server, routed, stuck, switched} \subseteq BOOLEAN
    OBVIOUS
  <2>2. pc \in [Conns -> {"none", "consent", "blocked", "over", "read", "connect",
                         "switch", "serve", "reply", "write"}]
    OBVIOUS
  <2>3. /\ subs \in [Conns -> SUBSET Events]
        /\ heard \in [Conns -> [Events -> Chains \cup Seq(Addresses) \cup {None}]]
    OBVIOUS
  <2>4. listed \in Seq(Conns) /\ view \in Seq(Conns) /\ turn \in 1..(Len(view) + 1)
    BY <1>1
  <2>5. QED
    BY <1>1, <1>2, <2>1, <2>2, <2>3, <2>4 DEF WebTypeOK
<1>4. Distinct(listed) /\ \A c : ~Contains(listed, c)
  BY DEF Distinct, Contains
<1>5. ListedSound /\ Informed
  BY <1>4 DEF ListedSound, Listed, Informed
<1>6. Newcomers /\ Pointers /\ ViewFits /\ TellsTrue
  BY DEF Newcomers, Pointers, ViewFits, TellsTrue
<1>7. QED
  BY <1>3, <1>5, <1>6 DEF WebInv

\* Every step keeps it.
LEMMA WebInvStep ==
  WebInv /\ [WebNext]_webVars => WebInv'
<1> SUFFICES ASSUME WebInv, [WebNext]_webVars PROVE WebInv'
  OBVIOUS
<1>1. CASE UNCHANGED webVars
  BY <1>1
     DEF webVars, serverVars, handlers, wallet, subscriptions, loop, counts, webHistory,
         WebInv, WebTypeOK, ListedSound, Newcomers, Pointers, ViewFits, TellsTrue,
         Informed, Listed, Knows, Excused, Coming, ToCome
<1>2. CASE WebNext
  <2>1. WebTypeOK' /\ ListedSound' /\ Newcomers' /\ Pointers'
    BY <1>2, WebTypesStep, ListedSoundStep, NewcomersStep, PointersStep DEF WebInv
  <2>2. Truthful'
    <3>1. ASSUME UNCHANGED facts PROVE Truthful'
      BY <3>1, FactsStay DEF WebInv, Truthful
    <3>2. ASSUME NEW c \in Conns, Allow(c) \/ Close(c) \/ Serve(c) PROVE Truthful'
      BY <3>2, AllowTruthful, CloseTruthful, ServeTruthful
    <3>3. ASSUME NEW c \in Conns, NEW k \in Chains, NEW a \in Addresses, ConnectOk(c, k, a)
          PROVE  Truthful'
      BY <3>3, ConnectTruthful
    <3>4. ASSUME NEW c \in Conns, NEW k \in Chains, SwitchOk(c, k) PROVE Truthful'
      BY <3>4, SwitchTruthful
    <3>5. ASSUME Command PROVE Truthful'
      BY <3>5, CommandRevises, RevisionTruthful, RemoveLastTruthful DEF WebInv
    <3>6. ASSUME StopWS \/ TakeEvent \/ Broadcast \/ Tell \/ Told PROVE Truthful'
      BY <3>6, StopTruthful, TakeTruthful, BroadcastTruthful, TellTruthful, ToldTruthful
    <3>7. QED
      BY <1>2, <3>1, <3>2, <3>3, <3>4, <3>5, <3>6, FactsUntouched
  <2>3. QED
    BY <2>1, <2>2 DEF WebInv, Truthful
<1>3. QED
  BY <1>1, <1>2

\* The invariant of the websocket server.
LEMMA WebInvariant ==
  WebSpec => []WebInv
<1>1. QED
  BY WebInvInit, WebInvStep, PTL DEF WebSpec

\* The state has its types; an origin lists no address twice.
THEOREM WebTypes ==
  WebSpec => []WebTypeOK
<1>1. WebInv => WebTypeOK
  BY DEF WebInv
<1>2. QED
  BY <1>1, WebInvariant, PTL

\* A connection is in WSConnections at most once, and only while it has its handler: for
\* any connections, however they come, go and are stopped.
THEOREM ConnectionsListedOnce ==
  WebSpec => []ListedOnce
<1>1. WebInv => ListedOnce
  <2> SUFFICES ASSUME WebInv PROVE ListedOnce
    OBVIOUS
  <2>1. DOMAIN listed = 1..Len(listed) /\ \A i \in 1..Len(listed) : listed[i] \in Conns
    BY DEF WebInv, WebTypeOK
  <2>2. \A i \in 1..Len(listed) : pc[listed[i]] \in Handled
    BY <2>1 DEF WebInv, ListedSound, Listed, Contains
  <2>3. QED
    BY <2>1, <2>2 DEF WebInv, ListedSound, Distinct, ListedOnce, Handled
<1>2. QED
  BY <1>1, WebInvariant, PTL

\* When all events are read, each subscriber was told last what the wallet says, but for
\* the two defects SubscribersUpToDate names: for any connections, chains, addresses and
\* number of changes, whatever comes during a broadcast.
THEOREM SubscribersAreTold ==
  WebSpec => []SubscribersUpToDate
<1>1. WebInv => SubscribersUpToDate
  <2> SUFFICES ASSUME WebInv, Quiet, origin # None, NEW i \in DOMAIN listed,
                      NEW e \in subs[listed[i]] \ skipped
               PROVE  \/ heard[listed[i]][e] = origin[e]
                      \/ e = "chainChanged" /\ switched
    BY DEF SubscribersUpToDate
  <2> DEFINE c == listed[i]
  <2>1. c \in Conns /\ Listed(c) /\ e \in Events /\ e \in subs[c] /\ e \notin skipped
    BY DEF WebInv, WebTypeOK, Listed, Contains
  <2>2. jobs = <<>> /\ queue = <<>> /\ told = None /\ ~stuck
    BY DEF Quiet, Idle
  <2>3. ~Coming(e) /\ ~ToCome(c, e)
    BY <2>2 DEF Coming, ToCome, Contains
  <2> HIDE DEF c
  <2>4. Knows(c, e)
    BY <2>1, <2>2 DEF WebInv, Informed
  <2>5. QED
    BY <2>3, <2>4 DEF Knows, Excused, c
<1>2. QED
  BY <1>1, WebInvariant, PTL
=============================================================================
