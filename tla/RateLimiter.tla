----------------------------- MODULE RateLimiter -----------------------------
(***************************************************************************)
(* The rate limiter of one blockchain in eth/eth_server.go.  Callers wait  *)
(* in waitForToken; what a call returns tunes the rate; a new rate is      *)
(* saved to the wallet by a goroutine of its own, and the "saved" that the *)
(* wallet then sends comes back to UpdateRateLimiterSettings.  Each method *)
(* holds the limiter's mutex and is one step; persistRateLimit holds none  *)
(* and is two.  A save may fail: the change stays in memory and nothing is *)
(* sent.  Another wallet may be opened, which the limiter is not told of.  *)
(* A time is counted in units, and no further than where the code stops to *)
(* tell it from a later one.                                               *)
(***************************************************************************)
EXTENDS Integers

CONSTANTS
  initialRateLimit, minRateLimit, maxRateLimit,  \* calls per second
  increasePercent, decreasePercent,
  increaseInterval, backoffTime, Second,         \* in units of time
  UserRates,   \* the rates the user may enter; 0: never entered
  MaxCalls,    \* bound: calls under way at once
  MaxSaves     \* bound: goroutines of persistRateLimit for one rate, and
               \* "saved" messages under way

ASSUME RatesAssumption ==
  /\ {minRateLimit, initialRateLimit, maxRateLimit} \subseteq Nat \ {0}
  /\ minRateLimit <= initialRateLimit /\ initialRateLimit <= maxRateLimit
  /\ increasePercent \in 0..100 /\ decreasePercent \in 0..100
ASSUME TimesAssumption == {increaseInterval, backoffTime, Second} \subseteq Nat \ {0}
ASSUME UserAssumption == UserRates \subseteq Nat
ASSUME SavesAssumption == MaxCalls \in Nat /\ MaxSaves \in Nat

Rate == Nat \ {0}
Limiter == [rate : Rate, auto : BOOLEAN]
NoLimiter == [rate |-> 0, auto |-> FALSE]

\* RPCRateLimit and RPCRateAuto of the blockchain.
Chain == [rate : Nat, auto : BOOLEAN]

VARIABLES
  limiter,      \* maxTokens and autoMode, or NoLimiter before the first call
  sinceCall,    \* time since lastCallTime
  sinceSuccess, \* time since lastSuccess
  backoff,      \* time until backoffUntil
  calls,        \* calls that got their token and have not returned
  saves,        \* rates persistRateLimit was started with and has not looked at
  writes,       \* those it has decided to write
  strays,       \* are there goroutines about to write to a wallet no longer open?
  chain,        \* the blockchain in the wallet
  saved,        \* "saved" messages not yet handled
  owed,         \* history: what is left of backoffTime since the last 429
  unannounced   \* history: the settings changed by a save that failed or with the
                \* wallet opened, and have not been read since

clocks == <<sinceCall, sinceSuccess, backoff>>
store == <<saves, writes, strays, chain, saved, unannounced>>
vars == <<limiter, clocks, calls, store, owed>>

-----------------------------------------------------------------------------
\* The rate and mode the settings of a blockchain stand for.
Settings(c) == [rate |-> IF c.rate > 0 THEN c.rate ELSE initialRateLimit,
                auto |-> c.auto \/ c.rate = 0]

MinInterval(rate) == Second \div rate

Least(a, b) == IF a < b THEN a ELSE b
Greatest(a, b) == IF a < b THEN b ELSE a

Increased(rate) ==
  Least(maxRateLimit, rate + (rate * increasePercent) \div 100)

Decreased(rate) ==
  Greatest(minRateLimit, rate - (rate * decreasePercent) \div 100)

\* Goroutines, as the number of them for each rate.
NoGoroutine == [r \in {} |-> 0]
Pending(bag, r) == IF r \in DOMAIN bag THEN bag[r] ELSE 0
Start(bag, r) == [s \in DOMAIN bag \cup {r} |-> Pending(bag, s) + IF s = r THEN 1 ELSE 0]
End(bag, r) == [s \in {t \in DOMAIN bag : t # r \/ bag[t] > 1} |->
                  IF s = r THEN bag[s] - 1 ELSE bag[s]]
Room(bag, r) == Pending(bag, r) < MaxSaves

-----------------------------------------------------------------------------
\* A blockchain comes from the predefined ones, no rate set, or from the user.
Init ==
  /\ limiter = NoLimiter
  /\ sinceCall = 0 /\ sinceSuccess = 0 /\ backoff = 0
  /\ owed = 0
  /\ calls = 0
  /\ saves = NoGoroutine /\ writes = NoGoroutine /\ strays = FALSE
  /\ unannounced = FALSE
  /\ chain \in [rate : UserRates, auto : BOOLEAN]
  /\ saved = 0

GetRateLimiter ==
  /\ limiter = NoLimiter
  /\ limiter' = Settings(chain)
  /\ sinceCall' = 0 /\ sinceSuccess' = 0
  /\ unannounced' = FALSE
  /\ UNCHANGED <<backoff, calls, saves, writes, strays, chain, saved, owed>>

\* Is it time to increase the rate?
Due == limiter.auto /\ sinceSuccess > increaseInterval /\ limiter.rate < maxRateLimit

\* waitForToken returns.
WaitForToken ==
  /\ limiter # NoLimiter
  /\ calls < MaxCalls
  /\ backoff = 0
  /\ sinceCall >= MinInterval(limiter.rate)
  /\ LET rate == IF Due THEN Increased(limiter.rate) ELSE limiter.rate
         more == rate > limiter.rate
     IN  /\ more => Room(saves, rate)
         /\ limiter' = [limiter EXCEPT !.rate = rate]
         /\ saves' = IF more THEN Start(saves, rate) ELSE saves
  /\ sinceSuccess' = IF Due THEN 0 ELSE sinceSuccess
  /\ sinceCall' = 0
  /\ calls' = calls + 1
  /\ UNCHANGED <<backoff, owed, writes, strays, chain, saved, unannounced>>

OnSuccess ==
  /\ calls > 0
  /\ calls' = calls - 1
  /\ sinceSuccess' = 0
  /\ UNCHANGED <<limiter, sinceCall, backoff, store, owed>>

OnRateLimitError ==
  /\ calls > 0
  /\ calls' = calls - 1
  /\ backoff' = backoffTime
  /\ owed' = backoffTime
  /\ LET rate == IF limiter.auto THEN Decreased(limiter.rate) ELSE limiter.rate
         less == rate < limiter.rate
     IN  /\ less => Room(saves, rate)
         /\ limiter' = [limiter EXCEPT !.rate = IF less THEN rate ELSE @]
         /\ saves' = IF less THEN Start(saves, rate) ELSE saves
  /\ UNCHANGED <<sinceCall, sinceSuccess, writes, strays, chain, saved, unannounced>>

\* Another error: handleRPCResult only notifies.
OnOtherError ==
  /\ calls > 0
  /\ calls' = calls - 1
  /\ UNCHANGED <<limiter, clocks, store, owed>>

\* persistRateLimit looks at the settings ...
PersistCheck(r) ==
  /\ r \in DOMAIN saves
  /\ Room(writes, r)
  /\ saves' = End(saves, r)
  /\ writes' = IF Settings(chain).auto /\ chain.rate # r THEN Start(writes, r)
               ELSE writes
  /\ UNCHANGED <<limiter, clocks, calls, strays, chain, saved, unannounced, owed>>

\* A save ends: it is announced, or it failed and the change is in memory only.
Announced == saved < MaxSaves /\ saved' = saved + 1 /\ UNCHANGED unannounced
Unsaved == saved' = saved /\ unannounced' = TRUE

\* Variant: the rate is not saved, so no "saved" follows.
PersistWriteOnly(r) ==
  /\ r \in DOMAIN writes
  /\ writes' = End(writes, r)
  /\ chain' = [chain EXCEPT !.rate = r]
  /\ UNCHANGED <<limiter, clocks, calls, saves, strays, saved, unannounced, owed>>

\* ... and writes and saves; nobody looks at the error of the save.
PersistWrite(r) ==
  /\ r \in DOMAIN writes
  /\ writes' = End(writes, r)
  /\ chain' = [chain EXCEPT !.rate = r]
  /\ Announced \/ Unsaved
  /\ UNCHANGED <<limiter, clocks, calls, saves, strays, owed>>

\* One that looked at a wallet closed since writes and saves that one.
PersistStray ==
  /\ strays
  /\ strays' \in BOOLEAN
  /\ Announced \/ UNCHANGED <<saved, unannounced>>
  /\ UNCHANGED <<limiter, clocks, calls, saves, writes, chain, owed>>

\* Variant: the timing starts afresh with the settings.
UpdateRateLimiterSettingsAfresh ==
  /\ saved > 0
  /\ saved' = saved - 1
  /\ limiter' = IF limiter = NoLimiter THEN limiter ELSE Settings(chain)
  /\ backoff' = 0
  /\ unannounced' = FALSE
  /\ UNCHANGED <<sinceCall, sinceSuccess, calls, saves, writes, strays, chain, owed>>

\* updateConnections on "saved"
UpdateRateLimiterSettings ==
  /\ saved > 0
  /\ saved' = saved - 1
  /\ limiter' = IF limiter = NoLimiter THEN limiter ELSE Settings(chain)
  /\ unannounced' = FALSE
  /\ UNCHANGED <<clocks, calls, saves, writes, strays, chain, owed>>

\* EditBlockchain from the dialogue, which never enters a rate below 1.
EditBlockchain(rate, auto) ==
  /\ rate > 0
  /\ chain' = [rate |-> rate, auto |-> auto]
  /\ Announced \/ Unsaved
  /\ UNCHANGED <<limiter, clocks, calls, saves, writes, strays, owed>>

\* Any other change of the wallet.
SaveWallet ==
  /\ Announced
  /\ UNCHANGED <<limiter, clocks, calls, saves, writes, strays, chain, owed>>

\* Another wallet is opened: the connections are made anew, the limiters are left.  A
\* "saved" that arrived while no wallet was open is dropped.
OpenWallet(rate, auto) ==
  /\ chain' = [rate |-> rate, auto |-> auto]
  /\ unannounced' = TRUE
  /\ saved' \in 0..saved
  /\ writes' = NoGoroutine
  /\ strays' = (strays \/ writes # NoGoroutine)
  /\ UNCHANGED <<limiter, clocks, calls, saves, owed>>

Tick ==
  /\ limiter # NoLimiter
  /\ sinceCall' = Least(Second, sinceCall + 1)
  /\ sinceSuccess' = Least(increaseInterval + 1, sinceSuccess + 1)
  /\ owed' = Greatest(0, owed - 1)
  /\ backoff' = Greatest(0, backoff - 1)
  /\ UNCHANGED <<limiter, calls, store>>

Persist ==
  \/ \E r \in DOMAIN saves \cup DOMAIN writes : PersistCheck(r) \/ PersistWrite(r)
  \/ PersistStray

Next ==
  \/ GetRateLimiter
  \/ WaitForToken
  \/ OnSuccess \/ OnRateLimitError \/ OnOtherError
  \/ Persist
  \/ UpdateRateLimiterSettings
  \/ \E rate \in UserRates, auto \in BOOLEAN :
       EditBlockchain(rate, auto) \/ OpenWallet(rate, auto)
  \/ SaveWallet
  \/ Tick

Spec == Init /\ [][Next]_vars

-----------------------------------------------------------------------------
\* Types of the state; a rate is never 0, by which waitForToken divides.
TypeOK ==
  /\ limiter \in Limiter \cup {NoLimiter}
  /\ sinceCall \in 0..Second
  /\ sinceSuccess \in 0..(increaseInterval + 1)
  /\ backoff \in 0..backoffTime
  /\ calls \in 0..MaxCalls
  /\ \A bag \in {saves, writes} : DOMAIN bag \subseteq Rate
                                 /\ \A r \in DOMAIN bag : bag[r] \in 1..MaxSaves
  /\ chain \in Chain
  /\ saved \in 0..MaxSaves /\ strays \in BOOLEAN /\ unannounced \in BOOLEAN
  /\ owed \in 0..backoffTime

Settled ==
  saves = NoGoroutine /\ writes = NoGoroutine /\ saved = 0 /\ ~unannounced

\* Tuning, saving and reading back race, but they settle: when no save and no
\* "saved" is under way the limiter does what the wallet says, unless the settings last
\* changed by a save that failed or with the wallet opened, of which it is not told.
SettlesOnWallet ==
  Settled /\ limiter # NoLimiter => limiter = Settings(chain)

\* After a 429 no caller gets a token before the back-off is over, whatever
\* settings arrive meanwhile.
BackoffIsKept ==
  [][calls' > calls => owed = 0]_vars

\* "auto if explicitly set or if rate is 0/not set": saving a tuned rate leaves the mode
\* of a blockchain as the user set it.
StaysAuto == [][Persist => Settings(chain').auto = Settings(chain).auto]_vars

\* "saves the rate limit to the blockchain settings (only in auto mode)":
\* persistRateLimit never writes over a rate the user fixed.
SavedOnlyInAutoMode == [][Persist /\ chain' # chain => Settings(chain).auto]_vars

\* "increase rate after 60 seconds without errors": a call that gets its token when that
\* time is over, counted as the code does from the last success, finds the rate increased.
IncreasesWhenDue == [][calls' > calls /\ Due => limiter'.rate > limiter.rate]_vars
=============================================================================
