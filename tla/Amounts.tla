-------------------------------- MODULE Amounts --------------------------------
(***************************************************************************)
(* Amounts, fees and gas prices as the user types them, cmn/xf.go and      *)
(* Str2Wei of cmn/utils.go. A number is its digits times a power of ten;   *)
(* the digits are never touched, so a value is its power here. Pow10 hands *)
(* out pointers into one table, and ParseXF writes through them.           *)
(***************************************************************************)
EXTENDS Integers

CONSTANTS
  Typed,     \* the numbers typed: [frac |-> digits after the dot, suffix |-> its index]
  Decimals,  \* of the tokens
  MaxPower,  \* the largest power of ten used; the table has 100
  MaxTyped

LastSuffix == 26

ASSUME AmountsAssumption ==
  /\ Typed \subseteq [frac : Nat, suffix : -LastSuffix..LastSuffix]
  /\ MaxPower \in Nat /\ MaxTyped \in Nat
  /\ Decimals \subseteq 0..MaxPower
  /\ \A s \in Typed : 3 * s.suffix <= MaxPower

VARIABLES
  PD,        \* the decimals of each entry of the table; its Int stays a power of ten
  amount,    \* the last number read: the power it got, the one typed, and its suffix
  tainted,   \* history: the powers typed as a suffix of a number with a fraction
  left       \* how many more are typed

amountVars == <<PD, amount, tainted, left>>

AmountInit(n) ==
  /\ PD = [k \in 0..MaxPower |-> 0]
  /\ amount = [got |-> 0, typed |-> 0, suffix |-> 0, sure |-> TRUE]
  /\ tainted = {}
  /\ left = n

\* "Qa" is taken for the suffix "a", and the rest is no number.
Readable(s) == s.suffix # 5

\* The power that a suffix names: "k", "M" and so on in steps of three, down to "a" for
\* -18, but the last ones are "^76" and "/^76".
Named(i) == CASE i = LastSuffix -> 76 [] i = -LastSuffix -> -76 [] OTHER -> 3 * i

\* The power that s means.
Meant(s) == Named(s.suffix) - s.frac

\* Variant: the decimals of the suffix are overwritten.
ParseXFSets(s) ==
  IF s.suffix > 0
  THEN [table |-> [PD EXCEPT ![3 * s.suffix] = s.frac], power |-> 3 * s.suffix - s.frac]
  ELSE [table |-> PD, power |-> -s.frac]

\* The suffix counts by its index. The factor of one above one is the entry of the table
\* itself, and the digits after the dot are added to its decimals; other factors are fresh.
ParseXF(s) ==
  IF s.suffix > 0
  THEN LET d == PD[3 * s.suffix] + s.frac
       IN [table |-> [PD EXCEPT ![3 * s.suffix] = d], power |-> 3 * s.suffix - d]
  ELSE [table |-> PD, power |-> 3 * s.suffix - s.frac]

Taken(s) ==
  /\ PD' = ParseXF(s).table
  /\ tainted' = tainted \cup (IF s.suffix > 0 /\ s.frac > 0 THEN {3 * s.suffix} ELSE {})

Read(s, scale, got) ==
  /\ Taken(s)
  /\ amount' = [got |-> got, typed |-> Meant(s) + scale, suffix |-> s.suffix,
                sure |-> 3 * s.suffix \notin tainted /\ scale \notin tainted']

\* The dialogues "send" and of the gas price, and the command "send".
Str2Wei(s, d) == Readable(s) /\ Read(s, d, ParseXF(s).power + d - PD'[d])

\* The gas price in dollars, before it is divided by the price and the gas.
ParsePrice(s) == Readable(s) /\ Read(s, 0, ParseXF(s).power)

\* Letters among the digits, found after the suffix; "Qa" is an error at once.
Misread(s) ==
  /\ IF Readable(s) THEN Taken(s) ELSE UNCHANGED <<PD, tainted>>
  /\ UNCHANGED amount

AmountNext ==
  /\ left > 0
  /\ left' = left - 1
  /\ \E s \in Typed : (\E d \in Decimals : Str2Wei(s, d)) \/ ParsePrice(s) \/ Misread(s)

AmountSpec == AmountInit(MaxTyped) /\ [][AmountNext]_amountVars

\* By how much a suffix is read for more than it names.
Over(i) == IF i = LastSuffix THEN 2 ELSE 0

\* No sequence of numbers, typed in any of the dialogues, makes one count for more than was
\* typed, but one with "^76", for at most 100 times that; and it counts for exactly what was
\* typed unless it ends in "^76" or "/^76", or its own suffix, or the power of ten of its
\* token's decimals, was typed before, or in it, as the suffix of a number with a dot.
NeverMoreThanTyped ==
  /\ amount.got <= amount.typed + Over(amount.suffix)
  /\ amount.sure /\ amount.suffix \notin {LastSuffix, -LastSuffix} => amount.got = amount.typed

\* "convert string to the weis value": the amount is the one typed. The code does not keep
\* it: "1.5k" is 1500 the first time, 150 the second, 15 the third.
AmountIsAsTyped == amount.got = amount.typed
=============================================================================
