------------------------------ MODULE WalletProofs ------------------------------
(***************************************************************************)
(* The wallet.  What has made it to its file stays there, and the file     *)
(* opens with the password the user was told: for any goroutines that      *)
(* save, any changes, passwords and Wallets left in memory, and ends of    *)
(* the program.                                                            *)
(*                                                                         *)
(* And its tokens: for any blockchains, addresses and symbols, they come   *)
(* and go with one token to an address, and marked as the look-ups take    *)
(* them.                                                                   *)
(***************************************************************************)
EXTENDS WalletFile, WalletTokens, SequenceLemmas

Files == {NoFile, Torn} \cup {Whole(c) : c \in Contents}

Wallets == [data : SUBSET Changes, pass : Passwords, holder : Workers \cup {NoOne},
            stale : BOOLEAN]

Steps == {"idle", "work", "save", "lock", "marshal", "write", "saved", "current", "copy",
          "confirm", "restoring"}

Operations == {"none", "save", "password", "create", "open", "backup", "restore"}

Goroutines == [pc : Steps, op : Operations, w : Nat, change : SUBSET Changes, pass : Passwords,
               buf : Contents]

Saving(p) == proc[p].pc \in {"marshal", "write", "saved"}

\* What is in the variables.
Typed ==
  /\ file \in Files /\ backup \in Files
  /\ mem \in Seq(Wallets)
  /\ current \in 0..Len(mem)
  /\ proc \in [Workers -> Goroutines]
  /\ written \in SUBSET Changes /\ chosen \in Passwords /\ excuses \in SUBSET Excuses
  /\ fails \in Nat

\* What a goroutine is at, and the Wallet it is at it with.
BusyAt(p) ==
  /\ proc[p].w \in 0..Len(mem)
  /\ proc[p].pc = "idle" => proc[p].w = 0 /\ proc[p].op = "none"
  /\ proc[p].pc \in {"work", "save", "lock"} => proc[p].op = "save"
  /\ Saving(p) => proc[p].op \in {"save", "password", "create", "open"}
  /\ proc[p].pc = "current" => proc[p].op = "open"
  /\ proc[p].pc \in {"copy", "confirm", "restoring"} =>
       proc[p].w = 0 /\ proc[p].op \in {"backup", "restore"}
  /\ proc[p].op \in {"save", "password", "create", "open"} => proc[p].w # 0
  /\ Saving(p) => mem[proc[p].w].holder = p

Busy == \A p \in Workers : BusyAt(p)

\* The mutex of a Wallet is held by one that is at it.
Held == \A i \in DOMAIN mem : mem[i].holder # NoOne => proc[mem[i].holder].w = i

\* Who opens has the Wallet alone.
Private ==
  \A p \in Workers :
    proc[p].op = "open" =>
      /\ current # proc[p].w
      /\ \A q \in Workers \ {p} : proc[q].w # proc[p].w

\* A file that nobody writes is whole, or it is known that it is not.
TornIsKnown ==
  /\ file.there /\ ~file.whole /\ Writing = {} => "torn" \in excuses
  /\ ~file.there => written = {}

\* Nothing that was in the file is missing in the file, nor in a Wallet that knows the file.
Kept ==
  "stale" \notin excuses =>
    /\ file.whole => written \subseteq file.content.data
    /\ \A i \in DOMAIN mem : ~mem[i].stale => written \subseteq mem[i].data
    /\ \A p \in Workers : proc[p].pc = "write" =>
         /\ ~mem[proc[p].w].stale => written \subseteq proc[p].buf.data
         /\ proc[p].buf.data \subseteq mem[proc[p].w].data

\* The bytes are encrypted with the password that was taken for them.
Encrypted == \A p \in Workers : proc[p].pc = "write" => proc[p].buf.pass = proc[p].pass

\* p has given its Wallet a password that is not in the file yet.
Changing(p) == proc[p].op = "password" /\ proc[p].pc \in {"marshal", "write"}

InUse(i) == i = current \/ \E p \in Workers : proc[p].op \in {"save", "password", "open"} /\ proc[p].w = i

\* The password of the file, and of the Wallets in use that know the file, is the chosen one.
AsTold ==
  excuses \cap {"stale", "untold", "overtaken"} = {} =>
    /\ file.whole => file.content.pass = chosen
    /\ \A i \in DOMAIN mem :
         ~mem[i].stale /\ InUse(i) /\ (\A p \in Workers : Changing(p) => proc[p].w # i)
           => mem[i].pass = chosen

IInv == Typed /\ Busy /\ Held /\ Private /\ TornIsKnown /\ Kept
        /\ Encrypted /\ AsTold

-----------------------------------------------------------------------------
\* The contents of files, and what an idle goroutine has.
LEMMA Constants ==
  ASSUME NEW x \in Passwords
  PROVE  /\ NoFile.content \in Contents /\ NoFile.content.data = {}
         /\ Idle.pc = "idle" /\ Idle.op = "none" /\ Idle.w = 0
         /\ Idle \in Goroutines
         /\ ~NoFile.there /\ ~NoFile.whole /\ Torn.there /\ ~Torn.whole
         /\ Torn.content = NoFile.content
         /\ \A c \in Contents : Whole(c).there /\ Whole(c).whole /\ Whole(c).content = c
<1>1. (CHOOSE p \in Passwords : TRUE) \in Passwords
  OBVIOUS
<1>2. NoFile.content \in Contents /\ NoFile.content.data = {}
  BY <1>1 DEF NoFile, Contents
<1>3. NoFile.content.pass \in Passwords
  BY <1>2 DEF Contents
<1>4. QED
  BY <1>2, <1>3 DEF NoFile, Torn, Whole, Idle, Steps, Operations, Goroutines

\* One Wallet of those in memory is put in place of another.
LEMMA Replace ==
  ASSUME NEW S, NEW s \in Seq(S), NEW i \in 1..Len(s), NEW e \in S,
         NEW t, t = [s EXCEPT ![i] = e]
  PROVE  /\ t \in Seq(S) /\ Len(t) = Len(s) /\ DOMAIN t = 1..Len(s) /\ DOMAIN s = 1..Len(s)
         /\ t[i] = e /\ \A j \in 1..Len(s) : j # i => t[j] = s[j]
<1>1. Len(s) \in Nat /\ s \in [1..Len(s) -> S]
  OBVIOUS
<1>2. t \in [1..Len(s) -> S]
  BY <1>1
<1>3. QED
  BY <1>1, <1>2

\* What a step does to a goroutine, and to the Wallets in memory.
Becomes(p, pc, op, w) ==
  /\ proc' \in [Workers -> Goroutines]
  /\ proc'[p].pc = pc /\ proc'[p].op = op /\ proc'[p].w = w
  /\ \A q \in Workers \ {p} : proc'[q] = proc[q]

Puts(i, d, x, h) ==
  /\ i \in 1..Len(mem) /\ mem' \in Seq(Wallets) /\ Len(mem') = Len(mem)
  /\ mem'[i] = [data |-> d, pass |-> x, holder |-> h, stale |-> mem[i].stale]
  /\ \A j \in 1..Len(mem) : j # i => mem'[j] = mem[j]

Adds(d, x, h) ==
  /\ mem' \in Seq(Wallets) /\ Len(mem') = Len(mem) + 1
  /\ mem'[Len(mem) + 1] = [data |-> d, pass |-> x, holder |-> h, stale |-> FALSE]
  /\ \A j \in 1..Len(mem) : mem'[j] = mem[j]

Ages(i) ==
  /\ mem' \in Seq(Wallets) /\ Len(mem') = Len(mem)
  /\ \A j \in 1..Len(mem) :
       mem'[j] = [data |-> mem[j].data, pass |-> mem[j].pass, holder |-> mem[j].holder,
                  stale |-> mem[j].stale \/ j # i]

\* What is known of a Wallet.
LEMMA InMemory ==
  ASSUME mem \in Seq(Wallets)
  PROVE  /\ Len(mem) \in Nat /\ DOMAIN mem = 1..Len(mem)
         /\ \A i \in 1..Len(mem) :
              /\ mem[i] \in Wallets /\ mem[i].data \in SUBSET Changes /\ mem[i].pass \in Passwords
              /\ mem[i].holder \in Workers \cup {NoOne} /\ mem[i].stale \in BOOLEAN
<1>1. \A r \in Wallets : /\ r.data \in SUBSET Changes /\ r.pass \in Passwords
                         /\ r.holder \in Workers \cup {NoOne} /\ r.stale \in BOOLEAN
  BY DEF Wallets
<1>2. Len(mem) \in Nat /\ DOMAIN mem = 1..Len(mem) /\ \A i \in 1..Len(mem) : mem[i] \in Wallets
  OBVIOUS
<1>3. QED
  BY <1>1, <1>2

\* Parts of one Wallet are changed.
LEMMA Alter ==
  ASSUME mem \in Seq(Wallets), NEW i \in 1..Len(mem), NEW d \in SUBSET Changes,
         NEW h \in Workers \cup {NoOne}, NEW x \in Passwords
  PROVE  /\ mem' = [mem EXCEPT ![i].holder = h] => Puts(i, mem[i].data, mem[i].pass, h)
         /\ mem' = [mem EXCEPT ![i].data = d] => Puts(i, d, mem[i].pass, mem[i].holder)
         /\ mem' = [mem EXCEPT ![i].holder = h, ![i].data = d] => Puts(i, d, mem[i].pass, h)
         /\ mem' = [mem EXCEPT ![i].holder = h, ![i].pass = x] => Puts(i, mem[i].data, x, h)
<1>1. /\ mem[i] \in Wallets /\ mem \in [1..Len(mem) -> Wallets]
      /\ mem[i].data \in SUBSET Changes /\ mem[i].pass \in Passwords
      /\ mem[i].holder \in Workers \cup {NoOne} /\ mem[i].stale \in BOOLEAN
  BY InMemory
<1>2. ASSUME NEW r \in Wallets
      PROVE  /\ [r EXCEPT !.holder = h] =
                  [data |-> r.data, pass |-> r.pass, holder |-> h, stale |-> r.stale]
             /\ [r EXCEPT !.pass = x] =
                  [data |-> r.data, pass |-> x, holder |-> r.holder, stale |-> r.stale]
             /\ [r EXCEPT !.data = d] =
                  [data |-> d, pass |-> r.pass, holder |-> r.holder, stale |-> r.stale]
  BY DEF Wallets
<1>3. PICK r \in Wallets :
        /\ r = [mem[i] EXCEPT !.holder = h]
        /\ r = [data |-> mem[i].data, pass |-> mem[i].pass, holder |-> h,
                stale |-> mem[i].stale]
  BY <1>1, <1>2 DEF Wallets
<1>4. [mem[i] EXCEPT !.holder = h, !.data = d] =
        [data |-> d, pass |-> mem[i].pass, holder |-> h, stale |-> mem[i].stale]
  BY <1>2, <1>3
<1>5. [mem[i] EXCEPT !.holder = h, !.pass = x] =
        [data |-> mem[i].data, pass |-> x, holder |-> h, stale |-> mem[i].stale]
  BY <1>2, <1>3
<1>6. ASSUME NEW e \in SUBSET Changes, NEW y \in Passwords, NEW g \in Workers \cup {NoOne},
             mem' = [mem EXCEPT ![i] = [data |-> e, pass |-> y, holder |-> g,
                                        stale |-> mem[i].stale]]
      PROVE  Puts(i, e, y, g)
  <2>1. [data |-> e, pass |-> y, holder |-> g, stale |-> mem[i].stale] \in Wallets
    BY <1>1 DEF Wallets
  <2>2. QED
    BY <1>6, <2>1, Replace DEF Puts
<1>7. ASSUME mem' = [mem EXCEPT ![i].holder = h] PROVE Puts(i, mem[i].data, mem[i].pass, h)
  BY <1>1, <1>2, <1>6, <1>7
<1>8. ASSUME mem' = [mem EXCEPT ![i].data = d] PROVE Puts(i, d, mem[i].pass, mem[i].holder)
  BY <1>1, <1>2, <1>6, <1>8
<1>9. ASSUME mem' = [mem EXCEPT ![i].holder = h, ![i].data = d]
      PROVE  Puts(i, d, mem[i].pass, h)
  BY <1>1, <1>4, <1>6, <1>9
<1>10. ASSUME mem' = [mem EXCEPT ![i].holder = h, ![i].pass = x]
       PROVE  Puts(i, mem[i].data, x, h)
  BY <1>1, <1>5, <1>6, <1>10
<1>11. QED
  BY <1>7, <1>8, <1>9, <1>10

\* A Wallet more in memory, and the Wallets that are out of date.
LEMMA AddAge ==
  ASSUME mem \in Seq(Wallets)
  PROVE  /\ \A d \in SUBSET Changes, x \in Passwords, h \in Workers :
              mem' = Append(mem, [data |-> d, pass |-> x, holder |-> h, stale |-> FALSE])
                => Adds(d, x, h)
         /\ \A i \in Nat : mem' = Outdated(mem, i) => Ages(i)
<1>1. ASSUME NEW d \in SUBSET Changes, NEW x \in Passwords, NEW h \in Workers,
             mem' = Append(mem, [data |-> d, pass |-> x, holder |-> h, stale |-> FALSE])
      PROVE  Adds(d, x, h)
  <2>1. [data |-> d, pass |-> x, holder |-> h, stale |-> FALSE] \in Wallets
    BY DEF Wallets
  <2>2. QED
    BY <1>1, <2>1 DEF Adds
<1>2. ASSUME NEW i \in Nat, mem' = Outdated(mem, i) PROVE Ages(i)
  <2>1. /\ mem' = [j \in 1..Len(mem) |-> [mem[j] EXCEPT !.stale = @ \/ j # i]]
        /\ Len(mem) \in Nat
    BY <1>2, InMemory DEF Outdated
  <2>2. ASSUME NEW j \in 1..Len(mem)
        PROVE  /\ mem'[j] \in Wallets
               /\ mem'[j] = [data |-> mem[j].data, pass |-> mem[j].pass,
                             holder |-> mem[j].holder, stale |-> mem[j].stale \/ j # i]
    <3>1. mem[j] \in Wallets /\ mem'[j] = [mem[j] EXCEPT !.stale = @ \/ j # i]
      BY <2>1, InMemory
    <3>2. QED
      BY <3>1 DEF Wallets
  <2>3. mem' \in [1..Len(mem) -> Wallets]
    BY <2>1, <2>2
  <2>4. mem' \in Seq(Wallets) /\ Len(mem') = Len(mem)
    BY <2>1, <2>3
  <2>5. QED
    BY <2>2, <2>4 DEF Ages
<1>3. QED
  BY <1>1, <1>2

\* A goroutine with other values.
LEMMA Goes ==
  ASSUME Typed, NEW p \in Workers, NEW r \in Goroutines, proc' = [proc EXCEPT ![p] = r]
  PROVE  Becomes(p, r.pc, r.op, r.w) /\ proc'[p] = r
<1>1. proc \in [Workers -> Goroutines]
  BY DEF Typed
<1>2. QED
  BY <1>1 DEF Becomes

\* A goroutine at another step.
LEMMA ToPc ==
  ASSUME NEW g \in Goroutines, NEW pc \in Steps
  PROVE  \E r \in Goroutines : /\ r = [g EXCEPT !.pc = pc]
                               /\ r.pc = pc /\ r.op = g.op /\ r.w = g.w /\ r.pass = g.pass /\ r.buf = g.buf
<1>1. [g EXCEPT !.pc = pc] \in Goroutines
  BY DEF Goroutines
<1>2. QED
  BY <1>1 DEF Goroutines

\* With a change.
LEMMA ToChange ==
  ASSUME NEW g \in Goroutines, NEW c \in SUBSET Changes
  PROVE  \E r \in Goroutines : /\ r = [g EXCEPT !.change = c]
                               /\ r.pc = g.pc /\ r.op = g.op /\ r.w = g.w /\ r.pass = g.pass
<1>1. [g EXCEPT !.change = c] \in Goroutines
  BY DEF Goroutines
<1>2. QED
  BY <1>1 DEF Goroutines

\* With a password.
LEMMA ToPass ==
  ASSUME NEW g \in Goroutines, NEW x \in Passwords
  PROVE  \E r \in Goroutines : /\ r = [g EXCEPT !.pass = x]
                               /\ r.pc = g.pc /\ r.op = g.op /\ r.w = g.w /\ r.pass = x
<1>1. [g EXCEPT !.pass = x] \in Goroutines
  BY DEF Goroutines
<1>2. QED
  BY <1>1 DEF Goroutines

\* With the bytes to be written.
LEMMA ToBuf ==
  ASSUME NEW g \in Goroutines, NEW b \in Contents
  PROVE  \E r \in Goroutines : /\ r = [g EXCEPT !.buf = b]
                               /\ r.pc = g.pc /\ r.op = g.op /\ r.w = g.w /\ r.pass = g.pass /\ r.buf = b
<1>1. [g EXCEPT !.buf = b] \in Goroutines
  BY DEF Goroutines
<1>2. QED
  BY <1>1 DEF Goroutines

\* A goroutine goes on to its next step.
LEMMA Steps1 ==
  ASSUME Typed, NEW p \in Workers, NEW pc \in Steps, Step(p, pc)
  PROVE  /\ Becomes(p, pc, proc[p].op, proc[p].w)
         /\ proc'[p].pass = proc[p].pass /\ proc'[p].buf = proc[p].buf
<1>1. proc \in [Workers -> Goroutines] /\ proc[p] \in Goroutines
  BY DEF Typed
<1>2. PICK r \in Goroutines : /\ r = [proc[p] EXCEPT !.pc = pc]
                              /\ r.pc = pc /\ r.op = proc[p].op /\ r.w = proc[p].w
                              /\ r.pass = proc[p].pass /\ r.buf = proc[p].buf
  BY <1>1, ToPc
<1>3. proc' = [proc EXCEPT ![p] = r]
  BY <1>1, <1>2 DEF Step
<1>4. QED
  BY <1>2, <1>3, Goes

\* It ends, or begins anew.
Aside(pc, op) == [Idle EXCEPT !.pc = pc, !.op = op]
Starting(pc, op, w) == [Idle EXCEPT !.pc = pc, !.op = op, !.w = w]
StartingWith(pc, op, w, x) == [Idle EXCEPT !.pc = pc, !.op = op, !.w = w, !.pass = x]

\* What they are.
LEMMA Starts ==
  ASSUME NEW y \in Passwords, NEW pc \in Steps, NEW op \in Operations
  PROVE  /\ Aside(pc, op) \in Goroutines
         /\ Aside(pc, op).pc = pc /\ Aside(pc, op).op = op /\ Aside(pc, op).w = 0
         /\ \A w \in Nat : LET r == Starting(pc, op, w)
                           IN r \in Goroutines /\ r.pc = pc /\ r.op = op /\ r.w = w
         /\ \A w \in Nat, x \in Passwords :
              LET r == StartingWith(pc, op, w, x)
              IN r \in Goroutines /\ r.pc = pc /\ r.op = op /\ r.w = w /\ r.pass = x
<1>2. Idle \in Goroutines /\ Idle.pc = "idle" /\ Idle.op = "none" /\ Idle.w = 0
  BY Constants
<1>3. ASSUME NEW g \in Goroutines
      PROVE  /\ [g EXCEPT !.op = op] \in Goroutines
             /\ [g EXCEPT !.op = op].pc = g.pc /\ [g EXCEPT !.op = op].op = op
             /\ [g EXCEPT !.op = op].w = g.w
             /\ \A w \in Nat : /\ [g EXCEPT !.w = w] \in Goroutines
                               /\ [g EXCEPT !.w = w].pc = g.pc /\ [g EXCEPT !.w = w].op = g.op
                               /\ [g EXCEPT !.w = w].w = w
  BY DEF Goroutines
<1>4. PICK r \in Goroutines : r = Aside(pc, op) /\ r.pc = pc /\ r.op = op /\ r.w = 0
  <2>1. PICK r \in Goroutines : r = [Idle EXCEPT !.pc = pc] /\ r.pc = pc /\ r.w = 0
    BY <1>2, ToPc
  <2>2. [r EXCEPT !.op = op] = Aside(pc, op)
    BY <2>1 DEF Aside
  <2>3. QED
    BY <1>3, <2>1, <2>2
<1>5. ASSUME NEW w \in Nat
      PROVE  \E s \in Goroutines : s = Starting(pc, op, w) /\ s.pc = pc /\ s.op = op /\ s.w = w
  <2>1. [r EXCEPT !.w = w] = Starting(pc, op, w)
    BY <1>4 DEF Aside, Starting
  <2>2. PICK s \in Goroutines : /\ s = [r EXCEPT !.w = w]
                                /\ s.pc = r.pc /\ s.op = r.op /\ s.w = w
    BY <1>3
  <2>3. QED
    BY <1>4, <2>1, <2>2
<1>6. ASSUME NEW w \in Nat, NEW x \in Passwords
      PROVE  \E t \in Goroutines : /\ t = StartingWith(pc, op, w, x)
                                   /\ t.pc = pc /\ t.op = op /\ t.w = w /\ t.pass = x
  <2>1. PICK s \in Goroutines : s = Starting(pc, op, w) /\ s.pc = pc /\ s.op = op /\ s.w = w
    BY <1>5
  <2>2. PICK t \in Goroutines : /\ t = [s EXCEPT !.pass = x]
                                /\ t.pc = s.pc /\ t.op = s.op /\ t.w = s.w /\ t.pass = x
    BY ToPass
  <2>3. t = StartingWith(pc, op, w, x)
    BY <2>1, <2>2 DEF Starting, StartingWith
  <2>4. QED
    BY <2>1, <2>2, <2>3
<1>7. QED
  BY <1>4, <1>5, <1>6

\* Where they get.
LEMMA EndsDoes ==
  ASSUME Typed, NEW p \in Workers, Ends(p) PROVE Becomes(p, "idle", "none", 0)
<1>1. chosen \in Passwords
  BY DEF Typed
<1>2. Idle \in Goroutines /\ Idle.pc = "idle" /\ Idle.op = "none" /\ Idle.w = 0
  BY <1>1, Constants
<1>3. proc' = [proc EXCEPT ![p] = Idle]
  BY DEF Ends
<1>4. Becomes(p, Idle.pc, Idle.op, Idle.w)
  BY <1>2, <1>3, Goes
<1>5. QED
  BY <1>2, <1>4

\* Or to a copy of the file,
LEMMA AsideDoes ==
  ASSUME Typed, NEW p \in Workers, NEW pc \in Steps, NEW op \in Operations,
         proc' = [proc EXCEPT ![p] = Aside(pc, op)]
  PROVE  Becomes(p, pc, op, 0)
<1>1. chosen \in Passwords
  BY DEF Typed
<1>2. PICK r \in Goroutines : r = Aside(pc, op) /\ r.pc = pc /\ r.op = op /\ r.w = 0
  BY <1>1, Starts
<1>3. Becomes(p, r.pc, r.op, r.w)
  BY <1>2, Goes
<1>4. QED
  BY <1>2, <1>3

\* to a Wallet,
LEMMA StartingDoes ==
  ASSUME Typed, NEW p \in Workers, NEW pc \in Steps, NEW op \in Operations, NEW w \in Nat,
         proc' = [proc EXCEPT ![p] = Starting(pc, op, w)]
  PROVE  Becomes(p, pc, op, w)
<1>1. chosen \in Passwords
  BY DEF Typed
<1>2. PICK r \in Goroutines : r = Starting(pc, op, w) /\ r.pc = pc /\ r.op = op /\ r.w = w
  BY <1>1, Starts
<1>3. Becomes(p, r.pc, r.op, r.w)
  BY <1>2, Goes
<1>4. QED
  BY <1>2, <1>3

\* and to one with a password.
LEMMA StartingWithDoes ==
  ASSUME Typed, NEW p \in Workers, NEW pc \in Steps, NEW op \in Operations, NEW w \in Nat,
         NEW x \in Passwords, proc' = [proc EXCEPT ![p] = StartingWith(pc, op, w, x)]
  PROVE  Becomes(p, pc, op, w) /\ proc'[p].pass = x
<1>1. chosen \in Passwords
  BY DEF Typed
<1>2. PICK r \in Goroutines : /\ r = StartingWith(pc, op, w, x)
                              /\ r.pc = pc /\ r.op = op /\ r.w = w /\ r.pass = x
  BY <1>1, Starts
<1>3. Becomes(p, r.pc, r.op, r.w) /\ proc'[p] = r
  BY <1>2, Goes
<1>4. QED
  BY <1>2, <1>3

-----------------------------------------------------------------------------
\* What the goroutines that save do.
LEMMA BeginDoes ==
  ASSUME Typed, Busy, NEW p \in Workers, Begin(p)
  PROVE  /\ Becomes(p, "work", "save", current) /\ proc[p].pc = "idle"
         /\ current \in 1..Len(mem)
<1>1. proc' = [proc EXCEPT ![p] = Starting("work", "save", current)]
  BY DEF Begin, Starting
<1>2. current \in 1..Len(mem) /\ current \in Nat
  BY InMemory DEF Begin, Typed
<1>3. "work" \in Steps /\ "save" \in Operations
  BY DEF Steps, Operations
<1>4. Becomes(p, "work", "save", current)
  BY <1>1, <1>2, <1>3, StartingDoes
<1>5. QED
  BY <1>2, <1>4 DEF Begin, At

\* The wallet is changed.
LEMMA ChangeDoes ==
  ASSUME Typed, Busy, NEW p \in Workers, NEW c \in Changes, Change(p, c)
  PROVE  LET w == proc[p].w
         IN  /\ Becomes(p, "save", proc[p].op, w) /\ proc[p].pc = "work"
             /\ Puts(w, mem[w].data \cup {c}, mem[w].pass, mem[w].holder)
<1>1. /\ proc \in [Workers -> Goroutines] /\ proc[p] \in Goroutines /\ mem \in Seq(Wallets)
      /\ proc[p].pc = "work" /\ "save" \in Steps /\ {c} \in SUBSET Changes
  BY DEF Typed, Change, At, Steps
<1>2. proc[p].w \in 1..Len(mem)
  BY <1>1, InMemory DEF Busy, BusyAt
<1>3. mem[proc[p].w].data \in SUBSET Changes /\ mem[proc[p].w].holder \in Workers \cup {NoOne}
      /\ mem[proc[p].w].pass \in Passwords
  BY <1>1, <1>2, InMemory
<1>4. Becomes(p, "save", proc[p].op, proc[p].w)
  <2>1. PICK r \in Goroutines : r = [proc[p] EXCEPT !.pc = "save"] /\ r.pc = "save"
                                /\ r.op = proc[p].op /\ r.w = proc[p].w
    BY <1>1, ToPc
  <2>2. PICK s \in Goroutines : s = [r EXCEPT !.change = {c}] /\ s.pc = r.pc
                                /\ s.op = r.op /\ s.w = r.w
    BY <1>1, ToChange
  <2>3. proc' = [proc EXCEPT ![p] = s]
    BY <1>1, <2>1, <2>2 DEF Change
  <2>4. Becomes(p, s.pc, s.op, s.w)
    BY <2>3, Goes
  <2>5. QED
    BY <2>1, <2>2, <2>4
<1>5. PICK d \in SUBSET Changes : d = mem[proc[p].w].data \cup {c}
  BY <1>3
<1>6. mem' = [mem EXCEPT ![proc[p].w].data = d]
  BY <1>5 DEF Change
<1>7. Puts(proc[p].w, d, mem[proc[p].w].pass, mem[proc[p].w].holder)
  BY <1>1, <1>2, <1>3, <1>6, Alter
<1>8. QED
  BY <1>1, <1>4, <1>5, <1>7

\* The password is taken.
LEMMA SaveDoes ==
  ASSUME Typed, Busy, NEW p \in Workers, Save(p)
  PROVE  /\ Becomes(p, "lock", proc[p].op, proc[p].w) /\ proc[p].pc = "save"
         /\ proc[p].w \in 1..Len(mem) /\ proc'[p].pass = mem[proc[p].w].pass
<1>1. /\ proc \in [Workers -> Goroutines] /\ proc[p] \in Goroutines /\ mem \in Seq(Wallets)
      /\ proc[p].pc = "save" /\ "lock" \in Steps
  BY DEF Typed, Save, At, Steps
<1>2. proc[p].w \in 1..Len(mem)
  BY <1>1, InMemory DEF Busy, BusyAt
<1>3. mem[proc[p].w].pass \in Passwords
  BY <1>1, <1>2, InMemory
<1>4. PICK r \in Goroutines : r = [proc[p] EXCEPT !.pc = "lock"] /\ r.pc = "lock"
                              /\ r.op = proc[p].op /\ r.w = proc[p].w
  BY <1>1, ToPc
<1>5. PICK s \in Goroutines : s = [r EXCEPT !.pass = mem[proc[p].w].pass] /\ s.pc = r.pc
                              /\ s.op = r.op /\ s.w = r.w /\ s.pass = mem[proc[p].w].pass
  BY <1>3, ToPass
<1>6. proc' = [proc EXCEPT ![p] = s]
  BY <1>1, <1>4, <1>5 DEF Save
<1>7. Becomes(p, s.pc, s.op, s.w) /\ proc'[p] = s
  BY <1>6, Goes
<1>8. QED
  BY <1>1, <1>2, <1>4, <1>5, <1>7

\* The mutex is taken.
LEMMA SaveToFileDoes ==
  ASSUME Typed, Busy, NEW p \in Workers, SaveToFile(p)
  PROVE  LET w == proc[p].w
         IN  /\ Becomes(p, "marshal", proc[p].op, w) /\ proc[p].pc = "lock"
             /\ proc'[p].pass = proc[p].pass
             /\ Puts(w, mem[w].data, mem[w].pass, p) /\ mem[w].holder = NoOne
<1>1. /\ proc \in [Workers -> Goroutines] /\ proc[p] \in Goroutines /\ mem \in Seq(Wallets)
      /\ proc[p].pc = "lock" /\ "marshal" \in Steps /\ chosen \in Passwords
  BY DEF Typed, SaveToFile, At, Steps
<1>2. proc[p].w \in 1..Len(mem)
  BY <1>1, InMemory DEF Busy, BusyAt
<1>3. Becomes(p, "marshal", proc[p].op, proc[p].w) /\ proc'[p].pass = proc[p].pass
  BY <1>1, Steps1 DEF SaveToFile
<1>4. Puts(proc[p].w, mem[proc[p].w].data, mem[proc[p].w].pass, p)
  BY <1>1, <1>2, Alter DEF SaveToFile
<1>5. QED
  BY <1>1, <1>3, <1>4 DEF SaveToFile, Free

\* The wallet is changed with the mutex held.
LEMMA LockedChangeDoes ==
  ASSUME Typed, Busy, NEW p \in Workers, NEW c \in Changes, LockedChange(p, c)
  PROVE  LET w == proc[p].w
         IN  /\ Becomes(p, "marshal", proc[p].op, w) /\ proc[p].pc = "work"
             /\ proc'[p].pass = mem[w].pass
             /\ Puts(w, mem[w].data \cup {c}, mem[w].pass, p) /\ mem[w].holder = NoOne
<1>1. /\ proc \in [Workers -> Goroutines] /\ proc[p] \in Goroutines /\ mem \in Seq(Wallets)
      /\ proc[p].pc = "work" /\ "marshal" \in Steps /\ {c} \in SUBSET Changes
  BY DEF Typed, LockedChange, At, Steps
<1>2. proc[p].w \in 1..Len(mem)
  BY <1>1, InMemory DEF Busy, BusyAt
<1>3. mem[proc[p].w].data \in SUBSET Changes /\ mem[proc[p].w].pass \in Passwords
  BY <1>1, <1>2, InMemory
<1>4. Becomes(p, "marshal", proc[p].op, proc[p].w) /\ proc'[p].pass = mem[proc[p].w].pass
  <2>1. PICK r \in Goroutines : r = [proc[p] EXCEPT !.pc = "marshal"] /\ r.pc = "marshal"
                                /\ r.op = proc[p].op /\ r.w = proc[p].w
    BY <1>1, ToPc
  <2>2. PICK s \in Goroutines : s = [r EXCEPT !.change = {c}] /\ s.pc = r.pc
                                /\ s.op = r.op /\ s.w = r.w
    BY <1>1, ToChange
  <2>3. PICK t \in Goroutines : t = [s EXCEPT !.pass = mem[proc[p].w].pass] /\ t.pc = s.pc
                                /\ t.op = s.op /\ t.w = s.w /\ t.pass = mem[proc[p].w].pass
    BY <1>3, ToPass
  <2>4. proc' = [proc EXCEPT ![p] = t]
    BY <1>1, <2>1, <2>2, <2>3 DEF LockedChange
  <2>5. Becomes(p, t.pc, t.op, t.w) /\ proc'[p] = t
    BY <2>4, Goes
  <2>6. QED
    BY <2>1, <2>2, <2>3, <2>5
<1>5. PICK d \in SUBSET Changes : d = mem[proc[p].w].data \cup {c}
  BY <1>3
<1>6. mem' = [mem EXCEPT ![proc[p].w].holder = p, ![proc[p].w].data = d]
  <2>1. [mem EXCEPT ![proc[p].w].holder = p, ![proc[p].w].data = @ \cup {c}] =
          [mem EXCEPT ![proc[p].w].holder = p, ![proc[p].w].data = d]
    BY <1>1, <1>2, <1>5, InMemory
  <2>2. QED
    BY <2>1 DEF LockedChange
<1>7. Puts(proc[p].w, d, mem[proc[p].w].pass, p)
  BY <1>1, <1>2, <1>3, <1>6, Alter
<1>8. QED
  BY <1>1, <1>4, <1>5, <1>7 DEF LockedChange, Free

\* The password is changed with the mutex held, and then the wallet is saved.
LEMMA ChangePasswordDoes ==
  ASSUME Typed, Busy, NEW p \in Workers, NEW new \in Passwords, ChangePassword(p, new)
  PROVE  /\ Becomes(p, "marshal", "password", current) /\ proc[p].pc = "idle"
         /\ proc'[p].pass = new
         /\ Puts(current, mem[current].data, new, p) /\ mem[current].holder = NoOne
<1>1. /\ mem \in Seq(Wallets) /\ proc[p].pc = "idle"
      /\ "marshal" \in Steps /\ "password" \in Operations
  BY DEF Typed, ChangePassword, At, Steps, Operations
<1>2. current \in 1..Len(mem) /\ current \in Nat
  BY <1>1, InMemory DEF ChangePassword, Typed
<1>3. proc' = [proc EXCEPT ![p] = StartingWith("marshal", "password", current, new)]
  BY DEF ChangePassword, StartingWith
<1>4. Becomes(p, "marshal", "password", current) /\ proc'[p].pass = new
  BY <1>1, <1>2, <1>3, StartingWithDoes
<1>5. mem' = [mem EXCEPT ![current].holder = p, ![current].pass = new]
  BY DEF ChangePassword
<1>6. Puts(current, mem[current].data, new, p)
  <2>1. mem[current].data \in SUBSET Changes
    BY <1>1, <1>2, InMemory
  <2>2. QED
    BY <1>1, <1>2, <1>5, <2>1, Alter
<1>7. QED
  BY <1>1, <1>4, <1>6 DEF ChangePassword, Free

\* The file is emptied.
LEMMA TruncateDoes ==
  ASSUME Typed, Busy, NEW p \in Workers, Truncate(p)
  PROVE  LET w == proc[p].w
         IN  /\ Becomes(p, "write", proc[p].op, w) /\ proc[p].pc = "marshal"
             /\ proc'[p].pass = proc[p].pass /\ proc[p].pass \in Passwords
             /\ proc'[p].buf = [data |-> mem[w].data, pass |-> proc[p].pass]
             /\ w \in 1..Len(mem)
<1>1. /\ proc \in [Workers -> Goroutines] /\ proc[p] \in Goroutines /\ mem \in Seq(Wallets)
      /\ proc[p].pc = "marshal" /\ "write" \in Steps
  BY DEF Typed, Truncate, At, Steps
<1>2. proc[p].w \in 1..Len(mem) /\ proc[p].pass \in Passwords
  BY <1>1, InMemory DEF Busy, BusyAt, Saving, Goroutines
<1>3. PICK b \in Contents : b = [data |-> mem[proc[p].w].data, pass |-> proc[p].pass]
  <2>1. mem[proc[p].w].data \in SUBSET Changes
    BY <1>1, <1>2, InMemory
  <2>2. QED
    BY <1>2, <2>1 DEF Contents
<1>4. PICK r \in Goroutines : r = [proc[p] EXCEPT !.pc = "write"] /\ r.pc = "write"
                              /\ r.op = proc[p].op /\ r.w = proc[p].w /\ r.pass = proc[p].pass
  BY <1>1, ToPc
<1>5. PICK s \in Goroutines : s = [r EXCEPT !.buf = b] /\ s.pc = r.pc
                              /\ s.op = r.op /\ s.w = r.w /\ s.pass = r.pass /\ s.buf = b
  BY ToBuf
<1>6. proc' = [proc EXCEPT ![p] = s]
  BY <1>1, <1>3, <1>4, <1>5 DEF Truncate
<1>7. Becomes(p, s.pc, s.op, s.w) /\ proc'[p] = s
  BY <1>6, Goes
<1>8. QED
  BY <1>1, <1>2, <1>3, <1>4, <1>5, <1>7

\* It is filled.
LEMMA WriteDoes ==
  ASSUME Typed, Busy, NEW p \in Workers, Write(p)
  PROVE  /\ Becomes(p, "saved", proc[p].op, proc[p].w) /\ proc[p].pc = "write"
         /\ proc'[p].pass = proc[p].pass /\ proc[p].pass \in Passwords
         /\ proc[p].buf \in Contents /\ proc[p].w \in 1..Len(mem)
         /\ Ages(proc[p].w)
         /\ file' = Whole(proc[p].buf) \/ (Writing # {p} /\ file' = Torn)
<1>1. /\ proc \in [Workers -> Goroutines] /\ proc[p] \in Goroutines /\ mem \in Seq(Wallets)
      /\ proc[p].pc = "write" /\ "saved" \in Steps
  BY DEF Typed, Write, At, Steps
<1>2. /\ proc[p].w \in 1..Len(mem) /\ proc[p].w \in Nat
      /\ proc[p].pass \in Passwords /\ proc[p].buf \in Contents
  BY <1>1, InMemory DEF Busy, BusyAt, Saving, Goroutines
<1>3. Step(p, "saved") /\ mem' = Outdated(mem, proc[p].w)
  BY DEF Write
<1>4. Becomes(p, "saved", proc[p].op, proc[p].w) /\ proc'[p].pass = proc[p].pass
  BY <1>1, <1>3, Steps1
<1>5. Ages(proc[p].w)
  BY <1>1, <1>2, <1>3, AddAge
<1>6. file' = Whole(proc[p].buf) \/ (Writing # {p} /\ file' = Torn)
  BY DEF Write
<1>7. QED
  BY <1>1, <1>2, <1>4, <1>5, <1>6

\* The mutex is given back.
LEMMA SavedDoes ==
  ASSUME Typed, Busy, NEW p \in Workers, Saved(p)
  PROVE  LET w == proc[p].w
         IN  /\ Puts(w, mem[w].data, mem[w].pass, NoOne) /\ proc[p].pc = "saved"
             /\ \/ proc[p].op = "open" /\ Becomes(p, "current", "open", w)
                \/ proc[p].op # "open" /\ Becomes(p, "idle", "none", 0)
<1>1. /\ proc \in [Workers -> Goroutines] /\ proc[p] \in Goroutines /\ mem \in Seq(Wallets)
      /\ proc[p].pc = "saved" /\ "current" \in Steps /\ chosen \in Passwords
  BY DEF Typed, Saved, At, Steps
<1>2. proc[p].w \in 1..Len(mem)
  BY <1>1, InMemory DEF Busy, BusyAt, Saving
<1>3. mem' = [mem EXCEPT ![proc[p].w].holder = NoOne]
  BY DEF Saved
<1>4. Puts(proc[p].w, mem[proc[p].w].data, mem[proc[p].w].pass, NoOne)
  BY <1>1, <1>2, <1>3, Alter
<1>5. ASSUME proc[p].op = "open" PROVE Becomes(p, "current", "open", proc[p].w)
  <2>1. Step(p, "current")
    BY <1>5 DEF Saved
  <2>2. QED
    BY <1>1, <1>5, <2>1, Steps1
<1>6. ASSUME proc[p].op # "open" PROVE Becomes(p, "idle", "none", 0)
  <2>1. Ends(p)
    BY <1>6 DEF Saved
  <2>2. QED
    BY <2>1, EndsDoes
<1>7. QED
  BY <1>1, <1>4, <1>5, <1>6

\* So it is when the file could not be written, but for a wallet being opened, which is
\* opened all the same.
LEMMA FailedDoes ==
  ASSUME Typed, Busy, NEW p \in Workers, Failed(p)
  PROVE  LET w == proc[p].w
         IN  /\ proc[p].pc \in {"marshal", "write"}
             /\ \/ /\ proc[p].op = "open" /\ mem' = mem
                   /\ Becomes(p, "current", "open", w)
                \/ /\ proc[p].op # "open" /\ Puts(w, mem[w].data, mem[w].pass, NoOne)
                   /\ Becomes(p, "idle", "none", 0)
<1>1. /\ proc \in [Workers -> Goroutines] /\ proc[p] \in Goroutines /\ mem \in Seq(Wallets)
      /\ proc[p].pc \in {"marshal", "write"} /\ "current" \in Steps /\ chosen \in Passwords
  BY DEF Typed, Failed, Steps
<1>2. proc[p].w \in 1..Len(mem)
  BY <1>1, InMemory DEF Busy, BusyAt, Saving
<1>3. ASSUME proc[p].op = "open"
      PROVE  mem' = mem /\ Becomes(p, "current", "open", proc[p].w)
  <2>1. Step(p, "current") /\ mem' = mem
    BY <1>3 DEF Failed
  <2>2. QED
    BY <1>1, <1>3, <2>1, Steps1
<1>4. ASSUME proc[p].op # "open"
      PROVE  /\ Puts(proc[p].w, mem[proc[p].w].data, mem[proc[p].w].pass, NoOne)
             /\ Becomes(p, "idle", "none", 0)
  <2>1. Ends(p) /\ mem' = [mem EXCEPT ![proc[p].w].holder = NoOne]
    BY <1>4 DEF Failed
  <2>2. Puts(proc[p].w, mem[proc[p].w].data, mem[proc[p].w].pass, NoOne)
    BY <1>1, <1>2, <2>1, Alter
  <2>3. Becomes(p, "idle", "none", 0)
    BY <2>1, EndsDoes
  <2>4. QED
    BY <2>2, <2>3
<1>5. QED
  BY <1>1, <1>3, <1>4

-----------------------------------------------------------------------------
\* What a new Wallet is.
LEMMA NewWallet ==
  ASSUME NEW d \in SUBSET Changes, NEW x \in Passwords, NEW h \in Workers
  PROVE  [Wallet([data |-> d, pass |-> x]) EXCEPT !.holder = h] =
           [data |-> d, pass |-> x, holder |-> h, stale |-> FALSE]
<1>1. Wallet([data |-> d, pass |-> x]) = [data |-> d, pass |-> x, holder |-> NoOne, stale |-> FALSE]
  BY DEF Wallet
<1>2. PICK r \in Wallets :
        r = Wallet([data |-> d, pass |-> x])
  BY <1>1 DEF Wallets
<1>3. r.data = d /\ r.pass = x /\ r.stale = FALSE
  BY <1>1, <1>2
<1>4. [r EXCEPT !.holder = h] =
         [data |-> r.data, pass |-> r.pass, holder |-> h, stale |-> r.stale]
  BY DEF Wallets
<1>5. QED
  BY <1>2, <1>3, <1>4

\* A wallet is created, and saved.
LEMMA CreateDoes ==
  ASSUME Typed, Busy, NEW p \in Workers, NEW x \in Passwords, Create(p, x)
  PROVE  /\ Becomes(p, "marshal", "create", Len(mem) + 1) /\ proc[p].pc = "idle"
         /\ Adds({}, x, p)
<1>1. /\ mem \in Seq(Wallets) /\ proc[p].pc = "idle"
      /\ "marshal" \in Steps /\ "create" \in Operations
  BY DEF Typed, Create, At, Steps, Operations
<1>2. proc' = [proc EXCEPT ![p] = StartingWith("marshal", "create", Len(mem) + 1, x)]
  BY DEF Create, StartingWith
<1>3. Becomes(p, "marshal", "create", Len(mem) + 1)
  <2>1. Len(mem) + 1 \in Nat
    BY <1>1, InMemory
  <2>2. QED
    BY <1>1, <1>2, <2>1, StartingWithDoes
<1>6. {} \in SUBSET Changes
  OBVIOUS
<1>4. [Wallet([data |-> {}, pass |-> x]) EXCEPT !.holder = p] =
        [data |-> {}, pass |-> x, holder |-> p, stale |-> FALSE]
  BY <1>6, NewWallet
<1>5. mem' = Append(mem, [data |-> {}, pass |-> x, holder |-> p, stale |-> FALSE])
  BY <1>4 DEF Create
<1>7. Adds({}, x, p)
  BY <1>1, <1>5, <1>6, AddAge
<1>8. QED
  BY <1>1, <1>3, <1>7

\* One is opened, and saved if the audit added something.
LEMMA OpenDoes ==
  ASSUME Typed, Busy, NEW p \in Workers, NEW x \in Passwords, Open(p, x)
  PROVE  /\ \/ Becomes(p, "marshal", "open", Len(mem) + 1)
            \/ Becomes(p, "current", "open", Len(mem) + 1)
         /\ proc[p].pc = "idle" /\ file.whole /\ file.content.pass = x
         /\ file.content.data \in SUBSET Changes
         /\ Adds(file.content.data, x, p)
<1>1. /\ mem \in Seq(Wallets) /\ proc[p].pc = "idle" /\ file \in Files
      /\ "marshal" \in Steps /\ "current" \in Steps /\ "open" \in Operations
      /\ file.whole /\ file.content.pass = x
  BY DEF Typed, Open, OpenFromFile, At, Steps, Operations
<1>2. \/ proc' = [proc EXCEPT ![p] = StartingWith("marshal", "open", Len(mem) + 1, x)]
      \/ proc' = [proc EXCEPT ![p] = StartingWith("current", "open", Len(mem) + 1, x)]
  BY DEF Open, StartingWith
<1>3. \/ Becomes(p, "marshal", "open", Len(mem) + 1)
      \/ Becomes(p, "current", "open", Len(mem) + 1)
  <2>1. Len(mem) + 1 \in Nat
    BY <1>1, InMemory
  <2>2. QED
    BY <1>1, <1>2, <2>1, StartingWithDoes
<1>4. PICK c \in Contents : file.content = c
  BY <1>1, Constants DEF Files
<1>5. [Wallet([file.content EXCEPT !.pass = x]) EXCEPT !.holder = p] =
        [data |-> file.content.data, pass |-> x, holder |-> p, stale |-> FALSE]
  <2>1. [file.content EXCEPT !.pass = x] = [data |-> file.content.data, pass |-> x]
    BY <1>4 DEF Contents
  <2>2. file.content.data \in SUBSET Changes
    BY <1>4 DEF Contents
  <2>3. QED
    BY <2>1, <2>2, NewWallet
<1>6. mem' = Append(mem, [data |-> file.content.data, pass |-> x, holder |-> p,
                          stale |-> FALSE])
  BY <1>5 DEF Open
<1>7. file.content.data \in SUBSET Changes
  BY <1>4 DEF Contents
<1>8. Adds(file.content.data, x, p)
  BY <1>1, <1>6, <1>7, AddAge
<1>9. QED
  BY <1>1, <1>3, <1>7, <1>8

\* The opened Wallet becomes the one everybody uses.
LEMMA SetCurrentDoes ==
  ASSUME Typed, Busy, NEW p \in Workers, SetCurrent(p)
  PROVE  LET w == proc[p].w
         IN  /\ Puts(w, mem[w].data, mem[w].pass, NoOne)
             /\ proc[p].pc = "current" /\ proc[p].op = "open" /\ current' = w
             /\ Becomes(p, "idle", "none", 0)
<1>1. mem \in Seq(Wallets) /\ proc[p].pc = "current" /\ chosen \in Passwords
  BY DEF Typed, SetCurrent, At
<1>2. proc[p].w \in 1..Len(mem) /\ proc[p].op = "open"
  BY <1>1, InMemory DEF Busy, BusyAt
<1>3. mem' = [mem EXCEPT ![proc[p].w].holder = NoOne]
  BY DEF SetCurrent
<1>4. Puts(proc[p].w, mem[proc[p].w].data, mem[proc[p].w].pass, NoOne)
  BY <1>1, <1>2, <1>3, Alter
<1>5. Becomes(p, "idle", "none", 0)
  BY EndsDoes DEF SetCurrent
<1>6. QED
  BY <1>1, <1>2, <1>4, <1>5 DEF SetCurrent

\* The copies to and from the backup: none has a Wallet.
LEMMA CopiesDo ==
  ASSUME Typed, Busy, NEW p \in Workers
  PROVE  /\ Backup(p) => Becomes(p, "copy", "backup", 0)
         /\ \A x \in Passwords : DlgWalletRestore(p, x) => Becomes(p, "confirm", "restore", 0)
         /\ Copy(p) \/ RestoreCopy(p) => Becomes(p, "idle", "none", 0)
         /\ RestoreCreate(p) => Becomes(p, "restoring", proc[p].op, 0) /\ proc[p].w = 0
         /\ RestoreCopy(p) => Ages(0)
         /\ CopyFails(p) => /\ proc[p].w = 0 /\ proc[p].pc \in {"copy", "restoring"}
                            /\ \/ Becomes(p, "idle", "none", 0)
                               \/ Becomes(p, "confirm", proc[p].op, 0)
<1>1. /\ mem \in Seq(Wallets) /\ chosen \in Passwords
      /\ {"copy", "confirm", "restoring"} \subseteq Steps
      /\ {"backup", "restore"} \subseteq Operations
  BY DEF Typed, Steps, Operations
<1>2. ASSUME Backup(p) PROVE Becomes(p, "copy", "backup", 0)
  <2>1. proc' = [proc EXCEPT ![p] = Aside("copy", "backup")]
    BY <1>2 DEF Backup, Aside
  <2>2. QED
    BY <1>1, <2>1, AsideDoes
<1>3. ASSUME NEW x \in Passwords, DlgWalletRestore(p, x)
      PROVE  Becomes(p, "confirm", "restore", 0)
  <2>1. proc' = [proc EXCEPT ![p] = Aside("confirm", "restore")]
    BY <1>3 DEF DlgWalletRestore, Aside
  <2>2. QED
    BY <1>1, <2>1, AsideDoes
<1>4. ASSUME Copy(p) \/ RestoreCopy(p) PROVE Becomes(p, "idle", "none", 0)
  BY <1>4, EndsDoes DEF Copy, RestoreCopy
<1>5. ASSUME RestoreCreate(p)
      PROVE  Becomes(p, "restoring", proc[p].op, 0) /\ proc[p].w = 0
  <2>1. Step(p, "restoring") /\ proc[p].w = 0
    BY <1>5 DEF RestoreCreate, At, Busy, BusyAt
  <2>2. QED
    BY <1>1, <2>1, Steps1
<1>6. ASSUME RestoreCopy(p) PROVE Ages(0)
  <2>1. mem' = Outdated(mem, 0) /\ 0 \in Nat
    BY <1>6 DEF RestoreCopy
  <2>2. QED
    BY <1>1, <2>1, AddAge
<1>7. ASSUME CopyFails(p)
      PROVE  /\ proc[p].w = 0 /\ proc[p].pc \in {"copy", "restoring"}
             /\ \/ Becomes(p, "idle", "none", 0)
                \/ Becomes(p, "confirm", proc[p].op, 0)
  <2>1. proc[p].pc \in {"copy", "restoring"} /\ (Ends(p) \/ Step(p, "confirm"))
    BY <1>7 DEF CopyFails
  <2>2. proc[p].w = 0
    BY <2>1 DEF Busy, BusyAt
  <2>3. ASSUME Step(p, "confirm") PROVE Becomes(p, "confirm", proc[p].op, 0)
    BY <1>1, <2>2, <2>3, Steps1
  <2>4. QED
    BY <2>1, <2>2, <2>3, EndsDoes
<1>8. QED
  BY <1>2, <1>3, <1>4, <1>5, <1>6, <1>7

\* After the end nothing is in memory.
LEMMA CrashDoes ==
  ASSUME Typed, Crash
  PROVE  /\ mem' = <<>> /\ mem' \in Seq(Wallets) /\ Len(mem') = 0 /\ DOMAIN mem' = {}
         /\ current' = 0 /\ proc' \in [Workers -> Goroutines]
         /\ \A p \in Workers : proc'[p].pc = "idle" /\ proc'[p].op = "none" /\ proc'[p].w = 0
<1>1. chosen \in Passwords
  BY DEF Typed
<1>2. Idle \in Goroutines /\ Idle.pc = "idle" /\ Idle.op = "none" /\ Idle.w = 0
  BY <1>1, Constants
<1>3. QED
  BY <1>2 DEF Crash

-----------------------------------------------------------------------------
\* A step of p takes and gives back mutexes for p only.
OnlyMine(p) ==
  /\ Len(mem') \in Nat /\ Len(mem) <= Len(mem')
  /\ \A i \in 1..Len(mem) : mem'[i].holder = mem[i].holder \/ mem[i].holder \in {NoOne, p}

\* To be out of date is all that happens to a Wallet when another is written.
LEMMA Aged ==
  ASSUME mem \in Seq(Wallets), NEW i, Ages(i), NEW j \in 1..Len(mem)
  PROVE  /\ mem'[j].data = mem[j].data /\ mem'[j].pass = mem[j].pass
         /\ mem'[j].holder = mem[j].holder /\ (~mem'[j].stale <=> (~mem[j].stale /\ j = i))
<1>1. mem'[j] = [data |-> mem[j].data, pass |-> mem[j].pass, holder |-> mem[j].holder,
                 stale |-> mem[j].stale \/ j # i]
  BY DEF Ages
<1>2. /\ mem'[j].data = mem[j].data /\ mem'[j].pass = mem[j].pass
      /\ mem'[j].holder = mem[j].holder
  BY <1>1
<1>3. mem'[j].stale = (mem[j].stale \/ j # i)
  BY <1>1
<1>4. mem[j].stale \in BOOLEAN
  BY InMemory
<1>5. QED
  BY <1>2, <1>3, <1>4

\* So it is whatever happens to a Wallet, if none takes another's mutex.
LEMMA Mine ==
  ASSUME Typed, NEW p \in Workers
  PROVE  /\ mem' = mem => OnlyMine(p)
         /\ \A i \in Nat : Ages(i) => OnlyMine(p)
         /\ \A d, x, h : Adds(d, x, h) => OnlyMine(p)
         /\ \A i, d, x, h : Puts(i, d, x, h) /\ (h = mem[i].holder \/ mem[i].holder \in {NoOne, p})
                              => OnlyMine(p)
<1>1. mem \in Seq(Wallets) /\ Len(mem) \in Nat
  BY InMemory DEF Typed
<1>2. mem' = mem => OnlyMine(p)
  BY <1>1 DEF OnlyMine
<1>3. ASSUME NEW i \in Nat, Ages(i) PROVE OnlyMine(p)
  <2>1. \A j \in 1..Len(mem) : mem'[j].holder = mem[j].holder
    BY <1>1, <1>3, Aged
  <2>2. Len(mem') = Len(mem)
    BY <1>3 DEF Ages
  <2>3. QED
    BY <1>1, <2>1, <2>2 DEF OnlyMine
<1>4. ASSUME NEW d, NEW x, NEW h, Adds(d, x, h) PROVE OnlyMine(p)
  BY <1>1, <1>4 DEF OnlyMine, Adds
<1>5. ASSUME NEW i, NEW d, NEW x, NEW h, Puts(i, d, x, h),
             h = mem[i].holder \/ mem[i].holder \in {NoOne, p}
      PROVE  OnlyMine(p)
  BY <1>1, <1>5 DEF OnlyMine, Puts
<1>6. QED
  BY <1>2, <1>3, <1>4, <1>5

\* The others go on as they were.
LEMMA OthersBusy ==
  ASSUME Typed, Busy, NEW p \in Workers, NEW pc, NEW op, NEW w, Becomes(p, pc, op, w),
         OnlyMine(p), BusyAt(p)'
  PROVE  Busy'
<1>1. ASSUME NEW q \in Workers, q # p PROVE BusyAt(q)'
  <2>1. proc'[q] = proc[q] /\ BusyAt(q) /\ NoOne \notin Workers /\ Len(mem) \in Nat
    BY <1>1, InMemory, WalletBounds DEF Becomes, Busy, Typed
  <2>2. ASSUME Saving(q) PROVE mem'[proc[q].w].holder = q
    <3>1. proc[q].w \in 1..Len(mem) /\ mem[proc[q].w].holder = q
      BY <2>1, <2>2 DEF BusyAt
    <3>2. QED
      BY <1>1, <2>1, <3>1 DEF OnlyMine
  <2>3. proc[q].w \in 0..Len(mem')
    BY <2>1 DEF BusyAt, OnlyMine
  <2>4. QED
    BY <2>1, <2>2, <2>3 DEF BusyAt, Saving
<1>2. QED
  BY <1>1 DEF Busy

\* What each goroutine is at.
LEMMA BusyStep ==
  ASSUME Typed, Busy, Held, Private, [Next]_vars
  PROVE  Busy'
<1>1. mem \in Seq(Wallets) /\ Len(mem) \in Nat /\ DOMAIN mem = 1..Len(mem) /\ NoOne \notin Workers
      /\ current \in 0..Len(mem)
  BY InMemory, WalletBounds DEF Typed
<1>2. CASE UNCHANGED vars
  BY <1>2 DEF vars, Busy, BusyAt, Saving
<1>3. ASSUME NEW p \in Workers, Begin(p) PROVE Busy'
  <2>1. Becomes(p, "work", "save", current) /\ mem' = mem /\ current \in 1..Len(mem)
    BY <1>3, BeginDoes DEF Begin
  <2>2. BusyAt(p)'
    BY <1>1, <2>1 DEF BusyAt, Saving, Becomes
  <2>3. QED
    BY <2>1, <2>2, Mine, OthersBusy
<1>4. ASSUME NEW p \in Workers, Save(p) PROVE Busy'
  <2>1. Becomes(p, "lock", proc[p].op, proc[p].w) /\ mem' = mem /\ proc[p].pc = "save" /\ BusyAt(p)
    BY <1>4, SaveDoes DEF Save, Busy
  <2>2. BusyAt(p)'
    BY <1>1, <2>1 DEF BusyAt, Saving, Becomes
  <2>3. QED
    BY <2>1, <2>2, Mine, OthersBusy
<1>5. ASSUME NEW p \in Workers, SaveToFile(p) PROVE Busy'
  <2>1. PICK w : w = proc[p].w
    OBVIOUS
  <2>2. /\ Becomes(p, "marshal", proc[p].op, w) /\ proc[p].pc = "lock"
        /\ Puts(w, mem[w].data, mem[w].pass, p) /\ mem[w].holder = NoOne /\ BusyAt(p)
    BY <1>5, <2>1, SaveToFileDoes DEF Busy
  <2>3. OnlyMine(p)
    BY <2>2, Mine
  <2>4. BusyAt(p)'
    BY <1>1, <2>1, <2>2 DEF BusyAt, Saving, Becomes, Puts
  <2>5. QED
    BY <2>2, <2>3, <2>4, OthersBusy
<1>6. ASSUME NEW p \in Workers, Truncate(p) PROVE Busy'
  <2>1. PICK w : w = proc[p].w
    OBVIOUS
  <2>2. /\ Becomes(p, "write", proc[p].op, w) /\ proc[p].pc = "marshal" /\ mem' = mem /\ BusyAt(p)
    BY <1>6, <2>1, TruncateDoes DEF Truncate, Busy
  <2>3. BusyAt(p)'
    BY <1>1, <2>1, <2>2 DEF BusyAt, Saving, Becomes
  <2>4. QED
    BY <2>2, <2>3, Mine, OthersBusy
<1>7. ASSUME NEW p \in Workers, Write(p) PROVE Busy'
  <2>1. PICK w : w = proc[p].w
    OBVIOUS
  <2>2. /\ Becomes(p, "saved", proc[p].op, w) /\ proc[p].pc = "write" /\ Ages(w)
        /\ w \in 1..Len(mem) /\ BusyAt(p)
    BY <1>7, <2>1, WriteDoes DEF Busy
  <2>3. OnlyMine(p)
    BY <1>1, <2>2, Mine
  <2>4. BusyAt(p)'
    <3>1. mem'[w].holder = mem[w].holder /\ Len(mem') = Len(mem)
      BY <1>1, <2>2, Aged DEF Ages
    <3>2. QED
      BY <1>1, <2>1, <2>2, <3>1 DEF BusyAt, Saving, Becomes
  <2>5. QED
    BY <2>2, <2>3, <2>4, OthersBusy
<1>8. ASSUME NEW p \in Workers, Saved(p) PROVE Busy'
  <2>1. PICK w : w = proc[p].w
    OBVIOUS
  <2>2. /\ Puts(w, mem[w].data, mem[w].pass, NoOne) /\ proc[p].pc = "saved" /\ BusyAt(p)
        /\ \/ proc[p].op = "open" /\ Becomes(p, "current", "open", w)
           \/ proc[p].op # "open" /\ Becomes(p, "idle", "none", 0)
    BY <1>8, <2>1, SavedDoes DEF Busy
  <2>3. OnlyMine(p)
    <3>1. mem[w].holder = p
      BY <2>1, <2>2 DEF BusyAt, Saving
    <3>2. QED
      BY <2>2, <3>1, Mine
  <2>4. BusyAt(p)'
    BY <1>1, <2>1, <2>2 DEF BusyAt, Saving, Becomes, Puts
  <2>5. QED
    BY <2>2, <2>3, <2>4, OthersBusy
<1>9. ASSUME NEW p \in Workers, Failed(p) PROVE Busy'
  <2>1. PICK w : w = proc[p].w
    OBVIOUS
  <2>2. /\ proc[p].pc \in {"marshal", "write"} /\ BusyAt(p)
        /\ \/ /\ proc[p].op = "open" /\ mem' = mem /\ Becomes(p, "current", "open", w)
           \/ Puts(w, mem[w].data, mem[w].pass, NoOne) /\ Becomes(p, "idle", "none", 0)
    BY <1>9, <2>1, FailedDoes DEF Busy
  <2>3. CASE proc[p].op = "open" /\ mem' = mem /\ Becomes(p, "current", "open", w)
    <3>1. BusyAt(p)'
      BY <1>1, <2>1, <2>2, <2>3 DEF BusyAt, Saving, Becomes
    <3>2. QED
      BY <2>3, <3>1, Mine, OthersBusy
  <2>4. CASE Puts(w, mem[w].data, mem[w].pass, NoOne) /\ Becomes(p, "idle", "none", 0)
    <3>1. mem[w].holder = p
      BY <2>1, <2>2 DEF BusyAt, Saving
    <3>2. OnlyMine(p)
      BY <2>4, <3>1, Mine
    <3>3. BusyAt(p)'
      BY <1>1, <2>4 DEF BusyAt, Saving, Becomes, Puts
    <3>4. QED
      BY <2>4, <3>2, <3>3, OthersBusy
  <2>5. QED
    BY <2>2, <2>3, <2>4
<1>10. ASSUME NEW p \in Workers, SetCurrent(p) PROVE Busy'
  <2>1. PICK w : w = proc[p].w
    OBVIOUS
  <2>2. /\ Puts(w, mem[w].data, mem[w].pass, NoOne) /\ BusyAt(p)
        /\ proc[p].op = "open" /\ Becomes(p, "idle", "none", 0)
    BY <1>10, <2>1, SetCurrentDoes DEF Busy
  <2>3. OnlyMine(p)
    <3>1. mem[w].holder \in {NoOne, p}
      BY <1>1, <2>1, <2>2, InMemory DEF Private, Held, Puts
    <3>2. QED
      BY <2>2, <3>1, Mine
  <2>4. BusyAt(p)'
    BY <1>1, <2>1, <2>2 DEF BusyAt, Saving, Becomes, Puts
  <2>5. QED
    BY <2>2, <2>3, <2>4, OthersBusy
<1>11. ASSUME NEW p \in Workers, Backup(p) PROVE Busy'
  <2>1. Becomes(p, "copy", "backup", 0) /\ mem' = mem
    BY <1>11, CopiesDo DEF Backup
  <2>2. BusyAt(p)'
    BY <1>1, <2>1 DEF BusyAt, Saving, Becomes
  <2>3. QED
    BY <2>1, <2>2, Mine, OthersBusy
<1>12. ASSUME NEW p \in Workers, Copy(p) PROVE Busy'
  <2>1. Becomes(p, "idle", "none", 0) /\ mem' = mem
    BY <1>12, CopiesDo DEF Copy
  <2>2. BusyAt(p)'
    BY <1>1, <2>1 DEF BusyAt, Saving, Becomes
  <2>3. QED
    BY <2>1, <2>2, Mine, OthersBusy
<1>13. ASSUME NEW p \in Workers, RestoreCreate(p) PROVE Busy'
  <2>1. /\ Becomes(p, "restoring", proc[p].op, 0) /\ mem' = mem /\ proc[p].pc = "confirm"
        /\ BusyAt(p)
    BY <1>13, CopiesDo DEF RestoreCreate, At, Busy
  <2>2. BusyAt(p)'
    BY <1>1, <2>1 DEF BusyAt, Saving, Becomes
  <2>3. QED
    BY <2>1, <2>2, Mine, OthersBusy
<1>14. ASSUME NEW p \in Workers, RestoreCopy(p) PROVE Busy'
  <2>1. Becomes(p, "idle", "none", 0) /\ Ages(0)
    BY <1>14, CopiesDo
  <2>2. BusyAt(p)' /\ 0 \in Nat
    BY <1>1, <2>1 DEF BusyAt, Saving, Becomes, Ages
  <2>3. QED
    BY <2>1, <2>2, Mine, OthersBusy
<1>15. ASSUME NEW p \in Workers, NEW c \in Changes, Change(p, c) PROVE Busy'
  <2>1. PICK w : w = proc[p].w
    OBVIOUS
  <2>2. /\ Becomes(p, "save", proc[p].op, w) /\ proc[p].pc = "work" /\ BusyAt(p)
        /\ Puts(w, mem[w].data \cup {c}, mem[w].pass, mem[w].holder)
    BY <1>15, <2>1, ChangeDoes DEF Busy
  <2>3. OnlyMine(p)
    BY <2>2, Mine
  <2>4. BusyAt(p)'
    BY <1>1, <2>1, <2>2 DEF BusyAt, Saving, Becomes, Puts
  <2>5. QED
    BY <2>2, <2>3, <2>4, OthersBusy
<1>16. ASSUME NEW p \in Workers, NEW c \in Changes, LockedChange(p, c) PROVE Busy'
  <2>1. PICK w : w = proc[p].w
    OBVIOUS
  <2>2. /\ Becomes(p, "marshal", proc[p].op, w) /\ proc[p].pc = "work" /\ BusyAt(p)
        /\ Puts(w, mem[w].data \cup {c}, mem[w].pass, p) /\ mem[w].holder = NoOne
    BY <1>16, <2>1, LockedChangeDoes DEF Busy
  <2>3. OnlyMine(p)
    BY <2>2, Mine
  <2>4. BusyAt(p)'
    BY <1>1, <2>1, <2>2 DEF BusyAt, Saving, Becomes, Puts
  <2>5. QED
    BY <2>2, <2>3, <2>4, OthersBusy
<1>17. ASSUME NEW p \in Workers, NEW x \in Passwords, ChangePassword(p, x) PROVE Busy'
  <2>2. /\ Becomes(p, "marshal", "password", current)
        /\ Puts(current, mem[current].data, x, p) /\ mem[current].holder = NoOne
    BY <1>17, ChangePasswordDoes
  <2>3. OnlyMine(p)
    BY <2>2, Mine
  <2>4. BusyAt(p)'
    BY <1>1, <2>2 DEF BusyAt, Saving, Becomes, Puts
  <2>5. QED
    BY <2>2, <2>3, <2>4, OthersBusy
<1>18. ASSUME NEW p \in Workers, NEW x \in Passwords, Create(p, x) PROVE Busy'
  <2>1. Becomes(p, "marshal", "create", Len(mem) + 1) /\ Adds({}, x, p)
    BY <1>18, CreateDoes
  <2>2. BusyAt(p)'
    BY <1>1, <2>1 DEF BusyAt, Saving, Becomes, Adds
  <2>3. QED
    BY <2>1, <2>2, Mine, OthersBusy
<1>19. ASSUME NEW p \in Workers, NEW x \in Passwords, Open(p, x) PROVE Busy'
  <2>1. /\ Adds(file.content.data, x, p)
        /\ \/ Becomes(p, "marshal", "open", Len(mem) + 1)
           \/ Becomes(p, "current", "open", Len(mem) + 1)
    BY <1>19, OpenDoes
  <2>2. BusyAt(p)'
    BY <1>1, <2>1 DEF BusyAt, Saving, Becomes, Adds
  <2>3. QED
    BY <2>1, <2>2, Mine, OthersBusy
<1>20. ASSUME NEW p \in Workers, NEW x \in Passwords, DlgWalletRestore(p, x) PROVE Busy'
  <2>1. Becomes(p, "confirm", "restore", 0) /\ mem' = mem
    BY <1>20, CopiesDo DEF DlgWalletRestore
  <2>2. BusyAt(p)'
    BY <1>1, <2>1 DEF BusyAt, Saving, Becomes
  <2>3. QED
    BY <2>1, <2>2, Mine, OthersBusy
<1>21. CASE Close
  BY <1>21 DEF Close, Busy, BusyAt, Saving
<1>22. CASE Crash
  BY <1>22, CrashDoes DEF Busy, BusyAt, Saving
<1>23. ASSUME NEW p \in Workers, CopyFails(p) PROVE Busy'
  <2>1. mem' = mem /\ BusyAt(p) /\ proc[p].pc \in {"copy", "restoring"}
    BY <1>23 DEF CopyFails, Busy
  <2>2. Becomes(p, "idle", "none", 0) \/ Becomes(p, "confirm", proc[p].op, 0)
    BY <1>23, CopiesDo
  <2>3. BusyAt(p)'
    BY <1>1, <2>1, <2>2 DEF BusyAt, Saving, Becomes
  <2>4. QED
    BY <2>1, <2>2, <2>3, Mine, OthersBusy
<1>24. QED
  BY <1>2, <1>3, <1>4, <1>5, <1>6, <1>7, <1>8, <1>9, <1>10, <1>11, <1>12, <1>13, <1>14,
     <1>15, <1>16, <1>17, <1>18, <1>19, <1>20, <1>21, <1>22, <1>23 DEF Next

-----------------------------------------------------------------------------
\* What a step does to the Wallet p is at and to those who hold the Wallets: p goes
\* on with it, takes one up, lets it go, or makes one.
SameHolders(i) ==
  Len(mem') = Len(mem) /\ \A j \in 1..Len(mem) : j # i => mem'[j].holder = mem[j].holder

KeepsOn(p) ==
  /\ \E pc \in Steps : Becomes(p, pc, proc[p].op, proc[p].w)
  /\ SameHolders(proc[p].w) /\ current' = current
  /\ proc[p].w # 0 => mem'[proc[p].w].holder \in {mem[proc[p].w].holder, NoOne, p}

TakesUp(p) ==
  \E i \in {0, current}, pc \in Steps, op \in Operations \ {"open"} :
    /\ proc[p].w = 0 /\ Becomes(p, pc, op, i) /\ SameHolders(i) /\ current' = current
    /\ i # 0 => mem'[i].holder \in {mem[i].holder, p}

LetsGo(p) ==
  /\ Becomes(p, "idle", "none", 0) /\ SameHolders(proc[p].w)
  /\ proc[p].w # 0 => mem'[proc[p].w].holder = NoOne
  /\ current' = current \/ (proc[p].op = "open" /\ current' = proc[p].w)

Makes(p) ==
  /\ \E pc \in Steps, op \in Operations : Becomes(p, pc, op, Len(mem) + 1)
  /\ proc[p].w = 0 /\ Len(mem') = Len(mem) + 1 /\ mem'[Len(mem) + 1].holder = p
  /\ \A j \in 1..Len(mem) : mem'[j].holder = mem[j].holder
  /\ current' = current

Moves(p) == KeepsOn(p) \/ TakesUp(p) \/ LetsGo(p) \/ Makes(p)

Alone == Close \/ Crash \/ UNCHANGED vars

\* Every step is one of these.
LEMMA Effects ==
  ASSUME Typed, Busy, [Next]_vars
  PROVE  Alone \/ \E p \in Workers : Moves(p)
<1>1. /\ mem \in Seq(Wallets) /\ Len(mem) \in Nat /\ NoOne \notin Workers
      /\ current \in 0..Len(mem)
      /\ {"idle", "work", "save", "lock", "marshal", "write", "saved", "current", "copy",
          "confirm", "restoring"} \subseteq Steps
      /\ {"save", "password", "backup", "restore"} \subseteq Operations \ {"open"}
      /\ {"create", "open"} \subseteq Operations
  BY InMemory, WalletBounds DEF Typed, Steps, Operations
<1>2. CASE UNCHANGED vars \/ Close \/ Crash
  BY <1>2 DEF Alone
<1>3. ASSUME NEW p \in Workers, Begin(p) PROVE Moves(p)
  <2>1. Becomes(p, "work", "save", current) /\ proc[p].pc = "idle" /\ mem' = mem /\ current' = current
    BY <1>3, BeginDoes DEF Begin
  <2>2. QED
    BY <1>1, <2>1 DEF Moves, TakesUp, SameHolders, Busy, BusyAt
<1>4. ASSUME NEW p \in Workers, Save(p) \/ Truncate(p) \/ RestoreCreate(p) PROVE Moves(p)
  <2>1. /\ mem' = mem /\ current' = current
        /\ \E pc \in {"lock", "write", "restoring"} : Becomes(p, pc, proc[p].op, proc[p].w)
    BY <1>4, SaveDoes, TruncateDoes, CopiesDo DEF Save, Truncate, RestoreCreate
  <2>2. QED
    BY <1>1, <2>1 DEF Moves, KeepsOn, SameHolders
<1>5. ASSUME NEW p \in Workers, SaveToFile(p) PROVE Moves(p)
  <2>1. PICK w : w = proc[p].w
    OBVIOUS
  <2>2. /\ Becomes(p, "marshal", proc[p].op, w) /\ current' = current
        /\ Puts(w, mem[w].data, mem[w].pass, p)
    BY <1>5, <2>1, SaveToFileDoes DEF SaveToFile
  <2>3. QED
    BY <1>1, <2>1, <2>2 DEF Moves, KeepsOn, SameHolders, Puts
<1>6. ASSUME NEW p \in Workers, Write(p) PROVE Moves(p)
  <2>1. PICK w : w = proc[p].w
    OBVIOUS
  <2>2. /\ Becomes(p, "saved", proc[p].op, w) /\ current' = current
        /\ w \in 1..Len(mem) /\ Ages(w)
    BY <1>6, <2>1, WriteDoes DEF Write
  <2>3. Len(mem') = Len(mem) /\ \A j \in 1..Len(mem) : mem'[j].holder = mem[j].holder
    BY <1>1, <2>2, Aged DEF Ages
  <2>4. QED
    BY <1>1, <2>1, <2>2, <2>3 DEF Moves, KeepsOn, SameHolders
<1>7. ASSUME NEW p \in Workers, Saved(p) PROVE Moves(p)
  <2>1. PICK w : w = proc[p].w
    OBVIOUS
  <2>2. /\ Puts(w, mem[w].data, mem[w].pass, NoOne) /\ current' = current
        /\ \/ proc[p].op = "open" /\ Becomes(p, "current", "open", w)
           \/ proc[p].op # "open" /\ Becomes(p, "idle", "none", 0)
    BY <1>7, <2>1, SavedDoes DEF Saved
  <2>3. SameHolders(w) /\ mem'[w].holder = NoOne
    BY <2>2 DEF SameHolders, Puts
  <2>4. CASE proc[p].op = "open"
    BY <1>1, <2>1, <2>2, <2>3, <2>4 DEF Moves, KeepsOn
  <2>5. CASE proc[p].op # "open"
    BY <1>1, <2>1, <2>2, <2>3, <2>5 DEF Moves, LetsGo
  <2>6. QED
    BY <2>4, <2>5
<1>8. ASSUME NEW p \in Workers, Failed(p) \/ SetCurrent(p) PROVE Moves(p)
  <2>1. PICK w : w = proc[p].w
    OBVIOUS
  <2>2. \/ /\ Puts(w, mem[w].data, mem[w].pass, NoOne) /\ Becomes(p, "idle", "none", 0)
           /\ current' = current \/ (proc[p].op = "open" /\ current' = w)
        \/ /\ proc[p].op = "open" /\ mem' = mem /\ current' = current
           /\ Becomes(p, "current", "open", w)
    BY <1>8, <2>1, FailedDoes, SetCurrentDoes DEF Failed
  <2>3. CASE mem' = mem /\ current' = current /\ Becomes(p, "current", proc[p].op, w)
    <3>1. SameHolders(w)
      BY <2>3 DEF SameHolders
    <3>2. QED
      BY <1>1, <2>1, <2>3, <3>1 DEF Moves, KeepsOn
  <2>4. CASE /\ Puts(w, mem[w].data, mem[w].pass, NoOne) /\ Becomes(p, "idle", "none", 0)
             /\ current' = current \/ (proc[p].op = "open" /\ current' = w)
    <3>1. SameHolders(w) /\ mem'[w].holder = NoOne
      BY <2>4 DEF SameHolders, Puts
    <3>2. QED
      BY <2>1, <2>4, <3>1 DEF Moves, LetsGo
  <2>5. QED
    BY <2>2, <2>3, <2>4
<1>9. ASSUME NEW p \in Workers, NEW x \in Passwords, Backup(p) \/ DlgWalletRestore(p, x)
      PROVE  Moves(p)
  <2>1. PICK pc \in {"copy", "confirm"}, op \in {"backup", "restore"} :
          /\ Becomes(p, pc, op, 0) /\ proc[p].pc = "idle" /\ mem' = mem /\ current' = current
    BY <1>9, CopiesDo DEF Backup, DlgWalletRestore, At
  <2>2. QED
    BY <1>1, <2>1 DEF Moves, TakesUp, SameHolders, Busy, BusyAt
<1>10. ASSUME NEW p \in Workers, Copy(p) \/ RestoreCopy(p) PROVE Moves(p)
  <2>1. /\ Becomes(p, "idle", "none", 0) /\ proc[p].pc \in {"copy", "restoring"}
        /\ current' = current /\ (mem' = mem \/ Ages(0))
    BY <1>10, CopiesDo DEF Copy, RestoreCopy, At
  <2>2. proc[p].w = 0
    BY <2>1 DEF Busy, BusyAt
  <2>3. SameHolders(0)
    BY <1>1, <2>1, Aged DEF SameHolders, Ages
  <2>4. QED
    BY <2>1, <2>2, <2>3 DEF Moves, LetsGo
<1>11. ASSUME NEW p \in Workers, NEW c \in Changes, Change(p, c) PROVE Moves(p)
  <2>1. PICK w : w = proc[p].w
    OBVIOUS
  <2>2. /\ Becomes(p, "save", proc[p].op, w) /\ current' = current
        /\ Puts(w, mem[w].data \cup {c}, mem[w].pass, mem[w].holder)
    BY <1>11, <2>1, ChangeDoes DEF Change
  <2>3. QED
    BY <1>1, <2>1, <2>2 DEF Moves, KeepsOn, SameHolders, Puts
<1>12. ASSUME NEW p \in Workers, NEW c \in Changes, LockedChange(p, c) PROVE Moves(p)
  <2>0. current' = current
    BY <1>12 DEF LockedChange
  <2>1. PICK w : w = proc[p].w
    OBVIOUS
  <2>2. /\ Becomes(p, "marshal", proc[p].op, w)
        /\ Puts(w, mem[w].data \cup {c}, mem[w].pass, p)
    BY <1>12, <2>1, LockedChangeDoes
  <2>3. QED
    BY <1>1, <2>0, <2>1, <2>2 DEF Moves, KeepsOn, SameHolders, Puts
<1>13. ASSUME NEW p \in Workers, NEW x \in Passwords, ChangePassword(p, x) PROVE Moves(p)
  <2>0. current' = current
    BY <1>13 DEF ChangePassword
  <2>1. /\ Becomes(p, "marshal", "password", current) /\ proc[p].pc = "idle"
        /\ Puts(current, mem[current].data, x, p)
    BY <1>13, ChangePasswordDoes
  <2>2. SameHolders(current) /\ mem'[current].holder = p
    BY <2>1 DEF SameHolders, Puts
  <2>3. QED
    BY <1>1, <2>0, <2>1, <2>2 DEF Moves, TakesUp, Busy, BusyAt
<1>14. ASSUME NEW p \in Workers, NEW x \in Passwords, Create(p, x) PROVE Moves(p)
  <2>0. current' = current
    BY <1>14 DEF Create
  <2>1. /\ Becomes(p, "marshal", "create", Len(mem) + 1) /\ Adds({}, x, p)
        /\ proc[p].pc = "idle"
    BY <1>14, CreateDoes
  <2>2. QED
    BY <1>1, <2>0, <2>1 DEF Moves, Makes, Adds, Busy, BusyAt
<1>15. ASSUME NEW p \in Workers, NEW x \in Passwords, Open(p, x) PROVE Moves(p)
  <2>0. current' = current
    BY <1>15 DEF Open
  <2>1. /\ Adds(file.content.data, x, p) /\ proc[p].pc = "idle"
        /\ \E pc \in {"marshal", "current"} : Becomes(p, pc, "open", Len(mem) + 1)
    BY <1>15, OpenDoes
  <2>2. QED
    BY <1>1, <2>0, <2>1 DEF Moves, Makes, Adds, Busy, BusyAt
<1>19. ASSUME NEW p \in Workers, CopyFails(p) PROVE Moves(p)
  <2>1. mem' = mem /\ current' = current
    BY <1>19 DEF CopyFails
  <2>2. /\ proc[p].w = 0
        /\ Becomes(p, "idle", "none", 0) \/ Becomes(p, "confirm", proc[p].op, 0)
    BY <1>19, CopiesDo
  <2>3. SameHolders(0)
    BY <2>1 DEF SameHolders
  <2>4. CASE Becomes(p, "idle", "none", 0)
    BY <2>1, <2>2, <2>3, <2>4 DEF Moves, LetsGo
  <2>5. CASE Becomes(p, "confirm", proc[p].op, 0)
    BY <1>1, <2>1, <2>2, <2>3, <2>5 DEF Moves, KeepsOn
  <2>6. QED
    BY <2>2, <2>4, <2>5
<1>16. ASSUME NEW p \in Workers,
              \/ Begin(p) \/ Save(p) \/ SaveToFile(p) \/ Truncate(p) \/ Write(p)
              \/ Saved(p) \/ Failed(p) \/ SetCurrent(p)
              \/ Copy(p) \/ RestoreCreate(p) \/ RestoreCopy(p) \/ CopyFails(p)
       PROVE  Moves(p)
  BY <1>3, <1>4, <1>5, <1>6, <1>7, <1>8, <1>10, <1>16, <1>19
<1>17. ASSUME NEW p \in Workers, Backup(p) PROVE Moves(p)
  BY <1>1, <1>9, <1>17 DEF Typed
<1>18. QED
  BY <1>2, <1>9, <1>11, <1>12, <1>13, <1>14, <1>15, <1>16, <1>17 DEF Next

\* Who holds a Wallet is at it.
LEMMA HeldStep ==
  ASSUME Typed, Busy, Held, [Next]_vars
  PROVE  Held'
<1>1. /\ mem \in Seq(Wallets) /\ Len(mem) \in Nat /\ DOMAIN mem = 1..Len(mem)
      /\ NoOne \notin Workers /\ \A j \in 1..Len(mem) : mem[j].holder \in Workers \cup {NoOne}
      /\ \A p \in Workers : proc[p].w \in 0..Len(mem)
  BY InMemory, WalletBounds DEF Typed, Busy, BusyAt
<1>2. CASE Close \/ UNCHANGED vars
  BY <1>2 DEF Close, vars, Held
<1>3. CASE Crash
  BY <1>3, CrashDoes DEF Held
<1>4. ASSUME NEW p \in Workers, KeepsOn(p) PROVE Held'
  <2>1. PICK pc : Becomes(p, pc, proc[p].op, proc[p].w)
    BY <1>4 DEF KeepsOn
  <2>2. DOMAIN mem' = DOMAIN mem
    BY <1>1, <1>4 DEF KeepsOn, SameHolders
  <2>3. QED
    BY <1>1, <1>4, <2>1, <2>2 DEF KeepsOn, SameHolders, Becomes, Held
<1>5. ASSUME NEW p \in Workers, TakesUp(p) PROVE Held'
  BY <1>1, <1>5 DEF TakesUp, SameHolders, Becomes, Held
<1>6. ASSUME NEW p \in Workers, LetsGo(p) PROVE Held'
  BY <1>1, <1>6 DEF LetsGo, SameHolders, Becomes, Held
<1>7. ASSUME NEW p \in Workers, Makes(p) PROVE Held'
  BY <1>1, <1>7 DEF Makes, Becomes, Held
<1>8. QED
  BY <1>2, <1>3, <1>4, <1>5, <1>6, <1>7, Effects DEF Alone, Moves

\* Who opens has the Wallet alone.
LEMMA PrivateStep ==
  ASSUME Typed, Busy, Private, [Next]_vars
  PROVE  Private'
<1>1. /\ mem \in Seq(Wallets) /\ Len(mem) \in Nat /\ current \in 0..Len(mem)
      /\ \A p \in Workers : proc[p].w \in 0..Len(mem)
      /\ \A p \in Workers : proc[p].op = "open" => proc[p].w # 0
  BY InMemory DEF Typed, Busy, BusyAt
<1>2. CASE Alone
  <2>1. CASE Crash
    BY <2>1, CrashDoes DEF Private
  <2>2. CASE Close
    BY <1>1, <2>2 DEF Close, Private
  <2>3. CASE UNCHANGED vars
    BY <2>3 DEF vars, Private
  <2>4. QED
    BY <1>2, <2>1, <2>2, <2>3 DEF Alone
<1>3. ASSUME NEW p \in Workers, KeepsOn(p) PROVE Private'
  BY <1>1, <1>3 DEF KeepsOn, Becomes, Private
<1>4. ASSUME NEW p \in Workers, TakesUp(p) PROVE Private'
  BY <1>1, <1>4 DEF TakesUp, Becomes, Private
<1>5. ASSUME NEW p \in Workers, LetsGo(p) PROVE Private'
  BY <1>1, <1>5 DEF LetsGo, Becomes, Private
<1>6. ASSUME NEW p \in Workers, Makes(p) PROVE Private'
  BY <1>1, <1>6 DEF Makes, Becomes, Private
<1>7. QED
  BY <1>2, <1>3, <1>4, <1>5, <1>6, Effects DEF Moves

-----------------------------------------------------------------------------
\* What can be in the files.
LEMMA InFiles ==
  ASSUME NEW f \in Files, NEW x \in Passwords
  PROVE  /\ f.there \in BOOLEAN /\ f.whole \in BOOLEAN /\ f.content \in Contents
         /\ f.content.data \in SUBSET Changes /\ f.content.pass \in Passwords
         /\ f.whole => f.there
         /\ Torn \in Files /\ NoFile \in Files /\ \A c \in Contents : Whole(c) \in Files
<1>1. f.there \in BOOLEAN /\ f.whole \in BOOLEAN /\ f.content \in Contents /\ (f.whole => f.there)
  <2>1. f = NoFile \/ f = Torn \/ \E c \in Contents : f = Whole(c)
    BY DEF Files
  <2>2. /\ NoFile.content \in Contents /\ ~NoFile.there /\ ~NoFile.whole
        /\ Torn.there /\ ~Torn.whole /\ Torn.content = NoFile.content
        /\ \A c \in Contents : Whole(c).there /\ Whole(c).whole /\ Whole(c).content = c
    BY Constants
  <2>3. NoFile.there \in BOOLEAN /\ NoFile.whole \in BOOLEAN /\ Torn.there \in BOOLEAN
        /\ Torn.whole \in BOOLEAN
    BY DEF NoFile, Torn
  <2>4. \A c \in Contents : Whole(c).there \in BOOLEAN /\ Whole(c).whole \in BOOLEAN
    BY DEF Whole
  <2>5. QED
    BY <2>1, <2>2, <2>3, <2>4
<1>2. f.content.data \in SUBSET Changes /\ f.content.pass \in Passwords
  BY <1>1 DEF Contents
<1>3. QED
  BY <1>1, <1>2 DEF Files

FileTyped ==
  /\ file \in Files /\ backup \in Files
  /\ written \in SUBSET Changes /\ chosen \in Passwords /\ excuses \in SUBSET Excuses
  /\ fails \in Nat

\* The files and what is remembered of them.
LEMMA FileTypedStep ==
  ASSUME Typed, Busy, [Next]_vars
  PROVE  FileTyped'
<1>1. /\ FileTyped /\ Torn \in Files /\ proc \in [Workers -> Goroutines]
      /\ \A p \in Workers : proc[p].pass \in Passwords /\ proc[p].buf \in Contents
                            /\ proc[p].buf.data \in SUBSET Changes /\ Whole(proc[p].buf) \in Files
  BY InFiles DEF Typed, FileTyped, Goroutines, Contents
<1>2. ASSUME UNCHANGED <<file, backup, written, chosen, excuses, fails>> PROVE FileTyped'
  BY <1>1, <1>2 DEF FileTyped
<1>3. CASE UNCHANGED vars \/ Close
  BY <1>2, <1>3 DEF vars, Close
<1>4. ASSUME NEW p \in Workers, Begin(p) \/ Save(p) \/ SaveToFile(p) \/ Saved(p) \/ SetCurrent(p)
      PROVE  FileTyped'
  BY <1>2, <1>4 DEF Begin, Save, SaveToFile, Saved, SetCurrent
<1>5. ASSUME NEW p \in Workers, NEW c \in Changes, Change(p, c) \/ LockedChange(p, c)
      PROVE  FileTyped'
  BY <1>2, <1>5 DEF Change, LockedChange
<1>6. ASSUME NEW p \in Workers, NEW x \in Passwords,
             ChangePassword(p, x) \/ Create(p, x) \/ Open(p, x) \/ DlgWalletRestore(p, x)
      PROVE  FileTyped'
  <2>1. CASE ChangePassword(p, x)
    BY <1>2, <2>1 DEF ChangePassword
  <2>2. CASE Create(p, x)
    BY <1>2, <2>2 DEF Create
  <2>3. CASE Open(p, x)
    BY <1>2, <2>3 DEF Open
  <2>4. CASE DlgWalletRestore(p, x)
    BY <1>2, <2>4 DEF DlgWalletRestore
  <2>5. QED
    BY <1>6, <2>1, <2>2, <2>3, <2>4
<1>7. ASSUME NEW p \in Workers, Truncate(p) \/ RestoreCreate(p) \/ Backup(p) \/ Copy(p)
      PROVE  FileTyped'
  BY <1>1, <1>7 DEF Truncate, RestoreCreate, Backup, Copy, FileTyped
<1>8. ASSUME NEW p \in Workers, Write(p) PROVE FileTyped'
  <2>1. file' \in Files /\ chosen' \in Passwords /\ backup' = backup /\ fails' = fails
    BY <1>1, <1>8 DEF Write, FileTyped
  <2>2. excuses' \in SUBSET Excuses
    BY <1>1, <1>8 DEF Write, FileTyped, Excuses
  <2>3. written' \in SUBSET Changes
    BY <1>1, <1>8 DEF Write, FileTyped
  <2>4. QED
    BY <1>1, <2>1, <2>2, <2>3 DEF FileTyped
<1>9. ASSUME NEW p \in Workers, Failed(p) PROVE FileTyped'
  <2>1. /\ file' = file /\ backup' = backup /\ written' = written /\ chosen' = chosen
        /\ fails' = fails + 1
    BY <1>9 DEF Failed
  <2>2. excuses' \in SUBSET Excuses
    BY <1>1, <1>9 DEF Failed, FileTyped, Excuses
  <2>3. QED
    BY <1>1, <2>1, <2>2 DEF FileTyped
<1>14. ASSUME NEW p \in Workers, CopyFails(p) PROVE FileTyped'
  <2>1. /\ file' = file /\ backup' = backup /\ written' = written /\ chosen' = chosen
        /\ fails' = fails + 1
    BY <1>14 DEF CopyFails
  <2>2. excuses' \in SUBSET Excuses
    BY <1>1, <1>14 DEF CopyFails, FileTyped, Excuses
  <2>3. QED
    BY <1>1, <2>1, <2>2 DEF FileTyped
<1>10. ASSUME NEW p \in Workers, RestoreCopy(p) PROVE FileTyped'
  <2>1. /\ file' \in Files /\ backup' = backup /\ fails' = fails
        /\ written' = backup.content.data /\ chosen' = backup.content.pass
    BY <1>1, <1>10 DEF RestoreCopy, FileTyped
  <2>2. excuses' \in SUBSET Excuses
    BY <1>1, <1>10 DEF RestoreCopy, FileTyped, Excuses
  <2>3. QED
    BY <1>1, <2>1, <2>2, InFiles DEF FileTyped
<1>11. CASE Crash
  <2>1. /\ file' = file /\ backup' = backup /\ written' = written /\ chosen' = chosen
        /\ fails' = fails + 1
    BY <1>11 DEF Crash
  <2>2. excuses' \in SUBSET Excuses
    BY <1>1, <1>11 DEF Crash, FileTyped, Excuses
  <2>3. QED
    BY <1>1, <2>1, <2>2 DEF FileTyped
<1>12. ASSUME NEW p \in Workers,
              \/ Begin(p) \/ Save(p) \/ SaveToFile(p) \/ Truncate(p) \/ Write(p)
              \/ Saved(p) \/ Failed(p) \/ SetCurrent(p)
              \/ Backup(p) \/ Copy(p) \/ RestoreCreate(p) \/ RestoreCopy(p) \/ CopyFails(p)
       PROVE  FileTyped'
  BY <1>4, <1>7, <1>8, <1>9, <1>10, <1>12, <1>14
<1>13. QED
  BY <1>3, <1>5, <1>6, <1>11, <1>12 DEF Next

\* What is in the variables.
LEMMA TypedStep ==
  ASSUME Typed, Busy, [Next]_vars
  PROVE  Typed'
<1>1. /\ mem \in Seq(Wallets) /\ Len(mem) \in Nat /\ current \in 0..Len(mem)
      /\ proc \in [Workers -> Goroutines] /\ \A p \in Workers : proc[p].w \in 0..Len(mem)
  BY InMemory DEF Typed, Busy, BusyAt
<1>2. FileTyped'
  BY FileTypedStep
<1>3. mem' \in Seq(Wallets)
  <2>1. CASE UNCHANGED mem
    BY <1>1, <2>1
  <2>2. ASSUME NEW p \in Workers, SaveToFile(p) \/ Saved(p) \/ Failed(p) \/ SetCurrent(p)
        PROVE  mem' \in Seq(Wallets)
    BY <1>1, <2>2, SaveToFileDoes, SavedDoes, FailedDoes, SetCurrentDoes DEF Puts
  <2>3. ASSUME NEW p \in Workers, Write(p) \/ RestoreCopy(p)
        PROVE  mem' \in Seq(Wallets)
    BY <2>3, WriteDoes, CopiesDo DEF Ages
  <2>4. ASSUME NEW p \in Workers, NEW c \in Changes, Change(p, c) \/ LockedChange(p, c)
        PROVE  mem' \in Seq(Wallets)
    BY <2>4, ChangeDoes, LockedChangeDoes DEF Puts
  <2>5. ASSUME NEW p \in Workers, NEW x \in Passwords, ChangePassword(p, x)
        PROVE  mem' \in Seq(Wallets)
    BY <2>5, ChangePasswordDoes DEF Puts
  <2>6. ASSUME NEW p \in Workers, NEW x \in Passwords, Create(p, x) \/ Open(p, x)
        PROVE  mem' \in Seq(Wallets)
    BY <2>6, CreateDoes, OpenDoes DEF Adds
  <2>7. ASSUME NEW p \in Workers, NEW x \in Passwords, DlgWalletRestore(p, x)
        PROVE  UNCHANGED mem
    BY <2>7 DEF DlgWalletRestore
  <2>8. ASSUME NEW p \in Workers, Begin(p) \/ Save(p) \/ Truncate(p) \/ Backup(p) \/ Copy(p)
                                  \/ RestoreCreate(p) \/ CopyFails(p)
        PROVE  UNCHANGED mem
    BY <2>8 DEF Begin, Save, Truncate, Backup, Copy, RestoreCreate, CopyFails
  <2>9. CASE UNCHANGED vars \/ Close
    BY <2>1, <2>9 DEF vars, Close
  <2>10. CASE Crash
    BY <1>1, <2>10, CrashDoes
  <2>11. QED
    BY <2>1, <2>2, <2>3, <2>4, <2>5, <2>6, <2>7, <2>8, <2>9, <2>10 DEF Next
<1>4. proc' \in [Workers -> Goroutines] /\ current' \in 0..Len(mem')
  <2>1. CASE UNCHANGED vars
    BY <1>1, <2>1 DEF vars
  <2>2. CASE Close
    BY <1>1, <2>2 DEF Close
  <2>3. CASE Crash
    BY <2>3, CrashDoes
  <2>4. ASSUME NEW p \in Workers, Moves(p)
        PROVE  proc' \in [Workers -> Goroutines] /\ current' \in 0..Len(mem')
    BY <1>1, <2>4 DEF Moves, KeepsOn, TakesUp, LetsGo, Makes, SameHolders, Becomes
  <2>5. QED
    BY <2>1, <2>2, <2>3, <2>4, Effects DEF Alone
<1>5. QED
  BY <1>2, <1>3, <1>4 DEF Typed, FileTyped

-----------------------------------------------------------------------------
\* Who is writing the file.
LEMMA Writers ==
  ASSUME NEW p \in Workers, NEW pc, NEW op, NEW w, Becomes(p, pc, op, w)
  PROVE  /\ p \in Writing' <=> pc \in {"write", "restoring"}
         /\ (p \in Writing <=> p \in Writing') => Writing' = Writing
  BY DEF Becomes, Writing

\* It is known when the file is not whole.
LEMMA TornIsKnownStep ==
  ASSUME Typed, Busy, TornIsKnown, [Next]_vars
  PROVE  TornIsKnown'
<1>1. Torn.there /\ \A c \in Contents : Whole(c).there /\ Whole(c).whole
  BY Constants DEF Typed
<1>2. ASSUME file' = file, written' = written, excuses \subseteq excuses',
             Writing' = Writing \/ "torn" \in excuses'
      PROVE  TornIsKnown'
  BY <1>2 DEF TornIsKnown
<1>3. CASE UNCHANGED vars \/ Close
  BY <1>2, <1>3 DEF vars, Close, Writing
<1>4. ASSUME NEW p \in Workers, Begin(p) \/ Save(p) \/ SaveToFile(p) \/ Saved(p) \/ SetCurrent(p)
                                \/ Backup(p) \/ Copy(p)
      PROVE  TornIsKnown'
  <2>1. file' = file /\ written' = written /\ excuses' = excuses
    BY <1>4 DEF Begin, Save, SaveToFile, Saved, SetCurrent, Backup, Copy
  <2>2. /\ proc[p].pc \notin {"write", "restoring"}
        /\ \E pc \in Steps \ {"write", "restoring"} : \E op, w : Becomes(p, pc, op, w)
    BY <1>4, BeginDoes, SaveDoes, SaveToFileDoes, SavedDoes, SetCurrentDoes, CopiesDo
       DEF Steps, Backup, Copy, At
  <2>3. Writing' = Writing
    BY <2>2, Writers DEF Writing
  <2>4. QED
    BY <1>2, <2>1, <2>3
<1>5. ASSUME NEW p \in Workers, NEW c \in Changes, Change(p, c) \/ LockedChange(p, c)
      PROVE  TornIsKnown'
  <2>1. file' = file /\ written' = written /\ excuses' = excuses
    BY <1>5 DEF Change, LockedChange
  <2>2. /\ proc[p].pc = "work"
        /\ \E pc \in {"save", "marshal"} : \E op, w : Becomes(p, pc, op, w)
    BY <1>5, ChangeDoes, LockedChangeDoes
  <2>3. Writing' = Writing
    BY <2>2, Writers DEF Writing
  <2>4. QED
    BY <1>2, <2>1, <2>3
<1>6. ASSUME NEW p \in Workers, NEW x \in Passwords,
             ChangePassword(p, x) \/ Create(p, x) \/ Open(p, x) \/ DlgWalletRestore(p, x)
      PROVE  TornIsKnown'
  <2>1. /\ file' = file /\ written' = written /\ excuses' = excuses
        /\ proc[p].pc = "idle"
    <3>1. CASE ChangePassword(p, x)
      BY <3>1 DEF ChangePassword, At
    <3>2. CASE Create(p, x)
      BY <3>2 DEF Create, At
    <3>3. CASE Open(p, x)
      BY <3>3 DEF Open, At
    <3>4. CASE DlgWalletRestore(p, x)
      BY <3>4 DEF DlgWalletRestore, At
    <3>5. QED
      BY <1>6, <3>1, <3>2, <3>3, <3>4
  <2>2. \E pc \in {"marshal", "current", "confirm"} : \E op, w : Becomes(p, pc, op, w)
    BY <1>6, ChangePasswordDoes, CreateDoes, OpenDoes, CopiesDo
  <2>3. Writing' = Writing
    BY <2>1, <2>2, Writers DEF Writing
  <2>4. QED
    BY <1>2, <2>1, <2>3
<1>7. ASSUME NEW p \in Workers, Truncate(p) \/ RestoreCreate(p) PROVE TornIsKnown'
  <2>1. \E pc \in {"write", "restoring"} : \E op, w : Becomes(p, pc, op, w)
    BY <1>7, TruncateDoes, CopiesDo
  <2>2. Writing' # {} /\ file' = Torn
    BY <1>7, <2>1, Writers DEF Truncate, RestoreCreate
  <2>3. QED
    BY <1>1, <2>2 DEF TornIsKnown
<1>8. ASSUME NEW p \in Workers, Write(p) PROVE TornIsKnown'
  <2>1. file'.there /\ (file'.whole \/ "torn" \in excuses')
    <3>1. (file' = Torn \/ file' = Whole(proc[p].buf)) /\ proc[p].buf \in Contents
      BY <1>8, WriteDoes
    <3>2. ~file'.whole => "torn" \in excuses'
      BY <1>8 DEF Write
    <3>3. QED
      BY <1>1, <3>1, <3>2
  <2>2. QED
    BY <2>1 DEF TornIsKnown
<1>9. ASSUME NEW p \in Workers, Failed(p) PROVE TornIsKnown'
  <2>1. /\ file' = file /\ written' = written /\ excuses \subseteq excuses'
        /\ proc[p].pc = "write" => "torn" \in excuses'
    BY <1>9 DEF Failed, At
  <2>2. /\ proc[p].pc \in {"marshal", "write"}
        /\ \E pc \in {"idle", "current"} : \E op, w : Becomes(p, pc, op, w)
    BY <1>9, FailedDoes
  <2>3. proc[p].pc = "marshal" => Writing' = Writing
    BY <2>2, Writers DEF Writing
  <2>4. QED
    BY <1>2, <2>1, <2>2, <2>3
<1>14. ASSUME NEW p \in Workers, CopyFails(p) PROVE TornIsKnown'
  <2>1. /\ file' = file /\ written' = written /\ excuses \subseteq excuses'
        /\ proc[p].pc = "restoring" => "torn" \in excuses'
    BY <1>14 DEF CopyFails, At
  <2>2. /\ proc[p].pc \in {"copy", "restoring"}
        /\ \E pc \in {"idle", "confirm"} : \E op, w : Becomes(p, pc, op, w)
    BY <1>14, CopiesDo
  <2>3. proc[p].pc = "copy" => Writing' = Writing
    BY <2>2, Writers DEF Writing
  <2>4. QED
    BY <1>2, <2>1, <2>2, <2>3
<1>10. ASSUME NEW p \in Workers, RestoreCopy(p) PROVE TornIsKnown'
  <2>1. ~file'.whole => "torn" \in excuses'
    BY <1>10 DEF RestoreCopy
  <2>2. ASSUME ~file'.there PROVE written' = {}
    <3>1. file' = backup /\ backup \in Files /\ written' = backup.content.data
      BY <1>1, <1>10, <2>2 DEF RestoreCopy, Typed
    <3>2. backup = NoFile
      BY <1>1, <2>2, <3>1 DEF Files
    <3>3. NoFile.content.data = {}
      BY DEF NoFile
    <3>4. QED
      BY <3>1, <3>2, <3>3
  <2>3. QED
    BY <2>1, <2>2 DEF TornIsKnown
<1>11. CASE Crash
  <2>1. /\ file' = file /\ written' = written
        /\ file.there /\ ~file.whole => "torn" \in excuses'
    BY <1>11 DEF Crash
  <2>2. QED
    BY <2>1 DEF TornIsKnown
<1>12. ASSUME NEW p \in Workers,
              \/ Begin(p) \/ Save(p) \/ SaveToFile(p) \/ Truncate(p) \/ Write(p)
              \/ Saved(p) \/ Failed(p) \/ SetCurrent(p)
              \/ Backup(p) \/ Copy(p) \/ RestoreCreate(p) \/ RestoreCopy(p) \/ CopyFails(p)
       PROVE  TornIsKnown'
  BY <1>4, <1>7, <1>8, <1>9, <1>10, <1>12, <1>14
<1>13. QED
  BY <1>3, <1>5, <1>6, <1>11, <1>12 DEF Next

-----------------------------------------------------------------------------
\* No Wallet in memory loses data or gets out of date, and the new ones know the file.
Grows ==
  /\ Len(mem') \in Nat /\ Len(mem) <= Len(mem')
  /\ \A i \in 1..Len(mem) : mem[i].data \subseteq mem'[i].data /\ (mem'[i].stale <=> mem[i].stale)
  /\ \A i \in 1..Len(mem') : i \notin 1..Len(mem) => written \subseteq mem'[i].data

\* When it is so.
LEMMA Growing ==
  ASSUME mem \in Seq(Wallets)
  PROVE  /\ mem' = mem => Grows
         /\ \A i, d, x, h : Puts(i, d, x, h) /\ mem[i].data \subseteq d => Grows
         /\ \A d, x, h : Adds(d, x, h) /\ written \subseteq d => Grows
<1>1. Len(mem) \in Nat
  BY InMemory
<1>2. mem' = mem => Grows
  BY <1>1 DEF Grows
<1>3. ASSUME NEW i, NEW d, NEW x, NEW h, Puts(i, d, x, h), mem[i].data \subseteq d
      PROVE  Grows
  BY <1>1, <1>3 DEF Puts, Grows
<1>4. ASSUME NEW d, NEW x, NEW h, Adds(d, x, h), written \subseteq d PROVE Grows
  BY <1>1, <1>4 DEF Adds, Grows
<1>5. QED
  BY <1>2, <1>3, <1>4

\* Then what was in the file is still known, if nobody comes to write.
LEMMA KeptThen ==
  ASSUME Typed, Busy, Kept, Grows, file' = file \/ ~file'.whole,
         written' = written, "stale" \in excuses => "stale" \in excuses',
         \A p \in Workers : proc'[p].pc = "write" =>
           proc[p].pc = "write" /\ proc'[p].buf = proc[p].buf /\ proc'[p].w = proc[p].w
  PROVE  Kept'
<1>1. mem \in Seq(Wallets) /\ Len(mem) \in Nat /\ DOMAIN mem = 1..Len(mem)
  BY InMemory DEF Typed
<1>2. SUFFICES ASSUME "stale" \notin excuses, "stale" \notin excuses' PROVE Kept'
  BY DEF Kept
<1>3. /\ file.whole => written \subseteq file.content.data
      /\ \A i \in 1..Len(mem) : ~mem[i].stale => written \subseteq mem[i].data
      /\ \A p \in Workers : proc[p].pc = "write" =>
           /\ ~mem[proc[p].w].stale => written \subseteq proc[p].buf.data
           /\ proc[p].buf.data \subseteq mem[proc[p].w].data
  BY <1>1, <1>2 DEF Kept
<1>4. file'.whole => written' \subseteq file'.content.data
  BY <1>3
<1>5. \A i \in DOMAIN mem' : ~mem'[i].stale => written' \subseteq mem'[i].data
  BY <1>1, <1>3 DEF Grows
<1>6. ASSUME NEW p \in Workers, proc'[p].pc = "write"
      PROVE  /\ ~mem'[proc'[p].w].stale => written' \subseteq proc'[p].buf.data
             /\ proc'[p].buf.data \subseteq mem'[proc'[p].w].data
  <2>1. /\ proc[p].pc = "write" /\ proc'[p].buf = proc[p].buf /\ proc'[p].w = proc[p].w
        /\ proc[p].w \in 1..Len(mem)
    BY <1>1, <1>6 DEF Busy, BusyAt, Saving
  <2>2. QED
    BY <1>3, <2>1 DEF Grows
<1>7. QED
  BY <1>4, <1>5, <1>6 DEF Kept

\* What was in the file is not lost.
LEMMA KeptStep ==
  ASSUME Typed, Busy, Kept, TornIsKnown, [Next]_vars
  PROVE  Kept'
<1>1. mem \in Seq(Wallets) /\ Len(mem) \in Nat /\ DOMAIN mem = 1..Len(mem)
  BY InMemory DEF Typed
<1>2. ASSUME NEW p \in Workers, Grows, \E pc \in Steps \ {"write"} : \E op, w : Becomes(p, pc, op, w),
             file' = file \/ ~file'.whole, written' = written, excuses \subseteq excuses'
      PROVE  Kept'
  BY <1>2, KeptThen DEF Becomes
<1>3. CASE UNCHANGED vars \/ Close
  BY <1>1, <1>3, KeptThen, Growing DEF vars, Close
<1>4. ASSUME NEW p \in Workers, Begin(p) \/ Save(p) \/ Backup(p) \/ Copy(p) \/ RestoreCreate(p)
      PROVE  Kept'
  <2>1. written' = written /\ excuses' = excuses /\ mem' = mem /\ (file' = file \/ file' = Torn)
    BY <1>4 DEF Begin, Save, Backup, Copy, RestoreCreate
  <2>2. \E pc \in Steps \ {"write"} : \E op, w : Becomes(p, pc, op, w)
    BY <1>4, BeginDoes, SaveDoes, CopiesDo DEF Steps
  <2>3. ~Torn.whole
    BY Constants DEF Typed
  <2>4. QED
    BY <1>1, <1>2, <2>1, <2>2, <2>3, Growing
<1>5. ASSUME NEW p \in Workers, SaveToFile(p) \/ Saved(p) \/ SetCurrent(p) \/ Failed(p)
      PROVE  Kept'
  <2>1. file' = file /\ written' = written /\ excuses \subseteq excuses'
    BY <1>5 DEF SaveToFile, Saved, SetCurrent, Failed
  <2>2. \E pc \in Steps \ {"write"} : \E op, w : Becomes(p, pc, op, w)
    BY <1>5, SaveToFileDoes, SavedDoes, SetCurrentDoes, FailedDoes DEF Steps
  <2>3. mem' = mem \/ \E i, h : Puts(i, mem[i].data, mem[i].pass, h)
    BY <1>5, SaveToFileDoes, SavedDoes, SetCurrentDoes, FailedDoes
  <2>4. QED
    BY <1>1, <1>2, <2>1, <2>2, <2>3, Growing
<1>17. ASSUME NEW p \in Workers, CopyFails(p) PROVE Kept'
  <2>1. file' = file /\ written' = written /\ excuses \subseteq excuses' /\ mem' = mem
    BY <1>17 DEF CopyFails
  <2>2. \E pc \in Steps \ {"write"} : \E op, w : Becomes(p, pc, op, w)
    BY <1>17, CopiesDo DEF Steps
  <2>3. QED
    BY <1>1, <1>2, <2>1, <2>2, Growing
<1>6. ASSUME NEW p \in Workers, NEW c \in Changes, Change(p, c) \/ LockedChange(p, c)
      PROVE  Kept'
  <2>1. file' = file /\ written' = written /\ excuses' = excuses
    BY <1>6 DEF Change, LockedChange
  <2>2. \E pc \in Steps \ {"write"} : \E op, w : Becomes(p, pc, op, w)
    BY <1>6, ChangeDoes, LockedChangeDoes DEF Steps
  <2>3. PICK w, h : w = proc[p].w /\ Puts(w, mem[w].data \cup {c}, mem[w].pass, h)
    <3>1. CASE Change(p, c)
      BY <3>1, ChangeDoes
    <3>2. CASE LockedChange(p, c)
      BY <3>2, LockedChangeDoes
    <3>3. QED
      BY <1>6, <3>1, <3>2
  <2>4. QED
    BY <1>1, <1>2, <2>1, <2>2, <2>3, Growing
<1>7. ASSUME NEW p \in Workers, NEW x \in Passwords, ChangePassword(p, x) PROVE Kept'
  <2>1. file' = file /\ written' = written /\ excuses' = excuses
    BY <1>7 DEF ChangePassword
  <2>2. /\ Becomes(p, "marshal", "password", current) /\ Puts(current, mem[current].data, x, p)
        /\ "marshal" \in Steps
    BY <1>7, ChangePasswordDoes DEF Steps
  <2>3. QED
    BY <1>1, <1>2, <2>1, <2>2, Growing
<1>8. ASSUME NEW p \in Workers, NEW x \in Passwords, DlgWalletRestore(p, x) PROVE Kept'
  <2>1. file' = file /\ written' = written /\ excuses' = excuses /\ mem' = mem
    BY <1>8 DEF DlgWalletRestore
  <2>2. Becomes(p, "confirm", "restore", 0) /\ "confirm" \in Steps
    BY <1>8, CopiesDo DEF Steps
  <2>3. QED
    BY <1>1, <1>2, <2>1, <2>2, Growing
<1>9. ASSUME NEW p \in Workers, NEW x \in Passwords, Create(p, x) PROVE Kept'
  <2>1. file' = file /\ written' = written /\ excuses' = excuses /\ ~file.there
    BY <1>9 DEF Create
  <2>2. Becomes(p, "marshal", "create", Len(mem) + 1) /\ Adds({}, x, p) /\ "marshal" \in Steps
    BY <1>9, CreateDoes DEF Steps
  <2>3. written = {}
    BY <2>1 DEF TornIsKnown
  <2>4. QED
    BY <1>1, <1>2, <2>1, <2>2, <2>3, Growing
<1>10. ASSUME NEW p \in Workers, NEW x \in Passwords, Open(p, x) PROVE Kept'
  <2>1. file' = file /\ written' = written /\ excuses' = excuses
    BY <1>10 DEF Open
  <2>2. /\ \E pc \in Steps \ {"write"} : Becomes(p, pc, "open", Len(mem) + 1)
        /\ Adds(file.content.data, x, p) /\ file.whole
    BY <1>10, OpenDoes DEF Steps
  <2>3. CASE "stale" \in excuses
    BY <2>1, <2>3 DEF Kept
  <2>4. CASE "stale" \notin excuses
    <3>1. written \subseteq file.content.data
      BY <2>2, <2>4 DEF Kept
    <3>2. QED
      BY <1>1, <1>2, <2>1, <2>2, <3>1, Growing
  <2>5. QED
    BY <2>3, <2>4
<1>11. ASSUME NEW p \in Workers, Truncate(p) PROVE Kept'
  <2>1. written' = written /\ excuses' = excuses /\ mem' = mem /\ ~file'.whole
    BY <1>11, Constants DEF Truncate, Typed
  <2>2. PICK w : w = proc[p].w
    OBVIOUS
  <2>3. /\ Becomes(p, "write", proc[p].op, w) /\ w \in 1..Len(mem)
        /\ proc'[p].buf = [data |-> mem[w].data, pass |-> proc[p].pass]
    BY <1>11, <2>2, TruncateDoes
  <2>4. proc'[p].buf.data = mem[w].data
    BY <2>3
  <2>5. ASSUME "stale" \notin excuses
        PROVE  \A i \in 1..Len(mem) : ~mem[i].stale => written \subseteq mem[i].data
    BY <1>1, <2>5 DEF Kept
  <2>6. ASSUME "stale" \notin excuses, NEW q \in Workers, proc'[q].pc = "write"
        PROVE  /\ ~mem[proc'[q].w].stale => written \subseteq proc'[q].buf.data
               /\ proc'[q].buf.data \subseteq mem[proc'[q].w].data
    <3>1. CASE q = p
      BY <2>3, <2>4, <2>5, <2>6, <3>1 DEF Becomes
    <3>2. CASE q # p
      BY <2>3, <2>6, <3>2 DEF Becomes, Kept
    <3>3. QED
      BY <3>1, <3>2
  <2>7. QED
    BY <1>1, <2>1, <2>5, <2>6 DEF Kept
<1>12. ASSUME NEW p \in Workers, Write(p) PROVE Kept'
  <2>1. PICK w : w = proc[p].w
    OBVIOUS
  <2>2. /\ Becomes(p, "saved", proc[p].op, w) /\ proc[p].pc = "write"
        /\ proc[p].buf \in Contents /\ w \in 1..Len(mem) /\ Ages(w)
        /\ file' = Whole(proc[p].buf) \/ file' = Torn
    BY <1>12, <2>1, WriteDoes
  <2>3. /\ "stale" \in excuses \/ mem[w].stale => "stale" \in excuses'
        /\ written' = written \cup (IF file'.whole THEN proc[p].buf.data ELSE {})
    BY <1>12, <2>1 DEF Write
  <2>4. SUFFICES ASSUME "stale" \notin excuses, "stale" \notin excuses' PROVE Kept'
    BY <2>3 DEF Kept
  <2>5. /\ written \subseteq proc[p].buf.data /\ proc[p].buf.data \subseteq mem[w].data
    BY <2>1, <2>2, <2>3, <2>4 DEF Kept
  <2>6. written' \subseteq proc[p].buf.data
    BY <2>3, <2>5
  <2>7. file'.whole => written' \subseteq file'.content.data
    <3>1. ~Torn.whole /\ Whole(proc[p].buf).content = proc[p].buf
      BY <2>2, Constants DEF Typed
    <3>2. QED
      BY <2>2, <2>6, <3>1
  <2>8. /\ DOMAIN mem' = 1..Len(mem)
        /\ \A i \in 1..Len(mem) : mem'[i].data = mem[i].data /\ (~mem'[i].stale => i = w)
    <3>1. mem' \in Seq(Wallets) /\ Len(mem') = Len(mem)
      BY <2>2 DEF Ages
    <3>2. \A i \in 1..Len(mem) : mem'[i].data = mem[i].data /\ (~mem'[i].stale => i = w)
      BY <1>1, <2>2, Aged
    <3>3. QED
      BY <1>1, <3>1, <3>2
  <2>9. \A i \in DOMAIN mem' : ~mem'[i].stale => written' \subseteq mem'[i].data
    BY <2>5, <2>6, <2>8
  <2>10. ASSUME NEW q \in Workers, proc'[q].pc = "write"
         PROVE  /\ ~mem'[proc'[q].w].stale => written' \subseteq proc'[q].buf.data
                /\ proc'[q].buf.data \subseteq mem'[proc'[q].w].data
    <3>1. q # p /\ proc'[q] = proc[q] /\ proc[q].pc = "write"
      BY <2>2, <2>10 DEF Becomes
    <3>2. /\ mem[w].holder = p /\ mem[proc[q].w].holder = q /\ proc[q].w \in 1..Len(mem)
      BY <1>1, <2>1, <2>2, <3>1 DEF Busy, BusyAt, Saving
    <3>3. mem'[proc[q].w].stale
      BY <2>8, <3>1, <3>2
    <3>4. proc[q].buf.data \subseteq mem[proc[q].w].data
      BY <2>4, <3>1 DEF Kept
    <3>5. QED
      BY <2>8, <3>1, <3>2, <3>3, <3>4
  <2>11. QED
    BY <2>7, <2>9, <2>10 DEF Kept
<1>13. ASSUME NEW p \in Workers, RestoreCopy(p) PROVE Kept'
  <2>1. /\ Becomes(p, "idle", "none", 0) /\ Ages(0)
    BY <1>13, CopiesDo
  <2>2. /\ written' = backup.content.data /\ (file' = backup \/ file' = Torn)
        /\ "stale" \in excuses => "stale" \in excuses'
    BY <1>13 DEF RestoreCopy
  <2>3. SUFFICES ASSUME "stale" \notin excuses, "stale" \notin excuses' PROVE Kept'
    BY <2>2 DEF Kept
  <2>4. file'.whole => written' \subseteq file'.content.data
    BY <2>2, Constants DEF Typed
  <2>5. /\ DOMAIN mem' = 1..Len(mem)
        /\ \A i \in 1..Len(mem) : mem'[i].data = mem[i].data /\ mem'[i].stale
    BY <1>1, <2>1, Aged DEF Ages
  <2>6. ASSUME NEW q \in Workers, proc'[q].pc = "write"
        PROVE  /\ ~mem'[proc'[q].w].stale => written' \subseteq proc'[q].buf.data
               /\ proc'[q].buf.data \subseteq mem'[proc'[q].w].data
    <3>1. proc'[q] = proc[q] /\ proc[q].pc = "write"
      BY <2>1, <2>6 DEF Becomes
    <3>2. proc[q].w \in 1..Len(mem) /\ proc[q].buf.data \subseteq mem[proc[q].w].data
      BY <1>1, <2>3, <3>1 DEF Busy, BusyAt, Saving, Kept
    <3>3. QED
      BY <2>5, <3>1, <3>2
  <2>7. QED
    BY <2>4, <2>5, <2>6 DEF Kept
<1>14. CASE Crash
  <2>1. file' = file /\ written' = written /\ excuses \subseteq excuses'
    BY <1>14 DEF Crash
  <2>2. QED
    BY <1>14, <2>1, CrashDoes DEF Kept
<1>15. ASSUME NEW p \in Workers,
              \/ Begin(p) \/ Save(p) \/ SaveToFile(p) \/ Truncate(p) \/ Write(p)
              \/ Saved(p) \/ Failed(p) \/ SetCurrent(p)
              \/ Backup(p) \/ Copy(p) \/ RestoreCreate(p) \/ RestoreCopy(p) \/ CopyFails(p)
       PROVE  Kept'
  BY <1>4, <1>5, <1>11, <1>12, <1>13, <1>15, <1>17
<1>16. QED
  BY <1>3, <1>6, <1>7, <1>8, <1>9, <1>10, <1>14, <1>15 DEF Next

-----------------------------------------------------------------------------
\* The bytes are encrypted with the password that was taken.
LEMMA EncryptedStep ==
  ASSUME Typed, Busy, Encrypted, [Next]_vars
  PROVE  Encrypted'
<1>1. CASE UNCHANGED vars \/ Close
  BY <1>1 DEF vars, Close, Encrypted
<1>2. CASE Crash
  BY <1>2, CrashDoes DEF Encrypted
<1>3. ASSUME NEW p \in Workers, \E pc \in Steps \ {"write"} : \E op, w : Becomes(p, pc, op, w)
      PROVE  Encrypted'
  BY <1>3 DEF Becomes, Encrypted
<1>4. ASSUME NEW p \in Workers, Truncate(p) PROVE Encrypted'
  <2>1. PICK w : w = proc[p].w
    OBVIOUS
  <2>2. /\ Becomes(p, "write", proc[p].op, w) /\ proc'[p].pass = proc[p].pass
        /\ proc'[p].buf = [data |-> mem[w].data, pass |-> proc[p].pass]
    BY <1>4, <2>1, TruncateDoes
  <2>3. proc'[p].buf.pass = proc'[p].pass
    BY <2>2
  <2>4. QED
    BY <2>2, <2>3 DEF Becomes, Encrypted
<1>5. ASSUME NEW p \in Workers,
             Begin(p) \/ Save(p) \/ SaveToFile(p) \/ Write(p) \/ Saved(p) \/ Failed(p) \/ SetCurrent(p)
      PROVE  Encrypted'
  BY <1>3, <1>5, BeginDoes, SaveDoes, SaveToFileDoes, WriteDoes, SavedDoes, FailedDoes,
     SetCurrentDoes DEF Steps
<1>6. ASSUME NEW p \in Workers,
             Backup(p) \/ Copy(p) \/ RestoreCreate(p) \/ RestoreCopy(p) \/ CopyFails(p)
      PROVE  Encrypted'
  BY <1>3, <1>6, CopiesDo DEF Steps
<1>7. ASSUME NEW p \in Workers, NEW c \in Changes, Change(p, c) \/ LockedChange(p, c)
      PROVE  Encrypted'
  BY <1>3, <1>7, ChangeDoes, LockedChangeDoes DEF Steps
<1>8. ASSUME NEW p \in Workers, NEW x \in Passwords,
             ChangePassword(p, x) \/ Create(p, x) \/ Open(p, x) \/ DlgWalletRestore(p, x)
      PROVE  Encrypted'
  BY <1>3, <1>8, ChangePasswordDoes, CreateDoes, OpenDoes, CopiesDo DEF Steps
<1>9. QED
  BY <1>1, <1>2, <1>4, <1>5, <1>6, <1>7, <1>8 DEF Next

\* Nothing that is wrong about passwords.
Untroubled == excuses \cap {"stale", "untold", "overtaken"} = {}

\* A Wallet that should have the chosen password.
Current(i) ==
  i \in 1..Len(mem) /\ ~mem[i].stale /\ InUse(i) /\ \A p \in Workers : Changing(p) => proc[p].w # i

\* What AsTold says.
LEMMA ToldIs ==
  ASSUME mem \in Seq(Wallets)
  PROVE  AsTold <=> (Untroubled => /\ file.whole => file.content.pass = chosen
                                   /\ \A i : Current(i) => mem[i].pass = chosen)
BY InMemory DEF AsTold, Untroubled, Current

\* While the file and the chosen password stay, no Wallet comes into use with another one.
LEMMA ToldThen ==
  ASSUME Typed, Typed', AsTold, file' = file \/ ~file'.whole, chosen' = chosen,
         Untroubled' => Untroubled,
         Untroubled => \A i : Current(i)' => \/ Current(i) /\ mem'[i].pass = mem[i].pass
                                             \/ mem'[i].pass = chosen
  PROVE  AsTold'
<1>1. mem \in Seq(Wallets) /\ mem' \in Seq(Wallets)
  BY DEF Typed
<1>2. Untroubled => /\ file.whole => file.content.pass = chosen
                    /\ \A i : Current(i) => mem[i].pass = chosen
  BY <1>1, ToldIs
<1>3. Untroubled' => /\ file'.whole => file'.content.pass = chosen'
                     /\ \A i : Current(i)' => mem'[i].pass = chosen'
  BY <1>2
<1>4. DOMAIN mem' = 1..Len(mem')
  BY <1>1
<1>5. QED
  BY <1>3, <1>4 DEF AsTold, Untroubled, Current

\* A step that leaves the Wallets in use, their passwords and who changes them.
LEMMA ToldStays ==
  ASSUME Typed, Typed', AsTold, file' = file \/ ~file'.whole, chosen' = chosen,
         Untroubled' => Untroubled,
         Len(mem') = Len(mem),
         \A i \in 1..Len(mem) : mem'[i].pass = mem[i].pass /\ (mem'[i].stale <=> mem[i].stale),
         \A i \in 1..Len(mem) : InUse(i)' => InUse(i),
         \A p \in Workers : Changing(p) => Changing(p)' /\ proc'[p].w = proc[p].w
  PROVE  AsTold'
<1>1. ASSUME NEW i, Current(i)' PROVE Current(i) /\ mem'[i].pass = mem[i].pass
  BY <1>1 DEF Current
<1>2. QED
  BY <1>1, ToldThen

\* No Wallet that was there comes into use.
LEMMA Uses ==
  ASSUME Typed, Busy, [Next]_vars, NEW i \in 1..Len(mem), InUse(i)'
  PROVE  InUse(i)
<1>1. Len(mem) \in Nat /\ current \in 0..Len(mem)
  BY InMemory DEF Typed
<1>2. CASE UNCHANGED vars
  BY <1>2 DEF vars, InUse
<1>3. CASE Close
  BY <1>1, <1>3 DEF Close, InUse
<1>4. CASE Crash
  BY <1>1, <1>4, CrashDoes DEF InUse
<1>5. ASSUME NEW p \in Workers, KeepsOn(p) PROVE InUse(i)
  BY <1>5 DEF KeepsOn, Becomes, InUse
<1>6. ASSUME NEW p \in Workers, TakesUp(p) PROVE InUse(i)
  BY <1>1, <1>6 DEF TakesUp, Becomes, InUse
<1>7. ASSUME NEW p \in Workers, LetsGo(p) PROVE InUse(i)
  BY <1>1, <1>7 DEF LetsGo, Becomes, InUse
<1>8. ASSUME NEW p \in Workers, Makes(p) PROVE InUse(i)
  BY <1>1, <1>8 DEF Makes, Becomes, InUse
<1>9. QED
  BY <1>2, <1>3, <1>4, <1>5, <1>6, <1>7, <1>8, Effects DEF Alone, Moves

\* The password of the file and of the Wallets in use is the one the user was told.
LEMMA AsToldStep ==
  ASSUME Typed, Typed', Busy, Encrypted, AsTold, [Next]_vars
  PROVE  AsTold'
<1>1. /\ mem \in Seq(Wallets) /\ Len(mem) \in Nat /\ mem' \in Seq(Wallets)
      /\ current \in 0..Len(mem)
      /\ ~Torn.whole /\ \A c \in Contents : Whole(c).content = c
  BY InMemory, Constants DEF Typed
<1>2. \A i \in 1..Len(mem) : InUse(i)' => InUse(i)
  BY Uses
<1>3. ASSUME NEW p \in Workers, NEW pc, NEW op, NEW w, Becomes(p, pc, op, w),
             \/ proc[p].pc \notin {"marshal", "write"} \/ proc[p].op # "password"
             \/ pc = "write" /\ op = proc[p].op /\ w = proc[p].w,
             excuses \subseteq excuses', chosen' = chosen, file' = file \/ file' = Torn,
             \/ mem' = mem
             \/ \E i, d, h : Puts(i, d, mem[i].pass, h)
      PROVE  AsTold'
  <2>1. \A q \in Workers : Changing(q) => Changing(q)' /\ proc'[q].w = proc[q].w
    BY <1>3 DEF Changing, Becomes
  <2>2. /\ Len(mem') = Len(mem)
        /\ \A i \in 1..Len(mem) : mem'[i].pass = mem[i].pass /\ (mem'[i].stale <=> mem[i].stale)
    <3>1. CASE mem' = mem
      BY <3>1
    <3>2. ASSUME NEW i, NEW d, NEW h, Puts(i, d, mem[i].pass, h)
          PROVE  /\ Len(mem') = Len(mem)
                 /\ \A j \in 1..Len(mem) : /\ mem'[j].pass = mem[j].pass
                                           /\ mem'[j].stale <=> mem[j].stale
      BY <3>2 DEF Puts
    <3>3. QED
      BY <1>3, <3>1, <3>2
  <2>3. Untroubled' => Untroubled
    BY <1>3 DEF Untroubled
  <2>4. file' = file \/ ~file'.whole
    BY <1>1, <1>3
  <2>5. QED
    BY <1>2, <1>3, <2>1, <2>2, <2>3, <2>4, ToldStays
<1>4. CASE UNCHANGED vars \/ Close
  <2>1. /\ file' = file /\ chosen' = chosen /\ excuses' = excuses /\ mem' = mem /\ proc' = proc
    BY <1>4 DEF vars, Close
  <2>2. QED
    BY <1>2, <2>1, ToldStays DEF Untroubled, Changing
<1>5. ASSUME NEW p \in Workers,
             Begin(p) \/ Save(p) \/ Truncate(p) \/ Backup(p) \/ Copy(p) \/ RestoreCreate(p)
      PROVE  AsTold'
  <2>1. /\ excuses' = excuses /\ chosen' = chosen /\ mem' = mem /\ (file' = file \/ file' = Torn)
    BY <1>5 DEF Begin, Save, Truncate, Backup, Copy, RestoreCreate
  <2>2. CASE Truncate(p)
    BY <1>3, <2>1, <2>2, TruncateDoes
  <2>3. CASE ~Truncate(p)
    <3>1. proc[p].pc \notin {"marshal", "write"}
      BY <1>5, <2>3 DEF Begin, Save, Backup, Copy, RestoreCreate, At
    <3>2. \E pc, op, w : Becomes(p, pc, op, w)
      BY <1>5, BeginDoes, SaveDoes, TruncateDoes, CopiesDo
    <3>3. QED
      BY <1>3, <2>1, <3>1, <3>2
  <2>4. QED
    BY <2>2, <2>3
<1>6. ASSUME NEW p \in Workers, SaveToFile(p) \/ Saved(p) \/ SetCurrent(p) PROVE AsTold'
  <2>1. /\ excuses' = excuses /\ chosen' = chosen /\ file' = file
        /\ proc[p].pc \notin {"marshal", "write"}
    BY <1>6 DEF SaveToFile, Saved, SetCurrent, At
  <2>2. \E pc, op, w : Becomes(p, pc, op, w)
    BY <1>6, SaveToFileDoes, SavedDoes, SetCurrentDoes
  <2>3. \E i, h : Puts(i, mem[i].data, mem[i].pass, h)
    BY <1>6, SaveToFileDoes, SavedDoes, SetCurrentDoes
  <2>4. QED
    BY <1>3, <2>1, <2>2, <2>3
<1>7. ASSUME NEW p \in Workers, NEW c \in Changes, Change(p, c) \/ LockedChange(p, c)
      PROVE  AsTold'
  <2>1. /\ excuses' = excuses /\ chosen' = chosen /\ file' = file
        /\ proc[p].pc \notin {"marshal", "write"}
    BY <1>7 DEF Change, LockedChange, At
  <2>2. \E pc, op, w : Becomes(p, pc, op, w)
    BY <1>7, ChangeDoes, LockedChangeDoes
  <2>3. PICK w, h : w = proc[p].w /\ Puts(w, mem[w].data \cup {c}, mem[w].pass, h)
    <3>1. CASE Change(p, c)
      BY <3>1, ChangeDoes
    <3>2. CASE LockedChange(p, c)
      BY <3>2, LockedChangeDoes
    <3>3. QED
      BY <1>7, <3>1, <3>2
  <2>4. QED
    BY <1>3, <2>1, <2>2, <2>3
<1>8. ASSUME NEW p \in Workers, NEW x \in Passwords, DlgWalletRestore(p, x) PROVE AsTold'
  <2>1. /\ excuses' = excuses /\ chosen' = chosen /\ file' = file /\ mem' = mem
        /\ proc[p].pc \notin {"marshal", "write"}
    BY <1>8 DEF DlgWalletRestore, At
  <2>2. Becomes(p, "confirm", "restore", 0)
    BY <1>8, CopiesDo
  <2>3. QED
    BY <1>3, <2>1, <2>2
<1>9. ASSUME NEW p \in Workers, Failed(p) PROVE AsTold'
  <2>1. /\ excuses \subseteq excuses' /\ chosen' = chosen /\ file' = file
        /\ proc[p].op = "password" => "untold" \in excuses'
    BY <1>9 DEF Failed
  <2>2. CASE proc[p].op = "password"
    BY <2>1, <2>2 DEF AsTold
  <2>3. CASE proc[p].op # "password"
    <3>1. PICK w : w = proc[p].w
      OBVIOUS
    <3>2. /\ mem' = mem \/ Puts(w, mem[w].data, mem[w].pass, NoOne)
          /\ \E pc, op, v : Becomes(p, pc, op, v)
      BY <1>9, <3>1, FailedDoes
    <3>3. QED
      BY <1>3, <2>1, <2>3, <3>2
  <2>4. QED
    BY <2>2, <2>3
<1>17. ASSUME NEW p \in Workers, CopyFails(p) PROVE AsTold'
  <2>1. /\ excuses \subseteq excuses' /\ chosen' = chosen /\ file' = file /\ mem' = mem
        /\ proc[p].pc \notin {"marshal", "write"}
    BY <1>17 DEF CopyFails
  <2>2. \E pc, op, w : Becomes(p, pc, op, w)
    BY <1>17, CopiesDo
  <2>3. QED
    BY <1>3, <2>1, <2>2
<1>10. ASSUME NEW p \in Workers, NEW x \in Passwords, ChangePassword(p, x) PROVE AsTold'
  <2>1. /\ excuses' = excuses /\ chosen' = chosen /\ file' = file /\ current' = current
    BY <1>10 DEF ChangePassword
  <2>2. /\ Becomes(p, "marshal", "password", current) /\ proc[p].pc = "idle"
        /\ Puts(current, mem[current].data, x, p)
    BY <1>10, ChangePasswordDoes
  <2>3. Changing(p)' /\ proc'[p].w = current
    BY <2>2 DEF Changing, Becomes
  <2>4. \A q \in Workers : Changing(q) => Changing(q)' /\ proc'[q].w = proc[q].w
    BY <2>2 DEF Changing, Becomes
  <2>5. ASSUME NEW i, Current(i)' PROVE Current(i) /\ mem'[i].pass = mem[i].pass
    <3>1. i # current /\ i \in 1..Len(mem) /\ ~mem'[i].stale /\ InUse(i)'
      BY <2>2, <2>3, <2>5 DEF Current, Puts
    <3>2. mem'[i] = mem[i] /\ InUse(i)
      BY <1>2, <2>2, <3>1 DEF Puts
    <3>3. \A q \in Workers : Changing(q) => proc[q].w # i
      BY <2>4, <2>5 DEF Current
    <3>4. QED
      BY <3>1, <3>2, <3>3 DEF Current
  <2>6. Untroubled' => Untroubled
    BY <2>1 DEF Untroubled
  <2>7. QED
    BY <2>1, <2>5, <2>6, ToldThen
<1>11. ASSUME NEW p \in Workers, NEW x \in Passwords, Create(p, x) \/ Open(p, x) PROVE AsTold'
  <2>1. PICK pc, op, d :
          /\ Becomes(p, pc, op, Len(mem) + 1) /\ proc[p].pc = "idle" /\ Adds(d, x, p)
          /\ op \notin {"save", "password", "open"} \/ (file.whole /\ file.content.pass = x)
    BY <1>11, CreateDoes, OpenDoes
  <2>2. excuses' = excuses /\ chosen' = chosen /\ file' = file /\ current' = current
    <3>1. CASE Create(p, x)
      BY <3>1 DEF Create
    <3>2. CASE Open(p, x)
      BY <3>2 DEF Open
    <3>3. QED
      BY <1>11, <3>1, <3>2
  <2>3. \A q \in Workers : Changing(q) => Changing(q)' /\ proc'[q].w = proc[q].w
    BY <2>1 DEF Changing, Becomes
  <2>4. ASSUME Untroubled, NEW i, Current(i)'
        PROVE  (Current(i) /\ mem'[i].pass = mem[i].pass) \/ mem'[i].pass = chosen
    <3>1. CASE i \in 1..Len(mem)
      <4>1. mem'[i] = mem[i] /\ InUse(i) /\ ~mem[i].stale
        BY <1>2, <2>1, <2>4, <3>1 DEF Adds, Current
      <4>2. \A q \in Workers : Changing(q) => proc[q].w # i
        BY <2>3, <2>4 DEF Current
      <4>3. QED
        BY <3>1, <4>1, <4>2 DEF Current
    <3>2. CASE i \notin 1..Len(mem)
      <4>1. i = Len(mem) + 1 /\ mem'[i].pass = x
        BY <1>1, <2>1, <2>4, <3>2 DEF Adds, Current
      <4>2. op \in {"save", "password", "open"}
        <5>1. InUse(i)' /\ i # current' /\ \A q \in Workers : proc[q].w # i
          BY <1>1, <2>2, <2>4, <4>1 DEF Current, Busy, BusyAt
        <5>2. QED
          BY <2>1, <5>1 DEF InUse, Becomes
      <4>3. file.content.pass = chosen
        BY <1>1, <2>1, <2>4, <4>2, ToldIs
      <4>4. QED
        BY <2>1, <4>1, <4>2, <4>3
    <3>3. QED
      BY <3>1, <3>2
  <2>5. Untroubled' => Untroubled
    BY <2>2 DEF Untroubled
  <2>6. QED
    BY <2>2, <2>4, <2>5, ToldThen
<1>12. ASSUME NEW p \in Workers, Write(p) PROVE AsTold'
  <2>1. PICK w : w = proc[p].w
    OBVIOUS
  <2>2. /\ proc[p].pc = "write" /\ proc[p].buf \in Contents /\ w \in 1..Len(mem) /\ Ages(w)
        /\ file' = Whole(proc[p].buf) \/ file' = Torn
    BY <1>12, <2>1, WriteDoes
  <2>3. /\ chosen' = IF Chooses(p) THEN proc[p].pass ELSE chosen
        /\ mem[w].stale => "stale" \in excuses'
        /\ proc[p].pass # mem[w].pass => "overtaken" \in excuses'
        /\ \A e \in excuses : e = "stale" \/ (e # "torn" /\ proc[p].pass # chosen') => e \in excuses'
    BY <1>12, <2>1 DEF Write
  <2>4. SUFFICES ASSUME Untroubled' PROVE AsTold'
    BY <1>1, ToldIs DEF AsTold, Untroubled
  <2>5. ~mem[w].stale /\ proc[p].pass = mem[w].pass
    BY <2>3, <2>4 DEF Untroubled
  <2>6. proc[p].pass = chosen'
    <3>1. SUFFICES ASSUME proc[p].pass # chosen' PROVE FALSE
      OBVIOUS
    <3>2. Untroubled /\ ~Chooses(p)
      BY <2>3, <2>4, <3>1 DEF Untroubled
    <3>3. InUse(w)
      BY <2>1, <2>2, <3>2 DEF Busy, BusyAt, Saving, Chooses, InUse
    <3>4. \A q \in Workers : Changing(q) => proc[q].w # w
      BY <2>1, <2>2, <3>2 DEF Busy, BusyAt, Saving, Chooses, Changing
    <3>5. mem[w].pass = chosen
      BY <1>1, <2>2, <2>5, <3>2, <3>3, <3>4, ToldIs DEF Current
    <3>6. QED
      BY <2>3, <2>5, <3>1, <3>2, <3>5
  <2>7. file'.whole => file'.content.pass = chosen'
    BY <1>1, <2>2, <2>6 DEF Encrypted
  <2>8. \A i \in DOMAIN mem' : ~mem'[i].stale => mem'[i].pass = chosen'
    <3>1. DOMAIN mem' = 1..Len(mem)
      BY <1>1, <2>2 DEF Ages
    <3>2. \A i \in 1..Len(mem) : mem'[i].pass = mem[i].pass /\ (~mem'[i].stale => i = w)
      BY <1>1, <2>2, Aged
    <3>3. QED
      BY <2>5, <2>6, <3>1, <3>2
  <2>9. QED
    BY <2>7, <2>8 DEF AsTold
<1>13. ASSUME NEW p \in Workers, RestoreCopy(p) PROVE AsTold'
  <2>1. Ages(0) /\ chosen' = backup.content.pass /\ (file' = backup \/ file' = Torn)
    BY <1>13, CopiesDo DEF RestoreCopy
  <2>2. file'.whole => file'.content.pass = chosen'
    BY <1>1, <2>1
  <2>3. \A i \in DOMAIN mem' : mem'[i].stale
    <3>1. DOMAIN mem' = 1..Len(mem)
      BY <1>1, <2>1 DEF Ages
    <3>2. \A i \in 1..Len(mem) : ~mem'[i].stale => i = 0
      BY <1>1, <2>1, Aged
    <3>3. QED
      BY <1>1, <3>1, <3>2
  <2>4. QED
    BY <2>2, <2>3 DEF AsTold
<1>14. CASE Crash
  <2>1. excuses \subseteq excuses' /\ chosen' = chosen /\ file' = file /\ DOMAIN mem' = {}
    BY <1>14, CrashDoes DEF Crash
  <2>2. QED
    BY <2>1 DEF AsTold
<1>15. ASSUME NEW p \in Workers,
              \/ Begin(p) \/ Save(p) \/ SaveToFile(p) \/ Truncate(p) \/ Write(p)
              \/ Saved(p) \/ Failed(p) \/ SetCurrent(p)
              \/ Backup(p) \/ Copy(p) \/ RestoreCreate(p) \/ RestoreCopy(p) \/ CopyFails(p)
       PROVE  AsTold'
  BY <1>5, <1>6, <1>9, <1>12, <1>13, <1>15, <1>17
<1>16. QED
  BY <1>4, <1>7, <1>8, <1>10, <1>11, <1>14, <1>15 DEF Next

-----------------------------------------------------------------------------
\* It is so at the start,
LEMMA InitHolds == ASSUME Init PROVE IInv
<1>1. /\ Idle \in Goroutines /\ Idle.pc = "idle" /\ Idle.op = "none" /\ Idle.w = 0
      /\ NoFile.content \in Contents /\ ~NoFile.there /\ ~NoFile.whole
  BY Constants DEF Init
<1>2. PICK c \in Contents : c = [data |-> {}, pass |-> chosen]
  BY DEF Init, Contents
<1>3. /\ file = NoFile \/ file = Whole(c)
      /\ c.pass = chosen /\ Whole(c).there /\ Whole(c).whole /\ Whole(c).content = c
  <2>1. Whole(c).there /\ Whole(c).whole /\ Whole(c).content = c
    BY Constants DEF Init
  <2>2. c.pass = chosen
    BY <1>2
  <2>3. QED
    BY <1>2, <2>1, <2>2 DEF Init
<1>4. /\ mem = <<>> /\ mem \in Seq(Wallets) /\ Len(mem) = 0 /\ DOMAIN mem = {} /\ current = 0
      /\ written = {} /\ excuses = {} /\ fails = 0
      /\ \A p \in Workers : proc[p] = Idle
      /\ proc \in [Workers -> Goroutines]
  BY <1>1 DEF Init
<1>5. Typed
  BY <1>3, <1>4 DEF Init, Typed, Files
<1>6. Busy /\ Held /\ Private /\ Encrypted
  BY <1>1, <1>4 DEF Busy, BusyAt, Saving, Held, Private, Encrypted
<1>7. TornIsKnown /\ Kept /\ AsTold
  BY <1>1, <1>3, <1>4 DEF TornIsKnown, Kept, AsTold
<1>8. QED
  BY <1>5, <1>6, <1>7 DEF IInv

\* and after every step.
LEMMA StepHolds == ASSUME IInv, [Next]_vars PROVE IInv'
<1>1. Typed /\ Busy /\ Held /\ Private /\ TornIsKnown /\ Kept /\ Encrypted /\ AsTold
  BY DEF IInv
<1>2. Typed' /\ Busy' /\ Held' /\ Private'
  BY <1>1, TypedStep, BusyStep, HeldStep, PrivateStep
<1>3. TornIsKnown' /\ Kept' /\ Encrypted' /\ AsTold'
  BY <1>1, <1>2, TornIsKnownStep, KeptStep, EncryptedStep, AsToldStep
<1>4. QED
  BY <1>2, <1>3 DEF IInv

\* The invariant of everything below.
LEMMA Invariant == Spec => []IInv
<1>1. Init => IInv
  BY InitHolds
<1>2. IInv /\ [Next]_vars => IInv'
  BY StepHolds
<1>3. QED
  BY <1>1, <1>2, PTL DEF Spec

(* The wallet files hold what they should, no Wallet is used that is not    *)
(* there, and whoever holds the mutex of a Wallet is at that Wallet.        *)
THEOREM FileTypes == Spec => []TypeOK
<1>1. ASSUME IInv PROVE TypeOK
  <2>1. Typed /\ Busy /\ Held
    BY <1>1 DEF IInv
  <2>2. \A f \in Files : /\ f \in [there : BOOLEAN, whole : BOOLEAN, content : Contents]
                         /\ f.whole => f.there
    <3>1. ASSUME NEW f \in Files PROVE f \in [there : BOOLEAN, whole : BOOLEAN, content : Contents]
      <4>1. NoFile.content \in Contents
        BY <2>1, Constants DEF Typed
      <4>2. NoFile \in [there : BOOLEAN, whole : BOOLEAN, content : Contents]
        BY <4>1 DEF NoFile
      <4>3. Torn \in [there : BOOLEAN, whole : BOOLEAN, content : Contents]
        BY <4>2 DEF Torn
      <4>4. \A c \in Contents : Whole(c) \in [there : BOOLEAN, whole : BOOLEAN, content : Contents]
        BY DEF Whole
      <4>5. QED
        BY <4>2, <4>3, <4>4 DEF Files
    <3>2. QED
      BY <2>1, <3>1, InFiles DEF Typed
  <2>3. \A i \in DOMAIN mem :
          /\ mem[i].data \in SUBSET Changes /\ mem[i].pass \in Passwords
          /\ mem[i].holder # NoOne => proc[mem[i].holder].w = i
    BY <2>1, InMemory DEF Typed, Held
  <2>4. QED
    BY <2>1, <2>2, <2>3 DEF TypeOK, Typed, Busy, BusyAt
<1>2. QED
  BY <1>1, Invariant, PTL

(* However many goroutines save at once, and whatever Wallets they still    *)
(* hold, what has made it to the file is there when nobody writes, and the  *)
(* file is whole, unless the program ended or failed in the middle of a     *)
(* write or a goroutine saved what it had from before another's save.       *)
THEOREM SavedIsNotLost == Spec => []WrittenStays
<1>1. ASSUME IInv PROVE WrittenStays
  BY <1>1 DEF IInv, TornIsKnown, Kept, WrittenStays, AtRest
<1>2. QED
  BY <1>1, Invariant, PTL

(* The file opens with the password the user last chose.                    *)
THEOREM FileOpens == Spec => []PasswordIsAsTold
<1>1. ASSUME IInv PROVE PasswordIsAsTold
  BY <1>1 DEF IInv, TornIsKnown, AsTold, PasswordIsAsTold, AtRest
<1>2. QED
  BY <1>1, Invariant, PTL

(* The Wallet everybody uses has all that was ever saved.                   *)
THEOREM NothingMissing == Spec => []CurrentHasAll
<1>1. ASSUME IInv PROVE CurrentHasAll
  <2>1. current # 0 => current \in DOMAIN mem
    BY <1>1, InMemory DEF IInv, Typed
  <2>2. QED
    BY <1>1, <2>1 DEF IInv, Kept, CurrentHasAll
<1>2. QED
  BY <1>1, Invariant, PTL

-----------------------------------------------------------------------------
(***************************************************************************)
(* The tokens.                                                             *)
(***************************************************************************)
\* Of the first n elements no two are at one address of a blockchain.
OneEach(a, n) ==
  \A i, j \in 1..n : i # j => ~(a[i].address = a[j].address /\ a[i].chain = a[j].chain)

\* The native tokens are of the blockchains K.
NativesOf(a, n, K) == \A i \in 1..n : a[i].native => a[i].chain \in K

\* The lists of tokens, and the slices of arrays, of which both hold.
Lists(K) == {ts \in Seq(Token) : OneEach(ts, Len(ts)) /\ NativesOf(ts, Len(ts), K)}

Slices(K) == {s \in [a : Seq(Token), n : Nat, ok : BOOLEAN] :
                s.n <= Len(s.a) /\ OneEach(s.a, s.n) /\ NativesOf(s.a, s.n, K)}

ChainsOf(cs) == {cs[i].id : i \in DOMAIN cs}

-----------------------------------------------------------------------------
(***************************************************************************)
(* The slices.                                                             *)
(***************************************************************************)
LEMMA DeleteAtKeeps ==
  ASSUME NEW K, NEW s \in Slices(K), NEW j \in Nat \ {0}
  PROVE  DeleteAt(s, j) \in Slices(K)
<1>1. /\ s \in [a : Seq(Token), n : Nat, ok : BOOLEAN] /\ s.n <= Len(s.a)
      /\ OneEach(s.a, s.n) /\ NativesOf(s.a, s.n, K)
  BY DEF Slices
<1>2. CASE j > s.n
  <2>1. DeleteAt(s, j) = [s EXCEPT !.ok = FALSE]
    BY <1>2 DEF DeleteAt
  <2>2. QED
    BY <1>1, <2>1 DEF Slices
<1>3. CASE j <= s.n
  <2> DEFINE b == [k \in DOMAIN s.a |-> IF k \in j..(s.n - 1) THEN s.a[k + 1] ELSE s.a[k]]
             From(k) == IF j <= k THEN k + 1 ELSE k
  <2>1. DeleteAt(s, j) = [a |-> b, n |-> s.n - 1, ok |-> TRUE]
    BY <1>1, <1>3 DEF DeleteAt
  <2>2. s.n \in Nat /\ s.a \in Seq(Token) /\ Len(s.a) \in Nat /\ s.n - 1 \in Nat
    BY <1>1, <1>3
  <2>3. DOMAIN s.a = 1..Len(s.a) /\ s.a \in [1..Len(s.a) -> Token]
    BY <2>2
  <2>4. b \in [1..Len(s.a) -> Token]
    BY <1>1, <2>2, <2>3
  <2>5. b \in Seq(Token) /\ Len(b) = Len(s.a)
    <3> HIDE DEF b
    <3>1. QED
      BY <2>2, <2>4, FunctionIsSeq
  <2>6. ASSUME NEW k \in 1..(s.n - 1)
        PROVE  b[k] = s.a[From(k)] /\ From(k) \in 1..s.n
    BY <1>1, <1>3, <2>2, <2>3
  <2>7. \A k, l \in 1..(s.n - 1) : k # l => From(k) # From(l)
    BY <2>2
  <2> HIDE DEF b, From
  <2>8. OneEach(b, s.n - 1)
    BY <1>1, <2>6, <2>7 DEF OneEach
  <2>9. NativesOf(b, s.n - 1, K)
    BY <1>1, <2>6 DEF NativesOf
  <2>10. s.n - 1 <= Len(b)
    BY <1>1, <2>2, <2>5
  <2>11. QED
    BY <2>1, <2>2, <2>5, <2>8, <2>9, <2>10 DEF Slices
<1>4. QED
  BY <1>1, <1>2, <1>3

LEMMA WholeIs ==
  ASSUME NEW K, NEW ts \in Lists(K)
  PROVE  WholeSlice(ts) \in Slices(K)
BY DEF Lists, WholeSlice, Slices

LEMMA ElementsOf ==
  ASSUME NEW K, NEW s \in Slices(K)
  PROVE  Elements(s) \in Lists(K)
<1>1. /\ s.a \in Seq(Token) /\ s.n \in Nat /\ s.n <= Len(s.a)
      /\ OneEach(s.a, s.n) /\ NativesOf(s.a, s.n, K)
  BY DEF Slices
<1> DEFINE e == Elements(s)
<1>2. e \in Seq(Token) /\ Len(e) = s.n /\ \A i \in 1..s.n : e[i] = s.a[i]
  BY <1>1 DEF Elements
<1> HIDE DEF e
<1>3. OneEach(e, Len(e)) /\ NativesOf(e, Len(e), K)
  BY <1>1, <1>2 DEF OneEach, NativesOf
<1>4. QED
  BY <1>2, <1>3 DEF Lists, e

-----------------------------------------------------------------------------
(***************************************************************************)
(* The loops. Each says what its rounds keep.                              *)
(***************************************************************************)
\* An element is compared with all of the slice, and those with its symbol go.
LEMMA RemoveSameKeeps ==
  ASSUME NEW K, NEW s \in Slices(K), NEW i
  PROVE  RemoveSame(s, i) \in Slices(K)
<1> DEFINE n == s.n
           S == Slices(K)
           x == s
           R(u, j) == IF u.ok /\ i # j /\ SameSymbol(s.a[i], u.a[j]) THEN DeleteAt(u, j) ELSE u
           step == [j \in 1..n |-> [u \in S |-> R(u, j)]]
<1>1. n \in Nat /\ x \in S
  BY DEF Slices
<1>2. ASSUME NEW u \in S, NEW j \in 1..n PROVE R(u, j) \in S
  <2>1. j \in Nat \ {0} /\ u \in Slices(K)
    BY <1>2
  <2>2. DeleteAt(u, j) \in Slices(K)
    BY <2>1, DeleteAtKeeps
  <2>3. QED
    BY <2>1, <2>2
<1>3. RemoveSame(s, i) = (CHOOSE f : f = [j \in 0..n |-> IF j = 0 THEN x ELSE R(f[j - 1], j)])[n]
  BY DEF RemoveSame, Rounds
<1> HIDE DEF S, R, n, x
<1>4. step \in [1..n -> [S -> S]]
  BY <1>2
<1>5. PICK f \in [0..n -> S] : Unfolds(f, n, x, step)
  <2> HIDE DEF step
  <2>1. QED
    BY <1>1, <1>4, RecursionExists
<1>6. ASSUME NEW j \in 0..n PROVE f[j] = IF j = 0 THEN x ELSE R(f[j - 1], j)
  <2>1. CASE j = 0
    BY <1>5, <2>1 DEF Unfolds
  <2>2. CASE j # 0
    <3>1. j \in 1..n /\ f[j - 1] \in S
      BY <1>1, <2>2
    <3>2. QED
      BY <1>5, <2>2, <3>1 DEF Unfolds
  <2>3. QED
    BY <2>1, <2>2
<1>7. f = [j \in 0..n |-> IF j = 0 THEN x ELSE R(f[j - 1], j)]
  BY <1>6
<1>8. PICK g : /\ g = [j \in 0..n |-> IF j = 0 THEN x ELSE R(g[j - 1], j)]
               /\ RemoveSame(s, i) = g[n]
  BY <1>3, <1>7
<1>9. g[0] \in S /\ \A j \in 1..n : g[j - 1] \in S => g[j] \in S
  BY <1>1, <1>2, <1>8
<1>10. \A j \in 0..n : g[j] \in S
  BY <1>1, <1>9, StaysIn
<1>11. QED
  BY <1>1, <1>8, <1>10 DEF S

\* All elements, one after the other.
LEMMA RemoveDoublesKeeps ==
  ASSUME NEW K, NEW ts \in Lists(K)
  PROVE  RemoveDoubles(ts) \in Slices(K)
<1> DEFINE n == Len(ts)
           S == Slices(K)
           x == WholeSlice(ts)
           R(s, i) == RemoveSame(s, i)
           step == [i \in 1..n |-> [s \in S |-> R(s, i)]]
<1>1. n \in Nat /\ x \in S
  BY WholeIs DEF Lists
<1>2. ASSUME NEW s \in S, NEW i \in 1..n PROVE R(s, i) \in S
  BY <1>2, RemoveSameKeeps
<1>3. RemoveDoubles(ts) = (CHOOSE f : f = [i \in 0..n |-> IF i = 0 THEN x ELSE R(f[i - 1], i)])[n]
  BY DEF RemoveDoubles, Rounds
<1> HIDE DEF S, R, n, x
<1>4. step \in [1..n -> [S -> S]]
  BY <1>2
<1>5. PICK f \in [0..n -> S] : Unfolds(f, n, x, step)
  <2> HIDE DEF step
  <2>1. QED
    BY <1>1, <1>4, RecursionExists
<1>6. ASSUME NEW i \in 0..n PROVE f[i] = IF i = 0 THEN x ELSE R(f[i - 1], i)
  <2>1. CASE i = 0
    BY <1>5, <2>1 DEF Unfolds
  <2>2. CASE i # 0
    <3>1. i \in 1..n /\ f[i - 1] \in S
      BY <1>1, <2>2
    <3>2. QED
      BY <1>5, <2>2, <3>1 DEF Unfolds
  <2>3. QED
    BY <2>1, <2>2
<1>7. f = [i \in 0..n |-> IF i = 0 THEN x ELSE R(f[i - 1], i)]
  BY <1>6
<1>8. PICK g : /\ g = [i \in 0..n |-> IF i = 0 THEN x ELSE R(g[i - 1], i)]
               /\ RemoveDoubles(ts) = g[n]
  BY <1>3, <1>7
<1>9. g[0] \in S /\ \A i \in 1..n : g[i - 1] \in S => g[i] \in S
  BY <1>1, <1>2, <1>8
<1>10. \A i \in 0..n : g[i] \in S
  BY <1>1, <1>9, StaysIn
<1>11. QED
  BY <1>1, <1>8, <1>10 DEF S

\* The tokens of a blockchain, as far as the loop finds them.
LEMMA RemoveTokensOfKeeps ==
  ASSUME NEW K, NEW ts \in Lists(K), NEW c
  PROVE  RemoveTokensOf(c, ts) \in Slices(K)
<1> DEFINE n == Len(ts)
           S == Slices(K)
           x == WholeSlice(ts)
           R(s, i) == IF s.ok /\ s.a[i].chain = c THEN DeleteAt(s, i) ELSE s
           step == [i \in 1..n |-> [s \in S |-> R(s, i)]]
<1>1. n \in Nat /\ x \in S
  BY WholeIs DEF Lists
<1>2. ASSUME NEW s \in S, NEW i \in 1..n PROVE R(s, i) \in S
  <2>1. i \in Nat \ {0} /\ s \in Slices(K)
    BY <1>1, <1>2
  <2>2. DeleteAt(s, i) \in Slices(K)
    BY <2>1, DeleteAtKeeps
  <2>3. QED
    BY <2>1, <2>2
<1>3. RemoveTokensOf(c, ts) = (CHOOSE f : f = [i \in 0..n |-> IF i = 0 THEN x ELSE R(f[i - 1], i)])[n]
  BY DEF RemoveTokensOf, Rounds
<1> HIDE DEF S, R, n, x
<1>4. step \in [1..n -> [S -> S]]
  BY <1>2
<1>5. PICK f \in [0..n -> S] : Unfolds(f, n, x, step)
  <2> HIDE DEF step
  <2>1. QED
    BY <1>1, <1>4, RecursionExists
<1>6. ASSUME NEW i \in 0..n PROVE f[i] = IF i = 0 THEN x ELSE R(f[i - 1], i)
  <2>1. CASE i = 0
    BY <1>5, <2>1 DEF Unfolds
  <2>2. CASE i # 0
    <3>1. i \in 1..n /\ f[i - 1] \in S
      BY <1>1, <2>2
    <3>2. QED
      BY <1>5, <2>2, <3>1 DEF Unfolds
  <2>3. QED
    BY <2>1, <2>2
<1>7. f = [i \in 0..n |-> IF i = 0 THEN x ELSE R(f[i - 1], i)]
  BY <1>6
<1>8. PICK g : /\ g = [i \in 0..n |-> IF i = 0 THEN x ELSE R(g[i - 1], i)]
               /\ RemoveTokensOf(c, ts) = g[n]
  BY <1>3, <1>7
<1>9. g[0] \in S /\ \A i \in 1..n : g[i - 1] \in S => g[i] \in S
  BY <1>1, <1>2, <1>8
<1>10. \A i \in 0..n : g[i] \in S
  BY <1>1, <1>9, StaysIn
<1>11. QED
  BY <1>1, <1>8, <1>10 DEF S

\* A sequence with one more element.
LEMMA AppendKeeps ==
  ASSUME NEW K, NEW us \in Lists(K), NEW t \in Token, t.native => t.chain \in K,
         \A i \in 1..Len(us) : ~(us[i].address = t.address /\ us[i].chain = t.chain)
  PROVE  Append(us, t) \in Lists(K)
<1>1. us \in Seq(Token) /\ OneEach(us, Len(us)) /\ NativesOf(us, Len(us), K)
  BY DEF Lists
<1> DEFINE v == Append(us, t)
           n == Len(us)
<1>2. /\ v \in Seq(Token) /\ Len(v) = n + 1 /\ n \in Nat /\ v[n + 1] = t
      /\ \A i \in 1..n : v[i] = us[i]
  BY <1>1
<1>3. \A i \in 1..(n + 1) : i = n + 1 \/ i \in 1..n
  BY <1>2
<1> HIDE DEF v, n
<1>4. OneEach(v, n + 1)
  BY <1>1, <1>2, <1>3 DEF OneEach, n
<1>5. NativesOf(v, n + 1, K)
  BY <1>1, <1>2, <1>3 DEF NativesOf, n
<1>6. QED
  BY <1>2, <1>4, <1>5 DEF Lists, v

\* What the look-ups find.
LEMMA NativeIs ==
  ASSUME NEW K, NEW us \in Lists(K), NEW c
  PROVE  LET i == GetNativeToken(us, c)
         IN  \/ i \in 1..Len(us) /\ us[i].chain = c /\ us[i].native
             \/ i = 0 /\ \A j \in 1..Len(us) : ~(us[j].chain = c /\ us[j].native)
<1> DEFINE I == {j \in 1..Len(us) : us[j].chain = c /\ us[j].native}
<1>1. GetNativeToken(us, c) = IF I # {} THEN Min(I) ELSE 0
  BY DEF GetNativeToken, SelectInSeq
<1>2. I \subseteq Nat
  OBVIOUS
<1>3. I # {} => Min(I) \in I
  <2> HIDE DEF I
  <2>1. QED
    BY <1>2, LeastElement
<1>4. QED
  BY <1>1, <1>3

LEMMA NativeRound ==
  ASSUME NEW K, NEW us \in Lists(K), NEW c \in Blockchain, c.id \in K
  PROVE  (LET i == GetNativeToken(us, c.id)
          IN  IF i > 0 THEN [us EXCEPT ![i].symbol = c.currency]
              ELSE Append(us, NativeToken(c))) \in Lists(K)
<1> DEFINE i == GetNativeToken(us, c.id)
<1>1. \/ i \in 1..Len(us) /\ us[i].chain = c.id /\ us[i].native
      \/ i = 0 /\ \A j \in 1..Len(us) : ~(us[j].chain = c.id /\ us[j].native)
  BY NativeIs
<1>2. us \in Seq(Token) /\ OneEach(us, Len(us)) /\ NativesOf(us, Len(us), K) /\ Len(us) \in Nat
  BY DEF Lists
<1>3. c.id \in ChainIds /\ c.currency \in Symbol
  BY DEF Blockchain, Symbol
<1> HIDE DEF i
<1>4. CASE i > 0
  <2> DEFINE t == [us[i] EXCEPT !.symbol = c.currency]
             v == [us EXCEPT ![i] = t]
  <2>1. i \in 1..Len(us) /\ us[i] \in Token
    BY <1>1, <1>2, <1>4
  <2>2. /\ t \in Token /\ t.chain = us[i].chain /\ t.address = us[i].address
        /\ t.native = us[i].native
    BY <1>3, <2>1 DEF Token
  <2>3. [us EXCEPT ![i].symbol = c.currency] = v
    OBVIOUS
  <2> HIDE DEF t
  <2>4. /\ v \in Seq(Token) /\ Len(v) = Len(us)
        /\ \A j \in 1..Len(us) : v[j] = IF j = i THEN t ELSE us[j]
    BY <1>2, <2>1, <2>2, SeqExcept
  <2> HIDE DEF v
  <2>5. \A j \in 1..Len(us) : /\ v[j].chain = us[j].chain /\ v[j].address = us[j].address
                              /\ v[j].native = us[j].native
    BY <2>2, <2>4
  <2>6. OneEach(v, Len(v)) /\ NativesOf(v, Len(v), K)
    BY <1>2, <2>4, <2>5 DEF OneEach, NativesOf
  <2>7. v \in Lists(K)
    BY <2>4, <2>6 DEF Lists
  <2>8. QED
    BY <1>4, <2>3, <2>7 DEF i
<1>5. CASE ~(i > 0)
  <2> DEFINE t == NativeToken(c)
  <2>1. t \in Token /\ t.native /\ t.chain = c.id /\ t.address = Zero
    BY <1>3 DEF NativeToken, Token, Address
  <2>2. \A j \in 1..Len(us) : us[j].native <=> us[j].address = Zero
    BY <1>2 DEF Token
  <2> HIDE DEF t
  <2>3. \A j \in 1..Len(us) : ~(us[j].address = t.address /\ us[j].chain = t.chain)
    BY <1>1, <1>5, <2>1, <2>2
  <2>4. Append(us, t) \in Lists(K)
    BY <2>1, <2>3, AppendKeeps
  <2>5. QED
    BY <1>5, <2>4 DEF i, t
<1>6. QED
  BY <1>4, <1>5

\* The address of a contract: none has it on the blockchain when none is found.
LEMMA ContractIs ==
  ASSUME NEW K, NEW us \in Lists(K), NEW cs, NEW c, NEW a, a # Zero
  PROVE  \/ GetTokenByAddress(cs, us, c, a) \in 1..Len(us)
         \/ /\ GetTokenByAddress(cs, us, c, a) = 0
            /\ \A j \in 1..Len(us) : ~(us[j].chain = c /\ us[j].address = a)
<1> DEFINE I == {j \in 1..Len(us) : us[j].chain = c /\ us[j].address = a}
<1>1. GetTokenByAddress(cs, us, c, a) = IF I # {} THEN Min(I) ELSE 0
  BY DEF GetTokenByAddress, SelectInSeq
<1>2. I \subseteq Nat
  OBVIOUS
<1>3. I # {} => Min(I) \in I
  <2> HIDE DEF I
  <2>1. QED
    BY <1>2, LeastElement
<1>4. QED
  BY <1>1, <1>3

LEMMA WrappedRound ==
  ASSUME NEW K, NEW us \in Lists(K), NEW cs, NEW c \in Blockchain
  PROVE  (IF \/ c.wrapped = Zero
             \/ GetTokenByAddress(cs, us, c.id, c.wrapped) > 0
          THEN us ELSE Append(us, WrappedToken(c))) \in Lists(K)
<1>1. SUFFICES ASSUME c.wrapped # Zero, ~(GetTokenByAddress(cs, us, c.id, c.wrapped) > 0)
               PROVE  Append(us, WrappedToken(c)) \in Lists(K)
  OBVIOUS
<1> DEFINE t == WrappedToken(c)
<1>2. t \in Token /\ ~t.native /\ t.chain = c.id /\ t.address = c.wrapped
  BY <1>1 DEF WrappedToken, Token, Blockchain, Symbol
<1> HIDE DEF t
<1>3. Len(us) \in Nat
  BY DEF Lists
<1>4. \A j \in 1..Len(us) : ~(us[j].address = t.address /\ us[j].chain = t.chain)
  BY <1>1, <1>2, <1>3, ContractIs
<1>5. QED
  BY <1>2, <1>4, AppendKeeps DEF t

\* Each blockchain has its native token then, and none has two.
LEMMA AuditNativeKeeps ==
  ASSUME NEW cs \in Seq(Blockchain), NEW K, ChainsOf(cs) \subseteq K, NEW ts \in Lists(K)
  PROVE  AuditNative(cs, ts) \in Lists(K)
<1> DEFINE n == Len(cs)
           S == Lists(K)
           x == ts
           R(us, k) == LET i == GetNativeToken(us, cs[k].id)
                       IN  IF i > 0 THEN [us EXCEPT ![i].symbol = cs[k].currency]
                           ELSE Append(us, NativeToken(cs[k]))
           step == [k \in 1..n |-> [us \in S |-> R(us, k)]]
<1>1. n \in Nat /\ x \in S
  OBVIOUS
<1>2. ASSUME NEW us \in S, NEW k \in 1..n PROVE R(us, k) \in S
  <2>1. cs[k] \in Blockchain /\ cs[k].id \in K
    BY <1>2 DEF ChainsOf
  <2>2. QED
    BY <1>2, <2>1, NativeRound
<1>3. AuditNative(cs, ts) = (CHOOSE f : f = [k \in 0..n |-> IF k = 0 THEN x ELSE R(f[k - 1], k)])[n]
  BY DEF AuditNative, Rounds
<1> HIDE DEF S, R, n, x
<1>4. step \in [1..n -> [S -> S]]
  BY <1>2
<1>5. PICK f \in [0..n -> S] : Unfolds(f, n, x, step)
  <2> HIDE DEF step
  <2>1. QED
    BY <1>1, <1>4, RecursionExists
<1>6. ASSUME NEW k \in 0..n PROVE f[k] = IF k = 0 THEN x ELSE R(f[k - 1], k)
  <2>1. CASE k = 0
    BY <1>5, <2>1 DEF Unfolds
  <2>2. CASE k # 0
    <3>1. k \in 1..n /\ f[k - 1] \in S
      BY <1>1, <2>2
    <3>2. QED
      BY <1>5, <2>2, <3>1 DEF Unfolds
  <2>3. QED
    BY <2>1, <2>2
<1>7. f = [k \in 0..n |-> IF k = 0 THEN x ELSE R(f[k - 1], k)]
  BY <1>6
<1>8. PICK g : /\ g = [k \in 0..n |-> IF k = 0 THEN x ELSE R(g[k - 1], k)]
               /\ AuditNative(cs, ts) = g[n]
  BY <1>3, <1>7
<1>9. g[0] \in S /\ \A k \in 1..n : g[k - 1] \in S => g[k] \in S
  BY <1>1, <1>2, <1>8
<1>10. \A k \in 0..n : g[k] \in S
  BY <1>1, <1>9, StaysIn
<1>11. QED
  BY <1>1, <1>8, <1>10 DEF S

\* Wrapped tokens are added, under addresses that have no token.
LEMMA AuditWrappedKeeps ==
  ASSUME NEW cs \in Seq(Blockchain), NEW K, NEW ts \in Lists(K)
  PROVE  AuditWrapped(cs, ts) \in Lists(K)
<1> DEFINE n == Len(cs)
           S == Lists(K)
           x == ts
           R(us, k) == IF \/ cs[k].wrapped = Zero
                          \/ GetTokenByAddress(cs, us, cs[k].id, cs[k].wrapped) > 0
                       THEN us ELSE Append(us, WrappedToken(cs[k]))
           step == [k \in 1..n |-> [us \in S |-> R(us, k)]]
<1>1. n \in Nat /\ x \in S
  OBVIOUS
<1>2. ASSUME NEW us \in S, NEW k \in 1..n PROVE R(us, k) \in S
  <2>1. cs[k] \in Blockchain
    BY <1>2
  <2>2. QED
    BY <1>2, <2>1, WrappedRound
<1>3. AuditWrapped(cs, ts) = (CHOOSE f : f = [k \in 0..n |-> IF k = 0 THEN x ELSE R(f[k - 1], k)])[n]
  BY DEF AuditWrapped, Rounds
<1> HIDE DEF S, R, n, x
<1>4. step \in [1..n -> [S -> S]]
  BY <1>2
<1>5. PICK f \in [0..n -> S] : Unfolds(f, n, x, step)
  <2> HIDE DEF step
  <2>1. QED
    BY <1>1, <1>4, RecursionExists
<1>6. ASSUME NEW k \in 0..n PROVE f[k] = IF k = 0 THEN x ELSE R(f[k - 1], k)
  <2>1. CASE k = 0
    BY <1>5, <2>1 DEF Unfolds
  <2>2. CASE k # 0
    <3>1. k \in 1..n /\ f[k - 1] \in S
      BY <1>1, <2>2
    <3>2. QED
      BY <1>5, <2>2, <3>1 DEF Unfolds
  <2>3. QED
    BY <2>1, <2>2
<1>7. f = [k \in 0..n |-> IF k = 0 THEN x ELSE R(f[k - 1], k)]
  BY <1>6
<1>8. PICK g : /\ g = [k \in 0..n |-> IF k = 0 THEN x ELSE R(g[k - 1], k)]
               /\ AuditWrapped(cs, ts) = g[n]
  BY <1>3, <1>7
<1>9. g[0] \in S /\ \A k \in 1..n : g[k - 1] \in S => g[k] \in S
  BY <1>1, <1>2, <1>8
<1>10. \A k \in 0..n : g[k] \in S
  BY <1>1, <1>9, StaysIn
<1>11. QED
  BY <1>1, <1>8, <1>10 DEF S

-----------------------------------------------------------------------------
(***************************************************************************)
(* What the audit leaves.                                                  *)
(***************************************************************************)
\* A larger set of blockchains.
LEMMA ListsOfMore ==
  ASSUME NEW K, NEW L, K \subseteq L, NEW ts \in Lists(K)
  PROVE  ts \in Lists(L)
BY DEF Lists, NativesOf

\* One native token has lost its blockchain at most.
LEMMA RemoveOrphanKeeps ==
  ASSUME NEW cs, NEW c, NEW us \in Lists(ChainsOf(cs) \cup {c})
  PROVE  RemoveOrphan(cs, us) \in Lists(ChainsOf(cs))
<1> DEFINE K == ChainsOf(cs)
           n == Len(us)
           I == {j \in 1..n : us[j].native /\ ~HasBlockchain(cs, us[j].chain)}
           i == IF I # {} THEN Min(I) ELSE 0
<1>1. us \in Seq(Token) /\ OneEach(us, n) /\ NativesOf(us, n, K \cup {c}) /\ n \in Nat
  BY DEF Lists
<1>2. RemoveOrphan(cs, us) = IF i > 0 THEN RemoveAt(us, i) ELSE us
  BY DEF RemoveOrphan, SelectInSeq
<1>3. \A x : HasBlockchain(cs, x) <=> x \in K
  BY DEF HasBlockchain, ChainsOf
<1>4. I \subseteq Nat /\ I \subseteq 1..n
  OBVIOUS
<1>5. I # {} => i \in I
  <2> HIDE DEF I
  <2>1. QED
    BY <1>4, LeastElement
<1>6. \A j \in I : us[j].chain = c /\ us[j].address = Zero /\ us[j].chain \notin K
  <2>1. ASSUME NEW j \in I PROVE us[j].chain = c /\ us[j].address = Zero /\ us[j].chain \notin K
    <3>1. j \in 1..n /\ us[j].native /\ us[j].chain \notin K /\ us[j] \in Token
      BY <1>1, <1>3
    <3>2. us[j].address = Zero
      BY <3>1 DEF Token
    <3>3. us[j].chain \in K \cup {c}
      BY <1>1, <3>1 DEF NativesOf
    <3>4. QED
      BY <3>1, <3>2, <3>3
  <2>2. QED
    BY <2>1
<1>7. \A j \in 1..n : us[j].native /\ us[j].chain \notin K => j \in I
  BY <1>3
<1> HIDE DEF K, n, I, i
<1>8. CASE I = {}
  <2>1. i = 0
    BY <1>8 DEF i
  <2>2. NativesOf(us, n, K)
    BY <1>7, <1>8 DEF NativesOf
  <2>3. QED
    BY <1>1, <1>2, <2>1, <2>2 DEF Lists, K, n
<1>9. CASE I # {}
  <2> DEFINE v == RemoveAt(us, i)
             From(j) == IF j < i THEN j ELSE j + 1
  <2>1. i \in 1..n /\ i \in I /\ i > 0
    <3>1. i \in I
      BY <1>5, <1>9
    <3>2. i \in 1..n
      BY <1>4, <3>1
    <3>3. QED
      BY <1>1, <3>1, <3>2
  <2>2. /\ v \in Seq(Token) /\ Len(v) = n - 1
        /\ \A j \in 1..(n - 1) : v[j] = IF j < i THEN us[j] ELSE us[j + 1]
    BY <1>1, <2>1, RemoveAtElements DEF n
  <2>3. /\ \A j \in 1..(n - 1) : v[j] = us[From(j)] /\ From(j) \in 1..n /\ From(j) # i
        /\ \A j, k \in 1..(n - 1) : j # k => From(j) # From(k)
    <3> HIDE DEF v
    <3>1. QED
      BY <1>1, <2>1, <2>2
  <2> HIDE DEF v, From
  <2>4. OneEach(v, n - 1)
    BY <1>1, <2>3 DEF OneEach
  <2>5. \A j \in I : j = i
    <3>1. ASSUME NEW j \in I, j # i PROVE FALSE
      <4>1. /\ j \in 1..n /\ us[j].chain = us[i].chain
            /\ us[j].address = us[i].address
        BY <1>4, <1>6, <2>1
      <4>2. QED
        BY <1>1, <2>1, <3>1, <4>1 DEF OneEach
    <3>2. QED
      BY <3>1
  <2>6. NativesOf(v, n - 1, K)
    BY <1>7, <2>3, <2>5 DEF NativesOf
  <2>7. v \in Lists(K)
    BY <2>2, <2>4, <2>6 DEF Lists
  <2>8. QED
    BY <1>2, <2>1, <2>7 DEF K, v
<1>10. QED
  BY <1>8, <1>9

\* What UniqueMeansUnique says.
Marked(cs, ts) ==
  \A i \in 1..Len(ts) : HasBlockchain(cs, ts[i].chain) =>
    (ts[i].unique <=> \A j \in 1..Len(ts) \ {i} : ~SameSymbol(ts[i], ts[j]))

\* Of the tokens with one symbol the first and each other is marked; what else
\* they are stays.
LEMMA MarkUniqueKeeps ==
  ASSUME NEW cs, NEW K, NEW ts \in Lists(K)
  PROVE  MarkUnique(cs, ts) \in Lists(K) /\ Marked(cs, MarkUnique(cs, ts))
<1> DEFINE n == Len(ts)
           First(j, i) == /\ j < i
                          /\ SameSymbol(ts[j], ts[i])
                          /\ \A k \in 1..(j - 1) : ~SameSymbol(ts[k], ts[i])
           HasNoDouble(i) == /\ ~ \E j \in 1..n : First(j, i)
                             /\ ~ \E j \in 1..n : First(i, j)
           v == MarkUnique(cs, ts)
<1>1. ts \in Seq(Token) /\ OneEach(ts, n) /\ NativesOf(ts, n, K) /\ n \in Nat
      /\ DOMAIN ts = 1..n
  BY DEF Lists
<1>2. v = [i \in 1..n |-> IF HasBlockchain(cs, ts[i].chain)
                          THEN [ts[i] EXCEPT !.unique = HasNoDouble(i)] ELSE ts[i]]
  BY <1>1 DEF MarkUnique
<1>3. \A i \in 1..n : HasNoDouble(i) <=> \A j \in 1..n \ {i} : ~SameSymbol(ts[i], ts[j])
  <2>1. ASSUME NEW i \in 1..n PROVE HasNoDouble(i) <=> \A j \in 1..n \ {i} : ~SameSymbol(ts[i], ts[j])
    <3>1. (\A j \in 1..n \ {i} : ~SameSymbol(ts[i], ts[j])) => HasNoDouble(i)
      BY <1>1 DEF SameSymbol
    <3>2. ASSUME NEW j \in 1..n, j # i, SameSymbol(ts[i], ts[j]) PROVE ~HasNoDouble(i)
      <4> DEFINE T == {k \in 1..n : SameSymbol(ts[k], ts[i])}
                 m == Min(T)
      <4>1. i \in T /\ j \in T /\ T \subseteq Nat
        BY <3>2 DEF SameSymbol
      <4>2. m \in T /\ \A k \in T : m <= k
        <5> HIDE DEF T
        <5>1. QED
          BY <4>1, LeastElement
      <4>3. \A k \in 1..(m - 1) : ~SameSymbol(ts[k], ts[i])
        <5> HIDE DEF m
        <5>1. \A k \in 1..(m - 1) : k \in 1..n /\ ~(m <= k)
          BY <1>1, <4>2
        <5>2. QED
          BY <4>2, <5>1
      <4>4. m \in 1..n /\ SameSymbol(ts[m], ts[i])
        BY <4>2
      <4> HIDE DEF m, T
      <4>5. CASE m # i
        <5>1. m < i
          BY <1>1, <4>1, <4>2, <4>4, <4>5
        <5>2. First(m, i)
          BY <4>3, <4>4, <5>1
        <5>3. QED
          BY <4>4, <5>2
      <4>6. CASE m = i
        <5>1. i < j
          BY <1>1, <3>2, <4>1, <4>2, <4>6
        <5>2. SameSymbol(ts[i], ts[j]) /\ \A k \in 1..(i - 1) : ~SameSymbol(ts[k], ts[j])
          BY <3>2, <4>3, <4>6 DEF SameSymbol
        <5>3. First(i, j)
          BY <5>1, <5>2
        <5>4. QED
          BY <5>3
      <4>7. QED
        BY <4>5, <4>6
    <3>3. QED
      BY <3>1, <3>2
  <2>2. QED
    BY <2>1
<1>4. \A i \in 1..n : HasNoDouble(i) \in BOOLEAN
  OBVIOUS
<1> HIDE DEF HasNoDouble, First
<1>5. ASSUME NEW i \in 1..n
      PROVE  /\ v[i] \in Token
             /\ v[i].chain = ts[i].chain /\ v[i].address = ts[i].address
             /\ v[i].native = ts[i].native /\ v[i].symbol = ts[i].symbol
             /\ HasBlockchain(cs, ts[i].chain) => v[i].unique = HasNoDouble(i)
  <2>1. ts[i] \in Token
    BY <1>1
  <2>2. v[i] = IF HasBlockchain(cs, ts[i].chain)
               THEN [ts[i] EXCEPT !.unique = HasNoDouble(i)] ELSE ts[i]
    BY <1>2
  <2>3. QED
    BY <1>4, <2>1, <2>2 DEF Token
<1> HIDE DEF v
<1>6. v \in [1..n -> Token]
  BY <1>2, <1>5 DEF v
<1>7. v \in Seq(Token) /\ Len(v) = n
  BY <1>1, <1>6, FunctionIsSeq
<1>8. OneEach(v, n) /\ NativesOf(v, n, K)
  BY <1>1, <1>5 DEF OneEach, NativesOf
<1>9. Marked(cs, v)
  <2>1. \A i, j \in 1..n : SameSymbol(v[i], v[j]) <=> SameSymbol(ts[i], ts[j])
    BY <1>5 DEF SameSymbol
  <2>2. QED
    BY <1>3, <1>5, <1>7, <2>1 DEF Marked
<1>10. QED
  BY <1>7, <1>8, <1>9 DEF v, Lists

LEMMA AuditKeeps ==
  ASSUME NEW cs \in Seq(Blockchain), NEW c, NEW ts \in Lists(ChainsOf(cs) \cup {c})
  PROVE  /\ Audit(cs, ts).ok \in BOOLEAN
         /\ Audit(cs, ts).ok => /\ Audit(cs, ts).tokens \in Lists(ChainsOf(cs))
                                /\ Marked(cs, Audit(cs, ts).tokens)
<1> DEFINE K == ChainsOf(cs) \cup {c}
           s == RemoveDoubles(ts)
           us == AuditWrapped(cs, AuditNative(cs, Elements(s)))
           vs == RemoveOrphan(cs, us)
<1>1. s \in Slices(K)
  BY RemoveDoublesKeeps
<1>2. Elements(s) \in Lists(K)
  <2> HIDE DEF K, s
  <2>1. QED
    BY <1>1, ElementsOf
<1>3. AuditNative(cs, Elements(s)) \in Lists(K)
  BY <1>2, AuditNativeKeeps
<1>4. us \in Lists(K)
  BY <1>3, AuditWrappedKeeps
<1>5. vs \in Lists(ChainsOf(cs))
  <2> HIDE DEF us
  <2>1. QED
    BY <1>4, RemoveOrphanKeeps
<1>6. MarkUnique(cs, vs) \in Lists(ChainsOf(cs)) /\ Marked(cs, MarkUnique(cs, vs))
  BY <1>5, MarkUniqueKeeps
<1>7. Audit(cs, ts) = [ok |-> s.ok, tokens |-> IF s.ok THEN MarkUnique(cs, vs) ELSE ts]
  BY DEF Audit
<1>8. s.ok \in BOOLEAN
  BY <1>1 DEF Slices
<1>9. QED
  BY <1>6, <1>7, <1>8

-----------------------------------------------------------------------------
(***************************************************************************)
(* The invariant: types, one token for an address, and each token marked.  *)
(***************************************************************************)
TokensInv ==
  /\ open \in BOOLEAN
  /\ chains \in Seq(Blockchain)
  /\ known \subseteq ChainIds
  /\ tokens \in Lists(ChainsOf(chains))
  /\ open => Marked(chains, tokens)

LEMMA TokensInitially ==
  TokensInit => TokensInv
<1>1. <<>> \in Seq(Token) /\ <<>> \in Seq(Blockchain) /\ Len(<<>>) = 0
  OBVIOUS
<1>2. <<>> \in Lists(ChainsOf(<<>>))
  BY <1>1 DEF Lists, OneEach, NativesOf
<1>3. Marked(<<>>, <<>>)
  BY <1>1 DEF Marked
<1>4. QED
  BY <1>1, <1>2, <1>3 DEF TokensInit, TokensInv

\* An operation that hands on its blockchains and its tokens, of one blockchain
\* more at most.
LEMMA FinishKeeps ==
  ASSUME TokensInv, NEW cs \in Seq(Blockchain), NEW c, NEW ok,
         NEW ts \in Lists(ChainsOf(cs) \cup {c}), Finish(cs, ok, ts)
  PROVE  TokensInv'
<1> DEFINE r == Audit(cs, ts)
<1>1. /\ r.ok \in BOOLEAN
      /\ r.ok => r.tokens \in Lists(ChainsOf(cs)) /\ Marked(cs, r.tokens)
  BY AuditKeeps
<1>2. \/ /\ r.ok
         /\ chains' = cs /\ tokens' = r.tokens
         /\ known' = known \cup {cs[i].id : i \in DOMAIN cs} /\ open' = open
      \/ open' = FALSE /\ chains' = chains /\ tokens' = tokens /\ known' = known
  BY DEF Finish
<1>3. {cs[i].id : i \in DOMAIN cs} \subseteq ChainIds
  <2>1. ASSUME NEW i \in DOMAIN cs PROVE cs[i].id \in ChainIds
    <3>1. cs[i] \in Blockchain
      OBVIOUS
    <3>2. QED
      BY <3>1 DEF Blockchain
  <2>2. QED
    BY <2>1
<1> HIDE DEF r
<1>4. QED
  BY <1>1, <1>2, <1>3 DEF TokensInv

LEMMA AddBlockchainKeeps ==
  ASSUME TokensInv, NEW b \in Blockchain, AddBlockchain(b)
  PROVE  TokensInv'
<1> DEFINE cs == Append(chains, b)
           n == Len(chains)
<1>1. chains \in Seq(Blockchain) /\ tokens \in Lists(ChainsOf(chains))
  BY DEF TokensInv
<1>2. /\ cs \in Seq(Blockchain) /\ Len(cs) = n + 1 /\ n \in Nat
      /\ \A i \in 1..n : cs[i] = chains[i]
      /\ DOMAIN cs = 1..(n + 1) /\ DOMAIN chains = 1..n
  BY <1>1
<1>3. ChainsOf(chains) \subseteq ChainsOf(cs) \cup {b.id}
  <2> HIDE DEF cs, n
  <2>1. \A i \in 1..n : i \in 1..(n + 1)
    BY <1>2
  <2>2. QED
    BY <1>2, <2>1 DEF ChainsOf
<1>4. Finish(cs, TRUE, tokens)
  BY DEF AddBlockchain
<1> HIDE DEF cs
<1>5. tokens \in Lists(ChainsOf(cs) \cup {b.id})
  BY <1>1, <1>3, ListsOfMore
<1>6. QED
  BY <1>2, <1>4, <1>5, FinishKeeps

LEMMA EditBlockchainKeeps ==
  ASSUME TokensInv, NEW b \in Blockchain, EditBlockchain(b)
  PROVE  TokensInv'
<1>1. chains \in Seq(Blockchain) /\ tokens \in Lists(ChainsOf(chains)) /\ Len(chains) \in Nat
      /\ DOMAIN chains = 1..Len(chains)
  BY DEF TokensInv
<1>2. PICK i \in 1..Len(chains) : chains[i].id = b.id /\ Finish([chains EXCEPT ![i] = b], TRUE, tokens)
  BY <1>1 DEF EditBlockchain
<1> DEFINE cs == [chains EXCEPT ![i] = b]
<1>3. /\ cs \in Seq(Blockchain) /\ Len(cs) = Len(chains)
      /\ \A j \in 1..Len(chains) : cs[j] = IF j = i THEN b ELSE chains[j]
  BY <1>1, SeqExcept
<1>4. Finish(cs, TRUE, tokens)
  BY <1>2
<1> HIDE DEF cs
<1>5. DOMAIN cs = 1..Len(chains)
  BY <1>3
<1>6. ChainsOf(chains) \subseteq ChainsOf(cs) \cup {b.id}
  BY <1>1, <1>2, <1>3, <1>5 DEF ChainsOf
<1>7. tokens \in Lists(ChainsOf(cs) \cup {b.id})
  BY <1>1, <1>6, ListsOfMore
<1>8. QED
  BY <1>3, <1>4, <1>7, FinishKeeps

\* The native token of the blockchain may be left: it is the one of c.
LEMMA DeleteBlockchainKeeps ==
  ASSUME TokensInv, NEW c \in ChainIds, DeleteBlockchain(c)
  PROVE  TokensInv'
<1> DEFINE s == RemoveTokensOf(c, tokens)
<1>1. chains \in Seq(Blockchain) /\ tokens \in Lists(ChainsOf(chains)) /\ Len(chains) \in Nat
      /\ DOMAIN chains = 1..Len(chains)
  BY DEF TokensInv
<1>2. PICK i \in 1..Len(chains) : chains[i].id = c /\ Finish(RemoveAt(chains, i), s.ok, Elements(s))
  BY <1>1 DEF DeleteBlockchain
<1> DEFINE cs == RemoveAt(chains, i)
           n == Len(chains)
<1>3. /\ cs \in Seq(Blockchain) /\ Len(cs) = n - 1
      /\ \A j \in 1..(n - 1) : cs[j] = IF j < i THEN chains[j] ELSE chains[j + 1]
  BY <1>1, RemoveAtElements
<1>4. s \in Slices(ChainsOf(chains))
  BY <1>1, RemoveTokensOfKeeps
<1>5. Finish(cs, s.ok, Elements(s))
  BY <1>2
<1> HIDE DEF s, cs
<1>6. Elements(s) \in Lists(ChainsOf(chains))
  BY <1>4, ElementsOf
<1>7. ChainsOf(chains) \subseteq ChainsOf(cs) \cup {c}
  <2>1. ASSUME NEW j \in 1..n, j # i
        PROVE  \E k \in DOMAIN cs : cs[k] = chains[j]
    <3>1. DOMAIN cs = 1..(n - 1)
      BY <1>3
    <3>2. CASE j < i
      <4>1. j \in 1..(n - 1) /\ cs[j] = chains[j]
        BY <1>1, <1>3, <3>2
      <4>2. QED
        BY <3>1, <4>1
    <3>3. CASE j > i
      <4>1. j - 1 \in 1..(n - 1) /\ ~(j - 1 < i) /\ (j - 1) + 1 = j
        BY <1>1, <3>3
      <4>2. cs[j - 1] = chains[j]
        BY <1>3, <4>1
      <4>3. QED
        BY <3>1, <4>1, <4>2
    <3>4. QED
      BY <1>1, <2>1, <3>2, <3>3
  <2>2. QED
    BY <1>1, <1>2, <2>1 DEF ChainsOf
<1>8. Elements(s) \in Lists(ChainsOf(cs) \cup {c})
  BY <1>6, <1>7, ListsOfMore
<1>9. QED
  BY <1>3, <1>5, <1>8, FinishKeeps

\* The tokens are changed, and marked anew.
LEMMA MarkedKeeps ==
  ASSUME TokensInv, NEW ts \in Lists(ChainsOf(chains)),
         tokens' = MarkUnique(chains, ts), UNCHANGED <<open, chains, known>>
  PROVE  TokensInv'
<1>1. MarkUnique(chains, ts) \in Lists(ChainsOf(chains)) /\ Marked(chains, MarkUnique(chains, ts))
  BY MarkUniqueKeeps
<1>2. QED
  BY <1>1 DEF TokensInv

LEMMA AddTokenKeeps ==
  ASSUME TokensInv, NEW c \in ChainIds, NEW a \in Addresses, NEW symbol \in Symbols,
         AddToken(c, a, symbol)
  PROVE  TokensInv'
<1> DEFINE t == [chain |-> c, address |-> a, symbol |-> symbol,
                 native |-> FALSE, unique |-> FALSE]
           K == ChainsOf(chains)
<1>1. tokens \in Lists(K) /\ Len(tokens) \in Nat
  BY DEF TokensInv, Lists
<1>2. a # Zero
  BY AddressesAssumption
<1>3. t \in Token /\ ~t.native /\ t.chain = c /\ t.address = a
  BY <1>2 DEF Token, Address, Symbol
<1>4. GetTokenByAddress(chains, tokens, c, a) = 0
  BY DEF AddToken
<1>5. /\ tokens' = MarkUnique(chains, Append(tokens, t))
      /\ UNCHANGED <<open, chains, known>>
  BY DEF AddToken
<1> HIDE DEF t, K
<1>6. \A j \in 1..Len(tokens) : ~(tokens[j].address = t.address /\ tokens[j].chain = t.chain)
  BY <1>1, <1>2, <1>3, <1>4, ContractIs
<1>7. Append(tokens, t) \in Lists(K)
  BY <1>1, <1>3, <1>6, AppendKeeps
<1>8. QED
  BY <1>5, <1>7, MarkedKeeps DEF K

LEMMA DeleteTokenKeeps ==
  ASSUME TokensInv, NEW c \in ChainIds, NEW a \in Address, DeleteToken(c, a)
  PROVE  TokensInv'
<1> DEFINE K == ChainsOf(chains)
           n == Len(tokens)
           I == {j \in 1..n : tokens[j].chain = c /\ tokens[j].address = a}
           i == IF I # {} THEN Min(I) ELSE 0
           v == RemoveAt(tokens, i)
           From(j) == IF j < i THEN j ELSE j + 1
<1>1. tokens \in Seq(Token) /\ OneEach(tokens, n) /\ NativesOf(tokens, n, K) /\ n \in Nat
  BY DEF TokensInv, Lists
<1>2. /\ i > 0 /\ tokens' = MarkUnique(chains, v)
      /\ UNCHANGED <<open, chains, known>>
  BY DEF DeleteToken, SelectInSeq
<1>3. i \in 1..n
  <2>1. I \subseteq Nat /\ I \subseteq 1..n
    OBVIOUS
  <2>2. I # {} => i \in I
    <3> HIDE DEF I
    <3>1. QED
      BY <2>1, LeastElement
  <2>3. I # {}
    BY <1>2
  <2>4. QED
    BY <2>1, <2>2, <2>3
<1> HIDE DEF I, i
<1>4. /\ v \in Seq(Token) /\ Len(v) = n - 1
      /\ \A j \in 1..(n - 1) : v[j] = IF j < i THEN tokens[j] ELSE tokens[j + 1]
  BY <1>1, <1>3, RemoveAtElements
<1> HIDE DEF v, n, K
<1>5. /\ \A j \in 1..(n - 1) : v[j] = tokens[From(j)] /\ From(j) \in 1..n
      /\ \A j, k \in 1..(n - 1) : j # k => From(j) # From(k)
  BY <1>1, <1>3, <1>4
<1> HIDE DEF From
<1>6. OneEach(v, n - 1) /\ NativesOf(v, n - 1, K)
  BY <1>1, <1>5 DEF OneEach, NativesOf
<1>7. v \in Lists(K)
  BY <1>4, <1>6 DEF Lists
<1>8. QED
  BY <1>2, <1>7, MarkedKeeps DEF K

LEMMA ReopenKeeps ==
  ASSUME TokensInv, Reopen
  PROVE  TokensInv'
<1> DEFINE K == ChainsOf(chains)
           n == Len(tokens)
           v == [i \in DOMAIN tokens |-> [tokens[i] EXCEPT !.unique = FALSE]]
           r == Audit(chains, v)
<1>1. /\ chains \in Seq(Blockchain) /\ known \subseteq ChainIds
      /\ tokens \in Seq(Token) /\ OneEach(tokens, n) /\ NativesOf(tokens, n, K) /\ n \in Nat
      /\ DOMAIN tokens = 1..n
  BY DEF TokensInv, Lists
<1>2. ASSUME NEW i \in 1..n
      PROVE  /\ v[i] \in Token /\ v[i].chain = tokens[i].chain
             /\ v[i].address = tokens[i].address /\ v[i].native = tokens[i].native
  <2>1. tokens[i] \in Token /\ v[i] = [tokens[i] EXCEPT !.unique = FALSE]
    BY <1>1
  <2>2. QED
    BY <2>1 DEF Token
<1>3. v \in [1..n -> Token]
  BY <1>1, <1>2
<1>4. /\ open' = r.ok
      /\ tokens' = IF r.ok THEN r.tokens ELSE tokens
      /\ chains' = chains /\ known' = known
  BY DEF Reopen
<1> HIDE DEF v, K, n
<1>5. v \in Seq(Token) /\ Len(v) = n
  BY <1>1, <1>3, FunctionIsSeq
<1>6. OneEach(v, n) /\ NativesOf(v, n, K)
  BY <1>1, <1>2 DEF OneEach, NativesOf
<1>7. v \in Lists(K)
  BY <1>5, <1>6 DEF Lists
<1>8. v \in Lists(K \cup {Zero})
  BY <1>7, ListsOfMore
<1>9. /\ r.ok \in BOOLEAN
      /\ r.ok => r.tokens \in Lists(K) /\ Marked(chains, r.tokens)
  BY <1>1, <1>8, AuditKeeps DEF K
<1> HIDE DEF r
<1>10. QED
  BY <1>4, <1>9 DEF TokensInv, K

LEMMA TokensStep ==
  TokensInv /\ [TokensNext]_tokenVars => TokensInv'
<1> SUFFICES ASSUME TokensInv, [TokensNext]_tokenVars PROVE TokensInv'
  OBVIOUS
<1>1. ASSUME NEW b \in Blockchain, AddBlockchain(b) PROVE TokensInv'
  BY <1>1, AddBlockchainKeeps
<1>2. ASSUME NEW b \in Blockchain, EditBlockchain(b) PROVE TokensInv'
  BY <1>2, EditBlockchainKeeps
<1>3. ASSUME NEW c \in ChainIds, DeleteBlockchain(c) PROVE TokensInv'
  BY <1>3, DeleteBlockchainKeeps
<1>4. ASSUME NEW c \in ChainIds, NEW a \in Addresses, NEW s \in Symbols, AddToken(c, a, s)
      PROVE  TokensInv'
  BY <1>4, AddTokenKeeps
<1>5. ASSUME NEW c \in ChainIds, NEW a \in Address, DeleteToken(c, a) PROVE TokensInv'
  BY <1>5, DeleteTokenKeeps
<1>6. CASE Reopen
  BY <1>6, ReopenKeeps
<1>7. CASE UNCHANGED tokenVars
  BY <1>7 DEF TokensInv, tokenVars
<1>8. QED
  BY <1>1, <1>2, <1>3, <1>4, <1>5, <1>6, <1>7 DEF TokensNext

\* What the invariant says of the state.
LEMMA TokensInvMeans ==
  TokensInv => TokensTypeOK /\ TokensSound
<1> SUFFICES ASSUME TokensInv PROVE TokensTypeOK /\ TokensSound
  OBVIOUS
<1> DEFINE n == Len(tokens)
<1>1. /\ tokens \in Seq(Token) /\ OneEach(tokens, n) /\ NativesOf(tokens, n, ChainsOf(chains))
      /\ DOMAIN tokens = 1..n
  BY DEF TokensInv, Lists
<1>2. TokensTypeOK
  BY <1>1 DEF TokensInv, TokensTypeOK
<1>3. \A x : x \in ChainsOf(chains) => HasBlockchain(chains, x)
  BY DEF ChainsOf, HasBlockchain
<1> HIDE DEF n
<1>4. OneTokenPerAddress
  BY <1>1, <1>3 DEF OneTokenPerAddress, OneEach, NativesOf
<1>5. UniqueMeansUnique
  BY <1>1 DEF UniqueMeansUnique, TokensInv, Marked, n
<1>6. QED
  BY <1>2, <1>4, <1>5 DEF TokensSound

\* The variables have their types.
THEOREM TokenTypes ==
  TokensSpec => []TokensTypeOK
<1>1. TokensSpec => []TokensInv
  BY TokensInitially, TokensStep, PTL DEF TokensSpec
<1>2. QED
  BY <1>1, TokensInvMeans, PTL

\* However the blockchains and the tokens come and go, and whatever the loops
\* that delete from the slice they range over make of it, an address has one
\* token at most, a native token has its blockchain, and a token that is marked
\* unique is the only one with its symbol.
THEOREM TokensStaySound ==
  TokensSpec => []TokensSound
<1>1. TokensSpec => []TokensInv
  BY TokensInitially, TokensStep, PTL DEF TokensSpec
<1>2. QED
  BY <1>1, TokensInvMeans, PTL
=============================================================================
