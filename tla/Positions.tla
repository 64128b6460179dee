----------------------------- MODULE Positions -----------------------------
(***************************************************************************)
(* One of the four servers that follow what the user has put to work:      *)
(* lp_v2, lp_v3, lp_v4 and staking. Each finds positions (discover), keeps *)
(* them in the wallet (PositionStore) and shows them (its pane). Discovery *)
(* runs in the goroutine of a request; each pass of a pane runs in one of  *)
(* its own, started by a message on the bus; the dialogues run in those of *)
(* the clicks. They share the slices of the wallet, which they range over  *)
(* without the mutex, and ask a node or a subgraph between two steps.      *)
(***************************************************************************)
EXTENDS PositionStore, FiniteSets

CONSTANTS
  Providers,     \* pools or staking contracts the wallet may know
  Keys,          \* pairs, NFTs or validators
  Owners,        \* w.Addresses, in order
  Strangers,     \* other addresses, which a position may be of all the same
  Worlds,        \* what a run starts from: server, kind of provider, chain, wallet,
                 \* and how often the rest of the world may step in (budget)
  Updaters,      \* goroutines for passes of the pane
  SharedPairs,   \* whether a pair may go through the hands of two addresses
  MaxObjs, MaxEvents   \* bounds

Versions  == {"v2", "v3", "v4", "staking"}
AllKeys   == Keys \cup Vaults \cup {Plain}
Addresses == Range(Owners) \cup Strangers
Positions == [prov : Providers, key : AllKeys, owner : Addresses]
NFTs(version) == version \in {"v3", "v4"}

\* How the providers of each server are asked, and by what their positions are known.
Modes ==
  [v2 |-> {"none", "positions", "mints"}, v3 |-> {"none"}, v4 |-> {"graph", "chain"},
   staking |-> {"plain", "validators", "vaults"}]

KeysOn(version, mode) ==
  IF version # "staking" \/ mode = "validators" THEN Keys
  ELSE IF mode = "plain" THEN {Plain} ELSE Vaults

ASSUME BoundsAreNatural ==
  /\ {MaxObjs, MaxEvents} \subseteq Nat
  /\ Owners \in Seq(Range(Owners)) /\ IsInjective(Owners)

ASSUME StrangersAreStrange == Range(Owners) \cap Strangers = {}

ASSUME KeysAreApart == Keys \cap Unvalidated = {} /\ Plain \notin Vaults

\* What makes two positions one: for pools the owner does not count.
SameAs(v, p, q) ==
  p.prov = q.prov /\ p.key = q.key /\ (v = "staking" => p.owner = q.owner)

\* The wallet that is opened holds no position twice, and none of an unknown provider. A
\* vault is a contract of one owner, made for one staking contract. Only V3 pools keep what
\* is taken out until it is collected.
IsWorld(w) ==
  /\ w.version \in Versions /\ w.mode \in Modes[w.version]
  /\ w.open \subseteq Positions /\ IsFiniteSet(w.open)
  /\ w.owed \cup w.dust \subseteq w.open
  /\ w.version # "v3" => w.owed \cup w.dust = {}
  /\ w.beyond \in [dark : SUBSET Providers, crowded : SUBSET Range(Owners)]
  /\ w.known \subseteq Providers
  /\ w.stored \in Seq(Positions)
  /\ w.budget \in [moves : Nat, fails : Nat, rounds : Nat, user : Nat, passes : SUBSET Updaters]
  /\ \A p, q \in w.open \cup Range(w.stored) :
       /\ p.key \in KeysOn(w.version, w.mode)
       /\ p.key = q.key /\ p.key \in Vaults => p = q
  /\ \A i, j \in DOMAIN w.stored :
       /\ w.stored[i].prov \in w.known
       /\ i # j => ~SameAs(w.version, w.stored[i], w.stored[j])

ASSUME WorldsAssumption == \A w \in Worlds : IsWorld(w)

VARIABLES
  version,   \* which of the four servers this is
  mode,      \* how its providers are asked
  open,      \* on the chain: the positions that are worth something
  owed,      \* those of them, of V3, that have nothing left but tokens owed ...
  dust,      \* ... or, beside fees to come, so little that the amounts are nothing
  nfts,      \* on the chain: the tokens of an owner, as the contract numbers them
  minted,    \* in the subgraph: who ever added liquidity to a pair, or opened a position
  providers, \* w.LP_*_Providers or w.Stakings
  store,     \* w.LP_*_Positions or w.StakingPositions
  ignored,   \* the keys of pools with a token the user ignores
  objs,      \* the positions ever made, store and views hold indices into it
  pane,      \* what the pane shows, and its timers
  upd,       \* the passes of the pane
  disc,      \* the discovery
  budget,    \* how many moves, failures, rounds and clicks are left, which passes may run
  raced,     \* providers removed while a discovery was under way
  beyond     \* what nobody here reaches: providers of a blockchain the wallet does not
             \* know, and in a subgraph the owners whose positions fill more than a page

vars == <<version, mode, open, owed, dust, nfts, minted, providers, store, ignored, objs,
          pane, upd, disc, budget, raced, beyond>>

NoDisc ==
  [pc |-> "idle", loop |-> "address", left |-> {}, prov |-> CHOOSE x \in Providers : TRUE,
   owners |-> <<>>, i |-> 0, n |-> 0, todo |-> <<>>, pairs |-> {}, filter |-> {},
   has |-> FALSE, clean |-> TRUE, fresh |-> TRUE]

NoPass ==
  [pc |-> "idle", i |-> 0, n |-> 0, live |-> FALSE, own |-> <<>>, x |-> 0,
   got |-> "none", list |-> <<>>, todel |-> <<>>, fresh |-> TRUE, cmd |-> FALSE,
   strays |-> {}]

Discoveries ==
  [pc     : {"idle", "provider", "probe", "vault", "address", "mints", "pairs", "balances",
             "index", "details", "add", "stake", "single"},
   loop   : {"address", "mints", "balances"},
   left   : SUBSET Providers,
   prov   : Providers \cup {NoDisc.prov},
   owners : Seq(Addresses),
   i      : Nat,
   n      : Nat,
   todo   : Seq(AllKeys),
   pairs  : SUBSET AllKeys,
   filter : SUBSET AllKeys,
   has    : BOOLEAN,
   clean  : BOOLEAN,
   fresh  : BOOLEAN]

TypeOK ==
  /\ version \in Versions
  /\ open \subseteq Positions /\ IsFiniteSet(open)
  /\ owed \cup dust \subseteq open
  /\ nfts \in [Providers -> [Addresses -> Seq(AllKeys)]]
  /\ minted \subseteq Positions
  /\ providers \subseteq Providers
  /\ store.len \in 0..Len(store.arr)
  /\ objs \in Seq(Positions)
  /\ Range(Elements(store)) \subseteq DOMAIN objs
  /\ \A u \in Updaters :
       /\ upd[u].pc \in {"idle", "ask", "use", "show", "delete"}
       /\ upd[u].live => upd[u].n <= Len(store.arr)
       /\ ~upd[u].live => upd[u].n <= Len(upd[u].own)
  /\ disc \in Discoveries
  /\ raced \subseteq Providers
  /\ ignored \subseteq AllKeys
  /\ beyond \in [dark : SUBSET Providers, crowded : SUBSET Range(Owners)]

(***************************************************************************)
(* Shared steps. Every change of the wallet is saved, and "saved" goes out *)
(* on the bus. A new array cuts off the loops that range over the old one. *)
(***************************************************************************)
Saved(p) == [p EXCEPT !.events = IF @ = MaxEvents THEN @ ELSE @ + 1]

Moved(new) ==
  IF Len(new.arr) = Len(store.arr) THEN upd
  ELSE [u \in Updaters |->
          IF upd[u].live THEN [upd[u] EXCEPT !.live = FALSE, !.own = store.arr] ELSE upd[u]]

Unclean(d) == [d EXCEPT !.clean = FALSE]

Fail == budget.fails > 0

Failed == budget' = [budget EXCEPT !.fails = @ - 1]

IsOpen(prov, key) == \E p \in open : p.prov = prov /\ p.key = key

Pos(prov, key, owner) == [prov |-> prov, key |-> key, owner |-> owner]

(***************************************************************************)
(* The chain, which nobody here controls: positions are opened, closed and *)
(* handed to another address; of V3, what is taken out is owed until it is *)
(* collected, and what is left may be next to nothing. A contract that     *)
(* numbers the tokens of each owner fills the gap of one that leaves with  *)
(* the last.                                                               *)
(***************************************************************************)
DropNft(s, k) ==
  LET i == SelectInSeq(s, LAMBDA x : x = k)
  IN IF i = 0 THEN s ELSE SubSeq([s EXCEPT ![i] = s[Len(s)]], 1, Len(s) - 1)

HolderOf(prov, k) == {o \in Addresses : k \in Range(nfts[prov][o])}

Move ==
  /\ budget.moves > 0
  /\ budget' = [budget EXCEPT !.moves = @ - 1]
  /\ disc' = [Unclean(disc) EXCEPT !.fresh = FALSE]
  /\ upd' = [u \in Updaters |-> [upd[u] EXCEPT !.fresh = FALSE]]
  /\ UNCHANGED <<version, mode, providers, store, ignored, objs, pane, raced, beyond>>

Open(p) ==
  /\ Move
  /\ p \notin open
  /\ p.key \in KeysOn(version, mode)
  /\ NFTs(version) => HolderOf(p.prov, p.key) \subseteq {p.owner}
  /\ p.key \in Vaults => \A q \in minted : q.key = p.key => q = p
  /\ (version = "v2" /\ ~SharedPairs) => ~IsOpen(p.prov, p.key)
  /\ open' = open \cup {p}
  /\ minted' = minted \cup {p}
  /\ nfts' = IF NFTs(version) /\ HolderOf(p.prov, p.key) = {}
             THEN [nfts EXCEPT ![p.prov][p.owner] = Append(@, p.key)] ELSE nfts
  /\ UNCHANGED <<owed, dust>>

Close(p) ==
  /\ Move
  /\ p \in open
  /\ open' = open \ {p}
  /\ owed' = owed \ {p}
  /\ dust' = dust \ {p}
  /\ UNCHANGED <<nfts, minted>>

\* Liquidity, fees and what is owed change: left is where the worth of the position is now.
Resize(p, left) ==
  /\ Move
  /\ version = "v3"
  /\ p \in open
  /\ owed' = IF left = "owed" THEN owed \cup {p} ELSE owed \ {p}
  /\ dust' = IF left = "fees" THEN dust \cup {p} ELSE dust \ {p}
  /\ UNCHANGED <<open, nfts, minted>>

HandedOver(ps, p, q) == IF p \in ps THEN (ps \ {p}) \cup {q} ELSE ps

Transfer(p, o) ==
  /\ Move
  /\ p \in open /\ o # p.owner /\ version # "staking"
  /\ version = "v2" => SharedPairs
  /\ Pos(p.prov, p.key, o) \notin open
  /\ open' = HandedOver(open, p, Pos(p.prov, p.key, o))
  /\ owed' = HandedOver(owed, p, Pos(p.prov, p.key, o))
  /\ dust' = HandedOver(dust, p, Pos(p.prov, p.key, o))
  /\ nfts' = IF NFTs(version)
             THEN [nfts EXCEPT ![p.prov][p.owner] = DropNft(@, p.key),
                               ![p.prov][o] = Append(@, p.key)]
             ELSE nfts
  /\ UNCHANGED minted

(***************************************************************************)
(* What a pane draws of its list: lp_* leave out what they no longer know. *)
(***************************************************************************)
InWallet(p) == p.prov \in providers \ beyond.dark /\ p.owner \in Range(Owners)

OfKnown(list) == SelectSeq(list, LAMBDA x : InWallet(objs[x]))

rebuidTemplateV2(list)       == IF store.len = 0 THEN <<>> ELSE OfKnown(list)
rebuidTemplateV3(list)       == IF store.len = 0 THEN <<>> ELSE OfKnown(list)
rebuidTemplateV4(list)       == IF store.len = 0 THEN <<>> ELSE OfKnown(list)
rebuildTemplateStaking(list) == IF store.len = 0 THEN <<>> ELSE list

rebuildTemplate(list) ==
  CASE version = "v2" -> rebuidTemplateV2(list)
    [] version = "v3" -> rebuidTemplateV3(list)
    [] version = "v4" -> rebuidTemplateV4(list)
    [] version = "staking" -> rebuildTemplateStaking(list)

(***************************************************************************)
(* The user: dialogues add a provider (the positions of an old one stay    *)
(* away) or change it, commands remove it with its positions, delete one   *)
(* position, which the link of the list named when it was drawn, turn the  *)
(* pane on and off, ignore a token or no longer, and start a discovery.    *)
(***************************************************************************)
User ==
  /\ budget.user > 0
  /\ budget' = [budget EXCEPT !.user = @ - 1]
  /\ disc' = Unclean(disc)
  /\ UNCHANGED <<version, mode, open, owed, dust, nfts, minted, objs, beyond>>

AddProvider(pr) ==
  /\ User
  /\ pr \notin providers
  /\ providers' = providers \cup {pr}
  /\ pane' = Saved(pane)
  /\ UNCHANGED <<store, ignored, upd, raced>>

\* The name, the link, the functions to call: nothing that the rest looks at here.
EditProvider(pr) ==
  /\ User
  /\ pr \in providers
  /\ pane' = Saved(pane)
  /\ UNCHANGED <<providers, store, ignored, upd, raced>>

DlgLP_V2_add(pr)   == version = "v2" /\ AddProvider(pr)
DlgLP_V3_add(pr)   == version = "v3" /\ AddProvider(pr)
DlgLP_V4_add(pr)   == version = "v4" /\ AddProvider(pr)
DlgStakingAdd(pr)  == version = "staking" /\ AddProvider(pr)
DlgLP_V2_edit(pr)  == version = "v2" /\ EditProvider(pr)
DlgLP_V3_edit(pr)  == version = "v3" /\ EditProvider(pr)
DlgLP_V4_edit(pr)  == version = "v4" /\ EditProvider(pr)
DlgStakingEdit(pr) == version = "staking" /\ EditProvider(pr)

RemoveProvider(pr) ==
  /\ User
  /\ pr \in providers
  /\ providers' = providers \ {pr}
  /\ store' = RemoveOf(store, objs, pr)
  /\ pane' = Saved(pane)
  /\ raced' = IF disc.pc = "idle" THEN raced ELSE raced \cup {pr}
  /\ UNCHANGED <<ignored, upd>>

DeletePosition(p) ==
  /\ User
  /\ Removable(version, store, objs, p) # 0
  /\ store' = RemovePosition(version, store, objs, p)
  /\ pane' = Saved(pane)
  /\ UNCHANGED <<providers, ignored, upd, raced>>

IgnoreToken(k) ==
  /\ User
  /\ version # "staking"
  /\ ignored' = IF k \in ignored THEN ignored \ {k} ELSE ignored \cup {k}
  /\ pane' = Saved(pane)
  /\ UNCHANGED <<providers, store, upd, raced>>

\* A pane that comes back is drawn from the last list.
SwitchPane ==
  /\ User
  /\ pane' = [Saved(pane) EXCEPT !.on = ~@,
                                 !.shown = IF pane.on THEN <<>> ELSE rebuildTemplate(pane.list)]
  /\ UNCHANGED <<providers, store, ignored, upd, raced>>

\* `lp_v3 list` sorts the slice where it is, and then ranges over it as a pass does.
ListPositions(u) ==
  /\ User
  /\ version = "v3"
  /\ upd[u].pc = "idle"
  /\ u \in budget.passes
  /\ store.len > 0
  /\ store' \in Sorted(store)
  /\ upd' = [upd EXCEPT ![u] = [NoPass EXCEPT !.pc = "ask", !.i = 1, !.n = store.len,
                                              !.live = TRUE, !.cmd = TRUE]]
  /\ UNCHANGED <<providers, ignored, pane, raced>>

(***************************************************************************)
(* Discovery, as far as all servers agree: one provider after the other as *)
(* they were when it began, and for each one address after the other.      *)
(***************************************************************************)
DiscUnchanged ==
  UNCHANGED <<version, mode, open, owed, dust, nfts, minted, providers, ignored, raced, beyond>>

\* A step that only moves the discovery on.
Go(d) ==
  /\ disc' = d
  /\ DiscUnchanged
  /\ UNCHANGED <<store, objs, pane, upd, budget>>

\* A blockchain the wallet does not know answers nothing.
Lit == disc.prov \notin beyond.dark

\* A read that fails; the discovery goes on as d says, if it does.
GoFailed(d) ==
  /\ \/ Fail /\ Failed
     \/ ~Lit /\ UNCHANGED budget
  /\ disc' = Unclean(d)
  /\ DiscUnchanged
  /\ UNCHANGED <<store, objs, pane, upd>>

\* A pass of lp_v2 that found nothing behind a key names the owner only when it takes the
\* position out: a discovery that has found the key worth something by then overtakes it.
Overtaken(u, p) ==
  /\ version = "v2" /\ p \in open
  /\ upd[u].pc = "use" /\ SameAs(version, p, objs[upd[u].x])

\* The positions found are put into the wallet, which saves them.
GoAdd(p, d) ==
  LET r == AddPosition(version, store, objs, p)
      i == Existing(version, store, objs, p)
      sameOwner == i # 0 => objs[store.arr[i]].owner = p.owner
  IN /\ Len(r.objs) <= MaxObjs
     /\ store' = r.store
     /\ objs' = r.objs
     /\ pane' = IF r.saved THEN Saved(pane) ELSE pane
     /\ upd' = [u \in Updaters |->
                  [Moved(r.store)[u] EXCEPT !.fresh = @ /\ ~Overtaken(u, p)]]
     /\ disc' = IF sameOwner /\ ~\E u \in Updaters : Overtaken(u, p) THEN d ELSE Unclean(d)
     /\ DiscUnchanged
     /\ UNCHANGED budget

\* A pass of the pane that asked the chain before it last changed, or was not answered.
Stale(u) == upd[u].pc # "idle" /\ ~upd[u].fresh

Discover(f) ==
  /\ disc.pc = "idle"
  /\ f \subseteq (IF version = "v2" THEN Keys ELSE IF mode = "vaults" THEN Vaults ELSE {})
  /\ version # "v2" => \A a, b \in f : a = b
  /\ budget.rounds > 0
  /\ budget' = [budget EXCEPT !.rounds = @ - 1]
  /\ disc' = [NoDisc EXCEPT !.pc = "provider", !.left = providers, !.filter = f,
                            !.clean = ~\E u \in Updaters : Stale(u)]
  /\ DiscUnchanged
  /\ UNCHANGED <<store, objs, pane, upd>>

At(pc) == disc.pc = pc
This   == Head(disc.owners)
\* Variant: the loop over the owners ends.
NextOwnerNone(d) == [d EXCEPT !.owners = <<>>, !.pc = d.loop, !.todo = <<>>, !.i = 0]

NextOwner(d) == [d EXCEPT !.owners = Tail(@), !.pc = d.loop, !.todo = <<>>, !.i = 0]

\* lp_* pass over a provider whose blockchain they do not find.
TakeProvider(pr) ==
  /\ At("provider")
  /\ pr \in disc.left
  /\ Go([disc EXCEPT !.left = @ \ {pr}, !.prov = pr, !.owners = Owners, !.loop = "address",
                     !.pc = IF version # "staking" /\ pr \in beyond.dark THEN "provider"
                            ELSE IF mode = "vaults" THEN "vault"
                            ELSE IF version # "v2" THEN "address"
                            ELSE IF mode = "none" THEN "provider" ELSE "probe"])

LastOwner ==
  /\ disc.pc \in {"address", "mints", "balances"}
  /\ disc.owners = <<>>
  /\ Go([disc EXCEPT !.pc = "provider"])

Finish ==
  /\ At("provider")
  /\ disc.left = {}
  /\ Go([NoDisc EXCEPT !.clean = disc.clean, !.fresh = disc.fresh])

Abort == [NoDisc EXCEPT !.clean = FALSE]

AddressStep == At("address") /\ disc.owners # <<>>

HeldBy(o) == {p \in open : p.prov = disc.prov /\ p.owner = o}
KeysOf(ps) == {p.key : p \in ps}

\* Of what fills more than a page, or the pages asked for, a subgraph gives some.
Page(keys) == IF This \in beyond.crowded THEN SUBSET keys ELSE {keys}

(***************************************************************************)
(* lp_v2: a subgraph with liquidityPositions answers per address. One that *)
(* has no such field, which the first query tells, is asked for the mints  *)
(* of each address, and when that fails for the pairs of the tokens given; *)
(* the balances of the pairs are then read from the chain.                 *)
(***************************************************************************)
Probe ==
  /\ At("probe")
  /\ LET perAddress == [disc EXCEPT !.pc = "address"]
     IN \/ Go(IF mode = "positions" THEN perAddress
              ELSE [disc EXCEPT !.pc = "mints", !.loop = "mints"])
        \/ GoFailed(perAddress)

QueryV2Subgraph ==
  /\ AddressStep /\ version = "v2"
  /\ \/ \E keys \in Page(KeysOf(HeldBy(This))) :
          Go(IF mode = "positions" THEN [disc EXCEPT !.todo = SetToSeq(keys), !.pc = "add"]
             ELSE NextOwner(disc))
     \/ GoFailed(NextOwner(disc))

QueryMints ==
  /\ At("mints") /\ disc.owners # <<>>
  /\ LET ever == KeysOf({q \in minted : q.prov = disc.prov /\ q.owner = This})
     IN \/ \E pairs \in Page(ever) :
             Go(IF pairs = {} THEN NextOwner(disc)
                ELSE [disc EXCEPT !.pairs = pairs, !.pc = "balances"])
        \/ GoFailed([disc EXCEPT !.pc = IF disc.filter = {} THEN "provider" ELSE "pairs"])

QueryPairs ==
  /\ At("pairs")
  /\ \/ Go([disc EXCEPT !.pairs = disc.filter, !.owners = Owners, !.pc = "balances",
                        !.loop = "balances"])
     \/ GoFailed([disc EXCEPT !.pc = "provider"])

QueryBalances ==
  /\ At("balances") /\ disc.owners # <<>>
  /\ \/ Go([disc EXCEPT !.todo = SetToSeq(KeysOf(HeldBy(This)) \cap disc.pairs), !.pc = "add"])
     \/ GoFailed(NextOwner(disc))

AddFound ==
  /\ At("add") /\ version = "v2"
  /\ IF disc.todo = <<>> THEN Go(NextOwner(disc))
     ELSE GoAdd(Pos(disc.prov, Head(disc.todo), This), [disc EXCEPT !.todo = Tail(@)])

(***************************************************************************)
(* lp_v3: the contract numbers the tokens of an owner; each is asked for   *)
(* by its number, then for what it is worth, then for its pool. Any read   *)
(* that fails ends the discovery.                                          *)
(***************************************************************************)
V3BalanceOf ==
  /\ AddressStep /\ version = "v3"
  /\ \/ Go([disc EXCEPT !.n = Len(nfts[disc.prov][This]), !.i = 0, !.pc = "index"])
     \/ GoFailed(Abort)

V3TokenOfOwner ==
  /\ At("index") /\ version = "v3"
  /\ LET tokens == nfts[disc.prov][This]
     IN IF disc.i >= disc.n THEN Go(NextOwner(disc))
        ELSE \/ Go(IF disc.i < Len(tokens)
                   THEN [disc EXCEPT !.todo = <<tokens[disc.i + 1]>>, !.pc = "details"]
                   ELSE Abort)
             \/ GoFailed(Abort)

V3NextToken(d) == [d EXCEPT !.i = @ + 1, !.todo = <<>>, !.pc = "index"]

V3Details ==
  /\ At("details") /\ version = "v3"
  /\ \/ Go(IF IsOpen(disc.prov, Head(disc.todo)) THEN [disc EXCEPT !.pc = "add"]
           ELSE V3NextToken(disc))
     \/ GoFailed(Abort)

V3Add ==
  /\ At("add") /\ version = "v3"
  /\ \/ GoAdd(Pos(disc.prov, Head(disc.todo), This), V3NextToken(disc))
     \/ GoFailed(Abort)

(***************************************************************************)
(* lp_v4: the tokens of an owner come from a subgraph in one answer, or by *)
(* their numbers; a token that cannot be read is passed over. One token    *)
(* may also be asked for alone, and is added whatever it is worth and      *)
(* whoever owns it.                                                        *)
(***************************************************************************)
V4Query ==
  /\ AddressStep /\ version = "v4"
  /\ LET tokens == nfts[disc.prov][This]
     IN \/ \E keys \in Page(Range(tokens)) :
             Go(IF mode = "graph"
                THEN [disc EXCEPT !.todo = SetToSeq(keys), !.pc = "details"]
                ELSE [disc EXCEPT !.n = Len(tokens), !.i = 0, !.pc = "index"])
        \/ GoFailed(NextOwner(disc))

V4TokenOfOwner ==
  /\ At("index") /\ version = "v4"
  /\ LET tokens == nfts[disc.prov][This]
         passed == [disc EXCEPT !.i = @ + 1]
     IN IF disc.i >= disc.n THEN Go([disc EXCEPT !.pc = "details"])
        ELSE \/ Go(IF disc.i < Len(tokens)
                   THEN [passed EXCEPT !.todo = Append(@, tokens[disc.i + 1])]
                   ELSE passed)
             \/ GoFailed(passed)

V4Details ==
  /\ At("details") /\ version = "v4"
  /\ IF disc.todo = <<>> THEN Go(NextOwner(disc))
     ELSE \/ Go(IF IsOpen(disc.prov, Head(disc.todo)) THEN [disc EXCEPT !.pc = "add"]
                ELSE [disc EXCEPT !.todo = Tail(@)])
          \/ GoFailed([disc EXCEPT !.todo = Tail(@)])

V4Add ==
  /\ At("add") /\ version = "v4"
  /\ GoAdd(Pos(disc.prov, Head(disc.todo), This),
           [disc EXCEPT !.todo = Tail(@), !.pc = "details"])

DiscoverSingle(pr, k) ==
  /\ At("idle") /\ version = "v4"
  /\ budget.rounds > 0
  /\ pr \in providers \ beyond.dark
  /\ budget' = [budget EXCEPT !.rounds = @ - 1]
  /\ \E o \in HolderOf(pr, k) :
       disc' = [NoDisc EXCEPT !.pc = "single", !.prov = pr, !.todo = <<k>>, !.owners = <<o>>,
                              !.clean = FALSE]
  /\ DiscUnchanged
  /\ UNCHANGED <<store, objs, pane, upd>>

SingleAdd ==
  /\ At("single")
  /\ \/ GoAdd(Pos(disc.prov, Head(disc.todo), This), Abort)
     \/ GoFailed(Abort)

(***************************************************************************)
(* staking discover: the vault that was named, of which the contract tells *)
(* whose it is; the validators an owner has delegated to; or whether an    *)
(* owner has a stake at all: one that has none, or whose stake could not   *)
(* be read, loses the position.                                            *)
(***************************************************************************)
ValidateAztecVault(v) == {p \in open : p.prov = disc.prov /\ p.key = v}

StakingVault ==
  /\ At("vault")
  /\ LET next  == [disc EXCEPT !.pc = "provider"]
         known == KeysOf({objs[x] : x \in Range(Elements(store))})
     IN IF disc.filter = {} THEN Go(next)
        ELSE \E v \in disc.filter :
               \/ /\ v \in known \/ (Lit /\ ValidateAztecVault(v) = {})
                  /\ Go(next)
               \/ /\ v \notin known /\ Lit
                  /\ \E p \in ValidateAztecVault(v) : GoAdd(p, next)
               \/ GoFailed(next)

StakingDelegations ==
  /\ AddressStep /\ version = "staking" /\ mode = "validators"
  /\ \/ /\ Lit
        /\ Go([disc EXCEPT !.todo = SetToSeq(KeysOf(HeldBy(This))), !.pc = "add"])
     \/ GoFailed(NextOwner(disc))

StakingAdd ==
  /\ At("add") /\ version = "staking"
  /\ IF disc.todo = <<>> THEN Go(NextOwner(disc))
     ELSE LET p == Pos(disc.prov, Head(disc.todo), This)
              d == [disc EXCEPT !.todo = Tail(@)]
          IN IF GetStakingPositionWithValidator(store, objs, p) # 0 THEN Go(d)
             ELSE GoAdd(p, d)

StakingBalance ==
  /\ AddressStep /\ version = "staking" /\ mode = "plain"
  /\ LET d(has) == [disc EXCEPT !.has = has, !.pc = "stake"]
     IN \/ Lit /\ Go(d(Pos(disc.prov, Plain, This) \in open))
        \/ GoFailed([d(FALSE) EXCEPT !.fresh = FALSE])

StakingUpdate ==
  /\ At("stake")
  /\ LET p        == Pos(disc.prov, Plain, This)
         existing == GetStakingPosition(store, objs, p) # 0
     IN IF disc.has = existing THEN Go(NextOwner(disc))
        ELSE IF disc.has THEN GoAdd(p, NextOwner(disc))
        ELSE /\ store' = RemovePosition(version, store, objs, p)
             /\ pane' = Saved(pane)
             /\ disc' = NextOwner(disc)
             /\ DiscUnchanged
             /\ UNCHANGED <<objs, upd, budget>>

(***************************************************************************)
(* get-position-status and get-balance, for the position p that u holds:   *)
(* the answer, and the answers when a read fails. Of V3, tokens owed do    *)
(* not count in the answer, and `lp_v3 list` does not look at the fees.    *)
(* lp_v2 takes a balance that could not be read for nothing, lp_v4 a       *)
(* price, and staking lists the position all the same.                     *)
(***************************************************************************)
Followed(p) == GetPosition(store, objs, p) # 0 /\ p.prov \in providers \ beyond.dark

Worth(p, set) == IF p \in set THEN "ok" ELSE "zero"

\* The positions that are worth something, as far as u looks.
Seen(cmd) == open \ (owed \cup (IF cmd THEN dust ELSE {}))

OneSeen(cmd, p) == \E q \in Seen(cmd) : q.prov = p.prov /\ q.key = p.key

getPositionStatusV2(p) ==
  IF ~Followed(p) THEN "error" ELSE Worth(objs[store.arr[GetPosition(store, objs, p)]], open)

get_position_statusV3(cmd, p) ==
  IF ~Followed(p) THEN "error" ELSE IF OneSeen(cmd, p) THEN "ok" ELSE "zero"

getPositionStatusV4(p) ==
  IF ~Followed(p) THEN "error" ELSE IF IsOpen(p.prov, p.key) THEN "ok" ELSE "zero"

getBalance(p) ==
  IF p.prov \notin providers \/ p.owner \in Strangers THEN "error"
  ELSE IF p.prov \in beyond.dark THEN "ok" ELSE Worth(p, open)

\* `lp_v3 list` takes out what the wallet does not know before it asks.
listStatus(p) ==
  IF p.prov \notin providers \ beyond.dark THEN "stray"
  ELSE IF p.owner \in Strangers THEN "stranger" ELSE get_position_statusV3(TRUE, p)

Status(cmd, p) ==
  CASE cmd -> listStatus(p)
    [] ~cmd /\ version = "v2" -> getPositionStatusV2(p)
    [] ~cmd /\ version = "v3" -> get_position_statusV3(FALSE, p)
    [] ~cmd /\ version = "v4" -> getPositionStatusV4(p)
    [] ~cmd /\ version = "staking" -> getBalance(p)

StatusUnread ==
  [v2 |-> {"zero"}, v3 |-> {"error"}, v4 |-> {"error", "zero"}, staking |-> {"ok"}][version]

(***************************************************************************)
(* The pane: updateList in a goroutine of its own, ranging over the slice  *)
(* as it was when it began. lp_v2 and staking take positions worth nothing *)
(* out at once, lp_v3 and lp_v4 when the list is shown; so does `lp_v3     *)
(* list`, which prints what it finds and has no pane to show it in.        *)
(***************************************************************************)
PaneUnchanged ==
  UNCHANGED <<version, mode, open, owed, dust, nfts, minted, providers, ignored, objs, raced,
              beyond>>

Begin(u, p) ==
  /\ upd[u].pc = "idle"
  /\ u \in budget.passes
  /\ upd' = IF store.len = 0 \/ ~pane.on THEN upd
            ELSE [upd EXCEPT ![u] = [NoPass EXCEPT !.pc = "ask", !.i = 1, !.n = store.len,
                                                   !.live = TRUE]]
  /\ pane' = IF store.len = 0 /\ pane.on /\ version = "staking"
             THEN [p EXCEPT !.list = <<>>, !.shown = <<>>] ELSE p
  /\ PaneUnchanged
  /\ UNCHANGED <<store, disc, budget>>

Heard == [pane EXCEPT !.events = @ - 1]

ScheduleUpdate(u) ==
  /\ pane.events > 0
  /\ IF pane.pending \/ pane.recent
     THEN /\ pane' = [Heard EXCEPT !.pending = TRUE]
          /\ PaneUnchanged
          /\ UNCHANGED <<store, upd, disc, budget>>
     ELSE Begin(u, [Heard EXCEPT !.recent = TRUE])

scheduleUpdateV2(u) == version = "v2" /\ ScheduleUpdate(u)
scheduleUpdateV3(u) == version = "v3" /\ ScheduleUpdate(u)
scheduleUpdateV4(u) == version = "v4" /\ ScheduleUpdate(u)

Elapse ==
  /\ pane.recent
  /\ pane' = [pane EXCEPT !.recent = FALSE]
  /\ PaneUnchanged
  /\ UNCHANGED <<store, upd, disc, budget>>

WakeUp(u) ==
  /\ pane.pending
  /\ ~pane.recent
  /\ Begin(u, [pane EXCEPT !.pending = FALSE, !.recent = TRUE])

processStaking(u) ==
  /\ version = "staking"
  /\ pane.events > 0
  /\ Begin(u, Heard)

Ranged(u) == IF upd[u].live THEN store.arr[upd[u].i] ELSE upd[u].own[upd[u].i]

Asked(u) == Status(upd[u].cmd, objs[Ranged(u)])

AskStatus(u) ==
  /\ upd[u].pc = "ask"
  /\ \/ /\ upd[u].i > upd[u].n
        /\ upd' = [upd EXCEPT ![u].pc = "show"]
        /\ UNCHANGED <<budget, disc>>
     \/ /\ upd[u].i <= upd[u].n
        /\ upd' = [upd EXCEPT ![u].pc = "use", ![u].x = Ranged(u), ![u].got = Asked(u)]
        /\ UNCHANGED <<budget, disc>>
     \/ /\ upd[u].i <= upd[u].n
        /\ Fail /\ Failed
        /\ Asked(u) \in {"ok", "zero"}
        /\ disc' = Unclean(disc)
        /\ \E got \in StatusUnread :
             upd' = [upd EXCEPT ![u].pc = "use", ![u].x = Ranged(u), ![u].got = got,
                                ![u].fresh = @ /\ got # "zero"]
  /\ PaneUnchanged
  /\ UNCHANGED <<store, pane>>

Got(u, status) == upd[u].pc = "use" /\ upd[u].got = status

Advance(u) == [upd[u] EXCEPT !.pc = "ask", !.i = @ + 1, !.x = 0, !.got = "none"]

\* What only moves the pass on.
Proceed(u, q) ==
  /\ upd' = [upd EXCEPT ![u] = q]
  /\ PaneUnchanged
  /\ UNCHANGED <<store, pane, disc, budget>>

Ignored(u) == version # "staking" /\ ~upd[u].cmd /\ objs[upd[u].x].key \in ignored

Listed(u) ==
  /\ Got(u, "ok") /\ ~Ignored(u)
  /\ Proceed(u, [Advance(u) EXCEPT !.list = Append(@, upd[u].x)])

Skipped(u) ==
  /\ Got(u, "error") \/ (Got(u, "ok") /\ Ignored(u))
  /\ Proceed(u, Advance(u))

\* What u is about to take out is worth something that u does not look at, or is taken out
\* for the provider, the blockchain or the owner that the wallet does not know.
Unseen(u, p) == p \in open \ Seen(upd[u].cmd)

Astray(u) ==
  /\ upd[u].cmd
  /\ \/ Got(u, "stranger")
     \/ upd[u].pc = "delete" /\ Head(upd[u].todel) \in upd[u].strays

\* Remove*Position for a position that is worth nothing, and what the pass does then.
TakeOut(u, p, then) ==
  /\ store' = RemovePosition(version, store, objs, p)
  /\ pane' = IF Removable(version, store, objs, p) # 0 THEN Saved(pane) ELSE pane
  /\ upd' = then
  /\ disc' = IF Astray(u) \/ \E q \in open : SameAs(version, p, q) /\ Unseen(u, q)
             THEN Unclean(disc) ELSE disc
  /\ PaneUnchanged
  /\ UNCHANGED budget

RemovedAtOnce(u) ==
  /\ Got(u, "zero")
  /\ TakeOut(u, objs[upd[u].x], [upd EXCEPT ![u] = Advance(u)])

StrangersRemoved(u) ==
  /\ Got(u, "stranger")
  /\ TakeOut(u, objs[upd[u].x], [upd EXCEPT ![u] = Advance(u)])

RemovedLater(u) ==
  \/ /\ Got(u, "zero")
     /\ Proceed(u, [Advance(u) EXCEPT !.todel = Append(@, upd[u].x)])
  \/ /\ Got(u, "stray")
     /\ Proceed(u, [Advance(u) EXCEPT !.todel = Append(@, upd[u].x),
                                      !.strays = @ \cup {upd[u].x}])

\* The pass has come to its end; it may have positions to take out.
Closing(q) ==
  IF q.todel = <<>> THEN NoPass
  ELSE [NoPass EXCEPT !.pc = "delete", !.todel = q.todel, !.fresh = q.fresh, !.cmd = q.cmd,
                      !.strays = q.strays]

\* Variant: the pane is not drawn again.
ShowKeeps(u) ==
  /\ upd[u].pc = "show" /\ ~upd[u].cmd
  /\ pane' = [pane EXCEPT !.list = upd[u].list]
  /\ upd' = [upd EXCEPT ![u] = Closing(upd[u])]
  /\ PaneUnchanged
  /\ UNCHANGED <<store, disc, budget>>

Show(u) ==
  /\ upd[u].pc = "show" /\ ~upd[u].cmd
  /\ pane' = [pane EXCEPT !.list = upd[u].list,
                          !.shown = IF pane.on THEN rebuildTemplate(upd[u].list) ELSE @]
  /\ upd' = [upd EXCEPT ![u] = Closing(upd[u])]
  /\ PaneUnchanged
  /\ UNCHANGED <<store, disc, budget>>

Printed(u) ==
  /\ upd[u].pc = "show" /\ upd[u].cmd
  /\ Proceed(u, Closing(upd[u]))

DeleteClosed(u) ==
  /\ upd[u].pc = "delete"
  /\ LET rest == Tail(upd[u].todel)
     IN TakeOut(u, objs[Head(upd[u].todel)],
                [upd EXCEPT ![u] = IF rest = <<>> THEN NoPass ELSE [@ EXCEPT !.todel = rest]])

ListStep(u) == AskStatus(u) \/ Listed(u) \/ Skipped(u) \/ Show(u)

updateListV2(u)      == version = "v2" /\ (ListStep(u) \/ RemovedAtOnce(u))
updateListV3(u)      == version = "v3" /\ (ListStep(u) \/ RemovedLater(u) \/ DeleteClosed(u))
updateListV4(u)      == version = "v4" /\ (ListStep(u) \/ RemovedLater(u) \/ DeleteClosed(u))
updateListStaking(u) == version = "staking" /\ (ListStep(u) \/ RemovedAtOnce(u))
list(u)              == Printed(u) \/ StrangersRemoved(u)

\* As long as some feed answers: prices that nobody gave are not announced.
PriceUpdated ==
  /\ pane.events = 0
  /\ pane' = [pane EXCEPT !.events = 1]
  /\ PaneUnchanged
  /\ UNCHANGED <<store, upd, disc, budget>>

(***************************************************************************)
(* Specification.                                                          *)
(***************************************************************************)
Init ==
  \E w \in Worlds :
    /\ version = w.version
    /\ mode = w.mode
    /\ open = w.open
    /\ owed = w.owed
    /\ dust = w.dust
    /\ minted = w.open \cup Range(w.stored)
    /\ nfts = [pr \in Providers |-> [o \in Addresses |->
                 IF NFTs(w.version)
                 THEN SetToSeq(KeysOf({p \in w.open : p.prov = pr /\ p.owner = o})) ELSE <<>>]]
    /\ providers = w.known
    /\ objs = w.stored
    /\ store = [arr |-> [i \in 1..Len(w.stored) |-> i], len |-> Len(w.stored)]
    /\ pane = [events |-> 0, pending |-> FALSE, recent |-> FALSE, on |-> TRUE,
               list |-> <<>>, shown |-> <<>>]
    /\ upd = [u \in Updaters |-> NoPass]
    /\ disc = NoDisc
    /\ budget = w.budget
    /\ raced = {}
    /\ ignored = {}
    /\ beyond = w.beyond

DiscoveryStep ==
  \/ \E pr \in Providers : TakeProvider(pr)
  \/ LastOwner \/ Finish
  \/ Probe \/ QueryV2Subgraph \/ QueryMints \/ QueryPairs \/ QueryBalances \/ AddFound
  \/ V3BalanceOf \/ V3TokenOfOwner \/ V3Details \/ V3Add
  \/ V4Query \/ V4TokenOfOwner \/ V4Details \/ V4Add \/ SingleAdd
  \/ StakingVault \/ StakingDelegations \/ StakingAdd \/ StakingBalance \/ StakingUpdate

Pass(u) ==
  updateListV2(u) \/ updateListV3(u) \/ updateListV4(u) \/ updateListStaking(u) \/ list(u)

Listen(u) ==
  scheduleUpdateV2(u) \/ scheduleUpdateV3(u) \/ scheduleUpdateV4(u) \/ processStaking(u)

Dialogue(pr) ==
  \/ DlgLP_V2_add(pr) \/ DlgLP_V3_add(pr) \/ DlgLP_V4_add(pr) \/ DlgStakingAdd(pr)
  \/ DlgLP_V2_edit(pr) \/ DlgLP_V3_edit(pr) \/ DlgLP_V4_edit(pr) \/ DlgStakingEdit(pr)

Command ==
  \/ SwitchPane
  \/ \E k \in Keys : IgnoreToken(k)
  \/ \E pr \in Providers : RemoveProvider(pr)
  \/ \E f \in SUBSET (Keys \cup Vaults) : Discover(f)

LP_V2_Process ==
  /\ version = "v2"
  /\ Command \/ \E p \in Positions : DeletePosition(p)

LP_V3_Process ==
  /\ version = "v3"
  /\ Command \/ \E u \in Updaters : ListPositions(u)

LP_V4_Process ==
  /\ version = "v4"
  /\ Command \/ \E pr \in Providers, k \in Keys : DiscoverSingle(pr, k)

Staking_Process == version = "staking" /\ Command

Next ==
  \/ \E p \in Positions : Open(p) \/ Close(p)
  \/ \E p \in Positions, o \in Addresses : Transfer(p, o)
  \/ \E p \in Positions, left \in {"liquidity", "fees", "owed"} : Resize(p, left)
  \/ \E pr \in Providers : Dialogue(pr)
  \/ LP_V2_Process \/ LP_V3_Process \/ LP_V4_Process \/ Staking_Process
  \/ DiscoveryStep
  \/ \E u \in Updaters : Pass(u) \/ Listen(u) \/ WakeUp(u)
  \/ Elapse \/ PriceUpdated

(* Goroutines run, requests are answered, time passes. *)
Fairness ==
  /\ WF_vars(Elapse)
  /\ WF_vars(\E u \in Updaters : Listen(u))
  /\ WF_vars(\E u \in Updaters : WakeUp(u))
  /\ \A u \in Updaters : WF_vars(Pass(u))

Spec == Init /\ [][Next]_vars /\ Fairness

(***************************************************************************)
(* Properties.                                                             *)
(***************************************************************************)
Stored == {objs[x] : x \in Range(Elements(store))}

Same(p, q) == SameAs(version, p, q)

(* No position is kept twice, whatever discovery, pane and dialogues do at *)
(* the same time, although the key of a pool leaves its owner out and a    *)
(* stake with no validator is matched by its owner alone.                  *)
OnePerKey ==
  \A i, j \in 1..store.len :
    i # j => /\ store.arr[i] # store.arr[j]
             /\ ~Same(objs[store.arr[i]], objs[store.arr[j]])

(* When a provider is removed its positions go with it, and none comes     *)
(* back; only a discovery that was under way may still bring some.         *)
NoOrphans == \A p \in Stored : p.prov \in providers \cup raced

(* However discovery, pane and dialogues interleave, the wallet never      *)
(* holds a position twice, nor one whose provider is gone.                 *)
StoreSound == OnePerKey /\ NoOrphans

\* Of two vaults of an owner in a contract the wallet keeps one, and takes either for it.
TwoVaults(p) ==
  /\ p.key \in Vaults
  /\ \E q \in minted : q # p /\ q.key \in Vaults /\ q.prov = p.prov /\ q.owner = p.owner

\* A step that takes out a position which is worth something, and why it may.
MayTakeOut(p) ==
  \/ budget'.user # budget.user
  \/ \E q \in Stored' : Same(p, q)
  \/ \E u \in Updaters : upd'[u] # upd[u] /\ (Stale(u) \/ Unseen(u, p) \/ Astray(u))
  \/ ~disc.fresh /\ disc' # disc
  \/ TwoVaults(p)

(* What takes a position out on its own, the pane, `lp_v3 list` or the     *)
(* discovery of stakings, only takes out what is worth nothing that it     *)
(* looks at, or for the list what the wallet knows no provider or owner    *)
(* of, unless the chain has changed since it began or did not answer, or a *)
(* discovery overtook it; and never another than the one it asked about,   *)
(* although the slice has moved under it, but for one of two vaults. A     *)
(* pane of lp_v3 does not look at tokens owed, nor the list at fees.       *)
DeletesOnlyEmpty ==
  [][\A p \in Stored \ Stored' : p \in open => MayTakeOut(p)]_vars

(* A discovery that ends, all reads answered and nothing disturbed, has    *)
(* put every position it can see into the wallet, those of tokens owed     *)
(* too, whatever the pane took out in the meantime, but when it took out   *)
(* one whose worth it does not look at. Mints tell who put liquidity in,   *)
(* not who was given it, a vault is looked for when it is named, and of    *)
(* what fills more than a page a subgraph only gives some.                 *)
InReach(p) ==
  /\ p.prov \in providers \ beyond.dark
  /\ p.owner \in Range(Owners)
  /\ mode \in {"positions", "mints", "graph"} => p.owner \notin beyond.crowded
  /\ version = "v2" => mode # "none"
  /\ mode = "mints" => p \in minted
  /\ p.key \in Vaults => p.key \in disc.filter /\ ~TwoVaults(p)

FoundAll == \A p \in open : InReach(p) => \E q \in Stored : Same(p, q)

DiscoveryComplete == [][(Finish /\ disc.clean) => FoundAll]_vars

(* However passes overlap, slices move or are sorted, and whatever was     *)
(* lost on the way: as long as prices keep coming, a pane that is on ends  *)
(* up with each position the wallet keeps, of the providers, blockchains   *)
(* and owners it knows and of no token that is ignored, once.              *)
Expected ==
  {x \in Range(Elements(store)) :
     IF version = "staking" THEN objs[x].prov \in providers /\ objs[x].owner \in Range(Owners)
     ELSE InWallet(objs[x]) /\ objs[x].key \notin ignored}

Settled ==
  store.len > 0 /\ pane.on => /\ ToSet(pane.shown) = Expected
                              /\ Len(pane.shown) = Cardinality(Expected)

PaneSettles == []<><<PriceUpdated>>_vars => <>[]Settled
=============================================================================
