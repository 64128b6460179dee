---------------------------- MODULE WalletTokens ----------------------------
(***************************************************************************)
(* The blockchains and tokens of the wallet in cmn/wallet.go: the changes  *)
(* made to them and the audit that follows, each under writeMutex.  The    *)
(* loops that remove elements of w.Tokens while they range over it are     *)
(* modelled as Go runs them, the slices sharing one array; they may panic, *)
(* which ends the program with the wallet as it was saved before.  The LP  *)
(* providers that DeleteBlockchain removes as well are left out.           *)
(***************************************************************************)
EXTENDS Naturals, SequencesExt

CONSTANTS
  ChainIds,
  Currencies,  \* symbols of native tokens
  Symbols,     \* symbols of tokens the user adds
  Addresses,   \* addresses of the contracts of tokens
  Zero,        \* the zero address: that of a native token, or none
  MaxTokens    \* bound: tokens in the wallet before one is added

ASSUME AddressesAssumption == Zero \notin Addresses
ASSUME MaxTokensAssumption == MaxTokens \in Nat

\* A symbol is a sequence of words, so that the code can put a W before it.
ASSUME SymbolsAssumption == Currencies \cup Symbols \subseteq Seq(STRING)

Address == Addresses \cup {Zero}
Wrapped(currency) == <<"W">> \o currency

Symbol == Currencies \cup Symbols \cup {Wrapped(c) : c \in Currencies}
Token == {t \in [chain : ChainIds, address : Address, symbol : Symbol,
               native : BOOLEAN, unique : BOOLEAN] : t.native <=> t.address = Zero}
Blockchain == [id : ChainIds, currency : Currencies, wrapped : Address]

VARIABLES
  open,    \* is the wallet open?
  chains,  \* w.Blockchains
  tokens,  \* w.Tokens
  known    \* history: the blockchains the wallet has had

tokenVars == <<open, chains, tokens, known>>

-----------------------------------------------------------------------------
(* Slices: an array a, of which the slice has the first n elements.        *)

WholeSlice(s) == [a |-> s, n |-> Len(s), ok |-> TRUE]
Elements(slice) == SubSeq(slice.a, 1, slice.n)

\* What a loop of n rounds makes of x.
Rounds(n, x, Round(_, _)) ==
  LET after[i \in 0..n] == IF i = 0 THEN x ELSE Round(after[i - 1], i)
  IN  after[n]

\* s = append(s[:j], s[j+1:]...): panics beyond the end, else moves the rest
\* of the elements down in place.
DeleteAt(s, j) ==
  IF j > s.n THEN [s EXCEPT !.ok = FALSE]
  ELSE [a |-> [k \in DOMAIN s.a |-> IF k \in j..(s.n - 1) THEN s.a[k + 1] ELSE s.a[k]],
        n |-> s.n - 1, ok |-> TRUE]

-----------------------------------------------------------------------------
(* Look-ups: the index of the first element that passes, or 0.             *)

HasBlockchain(cs, c) == \E i \in DOMAIN cs : cs[i].id = c

SameSymbol(t, u) == t.chain = u.chain /\ t.symbol = u.symbol

GetNativeToken(ts, c) == SelectInSeq(ts, LAMBDA t : t.chain = c /\ t.native)

GetTokenByAddress(cs, ts, c, a) ==
  IF a = Zero THEN IF HasBlockchain(cs, c) THEN GetNativeToken(ts, c) ELSE 0
  ELSE SelectInSeq(ts, LAMBDA t : t.chain = c /\ t.address = a)

\* Ambiguous when it is not unique.
GetTokenBySymbol(ts, c, symbol) ==
  LET i == SelectInSeq(ts, LAMBDA t : t.chain = c /\ t.symbol = symbol)
  IN  IF i > 0 /\ ts[i].unique THEN i ELSE 0

\* The token a send asks for: the command has looked it up, by address or by
\* symbol, and hands its symbol on.
SentToken(ts, i) == GetTokenBySymbol(ts, ts[i].chain, ts[i].symbol)

-----------------------------------------------------------------------------
(* The audit.                                                              *)

\* Both loops range over w.Tokens as it was when they began.
RemoveSame(s, i) ==
  Rounds(s.n, s, LAMBDA u, j : IF u.ok /\ i # j /\ SameSymbol(s.a[i], u.a[j])
                               THEN DeleteAt(u, j) ELSE u)

RemoveDoubles(ts) == Rounds(Len(ts), WholeSlice(ts), LAMBDA s, i : RemoveSame(s, i))

NativeToken(c) == [chain |-> c.id, address |-> Zero, symbol |-> c.currency,
                   native |-> TRUE, unique |-> FALSE]

\* Variant: a native token is added to each blockchain.
AuditNativeAlways(cs, ts) ==
  Rounds(Len(cs), ts, LAMBDA us, k : Append(us, NativeToken(cs[k])))

AuditNative(cs, ts) ==
  Rounds(Len(cs), ts, LAMBDA us, k :
    LET i == GetNativeToken(us, cs[k].id)
    IN  IF i > 0 THEN [us EXCEPT ![i].symbol = cs[k].currency]
        ELSE Append(us, NativeToken(cs[k])))

WrappedToken(c) == [chain |-> c.id, address |-> c.wrapped, symbol |-> Wrapped(c.currency),
                    native |-> FALSE, unique |-> FALSE]

AuditWrapped(cs, ts) ==
  Rounds(Len(cs), ts, LAMBDA us, k :
    IF \/ cs[k].wrapped = Zero
       \/ GetTokenByAddress(cs, us, cs[k].id, cs[k].wrapped) > 0
    THEN us ELSE Append(us, WrappedToken(cs[k])))

\* The first native token that has lost its blockchain goes.
RemoveOrphan(cs, ts) ==
  LET i == SelectInSeq(ts, LAMBDA t : t.native /\ ~HasBlockchain(cs, t.chain))
  IN  IF i > 0 THEN RemoveAt(ts, i) ELSE ts

\* Variant: only the later of two tokens is marked.
MarkUniqueLater(cs, ts) ==
  [i \in DOMAIN ts |->
     IF HasBlockchain(cs, ts[i].chain)
     THEN [ts[i] EXCEPT !.unique = ~ \E j \in 1..(i - 1) : SameSymbol(ts[j], ts[i])]
     ELSE ts[i]]

\* A token with the symbol of an earlier one is not unique, and neither is
\* the first of those.
MarkUnique(cs, ts) ==
  LET FirstSame(j, i) == /\ j < i
                         /\ SameSymbol(ts[j], ts[i])
                         /\ \A k \in 1..(j - 1) : ~SameSymbol(ts[k], ts[i])
  IN  [i \in DOMAIN ts |->
         IF HasBlockchain(cs, ts[i].chain)
         THEN [ts[i] EXCEPT !.unique = /\ ~ \E j \in DOMAIN ts : FirstSame(j, i)
                                       /\ ~ \E j \in DOMAIN ts : FirstSame(i, j)]
         ELSE ts[i]]

\* _locked_AuditNativeTokens: [ok, tokens].
Audit(cs, ts) ==
  LET s == RemoveDoubles(ts)
      us == AuditWrapped(cs, AuditNative(cs, Elements(s)))
  IN  [ok |-> s.ok,
       tokens |-> IF s.ok THEN MarkUnique(cs, RemoveOrphan(cs, us)) ELSE ts]

-----------------------------------------------------------------------------
(* Operations.                                                             *)

TokensInit == open = TRUE /\ chains = <<>> /\ tokens = <<>> /\ known = {}

\* The operation changes the blockchains to cs and audits ts; the program
\* ends if it panics.
Finish(cs, ok, ts) ==
  LET result == Audit(cs, ts)
  IN  IF ok /\ result.ok
      THEN /\ chains' = cs /\ tokens' = result.tokens
           /\ known' = known \cup {cs[i].id : i \in DOMAIN cs}
           /\ UNCHANGED open
      ELSE open' = FALSE /\ UNCHANGED <<chains, tokens, known>>

AddBlockchain(b) ==
  /\ open
  /\ Len(tokens) < MaxTokens
  /\ ~HasBlockchain(chains, b.id)
  /\ Finish(Append(chains, b), TRUE, tokens)

EditBlockchain(b) ==
  /\ open
  /\ \E i \in DOMAIN chains :
       chains[i].id = b.id /\ Finish([chains EXCEPT ![i] = b], TRUE, tokens)

\* The loop ranges over w.Tokens as it was when it began.
RemoveTokensOf(c, ts) ==
  Rounds(Len(ts), WholeSlice(ts), LAMBDA s, i : IF s.ok /\ s.a[i].chain = c
                                               THEN DeleteAt(s, i) ELSE s)

DeleteBlockchain(c) ==
  /\ open
  /\ \E i \in DOMAIN chains :
       /\ chains[i].id = c
       /\ LET s == RemoveTokensOf(c, tokens)
          IN  Finish(RemoveAt(chains, i), s.ok, Elements(s))

\* The blockchain was looked up before the node was asked for the symbol, and
\* may be gone.
AddToken(c, a, symbol) ==
  /\ open
  /\ Len(tokens) < MaxTokens
  /\ c \in known
  /\ GetTokenByAddress(chains, tokens, c, a) = 0
  /\ tokens' = MarkUnique(chains,
                 Append(tokens, [chain |-> c, address |-> a, symbol |-> symbol,
                                 native |-> FALSE, unique |-> FALSE]))
  /\ UNCHANGED <<open, chains, known>>

DeleteToken(c, a) ==
  /\ open
  /\ LET i == SelectInSeq(tokens, LAMBDA t : t.chain = c /\ t.address = a)
     IN  i > 0 /\ tokens' = MarkUnique(chains, RemoveAt(tokens, i))
  /\ UNCHANGED <<open, chains, known>>

\* Open a wallet again; Unique is not in the file.
Reopen ==
  LET result == Audit(chains, [i \in DOMAIN tokens |->
                                 [tokens[i] EXCEPT !.unique = FALSE]])
  IN  /\ open' = result.ok
      /\ tokens' = IF result.ok THEN result.tokens ELSE tokens
      /\ UNCHANGED <<chains, known>>

TokensNext ==
  \/ \E b \in Blockchain : AddBlockchain(b) \/ EditBlockchain(b)
  \/ \E c \in ChainIds : DeleteBlockchain(c)
  \/ \E c \in ChainIds, a \in Addresses, s \in Symbols : AddToken(c, a, s)
  \/ \E c \in ChainIds, a \in Address : DeleteToken(c, a)
  \/ Reopen

TokensSpec == TokensInit /\ [][TokensNext]_tokenVars

-----------------------------------------------------------------------------
\* Types of the state.
TokensTypeOK ==
  /\ open \in BOOLEAN
  /\ chains \in Seq(Blockchain)
  /\ tokens \in Seq(Token)
  /\ known \subseteq ChainIds

\* However blockchains and tokens come and go, an address of a blockchain has
\* one token at most (so has the zero address, that of the native token), and a
\* native token has its blockchain.
OneTokenPerAddress ==
  \A i \in DOMAIN tokens :
    /\ tokens[i].native => HasBlockchain(chains, tokens[i].chain)
    /\ \A j \in DOMAIN tokens \ {i} :
         ~(tokens[j].address = tokens[i].address /\ tokens[j].chain = tokens[i].chain)

\* GetTokenBySymbol trusts Unique: it says that no other token of the
\* blockchain has the symbol.
UniqueMeansUnique ==
  open => \A i \in DOMAIN tokens : HasBlockchain(chains, tokens[i].chain) =>
            (tokens[i].unique
             <=> \A j \in DOMAIN tokens \ {i} : ~SameSymbol(tokens[i], tokens[j]))

\* Both, after any sequence of changes.
TokensSound == OneTokenPerAddress /\ UniqueMeansUnique

\* "send [BLOCKCHAIN] [TOKEN/ADDRESS]": a token the user names by its address is
\* the one that is sent.
SendByAddress ==
  \A i \in DOMAIN tokens : HasBlockchain(chains, tokens[i].chain) => SentToken(tokens, i) = i

\* "remove doubles": opening a wallet succeeds and leaves a token of each symbol.
RemovesOnlyDoubles ==
  [][Reopen => /\ open'
             /\ \A i \in DOMAIN tokens : \E j \in DOMAIN tokens' :
                  SameSymbol(tokens[i], tokens'[j])]_tokenVars

\* "Remove blockchain": the blockchain is removed, with its tokens.
RemovesBlockchain ==
  [][\A c \in ChainIds : DeleteBlockchain(c) =>
       open' /\ \A i \in DOMAIN tokens' : tokens'[i].chain # c]_tokenVars
=============================================================================
