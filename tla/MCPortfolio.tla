---------------------------- MODULE MCPortfolio ----------------------------
(* Blockchain 1 has a native token n, the token w that wraps it and a token e, *)
(* blockchain 2 a native token m. A staking position earns w and n, and there  *)
(* is a liquidity position of each version.                                    *)
EXTENDS Portfolio

CONSTANTS n, w, e, m, a1, a2, s1, s2, p2, p3, q3, p4, d1, d2, d3, c1, u1, u2

MCChains == <<1, 2>>
MCChainOf == [t \in {n, w, e, m} |-> IF t = m THEN 2 ELSE 1]
MCNativeOf == <<n, m>>
MCWrappedOf == <<w, NoToken>>
MCPairs ==
  [f \in {d1, d2, d3} |-> CASE f = d1 -> [chain |-> 1, tokens |-> {w, e}]
                            [] f = d2 -> [chain |-> 1, tokens |-> {n}]
                            [] f = d3 -> [chain |-> 2, tokens |-> {m}]]
MCSlugs == [f \in {c1} |-> {n, m}]
MCStaked ==
  [p \in {s1, s2} |-> [owner |-> IF p = s1 THEN a1 ELSE a2, token |-> e, rewards |-> <<w, n>>, funcs |-> <<TRUE, p = s1>>]]
MCPools ==
  [p \in {p2, p3, q3, p4} |->
     CASE p = p2 -> [version |-> "v2", owner |-> a1, tokens |-> <<w, e>>]
       [] p = p4 -> [version |-> "v4", owner |-> a2, tokens |-> <<n, NoToken>>]
       [] OTHER -> [version |-> "v3",
                                owner |-> IF p = p3 THEN a1 ELSE a2, tokens |-> <<w, e>>]]

Feed(N, W, E, M) == (n :> N) @@ (w :> W) @@ (e :> E) @@ (m :> M)
Budget(passes, moves, quotes, fails, user, updates) ==
  [passes |-> passes, moves |-> moves, quotes |-> quotes,
   fails |-> fails, user |-> user, updates |-> updates]

None == [l \in Lists |-> <<>>]
Full == [staking |-> <<s1, s2>>, v2 |-> <<p2>>, v3 |-> <<p3, q3>>, v4 |-> <<p4>>]
\* Positions that are yet to be found.
Less == [Full EXCEPT !.v2 = <<>>, !.v3 = <<q3>>]

\* Another amount in each place of a token.
Amounts ==
  [x \in Places |-> CASE x[1] = "liquid" -> IF x[2] = a2 THEN 2 ELSE IF x[3] = e THEN 4 ELSE 1
                      [] x[1] = "stake" -> 3
                      [] x[1] = "reward" -> x[3]
                      [] x[1] = "liquidity" -> x[3]
                      [] x[1] \in {"gain", "owed"} -> 2]

\* The market and the user, with the pane off.
Market(ts, f) ==
  [tokens |-> ts, feed |-> f, lists |-> None, held |-> Amounts, on |-> FALSE,
   price |-> [t \in Tokens |-> 0], budget |-> Budget({u1}, 0, 1, 1, 1, 1)]

\* The pane, beside moves, reads that fail and the user.
Watched(passes, kept, moves, fails, user) ==
  [tokens |-> Tokens, feed |-> Feed(d2, NoFeed, d1, d3), lists |-> kept, held |-> Amounts,
   on |-> TRUE, price |-> Feed(2, 2, 1, 1), budget |-> Budget(passes, moves, 0, fails, user, 0)]

MCWorlds ==
  {Market({n, w, m}, Feed(NoFeed, d1, NoFeed, c1)),
   Market({n, w, m}, Feed(d2, NoFeed, NoFeed, d3)),
   Watched({u1}, Full, 0, 1, 0), Watched({u1}, Full, 0, 0, 1), Watched({u1}, Full, 1, 0, 0),
   Watched({u1}, Less, 0, 0, 2), Watched({u1, u2}, Full, 0, 0, 1)}
=============================================================================
