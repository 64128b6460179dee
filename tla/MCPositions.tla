---------------------------- MODULE MCPositions ----------------------------
EXTENDS Positions, PositionValue

CONSTANTS pr, o1, o2, s1, k1, k2, k3, v1, v2, u1, u2

MCOwners == <<o1, o2>>

P(k, o) == Pos(pr, k, o)

Three == <<P(k1, o1), P(k2, o1), P(k3, o1)>>

\* Nothing but the pane, on a wallet that holds positions worth nothing.
Watch(v, m, op, st, fails) ==
  [version |-> v, mode |-> m, open |-> op, owed |-> {}, dust |-> {}, stored |-> st,
   known |-> {pr}, beyond |-> [dark |-> {}, crowded |-> {}],
   budget |-> [moves |-> 0, fails |-> fails, rounds |-> 0, user |-> 0,
              passes |-> {u1, u2}]]

\* One discovery beside the pane, the chain, the user and failing reads.
Round(v, m, op, st, moves, user, fails) ==
  [version |-> v, mode |-> m, open |-> op, owed |-> {}, dust |-> {}, stored |-> st,
   known |-> {pr}, beyond |-> [dark |-> {}, crowded |-> {}],
   budget |-> [moves |-> moves, fails |-> fails, rounds |-> 1, user |-> user,
              passes |-> {u1}]]

MCWorlds ==
  {Watch("v2", "none", {P(k2, o1), P(k3, o1)}, Three, 0),
   Watch("v3", "none", {P(k2, o1), P(k3, o1)}, Three, 1),
   Watch("staking", "validators", {P(k2, o1)}, Three, 0),
   Round("v2", "positions", {P(k1, o1)}, <<>>, 1, 0, 0),
   Round("v2", "positions", {P(k1, o1), P(k2, o2)}, <<P(k1, o1)>>, 0, 0, 1),
   Round("v2", "positions", {P(k1, o2)}, <<P(k1, o1)>>, 0, 0, 0),
   Round("v2", "mints", {P(k2, o2)}, <<>>, 0, 0, 2),
   Round("v2", "mints", {P(k1, o1)}, <<>>, 0, 1, 1),
   [Round("v3", "none", {P(k1, o1)}, <<>>, 0, 2, 0) EXCEPT !.known = {}],
   Round("v3", "none", {P(k1, o1), P(k2, o1)}, <<P(k1, o1)>>, 1, 0, 0),
   Round("v3", "none", {P(k1, o1)}, <<P(k1, o1)>>, 0, 1, 1),
   Round("v4", "graph", {P(k1, o1), P(k2, o2)}, <<P(k1, o2)>>, 0, 1, 1),
   Round("v4", "chain", {P(k1, o1), P(k2, o1)}, <<>>, 1, 0, 0),
   Round("v4", "chain", {P(k1, o1), P(k2, o1)}, <<>>, 0, 0, 1),
   Round("staking", "plain", {P(Plain, o2)}, <<P(Plain, o1)>>, 1, 0, 1),
   Round("staking", "vaults", {P(v1, o2)}, <<>>, 1, 1, 1),
   [Round("staking", "vaults", {P(v2, o1)}, <<P(v1, o1)>>, 0, 0, 0)
     EXCEPT !.budget.passes = {u1, u2}],
   [Round("staking", "plain", {P(Plain, o2)}, <<>>, 0, 2, 0) EXCEPT !.known = {}],
   [Round("v2", "positions", {P(k1, o1)}, <<>>, 0, 2, 0) EXCEPT !.known = {}],
   [Round("v4", "graph", {P(k1, o1)}, <<>>, 0, 2, 0) EXCEPT !.known = {}],
   Round("staking", "validators", {P(k1, o1), P(k1, o2)}, <<P(k1, o1), P(k2, o1)>>, 0, 1, 1),
   \* Tokens owed, amounts next to nothing, and `lp_v3 list`.
   [Round("v3", "none", {P(k1, o1), P(k2, o1)}, <<P(k1, o1)>>, 0, 0, 0)
     EXCEPT !.owed = {P(k1, o1)}],
   [Watch("v3", "none", {P(k1, o1), P(k2, o1)}, Three, 0)
     EXCEPT !.dust = {P(k2, o1)}, !.budget.user = 1],
   [Round("v3", "none", {P(k1, o1)}, <<P(k1, s1), P(k2, o1)>>, 0, 1, 0)
     EXCEPT !.dust = {P(k1, o1)}],
   \* A blockchain the wallet does not know, and more than a page.
   [Round("v3", "none", {P(k1, o1)}, <<P(k1, o1)>>, 0, 1, 0) EXCEPT !.beyond.dark = {pr}],
   [Round("staking", "plain", {P(Plain, o1)}, <<P(Plain, o1), P(Plain, s1)>>, 0, 0, 0)
     EXCEPT !.beyond.dark = {pr}],
   [Round("v2", "positions", {P(k1, o1), P(k2, o1), P(k3, o2)}, <<>>, 0, 0, 0)
     EXCEPT !.beyond.crowded = {o1}],
   [Round("v2", "mints", {P(k1, o1), P(k2, o1)}, <<>>, 0, 0, 0)
     EXCEPT !.beyond.crowded = {o1}],
   [Round("v4", "graph", {P(k1, o1), P(k2, o2), P(k3, s1)}, <<P(k3, s1)>>, 0, 0, 0)
     EXCEPT !.beyond.crowded = {o1}]}

\* Whatever the positions a pane is about to show hold, fees, amounts and ticks are those
\* of the contracts.
ShownAsIs == (\E u \in Updaters : upd[u].pc = "show") => ValuesAreRight
=============================================================================
