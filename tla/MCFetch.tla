------------------------------- MODULE MCFetch -------------------------------
(* Calls of Fetch: root1 and root2 are independent operations; while it      *)
(* handles root1, a server makes chain1 and then chain2 with m.Fetch.        *)
EXTENDS Fetch, TLC

CONSTANTS root1, root2, chain1, chain2

MCParent == [c \in Calls |-> CASE c = chain1 -> root1
                               [] c = chain2 -> IF chain1 \in Calls THEN chain1 ELSE root1
                               [] OTHER -> NoCall]
=============================================================================
