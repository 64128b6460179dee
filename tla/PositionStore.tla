--------------------------- MODULE PositionStore ---------------------------
(***************************************************************************)
(* The positions a wallet keeps for its liquidity providers and stakings,  *)
(* and what the methods of Wallet in cmn/wallet.go do to them.             *)
(*                                                                         *)
(* Go keeps them in a slice of pointers. Taking one out moves the later    *)
(* ones down in the same array, under the feet of every loop that ranges   *)
(* over it, and leaves the last one where it was, beyond the new length;   *)
(* putting one in writes the array when it has room left, and else moves   *)
(* all to a new one. So a store is the whole array and the length in use,  *)
(* and a position is an index into objs, the positions as they were made.  *)
(***************************************************************************)
EXTENDS Naturals, Sequences, SequencesExt

CONSTANTS
  Plain,   \* ValidatorId 0: the stake of an owner with no validator
  Vaults   \* ValidatorId 0 too: a stake in a contract of its own

Unvalidated == {Plain} \cup Vaults

Elements(store) == SubSeq(store.arr, 1, store.len)

(***************************************************************************)
(* Slices. append(s[:i], s[i+1:]...) and append(s, x).                     *)
(***************************************************************************)
Without(store, i) ==
  [arr |-> [j \in 1..Len(store.arr) |->
              IF i <= j /\ j < store.len THEN store.arr[j + 1] ELSE store.arr[j]],
   len |-> store.len - 1]

HasRoom(store) == store.len < Len(store.arr)

With(store, x) ==
  [arr |-> IF HasRoom(store) THEN [store.arr EXCEPT ![store.len + 1] = x]
           ELSE Elements(store) \o [j \in 1..(IF store.len = 0 THEN 1 ELSE store.len) |-> x],
   len |-> store.len + 1]

\* sort.Slice, by what the stores do not tell.
Sorted(store) ==
  {[arr |-> [i \in 1..Len(store.arr) |->
               IF i <= store.len THEN store.arr[f[i]] ELSE store.arr[i]],
    len |-> store.len] : f \in Bijection(1..store.len, 1..store.len)}

(***************************************************************************)
(* Looking up: the first that matches, 0 when none does.                   *)
(***************************************************************************)
First(store, Ids) == SelectInSeq(Elements(store), LAMBDA x: x \in Ids)

SameKey(objs, p) ==
  {x \in DOMAIN objs : objs[x].prov = p.prov /\ objs[x].key = p.key}

GetPosition(store, objs, p) == First(store, SameKey(objs, p))

SameOwner(objs, p) ==
  {x \in DOMAIN objs : objs[x].prov = p.prov /\ objs[x].owner = p.owner}

GetStakingPosition(store, objs, p) == First(store, SameOwner(objs, p))

GetStakingPositionWithValidator(store, objs, p) ==
  First(store, SameOwner(objs, p) \cap SameKey(objs, p))

Existing(version, store, objs, p) ==
  IF version # "staking" THEN GetPosition(store, objs, p)
  ELSE IF p.key \notin Unvalidated THEN GetStakingPositionWithValidator(store, objs, p)
  ELSE GetStakingPosition(store, objs, p)

(***************************************************************************)
(* AddLP_*Position: the pointer that is there gets the new owner, whoever  *)
(* had it; AddStakingPosition leaves it alone.                             *)
(***************************************************************************)
AddLPPosition(store, objs, p) ==
  LET i == GetPosition(store, objs, p)
  IN IF i # 0
     THEN [store |-> store, saved |-> TRUE,
           objs |-> [objs EXCEPT ![store.arr[i]].owner = p.owner]]
     ELSE [store |-> With(store, Len(objs) + 1), saved |-> TRUE, objs |-> Append(objs, p)]

AddStakingPosition(store, objs, p) ==
  IF Existing("staking", store, objs, p) # 0
  THEN [store |-> store, saved |-> FALSE, objs |-> objs]
  ELSE [store |-> With(store, Len(objs) + 1), saved |-> TRUE, objs |-> Append(objs, p)]

AddPosition(version, store, objs, p) ==
  IF version = "staking" THEN AddStakingPosition(store, objs, p)
  ELSE AddLPPosition(store, objs, p)

(***************************************************************************)
(* Remove*Position takes the owner too; RemoveStakingPosition takes the    *)
(* first of the owner, whatever its validator. 0 when there is none.       *)
(***************************************************************************)
\* Variant: whatever its key.
RemoveLPPositionAnyKey(store, objs, p) == First(store, SameOwner(objs, p))

RemoveLPPosition(store, objs, p) == First(store, SameOwner(objs, p) \cap SameKey(objs, p))

RemoveStakingPositionWithValidator(store, objs, p) ==
  First(store, SameOwner(objs, p) \cap SameKey(objs, p))

RemoveStakingPosition(store, objs, p) == First(store, SameOwner(objs, p))

Removable(version, store, objs, p) ==
  IF version # "staking" THEN RemoveLPPosition(store, objs, p)
  ELSE IF p.key \notin Unvalidated THEN RemoveStakingPositionWithValidator(store, objs, p)
  ELSE RemoveStakingPosition(store, objs, p)

RemovePosition(version, store, objs, p) ==
  LET i == Removable(version, store, objs, p)
  IN IF i = 0 THEN store ELSE Without(store, i)

\* Variant: from the first position to the last.
RemoveOfUp(store, objs, prov) ==
  LET up[j \in 0..store.len] ==
        IF j = 0 THEN store
        ELSE LET below == up[j - 1]
             IN IF j <= below.len /\ objs[below.arr[j]].prov = prov THEN Without(below, j)
                ELSE below
  IN up[store.len]

(* Remove*: from the last position of the provider to the first. *)
RemoveOf(store, objs, prov) ==
  LET down[j \in 0..store.len] ==
        IF j = store.len THEN store
        ELSE LET above == down[j + 1]
             IN IF objs[above.arr[j + 1]].prov = prov THEN Without(above, j + 1) ELSE above
  IN down[0]
=============================================================================
