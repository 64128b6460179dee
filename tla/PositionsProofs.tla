---------------------------- MODULE PositionsProofs ----------------------------
(***************************************************************************)
(* For any positions, providers, owners and number of passes: the wallet   *)
(* holds no position twice and none of a provider it does not know; what   *)
(* pane and discovery take out on their own is worth nothing; and what a   *)
(* discovery can see is found.                                             *)
(***************************************************************************)
EXTENDS Positions, SequenceLemmas, FiniteSetTheorems

\* A slice of indices into o. Also the part of the array beyond its length holds such.
IsStore(s, o) ==
  /\ s = [arr |-> s.arr, len |-> s.len]
  /\ s.arr \in Seq(1..Len(o))
  /\ s.len \in 0..Len(s.arr)

NoneTwice(v, s, o) ==
  \A i, j \in 1..s.len :
    i # j => s.arr[i] # s.arr[j] /\ ~SameAs(v, o[s.arr[i]], o[s.arr[j]])

\* A wallet whose positions are all of the providers ps, and none is there twice.
Kept(v, s, o, ps) ==
  /\ o \in Seq(Positions)
  /\ IsStore(s, o)
  /\ NoneTwice(v, s, o)
  /\ \A i \in 1..s.len : o[s.arr[i]].prov \in ps

-----------------------------------------------------------------------------
(***************************************************************************)
(* The slices of the wallet.                                               *)
(***************************************************************************)
LEMMA ElementsAre ==
  ASSUME NEW o \in Seq(Positions), NEW s, IsStore(s, o)
  PROVE  /\ Elements(s) \in Seq(1..Len(o))
         /\ Len(Elements(s)) = s.len
         /\ \A i \in 1..s.len : Elements(s)[i] = s.arr[i] /\ s.arr[i] \in 1..Len(o)
<1>1. s.arr \in Seq(1..Len(o)) /\ s.len \in 0..Len(s.arr)
  BY DEF IsStore
<1>2. QED
  BY <1>1 DEF Elements

\* What a look through the slice finds.
LEMMA FirstIs ==
  ASSUME NEW o \in Seq(Positions), NEW s, IsStore(s, o), NEW Ids
  PROVE  /\ First(s, Ids) \in 0..s.len
         /\ First(s, Ids) # 0 => s.arr[First(s, Ids)] \in Ids
         /\ First(s, Ids) = 0 => \A i \in 1..s.len : s.arr[i] \notin Ids
<1> DEFINE I == {i \in 1..Len(Elements(s)) : Elements(s)[i] \in Ids}
<1>1. First(s, Ids) = IF I # {} THEN Min(I) ELSE 0
  BY DEF First, SelectInSeq
<1>2. Len(Elements(s)) = s.len /\ s.len \in Nat /\ \A i \in 1..s.len : Elements(s)[i] = s.arr[i]
  BY ElementsAre DEF IsStore
<1>3. I \subseteq Nat /\ I \subseteq 1..s.len /\ \A i \in I : s.arr[i] \in Ids
  BY <1>2
<1>4. I # {} => Min(I) \in I
  BY <1>3, LeastElement
<1>5. I = {} => \A i \in 1..s.len : s.arr[i] \notin Ids
  BY <1>2
<1> HIDE DEF I
<1>6. CASE I # {}
  <2>1. Min(I) \in 1..s.len /\ s.arr[Min(I)] \in Ids /\ Min(I) # 0
    BY <1>2, <1>3, <1>4, <1>6
  <2>2. QED
    BY <1>1, <1>6, <2>1
<1>7. CASE I = {}
  BY <1>1, <1>2, <1>5, <1>7
<1>8. QED
  BY <1>6, <1>7

\* A slice without its element i.
LEMMA WithoutIs ==
  ASSUME NEW o \in Seq(Positions), NEW s, IsStore(s, o), NEW i \in 1..s.len
  PROVE  /\ IsStore(Without(s, i), o)
         /\ Without(s, i).len = s.len - 1 /\ Len(Without(s, i).arr) = Len(s.arr)
         /\ \A j \in 1..(s.len - 1) :
              Without(s, i).arr[j] = IF i <= j THEN s.arr[j + 1] ELSE s.arr[j]
<1>1. s.arr \in Seq(1..Len(o)) /\ s.len \in 0..Len(s.arr) /\ s.len \in Nat /\ Len(s.arr) \in Nat
  BY DEF IsStore
<1> DEFINE a == [j \in 1..Len(s.arr) |->
                   IF i <= j /\ j < s.len THEN s.arr[j + 1] ELSE s.arr[j]]
<1>2. a \in Seq(1..Len(o)) /\ Len(a) = Len(s.arr)
  <2>1. \A j \in 1..Len(s.arr) : a[j] \in 1..Len(o)
    <3> SUFFICES ASSUME NEW j \in 1..Len(s.arr) PROVE a[j] \in 1..Len(o)
      OBVIOUS
    <3>1. s.arr[j] \in 1..Len(o)
      BY <1>1
    <3>2. j < s.len => j + 1 \in 1..Len(s.arr)
      BY <1>1
    <3>3. j < s.len => s.arr[j + 1] \in 1..Len(o)
      BY <1>1, <3>2
    <3>4. QED
      BY <3>1, <3>3
  <2>2. a \in [1..Len(s.arr) -> 1..Len(o)]
    BY <2>1
  <2>3. QED
    BY <1>1, <2>2
<1>3. \A j \in 1..(s.len - 1) :
        /\ j \in 1..Len(s.arr) /\ j < s.len
        /\ a[j] = IF i <= j THEN s.arr[j + 1] ELSE s.arr[j]
  BY <1>1
<1>4. Without(s, i) = [arr |-> a, len |-> s.len - 1]
  BY DEF Without
<1> HIDE DEF a
<1>5. Without(s, i).arr = a /\ Without(s, i).len = s.len - 1
  BY <1>4
<1>6. s.len - 1 \in 0..Len(a)
  BY <1>1, <1>2
<1>7. IsStore(Without(s, i), o)
  BY <1>2, <1>4, <1>5, <1>6 DEF IsStore
<1>8. QED
  BY <1>2, <1>3, <1>5, <1>7

\* t is of the same array as s was, or of one as long, and holds nothing that s did not.
Shrinks(s, t) ==
  /\ t.len \in Nat /\ Len(t.arr) = Len(s.arr)
  /\ \A i \in 1..t.len : \E j \in 1..s.len : t.arr[i] = s.arr[j]

LEMMA WithoutShrinks ==
  ASSUME NEW o \in Seq(Positions), NEW s, IsStore(s, o), NEW i \in 1..s.len
  PROVE  Shrinks(s, Without(s, i))
<1> DEFINE r == Without(s, i)
<1>1. s.len \in Nat
  BY DEF IsStore
<1>2. /\ r.len = s.len - 1 /\ Len(r.arr) = Len(s.arr)
      /\ \A j \in 1..(s.len - 1) : r.arr[j] = IF i <= j THEN s.arr[j + 1] ELSE s.arr[j]
  BY WithoutIs
<1> HIDE DEF r
<1>3. \A j \in 1..r.len : j \in 1..s.len /\ j + 1 \in 1..s.len
  BY <1>1, <1>2
<1>4. \A j \in 1..r.len : \E k \in 1..s.len : r.arr[j] = s.arr[k]
  BY <1>2, <1>3
<1>5. r.len \in Nat
  BY <1>1, <1>2
<1>6. QED
  BY <1>2, <1>4, <1>5 DEF Shrinks, r

LEMMA ShrinksMore ==
  ASSUME NEW s, NEW t, NEW r, Shrinks(s, t), Shrinks(t, r)
  PROVE  Shrinks(s, r)
BY DEF Shrinks

LEMMA WithoutKeeps ==
  ASSUME NEW v, NEW s, NEW o, NEW ps, Kept(v, s, o, ps), NEW i \in 1..s.len
  PROVE  Kept(v, Without(s, i), o, ps)
<1> DEFINE r == Without(s, i)
<1>1. o \in Seq(Positions) /\ IsStore(s, o) /\ NoneTwice(v, s, o) /\ s.len \in Nat
  BY DEF Kept, IsStore
<1>2. /\ IsStore(r, o) /\ r.len = s.len - 1
      /\ \A j \in 1..(s.len - 1) : r.arr[j] = IF i <= j THEN s.arr[j + 1] ELSE s.arr[j]
  BY <1>1, WithoutIs
<1> HIDE DEF r
<1> DEFINE k(j) == IF i <= j THEN j + 1 ELSE j
<1>3. \A j \in 1..r.len : k(j) \in 1..s.len /\ r.arr[j] = s.arr[k(j)]
  BY <1>1, <1>2
<1>4. \A j, l \in 1..r.len : j # l => k(j) # k(l)
  BY <1>1, <1>2
<1> HIDE DEF k
<1>5. NoneTwice(v, r, o)
  BY <1>1, <1>3, <1>4 DEF NoneTwice
<1>6. \A j \in 1..r.len : o[r.arr[j]].prov \in ps
  BY <1>3 DEF Kept
<1>7. QED
  BY <1>1, <1>2, <1>5, <1>6 DEF Kept, r

\* The slice in another order.
LEMMA SortIs ==
  ASSUME NEW o \in Seq(Positions), NEW s, IsStore(s, o), NEW t \in Sorted(s)
  PROVE  /\ IsStore(t, o) /\ t.len = s.len /\ Len(t.arr) = Len(s.arr)
         /\ \E f \in Bijection(1..s.len, 1..s.len) : \A i \in 1..s.len : t.arr[i] = s.arr[f[i]]
<1> DEFINE n == Len(s.arr)
<1>1. s.arr \in Seq(1..Len(o)) /\ s.len \in 0..n /\ s.len \in Nat /\ n \in Nat
  BY DEF IsStore
<1>2. PICK f \in Bijection(1..s.len, 1..s.len) :
        t = [arr |-> [i \in 1..n |-> IF i <= s.len THEN s.arr[f[i]] ELSE s.arr[i]],
             len |-> s.len]
  BY DEF Sorted
<1>3. \A i \in 1..s.len : f[i] \in 1..s.len
  BY DEF Bijection, Injection
<1>4. \A i \in 1..n : s.arr[i] \in 1..Len(o)
  BY <1>1
<1> DEFINE a == [i \in 1..n |-> IF i <= s.len THEN s.arr[f[i]] ELSE s.arr[i]]
<1>5. \A i \in 1..n : a[i] = IF i <= s.len THEN s.arr[f[i]] ELSE s.arr[i]
  OBVIOUS
<1>6. \A i \in 1..n : a[i] \in 1..Len(o)
  BY <1>1, <1>3, <1>4, <1>5
<1>7. a \in Seq(1..Len(o)) /\ Len(a) = n
  <2> HIDE DEF n
  <2>1. a \in [1..n -> 1..Len(o)]
    BY <1>6
  <2>2. QED
    BY <1>1, <2>1, FunctionIsSeq
<1>8. t.arr = a /\ t.len = s.len /\ t = [arr |-> a, len |-> s.len]
  BY <1>2
<1> HIDE DEF a
<1>9. IsStore(t, o)
  BY <1>1, <1>7, <1>8 DEF IsStore
<1>10. \A i \in 1..s.len : t.arr[i] = s.arr[f[i]]
  BY <1>1, <1>5, <1>8
<1>11. QED
  BY <1>7, <1>8, <1>9, <1>10

LEMMA SortShrinks ==
  ASSUME NEW o \in Seq(Positions), NEW s, IsStore(s, o), NEW t \in Sorted(s)
  PROVE  Shrinks(s, t) /\ Shrinks(t, s)
<1>1. t.len = s.len /\ s.len \in Nat /\ Len(t.arr) = Len(s.arr)
  BY SortIs DEF IsStore
<1>2. PICK f \in Bijection(1..s.len, 1..s.len) : \A i \in 1..s.len : t.arr[i] = s.arr[f[i]]
  BY SortIs
<1>3. /\ \A i \in 1..s.len : f[i] \in 1..s.len
      /\ \A j \in 1..s.len : \E i \in 1..s.len : f[i] = j
  BY DEF Bijection, Injection, Surjection
<1>4. \A i \in 1..t.len : \E j \in 1..s.len : t.arr[i] = s.arr[j]
  BY <1>1, <1>2, <1>3
<1>5. ASSUME NEW j \in 1..s.len PROVE \E i \in 1..t.len : s.arr[j] = t.arr[i]
  <2>1. PICK i \in 1..s.len : f[i] = j
    BY <1>3
  <2>2. i \in 1..t.len /\ t.arr[i] = s.arr[j]
    BY <1>1, <1>2, <2>1
  <2>3. QED
    BY <2>2
<1>6. Shrinks(s, t)
  BY <1>1, <1>4 DEF Shrinks
<1>7. Shrinks(t, s)
  BY ONLY <1>1, <1>5 DEF Shrinks
<1>8. QED
  BY <1>6, <1>7

LEMMA SortKeeps ==
  ASSUME NEW v, NEW s, NEW o, NEW ps, Kept(v, s, o, ps), NEW t \in Sorted(s)
  PROVE  Kept(v, t, o, ps)
<1>1. o \in Seq(Positions) /\ IsStore(s, o) /\ NoneTwice(v, s, o)
  BY DEF Kept
<1>2. IsStore(t, o) /\ t.len = s.len
  BY <1>1, SortIs
<1>3. PICK f \in Bijection(1..s.len, 1..s.len) : \A i \in 1..s.len : t.arr[i] = s.arr[f[i]]
  BY <1>1, SortIs
<1>4. \A i \in 1..s.len : f[i] \in 1..s.len
  BY DEF Bijection, Injection
<1>5. \A i, j \in 1..s.len : i # j => f[i] # f[j]
  BY DEF Bijection, Injection, IsInjective
<1>6. NoneTwice(v, t, o)
  BY <1>1, <1>2, <1>3, <1>4, <1>5 DEF NoneTwice
<1>7. \A i \in 1..t.len : o[t.arr[i]].prov \in ps
  BY <1>2, <1>3, <1>4 DEF Kept
<1>8. QED
  BY <1>1, <1>2, <1>6, <1>7 DEF Kept

\* A slice with one more element, in its array or in one that is twice as large.
LEMMA WithIs ==
  ASSUME NEW o \in Seq(Positions), NEW s, IsStore(s, o), NEW p \in Positions
  PROVE  LET x == Len(o) + 1
             r == With(s, x)
         IN /\ IsStore(r, Append(o, p))
            /\ r.len = s.len + 1
            /\ r.arr[s.len + 1] = x
            /\ \A j \in 1..s.len : r.arr[j] = s.arr[j]
<1> DEFINE x == Len(o) + 1
           r == With(s, x)
           n == 1..Len(Append(o, p))
<1>1. s.arr \in Seq(1..Len(o)) /\ s.len \in 0..Len(s.arr) /\ s.len \in Nat /\ Len(s.arr) \in Nat
  BY DEF IsStore
<1>2. n = 1..x /\ x \in n /\ 1..Len(o) \subseteq n /\ s.arr \in Seq(n)
  <2>1. Len(Append(o, p)) = x /\ Len(o) \in Nat
    OBVIOUS
  <2>2. n = 1..x
    BY <2>1
  <2>3. x \in n /\ 1..Len(o) \subseteq n
    BY <2>1, <2>2
  <2>4. QED
    BY <1>1, <2>2, <2>3
<1> HIDE DEF n, x
<1>3. CASE HasRoom(s)
  <2> DEFINE a == [s.arr EXCEPT ![s.len + 1] = x]
  <2>1. r = [arr |-> a, len |-> s.len + 1]
    BY <1>3 DEF With
  <2>2. s.len + 1 \in 1..Len(s.arr)
    BY <1>1, <1>3 DEF HasRoom
  <2>3. a \in Seq(n) /\ Len(a) = Len(s.arr)
    BY <1>2, <2>2, SeqExcept
  <2>4. a[s.len + 1] = x /\ \A j \in 1..s.len : a[j] = s.arr[j]
    BY <1>1, <1>2, <2>2
  <2> HIDE DEF a
  <2>5. r.arr = a /\ r.len = s.len + 1
    BY <2>1
  <2>6. s.len + 1 \in 0..Len(a)
    BY <1>1, <2>2, <2>3
  <2>7. QED
    BY <2>1, <2>3, <2>4, <2>5, <2>6 DEF IsStore, n, x
<1>4. CASE ~HasRoom(s)
  <2> DEFINE m == IF s.len = 0 THEN 1 ELSE s.len
             b == [j \in 1..m |-> x]
             a == Elements(s) \o b
  <2>1. r = [arr |-> a, len |-> s.len + 1]
    BY <1>4 DEF With
  <2>2. m \in Nat /\ m >= 1
    BY <1>1
  <2> HIDE DEF m
  <2>3. b \in Seq(n) /\ Len(b) = m /\ b[1] = x
    BY <1>2, <2>2
  <2>4. Elements(s) \in Seq(n) /\ Len(Elements(s)) = s.len
        /\ \A j \in 1..s.len : Elements(s)[j] = s.arr[j]
    <3> DEFINE e == Elements(s)
    <3>1. /\ e \in Seq(1..Len(o)) /\ Len(e) = s.len
          /\ \A j \in 1..s.len : e[j] = s.arr[j]
      BY ElementsAre
    <3> HIDE DEF e
    <3>2. e \in Seq(n)
      BY <1>2, <3>1, SeqOfMore
    <3>3. QED
      BY <3>1, <3>2 DEF e
  <2> HIDE DEF b
  <2>5. /\ a \in Seq(n) /\ Len(a) = s.len + m
        /\ \A j \in 1..s.len : a[j] = s.arr[j]
        /\ a[s.len + 1] = b[1]
    <3>1. /\ a \in Seq(n) /\ Len(a) = Len(Elements(s)) + Len(b)
          /\ \A j \in 1..(Len(Elements(s)) + Len(b)) :
               a[j] = IF j <= Len(Elements(s)) THEN Elements(s)[j] ELSE b[j - Len(Elements(s))]
      BY <2>3, <2>4, ConcatProperties
    <3>2. \A j \in 1..(s.len + m) : a[j] = IF j <= s.len THEN Elements(s)[j] ELSE b[j - s.len]
      BY <2>3, <2>4, <3>1
    <3>3. s.len + 1 \in 1..(s.len + m) /\ (s.len + 1) - s.len = 1 /\ ~(s.len + 1 <= s.len)
          /\ \A j \in 1..s.len : j \in 1..(s.len + m) /\ j <= s.len
      BY <1>1, <2>2
    <3>4. /\ Len(a) = s.len + m
          /\ \A j \in 1..s.len : a[j] = s.arr[j]
          /\ a[s.len + 1] = b[1]
      <4> HIDE DEF a
      <4>1. Len(a) = s.len + m
        BY <2>3, <2>4, <3>1
      <4>2. ASSUME NEW j \in 1..s.len PROVE a[j] = s.arr[j]
        <5>1. j \in 1..(s.len + m) /\ j <= s.len
          BY <3>3
        <5>2. a[j] = Elements(s)[j]
          BY <3>2, <5>1
        <5>3. QED
          BY <2>4, <5>2
      <4>3. a[s.len + 1] = b[1]
        <5> DEFINE l == s.len + 1
        <5>1. l \in 1..(s.len + m) /\ l - s.len = 1 /\ ~(l <= s.len)
          BY <3>3
        <5> HIDE DEF l
        <5>2. a[l] = b[l - s.len]
          BY <3>2, <5>1
        <5>3. QED
          BY <5>1, <5>2 DEF l
      <4>4. QED
        BY <4>1, <4>2, <4>3
    <3>5. QED
      BY <3>1, <3>4
  <2> HIDE DEF a
  <2>6. r.arr = a /\ r.len = s.len + 1
    BY <2>1
  <2>7. s.len + 1 \in 0..Len(a)
    BY <1>1, <2>2, <2>5
  <2>8. QED
    BY <2>1, <2>3, <2>5, <2>6, <2>7 DEF IsStore, n, x
<1>5. QED
  BY <1>3, <1>4 DEF x

LEMMA WithKeeps ==
  ASSUME NEW v, NEW s, NEW o, NEW ps, Kept(v, s, o, ps), NEW p \in Positions, p.prov \in ps,
         \A i \in 1..s.len : ~SameAs(v, o[s.arr[i]], p)
  PROVE  Kept(v, With(s, Len(o) + 1), Append(o, p), ps)
<1> DEFINE x == Len(o) + 1
           r == With(s, x)
           q == Append(o, p)
<1>1. o \in Seq(Positions) /\ IsStore(s, o) /\ NoneTwice(v, s, o) /\ s.len \in Nat
  BY DEF Kept, IsStore
<1>2. /\ IsStore(r, q) /\ r.len = s.len + 1 /\ r.arr[s.len + 1] = x
      /\ \A j \in 1..s.len : r.arr[j] = s.arr[j]
  BY <1>1, WithIs
<1>3. q \in Seq(Positions) /\ q[x] = p /\ \A k \in 1..Len(o) : q[k] = o[k] /\ k # x
  BY <1>1
<1>4. \A j \in 1..s.len : s.arr[j] \in 1..Len(o)
  BY <1>1, ElementsAre
<1> HIDE DEF r, q, x
<1>5. \A j \in 1..r.len : j \in 1..s.len \/ j = s.len + 1
  BY <1>1, <1>2
<1>6. \A j \in 1..s.len : /\ r.arr[j] = s.arr[j] /\ r.arr[j] # x
                          /\ q[r.arr[j]] = o[s.arr[j]]
  BY <1>2, <1>3, <1>4
<1>7. \A y, z : SameAs(v, y, z) => SameAs(v, z, y)
  BY DEF SameAs
<1>8. ASSUME NEW i \in 1..r.len, NEW j \in 1..r.len, i # j
      PROVE  r.arr[i] # r.arr[j] /\ ~SameAs(v, q[r.arr[i]], q[r.arr[j]])
  <2>1. CASE i \in 1..s.len /\ j \in 1..s.len
    BY <1>1, <1>6, <1>8, <2>1 DEF NoneTwice
  <2>2. CASE i \in 1..s.len /\ j = s.len + 1
    BY <1>2, <1>3, <1>6, <2>2
  <2>3. CASE i = s.len + 1 /\ j \in 1..s.len
    BY <1>2, <1>3, <1>6, <1>7, <2>3
  <2>4. QED
    BY <1>5, <1>8, <2>1, <2>2, <2>3
<1>9. \A j \in 1..r.len : q[r.arr[j]].prov \in ps
  BY <1>2, <1>3, <1>5, <1>6 DEF Kept
<1>10. QED
  BY <1>2, <1>3, <1>8, <1>9 DEF Kept, NoneTwice, r, q, x

-----------------------------------------------------------------------------
(***************************************************************************)
(* Taking out all that is of a provider, from the last to the first.       *)
(***************************************************************************)
RemoveStep(s, o, pr, j, above) ==
  IF j = s.len THEN s
  ELSE IF o[above.arr[j + 1]].prov = pr THEN Without(above, j + 1) ELSE above

\* The function that RemoveOf defines, with nothing left out of what defines it.
LEMMA RemovalIsDefined ==
  ASSUME NEW s, s.len \in Nat, NEW o, NEW pr
  PROVE  \E g : /\ g = [j \in 0..s.len |-> RemoveStep(s, o, pr, j, g[j + 1])]
                /\ RemoveOf(s, o, pr) = g[0]
<1> DEFINE n == s.len
           R(j, above) == RemoveStep(s, o, pr, j, above)
           T == {k \in 0..n : \E g : g = [j \in k..n |-> R(j, g[j + 1])]}
<1>1. \A a, b : R(n, a) = R(n, b)
  BY DEF RemoveStep
<1>2. RemoveOf(s, o, pr) = (CHOOSE g : g = [j \in 0..n |-> R(j, g[j + 1])])[0]
  BY DEF RemoveOf, RemoveStep
<1> HIDE DEF R
<1>3. n \in T
  <2> DEFINE g == [j \in n..n |-> R(j, n)]
  <2>1. \A j \in n..n : R(j, n) = R(j, g[j + 1])
    BY <1>1
  <2>2. g = [j \in n..n |-> R(j, g[j + 1])]
    BY <2>1
  <2>3. QED
    BY <2>2
<1>4. ASSUME NEW k \in 0..n, k < n, k + 1 \in T PROVE k \in T
  <2>1. PICK g : g = [j \in (k + 1)..n |-> R(j, g[j + 1])]
    BY <1>4
  <2> DEFINE h == [j \in k..n |-> IF j = k THEN R(k, g[k + 1]) ELSE g[j]]
  <2>2. ASSUME NEW j \in k..n
        PROVE  (IF j = k THEN R(k, g[k + 1]) ELSE g[j]) = R(j, h[j + 1])
    <3>1. CASE j = k
      <4>1. k + 1 \in k..n /\ k + 1 # k
        BY <1>4
      <4>2. h[k + 1] = g[k + 1]
        BY <4>1
      <4>3. QED
        BY <3>1, <4>2
    <3>2. CASE j # k /\ j < n
      <4>1. j \in (k + 1)..n /\ j + 1 \in k..n /\ j + 1 # k
        BY <3>2
      <4>2. h[j + 1] = g[j + 1] /\ g[j] = R(j, g[j + 1])
        BY <2>1, <4>1
      <4>3. QED
        BY <3>2, <4>2
    <3>3. CASE j # k /\ j = n
      <4>1. j \in (k + 1)..n
        BY <3>3
      <4>2. g[j] = R(n, g[j + 1])
        BY <2>1, <3>3, <4>1
      <4>3. QED
        BY <1>1, <3>3, <4>2
    <3>4. QED
      BY <3>1, <3>2, <3>3
  <2>3. h = [j \in k..n |-> R(j, h[j + 1])]
    BY <2>2
  <2>4. QED
    BY <2>3
<1>5. 0..n \subseteq T
  <2> HIDE DEF T
  <2>1. \A j \in 0..n : j < n /\ j + 1 \in T => j \in T
    BY <1>4
  <2>2. QED
    BY <1>3, <2>1, CountingDown
<1>6. \E g : g = [j \in 0..n |-> R(j, g[j + 1])]
  BY <1>5
<1>7. QED
  BY <1>2, <1>6 DEF R

\* What is left is what the slice held, and nothing of the provider.
LEMMA RemoveOfKeeps ==
  ASSUME NEW v, NEW s, NEW o, NEW ps, Kept(v, s, o, ps), NEW pr
  PROVE  /\ Kept(v, RemoveOf(s, o, pr), o, ps \ {pr})
         /\ Shrinks(s, RemoveOf(s, o, pr))
<1> DEFINE n == s.len
<1>1. n \in Nat
  BY DEF Kept, IsStore
<1>2. PICK g : /\ g = [j \in 0..n |-> RemoveStep(s, o, pr, j, g[j + 1])]
               /\ RemoveOf(s, o, pr) = g[0]
  BY <1>1, RemovalIsDefined
<1> DEFINE Good(a, j) == /\ Kept(v, a, o, ps) /\ j <= a.len /\ a.len \in Nat
                         /\ Shrinks(s, a)
                         /\ \A i \in (j + 1)..a.len : o[a.arr[i]].prov # pr
           T == {j \in 0..n : Good(g[j], j)}
<1>3. n \in T
  <2>1. g[n] = s
    BY <1>1, <1>2 DEF RemoveStep
  <2>2. Shrinks(s, s)
    BY <1>1 DEF Shrinks
  <2>3. QED
    BY <1>1, <2>1, <2>2
<1>4. ASSUME NEW j \in 0..n, j < n, j + 1 \in T PROVE j \in T
  <2> DEFINE a == g[j + 1]
  <2>1. /\ Kept(v, a, o, ps) /\ j + 1 <= a.len /\ a.len \in Nat
        /\ Shrinks(s, a)
        /\ \A i \in (j + 2)..a.len : o[a.arr[i]].prov # pr
    BY <1>4
  <2>2. g[j] = IF o[a.arr[j + 1]].prov = pr THEN Without(a, j + 1) ELSE a
    <3>1. g[j] = RemoveStep(s, o, pr, j, g[j + 1])
      BY <1>2
    <3>2. j # s.len
      BY <1>4
    <3>3. QED
      BY <3>1, <3>2 DEF RemoveStep
  <2> HIDE DEF a
  <2>3. CASE o[a.arr[j + 1]].prov # pr
    <3>1. \A i \in (j + 1)..a.len : i = j + 1 \/ i \in (j + 2)..a.len
      BY <1>4, <2>1
    <3>2. \A i \in (j + 1)..a.len : o[a.arr[i]].prov # pr
      BY <2>1, <2>3, <3>1
    <3>3. j <= a.len
      BY <1>4, <2>1
    <3>4. QED
      BY <2>1, <2>2, <2>3, <3>2, <3>3
  <2>4. CASE o[a.arr[j + 1]].prov = pr
    <3> DEFINE r == Without(a, j + 1)
    <3>1. j + 1 \in 1..a.len
      BY <1>4, <2>1
    <3>2. Kept(v, r, o, ps)
      BY <2>1, <3>1, WithoutKeeps
    <3>3. /\ r.len = a.len - 1
          /\ \A i \in 1..(a.len - 1) : r.arr[i] = IF j + 1 <= i THEN a.arr[i + 1] ELSE a.arr[i]
      BY <2>1, <3>1, WithoutIs DEF Kept
    <3>4. Shrinks(s, r)
      BY <2>1, <3>1, WithoutShrinks, ShrinksMore DEF Kept
    <3> HIDE DEF r
    <3>5. r.len \in Nat /\ j <= r.len
      BY <1>4, <2>1, <3>1, <3>3
    <3>6. ASSUME NEW i \in (j + 1)..r.len PROVE o[r.arr[i]].prov # pr
      <4>1. i \in 1..(a.len - 1) /\ j + 1 <= i /\ i + 1 \in (j + 2)..a.len
        BY <1>4, <2>1, <3>3
      <4>2. QED
        BY <2>1, <3>3, <4>1
    <3>7. QED
      BY <2>2, <2>4, <3>2, <3>5, <3>6, <3>4 DEF r
  <2>5. QED
    BY <2>3, <2>4
<1>5. 0..n \subseteq T
  <2> HIDE DEF T
  <2>1. \A j \in 0..n : j < n /\ j + 1 \in T => j \in T
    BY <1>4
  <2>2. QED
    BY <1>1, <1>3, <2>1, CountingDown
<1>6. Good(g[0], 0)
  BY <1>1, <1>5
<1>7. /\ Kept(v, g[0], o, ps) /\ Shrinks(s, g[0])
      /\ \A i \in 1..g[0].len : o[g[0].arr[i]].prov # pr
  BY <1>6
<1> HIDE DEF Good, T
<1>8. QED
  BY <1>2, <1>7 DEF Kept

-----------------------------------------------------------------------------
(***************************************************************************)
(* The methods of the wallet.                                              *)
(***************************************************************************)
LEMMA RemoveKeeps ==
  ASSUME NEW v, NEW s, NEW o, NEW ps, Kept(v, s, o, ps), NEW w, NEW p
  PROVE  Kept(v, RemovePosition(w, s, o, p), o, ps)
<1>1. o \in Seq(Positions) /\ IsStore(s, o)
  BY DEF Kept
<1>2. ASSUME NEW Ids PROVE First(s, Ids) \in 0..s.len
  BY <1>1, FirstIs
<1>3. Removable(w, s, o, p) \in 0..s.len
  BY <1>2 DEF Removable, RemoveLPPosition, RemoveStakingPosition,
              RemoveStakingPositionWithValidator
<1>4. CASE Removable(w, s, o, p) = 0
  BY <1>4 DEF RemovePosition
<1>5. CASE Removable(w, s, o, p) # 0
  <2>1. Removable(w, s, o, p) \in 1..s.len
    BY <1>1, <1>3, <1>5 DEF IsStore
  <2>2. QED
    BY <1>5, <2>1, WithoutKeeps DEF RemovePosition
<1>6. QED
  BY <1>4, <1>5

\* The pointer that is there already gets the new owner.
LEMMA AddLPKeeps ==
  ASSUME NEW v, NEW s, NEW o, NEW ps, Kept(v, s, o, ps), NEW p \in Positions, p.prov \in ps,
         v # "staking"
  PROVE  Kept(v, AddLPPosition(s, o, p).store, AddLPPosition(s, o, p).objs, ps)
<1> DEFINE i == GetPosition(s, o, p)
<1>1. o \in Seq(Positions) /\ IsStore(s, o)
  BY DEF Kept
<1>2. /\ i \in 0..s.len
      /\ i = 0 => \A j \in 1..s.len : s.arr[j] \notin SameKey(o, p)
  BY <1>1, FirstIs DEF GetPosition
<1>3. \A j \in 1..s.len : s.arr[j] \in 1..Len(o) /\ s.arr[j] \in DOMAIN o
  BY <1>1, ElementsAre
<1> HIDE DEF i
<1>4. CASE i = 0
  <2>1. \A j \in 1..s.len : ~SameAs(v, o[s.arr[j]], p)
    BY <1>2, <1>3, <1>4 DEF SameKey, SameAs
  <2>2. Kept(v, With(s, Len(o) + 1), Append(o, p), ps)
    BY <2>1, WithKeeps
  <2>3. AddLPPosition(s, o, p) = [store |-> With(s, Len(o) + 1), saved |-> TRUE,
                                  objs |-> Append(o, p)]
    BY <1>4 DEF AddLPPosition, i
  <2>4. QED
    BY <2>2, <2>3
<1>5. CASE i # 0
  <2> DEFINE k == s.arr[i]
             q == [o EXCEPT ![k].owner = p.owner]
  <2>1. k \in 1..Len(o)
    BY <1>2, <1>3, <1>5
  <2>2. AddLPPosition(s, o, p) = [store |-> s, saved |-> TRUE, objs |-> q]
    BY <1>5 DEF AddLPPosition, i
  <2> HIDE DEF k
  <2>3. o[k] \in Positions /\ p.owner \in Addresses
    <3>1. o[k] \in Positions
      BY <1>1, <2>1
    <3>2. p.owner \in Addresses
      BY DEF Positions
    <3>3. QED
      BY <3>1, <3>2
  <2> DEFINE e == [o[k] EXCEPT !.owner = p.owner]
  <2>4. e \in Positions /\ e.prov = o[k].prov /\ e.key = o[k].key
    <3> HIDE DEF k
    <3>1. ASSUME NEW y \in Positions, NEW w \in Addresses
          PROVE  LET z == [y EXCEPT !.owner = w]
                 IN  z \in Positions /\ z.prov = y.prov /\ z.key = y.key
      BY <3>1 DEF Positions
    <3>2. QED
      BY <2>3, <3>1
  <2>5. q = [o EXCEPT ![k] = e]
    BY <1>1, <2>1
  <2> HIDE DEF e, q
  <2>6. /\ q \in Seq(Positions) /\ Len(q) = Len(o)
        /\ \A j \in 1..Len(o) : q[j] = IF j = k THEN e ELSE o[j]
    BY <1>1, <2>1, <2>4, <2>5, SeqExcept
  <2>7. \A j \in 1..Len(o) : q[j].prov = o[j].prov /\ q[j].key = o[j].key
    BY <2>4, <2>6
  <2>8. IsStore(s, q)
    BY <1>1, <2>6 DEF IsStore
  <2>9. NoneTwice(v, s, q)
    BY <1>3, <2>7 DEF Kept, NoneTwice, SameAs
  <2>10. \A j \in 1..s.len : q[s.arr[j]].prov \in ps
    BY <1>3, <2>7 DEF Kept
  <2>11. Kept(v, s, q, ps)
    BY <2>6, <2>8, <2>9, <2>10 DEF Kept
  <2>12. QED
    BY <2>2, <2>11
<1>6. QED
  BY <1>4, <1>5

\* A stake without a validator is taken for any other of its owner.
LEMMA AddStakingKeeps ==
  ASSUME NEW v, NEW s, NEW o, NEW ps, Kept(v, s, o, ps), NEW p \in Positions, p.prov \in ps,
         v = "staking"
  PROVE  Kept(v, AddStakingPosition(s, o, p).store, AddStakingPosition(s, o, p).objs, ps)
<1> DEFINE i == Existing("staking", s, o, p)
<1>1. o \in Seq(Positions) /\ IsStore(s, o)
  BY DEF Kept
<1>2. i = 0 => \A j \in 1..s.len : s.arr[j] \notin SameOwner(o, p) \cap SameKey(o, p)
  <2>1. ASSUME NEW Ids, First(s, Ids) = 0 PROVE \A j \in 1..s.len : s.arr[j] \notin Ids
    BY <1>1, <2>1, FirstIs
  <2>2. QED
    BY <2>1 DEF Existing, GetStakingPosition, GetStakingPositionWithValidator
<1>3. \A j \in 1..s.len : s.arr[j] \in 1..Len(o) /\ s.arr[j] \in DOMAIN o
  BY <1>1, ElementsAre
<1> HIDE DEF i
<1>4. CASE i = 0
  <2>1. \A j \in 1..s.len : ~SameAs(v, o[s.arr[j]], p)
    BY <1>2, <1>3, <1>4 DEF SameKey, SameOwner, SameAs
  <2>2. Kept(v, With(s, Len(o) + 1), Append(o, p), ps)
    BY <2>1, WithKeeps
  <2>3. AddStakingPosition(s, o, p) = [store |-> With(s, Len(o) + 1), saved |-> TRUE,
                                       objs |-> Append(o, p)]
    BY <1>4 DEF AddStakingPosition, i
  <2>4. QED
    BY <2>2, <2>3
<1>5. CASE i # 0
  <2>1. AddStakingPosition(s, o, p) = [store |-> s, saved |-> FALSE, objs |-> o]
    BY <1>5 DEF AddStakingPosition, i
  <2>2. QED
    BY <2>1
<1>6. QED
  BY <1>4, <1>5

LEMMA AddKeeps ==
  ASSUME NEW v, NEW s, NEW o, NEW ps, Kept(v, s, o, ps), NEW p \in Positions, p.prov \in ps
  PROVE  Kept(v, AddPosition(v, s, o, p).store, AddPosition(v, s, o, p).objs, ps)
BY AddLPKeeps, AddStakingKeeps DEF AddPosition

-----------------------------------------------------------------------------
(***************************************************************************)
(* The discovery only holds providers that the wallet knows, or knew when  *)
(* it began; where it adds a position, it has an owner and a key in hand.  *)
(***************************************************************************)
Sane(v, ps, d) ==
  /\ d \in Discoveries
  /\ d.pc # "idle" => d.left \subseteq ps
  /\ d.pc \notin {"idle", "provider"} => d.prov \in ps
  /\ d.pc \in {"index", "details", "add", "stake", "single"} => d.owners # <<>>
  /\ \/ d.pc = "single"
     \/ d.pc = "details" /\ v = "v3"
     \/ d.pc = "add" /\ v \in {"v3", "v4"}
     => d.todo # <<>>
  /\ d.pc \in {"probe", "mints", "pairs", "balances"} \/ d.loop # "address" => v = "v2"

Allowed == providers \cup raced

SoundInv ==
  /\ version \in Versions
  /\ open \subseteq Positions /\ IsFiniteSet(open)
  /\ nfts \in [Providers -> [Addresses -> Seq(AllKeys)]]
  /\ minted \subseteq Positions
  /\ providers \subseteq Providers /\ raced \subseteq Providers
  /\ Kept(version, store, objs, Allowed)
  /\ Sane(version, Allowed, disc)

LEMMA OwnersType == Owners \in Seq(Addresses)
<1>1. Range(Owners) \subseteq Addresses
  BY DEF Addresses
<1>2. QED
  BY <1>1, BoundsAreNatural, SeqOfMore

\* A discovery stays what it is when it is said to be disturbed.
LEMMA UncleanSane ==
  ASSUME NEW v, NEW ps, NEW d, Sane(v, ps, d)
  PROVE  /\ Sane(v, ps, Unclean(d))
         /\ Sane(v, ps, [d EXCEPT !.fresh = FALSE])
<1>1. d \in Discoveries
  BY DEF Sane
<1>2. Unclean(d) \in Discoveries /\ [d EXCEPT !.fresh = FALSE] \in Discoveries
  BY <1>1 DEF Discoveries, Unclean
<1>3. QED
  BY <1>1, <1>2 DEF Sane, Discoveries, Unclean

LEMMA NoDiscSane ==
  ASSUME NEW v, NEW ps
  PROVE  Sane(v, ps, NoDisc) /\ Sane(v, ps, Abort)
<1>1. /\ NoDisc.pc = "idle" /\ NoDisc.loop = "address"
      /\ Abort.pc = "idle" /\ Abort.loop = "address"
  BY DEF NoDisc, Abort
<1>2. NoDisc \in Discoveries
  <2> DEFINE pr == NoDisc.prov
  <2>1. pr = CHOOSE x \in Providers : TRUE
    BY DEF NoDisc
  <2>2. NoDisc = [pc |-> "idle", loop |-> "address", left |-> {}, prov |-> pr,
                  owners |-> <<>>, i |-> 0, n |-> 0, todo |-> <<>>, pairs |-> {},
                  filter |-> {}, has |-> FALSE, clean |-> TRUE, fresh |-> TRUE]
    BY <2>1 DEF NoDisc
  <2>3. pr = NoDisc.prov
    OBVIOUS
  <2> HIDE DEF pr
  <2>4. QED
    BY <2>2, <2>3 DEF Discoveries
<1>3. Abort \in Discoveries
  BY <1>2 DEF Abort, Discoveries
<1>4. QED
  BY <1>1, <1>2, <1>3 DEF Sane

LEMMA NextOwnerSane ==
  ASSUME NEW v, NEW ps, NEW d, Sane(v, ps, d), d.owners # <<>>, d.pc \notin {"idle", "provider"}
  PROVE  Sane(v, ps, NextOwner(d))
<1>1. d \in Discoveries
  BY DEF Sane
<1>2. /\ Tail(d.owners) \in Seq(Addresses)
      /\ d.loop \in {"address", "mints", "balances"}
      /\ <<>> \in Seq(AllKeys) /\ 0 \in Nat
  BY <1>1 DEF Discoveries
<1>3. NextOwner(d) \in Discoveries
  BY <1>1, <1>2 DEF Discoveries, NextOwner
<1>4. /\ NextOwner(d).pc = d.loop /\ NextOwner(d).loop = d.loop
      /\ NextOwner(d).prov = d.prov
      /\ NextOwner(d).left = d.left
  BY <1>1 DEF Discoveries, NextOwner
<1>5. QED
  BY <1>2, <1>3, <1>4 DEF Sane

-----------------------------------------------------------------------------
(***************************************************************************)
(* The discovery.                                                          *)
(***************************************************************************)
LEMMA GoKeeps ==
  ASSUME SoundInv, NEW d, Sane(version, Allowed, d), Go(d)
  PROVE  SoundInv'
BY DEF SoundInv, Go, DiscUnchanged, Allowed

LEMMA GoFailedKeeps ==
  ASSUME SoundInv, NEW d, Sane(version, Allowed, d), GoFailed(d)
  PROVE  SoundInv'
<1>1. Sane(version, Allowed, Unclean(d))
  BY UncleanSane
<1>2. QED
  BY <1>1 DEF SoundInv, GoFailed, DiscUnchanged, Allowed

LEMMA GoAddKeeps ==
  ASSUME SoundInv, NEW p \in Positions, p.prov \in Allowed,
         NEW d, Sane(version, Allowed, d), GoAdd(p, d)
  PROVE  SoundInv'
<1>1. Sane(version, Allowed, Unclean(d))
  BY UncleanSane
<1>2. Sane(version, Allowed, disc')
  BY <1>1 DEF GoAdd
<1>3. Kept(version, store', objs', Allowed)
  BY AddKeeps DEF GoAdd, SoundInv
<1>4. UNCHANGED <<version, mode, open, nfts, minted, providers, raced>>
  BY DEF GoAdd, DiscUnchanged
<1>5. QED
  BY <1>2, <1>3, <1>4 DEF SoundInv, Allowed

\* Where the discovery adds something, it has an owner and a key in hand.
LEMMA InHand ==
  ASSUME SoundInv, disc.pc \in {"add", "details", "stake", "single"}
  PROVE  /\ This \in Addresses
         /\ disc.prov \in Allowed /\ disc.prov \in Providers
         /\ disc.todo # <<>> => /\ Head(disc.todo) \in AllKeys
                                /\ Tail(disc.todo) \in Seq(AllKeys)
                                /\ Pos(disc.prov, Head(disc.todo), This) \in Positions
         /\ Pos(disc.prov, Plain, This) \in Positions
<1>1. disc \in Discoveries /\ disc.owners # <<>> /\ disc.prov \in Allowed
  BY DEF SoundInv, Sane
<1>2. disc.owners \in Seq(Addresses) /\ disc.todo \in Seq(AllKeys)
  BY <1>1 DEF Discoveries
<1>3. This \in Addresses
  BY <1>1, <1>2 DEF This
<1>4. disc.prov \in Providers
  BY <1>1 DEF SoundInv, Allowed
<1>5. disc.todo # <<>> => Head(disc.todo) \in AllKeys /\ Tail(disc.todo) \in Seq(AllKeys)
  BY <1>2
<1>6. Plain \in AllKeys
  BY DEF AllKeys
<1>7. QED
  BY <1>1, <1>3, <1>4, <1>5, <1>6 DEF Pos, Positions

\* The keys of the positions that are open make a sequence.
LEMMA KeysMakeSeq ==
  ASSUME NEW ps, ps \subseteq Positions, IsFiniteSet(ps), NEW ks, ks \subseteq KeysOf(ps)
  PROVE  SetToSeq(ks) \in Seq(AllKeys)
<1> DEFINE f == [p \in ps |-> p.key]
<1>1. KeysOf(ps) = {f[p] : p \in ps}
  BY DEF KeysOf
<1>2. f \in [ps -> KeysOf(ps)]
  BY DEF KeysOf
<1> HIDE DEF f
<1>3. f \in Surjection(ps, KeysOf(ps))
  BY <1>1, <1>2 DEF Surjection
<1>4. IsFiniteSet(KeysOf(ps))
  BY <1>3, FS_Surjection
<1>5. IsFiniteSet(ks)
  BY <1>4, FS_Subset
<1>6. Cardinality(ks) \in Nat /\ ExistsBijection(1..Cardinality(ks), ks)
  BY <1>5, FS_CardinalityType
<1>7. \E g \in [1..Cardinality(ks) -> ks] : IsInjective(g)
  BY <1>6 DEF ExistsBijection, Bijection, Injection, IsInjective
<1>8. SetToSeq(ks) \in [1..Cardinality(ks) -> ks]
  BY <1>7 DEF SetToSeq
<1>9. ks \subseteq AllKeys
  BY DEF KeysOf, Positions
<1>10. SetToSeq(ks) \in [1..Cardinality(ks) -> AllKeys]
  BY <1>8, <1>9
<1>11. QED
  BY <1>6, <1>10, FunctionIsSeq

\* Going to the next owner, or from anywhere to the end, is always sane.
LEMMA NextOwnerGoes ==
  ASSUME SoundInv, disc.owners # <<>>, disc.pc \notin {"idle", "provider"},
         Go(NextOwner(disc)) \/ GoFailed(NextOwner(disc))
  PROVE  SoundInv'
<1>1. Sane(version, Allowed, NextOwner(disc))
  BY NextOwnerSane DEF SoundInv
<1>2. QED
  BY <1>1, GoKeeps, GoFailedKeeps

LEMMA AbortGoes ==
  ASSUME SoundInv, Go(Abort) \/ GoFailed(Abort)
  PROVE  SoundInv'
<1>1. Sane(version, Allowed, Abort)
  BY NoDiscSane
<1>2. QED
  BY <1>1, GoKeeps, GoFailedKeeps

LEMMA TakeProviderKeeps ==
  ASSUME SoundInv, NEW pr \in Providers, TakeProvider(pr)
  PROVE  SoundInv'
<1>1. disc \in Discoveries /\ Sane(version, Allowed, disc)
  BY DEF SoundInv, Sane
<1>2. pr \in Allowed
  BY <1>1 DEF TakeProvider, At, Sane
<1>3. Owners \in Seq(Addresses)
  BY OwnersType
<1> DEFINE c == IF version # "staking" /\ pr \in beyond.dark THEN "provider"
                ELSE IF mode = "vaults" THEN "vault"
                ELSE IF version # "v2" THEN "address"
                ELSE IF mode = "none" THEN "provider" ELSE "probe"
           d == [disc EXCEPT !.left = @ \ {pr}, !.prov = pr, !.owners = Owners,
                             !.loop = "address", !.pc = c]
<1>4. Go(d) /\ disc.pc = "provider"
  BY DEF TakeProvider, At
<1>5. c \in {"vault", "address", "provider", "probe"} /\ (c = "probe" => version = "v2")
  OBVIOUS
<1> HIDE DEF c
<1>6. Sane(version, Allowed, d)
  BY <1>1, <1>2, <1>3, <1>4, <1>5 DEF Sane, Discoveries
<1> HIDE DEF d
<1>7. QED
  BY <1>4, <1>6, GoKeeps

LEMMA LastOwnerKeeps ==
  ASSUME SoundInv, LastOwner
  PROVE  SoundInv'
<1>1. disc \in Discoveries /\ Sane(version, Allowed, disc)
  BY DEF SoundInv, Sane

<1>2. Sane(version, Allowed, [disc EXCEPT !.pc = "provider"])
  BY <1>1 DEF LastOwner, Sane, Discoveries
<1>3. QED
  BY <1>2, GoKeeps DEF LastOwner

LEMMA FinishKeeps ==
  ASSUME SoundInv, Finish
  PROVE  SoundInv'
<1>1. disc \in Discoveries /\ Sane(version, Allowed, disc)
  BY DEF SoundInv, Sane

<1> DEFINE d == [NoDisc EXCEPT !.clean = disc.clean, !.fresh = disc.fresh]
<1>2. NoDisc \in Discoveries /\ NoDisc.pc = "idle" /\ NoDisc.loop = "address"
  BY NoDiscSane DEF Sane, NoDisc
<1>3. d \in Discoveries /\ d.pc = "idle" /\ d.loop = "address"
  BY <1>1, <1>2 DEF Discoveries
<1>4. Sane(version, Allowed, d)
  BY <1>3 DEF Sane
<1>5. QED
  BY <1>4, GoKeeps DEF Finish

LEMMA ProbeKeeps ==
  ASSUME SoundInv, Probe
  PROVE  SoundInv'
<1>1. disc \in Discoveries /\ Sane(version, Allowed, disc)
  BY DEF SoundInv, Sane

<1> DEFINE d == [disc EXCEPT !.pc = "address"]
           e == [disc EXCEPT !.pc = "mints", !.loop = "mints"]
<1>2. Sane(version, Allowed, d) /\ Sane(version, Allowed, e)
  BY <1>1 DEF Probe, At, Sane, Discoveries
<1>3. Go(d) \/ Go(e) \/ GoFailed(d)
  BY DEF Probe
<1> HIDE DEF d, e
<1>4. QED
  BY <1>2, <1>3, GoKeeps, GoFailedKeeps

\* A subgraph gives what was asked for, or a part of it.
LEMMA PageIs ==
  ASSUME NEW keys, NEW page \in Page(keys)
  PROVE  page \subseteq keys /\ (This \notin beyond.crowded => page = keys)
BY DEF Page

LEMMA QueryV2SubgraphKeeps ==
  ASSUME SoundInv, QueryV2Subgraph
  PROVE  SoundInv'
<1>1. disc \in Discoveries /\ Sane(version, Allowed, disc)
  BY DEF SoundInv, Sane

<1>2. open \subseteq Positions /\ IsFiniteSet(open)
  BY DEF SoundInv
<1>3. HeldBy(This) \subseteq Positions /\ IsFiniteSet(HeldBy(This))
  BY <1>2, FS_Subset DEF HeldBy

<1> DEFINE d(keys) == [disc EXCEPT !.todo = SetToSeq(keys), !.pc = "add"]
<1>4. /\ disc.pc = "address" /\ disc.owners # <<>> /\ version = "v2"
      /\ \/ \E keys \in Page(KeysOf(HeldBy(This))) : Go(d(keys))
         \/ Go(NextOwner(disc)) \/ GoFailed(NextOwner(disc))
  BY DEF QueryV2Subgraph, AddressStep, At
<1>5. ASSUME NEW keys \in Page(KeysOf(HeldBy(This))) PROVE Sane(version, Allowed, d(keys))
  <2> DEFINE q == SetToSeq(keys)
  <2>1. q \in Seq(AllKeys)
    BY <1>3, PageIs, KeysMakeSeq
  <2> HIDE DEF q
  <2>2. Sane(version, Allowed, [disc EXCEPT !.todo = q, !.pc = "add"])
    BY <1>1, <1>4, <2>1 DEF Sane, Discoveries
  <2>3. QED
    BY <2>2 DEF q
<1> HIDE DEF d
<1>6. QED
  BY <1>4, <1>5, GoKeeps, NextOwnerGoes

LEMMA QueryMintsKeeps ==
  ASSUME SoundInv, QueryMints
  PROVE  SoundInv'
<1>1. disc \in Discoveries /\ Sane(version, Allowed, disc)
  BY DEF SoundInv, Sane

<1> DEFINE ks == KeysOf({q \in minted : q.prov = disc.prov /\ q.owner = This})
           d(pairs) == [disc EXCEPT !.pairs = pairs, !.pc = "balances"]
           c == IF disc.filter = {} THEN "provider" ELSE "pairs"
           e == [disc EXCEPT !.pc = c]
<1>2. /\ disc.pc = "mints" /\ disc.owners # <<>>
      /\ Go(NextOwner(disc)) \/ (\E pairs \in Page(ks) : Go(d(pairs))) \/ GoFailed(e)
  BY DEF QueryMints, At
<1>3. ks \subseteq AllKeys
  BY DEF SoundInv, Positions, KeysOf
<1>4. c \in {"provider", "pairs"}
  OBVIOUS
<1> HIDE DEF ks, c
<1>5. /\ \A pairs \in Page(ks) : Sane(version, Allowed, d(pairs))
      /\ Sane(version, Allowed, e)
  <2>1. ASSUME NEW pairs \in Page(ks) PROVE Sane(version, Allowed, d(pairs))
    <3>1. pairs \subseteq AllKeys
      BY <1>3, PageIs
    <3>2. QED
      BY <1>1, <1>2, <3>1 DEF Sane, Discoveries
  <2>2. Sane(version, Allowed, e)
    BY <1>1, <1>2, <1>4 DEF Sane, Discoveries
  <2>3. QED
    BY <2>1, <2>2
<1> HIDE DEF d, e
<1>6. QED
  BY <1>2, <1>5, GoKeeps, GoFailedKeeps, NextOwnerGoes

LEMMA QueryPairsKeeps ==
  ASSUME SoundInv, QueryPairs
  PROVE  SoundInv'
<1>1. disc \in Discoveries /\ Sane(version, Allowed, disc)
  BY DEF SoundInv, Sane

<1> DEFINE d == [disc EXCEPT !.pairs = disc.filter, !.owners = Owners, !.pc = "balances",
                             !.loop = "balances"]
           e == [disc EXCEPT !.pc = "provider"]
<1>2. disc.pc = "pairs" /\ (Go(d) \/ GoFailed(e))
  BY DEF QueryPairs, At
<1>3. Owners \in Seq(Addresses)
  BY OwnersType
<1>4. Sane(version, Allowed, d) /\ Sane(version, Allowed, e)
  BY <1>1, <1>2, <1>3 DEF Sane, Discoveries
<1> HIDE DEF d, e
<1>5. QED
  BY <1>2, <1>4, GoKeeps, GoFailedKeeps

LEMMA QueryBalancesKeeps ==
  ASSUME SoundInv, QueryBalances
  PROVE  SoundInv'
<1>1. disc \in Discoveries /\ Sane(version, Allowed, disc)
  BY DEF SoundInv, Sane

<1>2. open \subseteq Positions /\ IsFiniteSet(open)
  BY DEF SoundInv
<1>3. HeldBy(This) \subseteq Positions /\ IsFiniteSet(HeldBy(This))
  BY <1>2, FS_Subset DEF HeldBy

<1> DEFINE q == SetToSeq(KeysOf(HeldBy(This)) \cap disc.pairs)
           d == [disc EXCEPT !.todo = q, !.pc = "add"]
<1>4. q \in Seq(AllKeys)
  BY <1>3, KeysMakeSeq
<1>5. /\ disc.pc = "balances" /\ disc.owners # <<>>
      /\ Go(d) \/ GoFailed(NextOwner(disc))
  BY DEF QueryBalances, At
<1> HIDE DEF q
<1>6. Sane(version, Allowed, d)
  BY <1>1, <1>4, <1>5 DEF Sane, Discoveries
<1> HIDE DEF d
<1>7. QED
  BY <1>5, <1>6, GoKeeps, NextOwnerGoes

\* The tokens of the owner whose turn it is.
LEMMA TokensType ==
  ASSUME SoundInv, disc.pc \in {"address", "index"}, disc.owners # <<>>
  PROVE  nfts[disc.prov][This] \in Seq(AllKeys) /\ Len(nfts[disc.prov][This]) \in Nat
<1>1. disc \in Discoveries /\ Sane(version, Allowed, disc)
  BY DEF SoundInv, Sane
<1>2. disc.owners \in Seq(Addresses)
  BY <1>1 DEF Discoveries
<1>3. This \in Addresses
  BY <1>2 DEF This
<1>4. disc.prov \in Providers
  BY <1>1 DEF Sane, SoundInv, Allowed
<1>5. nfts[disc.prov][This] \in Seq(AllKeys)
  BY <1>3, <1>4 DEF SoundInv
<1>6. QED
  BY <1>5

LEMMA AddFoundKeeps ==
  ASSUME SoundInv, AddFound
  PROVE  SoundInv'
<1>1. disc \in Discoveries /\ Sane(version, Allowed, disc)
  BY DEF SoundInv, Sane

<1> DEFINE p == Pos(disc.prov, Head(disc.todo), This)
           d == [disc EXCEPT !.todo = Tail(@)]
<1>2. disc.pc = "add" /\ version = "v2" /\ disc.owners # <<>>
  BY <1>1 DEF AddFound, At, Sane
<1>3. CASE disc.todo = <<>>
  BY <1>2, <1>3, NextOwnerGoes DEF AddFound
<1>4. CASE disc.todo # <<>>
  <2>1. GoAdd(p, d)
    BY <1>4 DEF AddFound
  <2>2. p \in Positions /\ p.prov \in Allowed /\ Tail(disc.todo) \in Seq(AllKeys)
    BY <1>2, <1>4, InHand DEF Pos
  <2>3. Sane(version, Allowed, d)
    BY <1>1, <1>2, <2>2 DEF Sane, Discoveries
  <2> HIDE DEF p, d
  <2>4. QED
    BY <2>1, <2>2, <2>3, GoAddKeeps
<1>5. QED
  BY <1>3, <1>4

LEMMA V3BalanceOfKeeps ==
  ASSUME SoundInv, V3BalanceOf
  PROVE  SoundInv'
<1>1. disc \in Discoveries /\ Sane(version, Allowed, disc)
  BY DEF SoundInv, Sane

<1> DEFINE d == [disc EXCEPT !.n = Len(nfts[disc.prov][This]), !.i = 0, !.pc = "index"]
<1>2. disc.pc = "address" /\ disc.owners # <<>> /\ (Go(d) \/ GoFailed(Abort))
  BY DEF V3BalanceOf, AddressStep, At
<1>3. Len(nfts[disc.prov][This]) \in Nat
  BY <1>2, TokensType
<1>4. Sane(version, Allowed, d)
  BY <1>1, <1>2, <1>3 DEF Sane, Discoveries
<1> HIDE DEF d
<1>5. QED
  BY <1>2, <1>4, GoKeeps, AbortGoes

LEMMA V3TokenOfOwnerKeeps ==
  ASSUME SoundInv, V3TokenOfOwner
  PROVE  SoundInv'
<1>1. disc \in Discoveries /\ Sane(version, Allowed, disc)
  BY DEF SoundInv, Sane

<1> DEFINE tokens == nfts[disc.prov][This]
           d == [disc EXCEPT !.todo = <<tokens[disc.i + 1]>>, !.pc = "details"]
<1>2. disc.pc = "index" /\ version = "v3" /\ disc.owners # <<>>
  BY <1>1 DEF V3TokenOfOwner, At, Sane
<1>3. \/ Go(NextOwner(disc)) \/ GoFailed(NextOwner(disc))
      \/ Go(Abort) \/ GoFailed(Abort)
      \/ disc.i < Len(tokens) /\ Go(d)
  BY DEF V3TokenOfOwner
<1>4. CASE disc.i < Len(tokens) /\ Go(d)
  <2>1. tokens \in Seq(AllKeys) /\ disc.i \in Nat
    BY <1>1, <1>2, TokensType DEF Discoveries
  <2> HIDE DEF tokens
  <2>2. tokens[disc.i + 1] \in AllKeys
    BY <1>4, <2>1
  <2> DEFINE k == tokens[disc.i + 1]
  <2> HIDE DEF k
  <2>3. <<k>> \in Seq(AllKeys) /\ <<k>> # <<>>
    BY <2>2 DEF k
  <2>4. d = [disc EXCEPT !.todo = <<k>>, !.pc = "details"]
    BY DEF k
  <2> HIDE DEF d
  <2>5. Sane(version, Allowed, d)
    BY <1>1, <1>2, <2>3, <2>4 DEF Sane, Discoveries
  <2>6. QED
    BY <1>4, <2>5, GoKeeps
<1>5. QED
  BY <1>2, <1>3, <1>4, NextOwnerGoes, AbortGoes

LEMMA V3NextTokenSane ==
  ASSUME NEW v, NEW ps, NEW d, Sane(v, ps, d), d.owners # <<>>, d.pc \notin {"idle", "provider"}
  PROVE  Sane(v, ps, V3NextToken(d))
<1>1. d \in Discoveries
  BY DEF Sane
<1>2. <<>> \in Seq(AllKeys) /\ d.i + 1 \in Nat
  BY <1>1 DEF Discoveries
<1>3. QED
  BY <1>1, <1>2 DEF Sane, Discoveries, V3NextToken

LEMMA V3DetailsKeeps ==
  ASSUME SoundInv, V3Details
  PROVE  SoundInv'
<1>1. disc \in Discoveries /\ Sane(version, Allowed, disc)
  BY DEF SoundInv, Sane

<1> DEFINE d == [disc EXCEPT !.pc = "add"]
<1>2. disc.pc = "details" /\ version = "v3" /\ disc.owners # <<>>
  BY <1>1 DEF V3Details, At, Sane
<1>3. Go(d) \/ Go(V3NextToken(disc)) \/ GoFailed(Abort)
  BY DEF V3Details
<1>4. Sane(version, Allowed, d)
  BY <1>1, <1>2 DEF Sane, Discoveries
<1>5. Sane(version, Allowed, V3NextToken(disc))
  BY <1>1, <1>2, V3NextTokenSane
<1> HIDE DEF d
<1>6. QED
  BY <1>3, <1>4, <1>5, GoKeeps, AbortGoes

LEMMA V3AddKeeps ==
  ASSUME SoundInv, V3Add
  PROVE  SoundInv'
<1>1. disc \in Discoveries /\ Sane(version, Allowed, disc)
  BY DEF SoundInv, Sane

<1> DEFINE p == Pos(disc.prov, Head(disc.todo), This)
<1>2. disc.pc = "add" /\ version = "v3" /\ disc.owners # <<>> /\ disc.todo # <<>>
  BY <1>1 DEF V3Add, At, Sane
<1>3. GoAdd(p, V3NextToken(disc)) \/ GoFailed(Abort)
  BY DEF V3Add
<1>4. p \in Positions /\ p.prov \in Allowed
  BY <1>2, InHand DEF Pos
<1>5. Sane(version, Allowed, V3NextToken(disc))
  BY <1>1, <1>2, V3NextTokenSane
<1> HIDE DEF p
<1>6. QED
  BY <1>3, <1>4, <1>5, GoAddKeeps, AbortGoes

LEMMA TokensMakeSeq ==
  ASSUME NEW tokens \in Seq(AllKeys), NEW ks, ks \subseteq Range(tokens)
  PROVE  SetToSeq(ks) \in Seq(AllKeys)
<1>1. /\ tokens \in [1..Len(tokens) -> Range(tokens)] /\ Len(tokens) \in Nat
      /\ Range(tokens) = {tokens[i] : i \in 1..Len(tokens)}
  BY DEF Range
<1>2. tokens \in Surjection(1..Len(tokens), Range(tokens))
  BY <1>1 DEF Surjection
<1>3. IsFiniteSet(1..Len(tokens))
  <2>1. 1 \in Int /\ Len(tokens) \in Int
    BY <1>1
  <2>2. QED
    BY <2>1, FS_Interval
<1>4. IsFiniteSet(ks)
  BY <1>2, <1>3, FS_Surjection, FS_Subset
<1>5. Cardinality(ks) \in Nat /\ ExistsBijection(1..Cardinality(ks), ks)
  BY <1>4, FS_CardinalityType
<1>6. \E g \in [1..Cardinality(ks) -> ks] : IsInjective(g)
  BY <1>5 DEF ExistsBijection, Bijection, Injection, IsInjective
<1>7. SetToSeq(ks) \in [1..Cardinality(ks) -> ks]
  BY <1>6 DEF SetToSeq
<1>8. ks \subseteq AllKeys
  BY <1>1
<1>9. SetToSeq(ks) \in [1..Cardinality(ks) -> AllKeys]
  BY <1>7, <1>8
<1>10. QED
  BY <1>5, <1>9, FunctionIsSeq

LEMMA V4QueryKeeps ==
  ASSUME SoundInv, V4Query
  PROVE  SoundInv'
<1>1. disc \in Discoveries /\ Sane(version, Allowed, disc)
  BY DEF SoundInv, Sane

<1> DEFINE tokens == nfts[disc.prov][This]
           d(keys) == [disc EXCEPT !.todo = SetToSeq(keys), !.pc = "details"]
           e == [disc EXCEPT !.n = Len(tokens), !.i = 0, !.pc = "index"]
<1>2. /\ disc.pc = "address" /\ disc.owners # <<>> /\ version = "v4"
      /\ \/ \E keys \in Page(Range(tokens)) : Go(d(keys))
         \/ Go(e) \/ GoFailed(NextOwner(disc))
  BY DEF V4Query, AddressStep, At
<1>3. tokens \in Seq(AllKeys) /\ Len(tokens) \in Nat
  BY <1>2, TokensType
<1> HIDE DEF tokens
<1>4. ASSUME NEW keys \in Page(Range(tokens)) PROVE Sane(version, Allowed, d(keys))
  <2> DEFINE q == SetToSeq(keys)
  <2>1. q \in Seq(AllKeys)
    BY <1>3, PageIs, TokensMakeSeq
  <2> HIDE DEF q
  <2>2. Sane(version, Allowed, [disc EXCEPT !.todo = q, !.pc = "details"])
    BY <1>1, <1>2, <2>1 DEF Sane, Discoveries
  <2>3. QED
    BY <2>2 DEF q
<1>5. Sane(version, Allowed, e)
  BY <1>1, <1>2, <1>3 DEF Sane, Discoveries
<1> HIDE DEF d, e
<1>6. QED
  BY <1>2, <1>4, <1>5, GoKeeps, NextOwnerGoes

LEMMA V4TokenOfOwnerKeeps ==
  ASSUME SoundInv, V4TokenOfOwner
  PROVE  SoundInv'
<1>1. disc \in Discoveries /\ Sane(version, Allowed, disc)
  BY DEF SoundInv, Sane

<1> DEFINE tokens == nfts[disc.prov][This]
           passed == [disc EXCEPT !.i = @ + 1]
           d == [disc EXCEPT !.pc = "details"]
           e == [passed EXCEPT !.todo = Append(@, tokens[disc.i + 1])]
<1>2. disc.pc = "index" /\ version = "v4" /\ disc.owners # <<>>
  BY <1>1 DEF V4TokenOfOwner, At, Sane
<1>3. \/ Go(d) \/ Go(passed) \/ GoFailed(passed)
      \/ disc.i < Len(tokens) /\ Go(e)
  BY DEF V4TokenOfOwner
<1>4. Sane(version, Allowed, d)
  BY <1>1, <1>2 DEF Sane, Discoveries
<1>5. Sane(version, Allowed, passed) /\ passed \in Discoveries /\ passed.pc = "index"
      /\ passed.todo = disc.todo
  BY <1>1, <1>2 DEF Sane, Discoveries
<1>6. CASE disc.i < Len(tokens) /\ Go(e)
  <2>1. tokens \in Seq(AllKeys) /\ disc.i \in Nat /\ disc.todo \in Seq(AllKeys)
    BY <1>1, <1>2, TokensType DEF Discoveries
  <2> HIDE DEF tokens
  <2>2. tokens[disc.i + 1] \in AllKeys
    BY <1>6, <2>1
  <2> DEFINE q == Append(disc.todo, tokens[disc.i + 1])
  <2>3. q \in Seq(AllKeys)
    BY <2>1, <2>2
  <2>4. e = [passed EXCEPT !.todo = q]
    BY <1>5 DEF Discoveries
  <2> HIDE DEF q, e, passed
  <2>5. Sane(version, Allowed, e)
    BY <1>2, <1>5, <2>3, <2>4 DEF Sane, Discoveries
  <2>6. QED
    BY <1>6, <2>5, GoKeeps
<1> HIDE DEF d, e, passed
<1>7. QED
  BY <1>3, <1>4, <1>5, <1>6, GoKeeps, GoFailedKeeps

LEMMA V4DetailsKeeps ==
  ASSUME SoundInv, V4Details
  PROVE  SoundInv'
<1>1. disc \in Discoveries /\ Sane(version, Allowed, disc)
  BY DEF SoundInv, Sane

<1> DEFINE d == [disc EXCEPT !.pc = "add"]
           e == [disc EXCEPT !.todo = Tail(@)]
<1>2. disc.pc = "details" /\ version = "v4" /\ disc.owners # <<>>
  BY <1>1 DEF V4Details, At, Sane
<1>3. CASE disc.todo = <<>>
  BY <1>2, <1>3, NextOwnerGoes DEF V4Details
<1>4. CASE disc.todo # <<>>
  <2>1. Go(d) \/ Go(e) \/ GoFailed(e)
    BY <1>4 DEF V4Details
  <2>2. Tail(disc.todo) \in Seq(AllKeys)
    BY <1>2, <1>4, InHand
  <2>3. Sane(version, Allowed, d) /\ Sane(version, Allowed, e)
    BY <1>1, <1>2, <1>4, <2>2 DEF Sane, Discoveries
  <2> HIDE DEF d, e
  <2>4. QED
    BY <2>1, <2>3, GoKeeps, GoFailedKeeps
<1>5. QED
  BY <1>3, <1>4

LEMMA V4AddKeeps ==
  ASSUME SoundInv, V4Add
  PROVE  SoundInv'
<1>1. disc \in Discoveries /\ Sane(version, Allowed, disc)
  BY DEF SoundInv, Sane

<1> DEFINE p == Pos(disc.prov, Head(disc.todo), This)
           d == [disc EXCEPT !.todo = Tail(@), !.pc = "details"]
<1>2. disc.pc = "add" /\ version = "v4" /\ disc.owners # <<>> /\ disc.todo # <<>>
  BY <1>1 DEF V4Add, At, Sane
<1>3. GoAdd(p, d)
  BY DEF V4Add
<1>4. p \in Positions /\ p.prov \in Allowed /\ Tail(disc.todo) \in Seq(AllKeys)
  BY <1>2, InHand DEF Pos
<1>5. Sane(version, Allowed, d)
  BY <1>1, <1>2, <1>4 DEF Sane, Discoveries
<1> HIDE DEF p, d
<1>6. QED
  BY <1>3, <1>4, <1>5, GoAddKeeps

LEMMA SingleAddKeeps ==
  ASSUME SoundInv, SingleAdd
  PROVE  SoundInv'
<1>1. disc \in Discoveries /\ Sane(version, Allowed, disc)
  BY DEF SoundInv, Sane

<1> DEFINE p == Pos(disc.prov, Head(disc.todo), This)
<1>2. disc.pc = "single" /\ disc.todo # <<>>
  BY <1>1 DEF SingleAdd, At, Sane
<1>3. GoAdd(p, Abort) \/ GoFailed(Abort)
  BY DEF SingleAdd
<1>4. p \in Positions /\ p.prov \in Allowed
  BY <1>2, InHand DEF Pos
<1>5. Sane(version, Allowed, Abort)
  BY NoDiscSane
<1> HIDE DEF p
<1>6. QED
  BY <1>3, <1>4, <1>5, GoAddKeeps, AbortGoes

LEMMA StakingVaultKeeps ==
  ASSUME SoundInv, StakingVault
  PROVE  SoundInv'
<1>1. disc \in Discoveries /\ Sane(version, Allowed, disc)
  BY DEF SoundInv, Sane

<1> DEFINE next == [disc EXCEPT !.pc = "provider"]
<1>2. disc.pc = "vault"
  BY DEF StakingVault, At
<1>3. Sane(version, Allowed, next)
  BY <1>1, <1>2 DEF Sane, Discoveries
<1>4. \/ Go(next) \/ GoFailed(next)
      \/ \E u \in disc.filter : \E p \in ValidateAztecVault(u) : GoAdd(p, next)
  BY DEF StakingVault
<1>5. ASSUME NEW u, NEW p \in ValidateAztecVault(u) PROVE p \in Positions /\ p.prov \in Allowed
  BY <1>1, <1>2 DEF ValidateAztecVault, SoundInv, Sane
<1> HIDE DEF next
<1>6. QED
  BY <1>3, <1>4, <1>5, GoKeeps, GoFailedKeeps, GoAddKeeps

LEMMA StakingDelegationsKeeps ==
  ASSUME SoundInv, StakingDelegations
  PROVE  SoundInv'
<1>1. disc \in Discoveries /\ Sane(version, Allowed, disc)
  BY DEF SoundInv, Sane

<1>2. open \subseteq Positions /\ IsFiniteSet(open)
  BY DEF SoundInv
<1>3. HeldBy(This) \subseteq Positions /\ IsFiniteSet(HeldBy(This))
  BY <1>2, FS_Subset DEF HeldBy
<1> DEFINE q == SetToSeq(KeysOf(HeldBy(This)))
           d == [disc EXCEPT !.todo = q, !.pc = "add"]
<1>4. q \in Seq(AllKeys)
  BY <1>3, KeysMakeSeq
<1>5. /\ disc.pc = "address" /\ disc.owners # <<>> /\ version = "staking"
      /\ Go(d) \/ GoFailed(NextOwner(disc))
  BY DEF StakingDelegations, AddressStep, At
<1> HIDE DEF q
<1>6. Sane(version, Allowed, d)
  BY <1>1, <1>4, <1>5 DEF Sane, Discoveries
<1> HIDE DEF d
<1>7. QED
  BY <1>5, <1>6, GoKeeps, NextOwnerGoes

LEMMA StakingAddKeeps ==
  ASSUME SoundInv, StakingAdd
  PROVE  SoundInv'
<1>1. disc \in Discoveries /\ Sane(version, Allowed, disc)
  BY DEF SoundInv, Sane

<1> DEFINE p == Pos(disc.prov, Head(disc.todo), This)
           d == [disc EXCEPT !.todo = Tail(@)]
<1>2. disc.pc = "add" /\ version = "staking" /\ disc.owners # <<>>
  BY <1>1 DEF StakingAdd, At, Sane
<1>3. CASE disc.todo = <<>>
  BY <1>2, <1>3, NextOwnerGoes DEF StakingAdd
<1>4. CASE disc.todo # <<>>
  <2>1. Go(d) \/ GoAdd(p, d)
    BY <1>4 DEF StakingAdd
  <2>2. p \in Positions /\ p.prov \in Allowed /\ Tail(disc.todo) \in Seq(AllKeys)
    BY <1>2, <1>4, InHand DEF Pos
  <2>3. Sane(version, Allowed, d)
    BY <1>1, <1>2, <2>2 DEF Sane, Discoveries
  <2> HIDE DEF p, d
  <2>4. QED
    BY <2>1, <2>2, <2>3, GoKeeps, GoAddKeeps
<1>5. QED
  BY <1>3, <1>4

LEMMA StakingBalanceKeeps ==
  ASSUME SoundInv, StakingBalance
  PROVE  SoundInv'
<1>1. disc \in Discoveries /\ Sane(version, Allowed, disc)
  BY DEF SoundInv, Sane

<1> DEFINE d(has) == [disc EXCEPT !.has = has, !.pc = "stake"]
           has == Pos(disc.prov, Plain, This) \in open
<1>2. /\ disc.pc = "address" /\ disc.owners # <<>> /\ version = "staking"
      /\ Go(d(has)) \/ GoFailed([d(FALSE) EXCEPT !.fresh = FALSE])
  BY DEF StakingBalance, AddressStep, At
<1>3. \A b \in BOOLEAN : Sane(version, Allowed, d(b))
  BY <1>1, <1>2 DEF Sane, Discoveries
<1>4. has \in BOOLEAN
  OBVIOUS
<1> HIDE DEF has, d
<1>5. Sane(version, Allowed, [d(FALSE) EXCEPT !.fresh = FALSE])
  BY <1>3, UncleanSane
<1>6. QED
  BY <1>2, <1>3, <1>4, <1>5, GoKeeps, GoFailedKeeps

LEMMA StakingUpdateKeeps ==
  ASSUME SoundInv, StakingUpdate
  PROVE  SoundInv'
<1>1. disc \in Discoveries /\ Sane(version, Allowed, disc)
  BY DEF SoundInv, Sane

<1> DEFINE p == Pos(disc.prov, Plain, This)
<1>2. disc.pc = "stake" /\ disc.owners # <<>>
  BY <1>1 DEF StakingUpdate, At, Sane
<1>3. \/ Go(NextOwner(disc))
      \/ GoAdd(p, NextOwner(disc))
      \/ /\ store' = RemovePosition(version, store, objs, p)
         /\ disc' = NextOwner(disc)
         /\ DiscUnchanged /\ UNCHANGED objs
  BY DEF StakingUpdate
<1>4. p \in Positions /\ p.prov \in Allowed
  BY <1>2, InHand DEF Pos
<1>5. Sane(version, Allowed, NextOwner(disc))
  BY <1>1, <1>2, NextOwnerSane
<1>6. Kept(version, RemovePosition(version, store, objs, p), objs, Allowed)
  BY RemoveKeeps DEF SoundInv
<1> HIDE DEF p
<1>7. CASE /\ store' = RemovePosition(version, store, objs, p)
           /\ disc' = NextOwner(disc)
           /\ DiscUnchanged /\ UNCHANGED objs
  BY <1>5, <1>6, <1>7 DEF SoundInv, DiscUnchanged, Allowed
<1>8. QED
  BY <1>3, <1>4, <1>5, <1>7, GoKeeps, GoAddKeeps

LEMMA DiscoveryKeeps ==
  ASSUME SoundInv, DiscoveryStep
  PROVE  SoundInv'
<1>1. CASE \E pr \in Providers : TakeProvider(pr)
  BY <1>1, TakeProviderKeeps
<1>2. CASE LastOwner \/ Finish
  BY <1>2, LastOwnerKeeps, FinishKeeps
<1>3. CASE Probe \/ QueryV2Subgraph \/ QueryMints \/ QueryPairs \/ QueryBalances \/ AddFound
  BY <1>3, ProbeKeeps, QueryV2SubgraphKeeps, QueryMintsKeeps, QueryPairsKeeps,
     QueryBalancesKeeps, AddFoundKeeps
<1>4. CASE V3BalanceOf \/ V3TokenOfOwner \/ V3Details \/ V3Add
  BY <1>4, V3BalanceOfKeeps, V3TokenOfOwnerKeeps, V3DetailsKeeps, V3AddKeeps
<1>5. CASE V4Query \/ V4TokenOfOwner \/ V4Details \/ V4Add \/ SingleAdd
  BY <1>5, V4QueryKeeps, V4TokenOfOwnerKeeps, V4DetailsKeeps, V4AddKeeps, SingleAddKeeps
<1>6. CASE StakingVault \/ StakingDelegations \/ StakingAdd \/ StakingBalance \/ StakingUpdate
  BY <1>6, StakingVaultKeeps, StakingDelegationsKeeps, StakingAddKeeps, StakingBalanceKeeps,
     StakingUpdateKeeps
<1>7. QED
  BY <1>1, <1>2, <1>3, <1>4, <1>5, <1>6 DEF DiscoveryStep

-----------------------------------------------------------------------------
(***************************************************************************)
(* The chain, the user and the pane.                                       *)
(***************************************************************************)
\* More providers, or one less that a discovery may still hold.
LEMMA KeptMore ==
  ASSUME NEW v, NEW s, NEW o, NEW ps, NEW qs, ps \subseteq qs, Kept(v, s, o, ps)
  PROVE  Kept(v, s, o, qs)
BY DEF Kept

LEMMA SaneMore ==
  ASSUME NEW v, NEW ps, NEW qs, NEW d, d.pc # "idle" => ps \subseteq qs, Sane(v, ps, d)
  PROVE  Sane(v, qs, d)
BY DEF Sane

\* A step of the chain.
LEMMA MoveKeeps ==
  ASSUME SoundInv, Move, open' \subseteq Positions, IsFiniteSet(open)', minted' \subseteq Positions,
         nfts' \in [Providers -> [Addresses -> Seq(AllKeys)]]
  PROVE  SoundInv'
<1>1. Sane(version, Allowed, disc')
  <2>1. Sane(version, Allowed, Unclean(disc))
    BY UncleanSane DEF SoundInv
  <2>2. QED
    BY <2>1, UncleanSane DEF Move
<1>2. QED
  BY <1>1 DEF SoundInv, Move, Allowed

LEMMA OpenKeeps ==
  ASSUME SoundInv, NEW p \in Positions, Open(p)
  PROVE  SoundInv'
<1>1. Move /\ open' = open \cup {p} /\ minted' = minted \cup {p}
  BY DEF Open
<1>2. IsFiniteSet(open')
  BY <1>1, FS_AddElement DEF SoundInv
<1>3. p.prov \in Providers /\ p.owner \in Addresses /\ p.key \in AllKeys
  BY DEF Positions
<1>4. nfts' \in [Providers -> [Addresses -> Seq(AllKeys)]]
  <2>1. nfts \in [Providers -> [Addresses -> Seq(AllKeys)]]
    BY DEF SoundInv
  <2>2. Append(nfts[p.prov][p.owner], p.key) \in Seq(AllKeys)
    BY <1>3, <2>1
  <2>3. [nfts EXCEPT ![p.prov][p.owner] = Append(@, p.key)]
          \in [Providers -> [Addresses -> Seq(AllKeys)]]
    BY <1>3, <2>1, <2>2
  <2>4. QED
    BY <2>1, <2>3 DEF Open
<1>5. QED
  BY <1>1, <1>2, <1>4, MoveKeeps DEF SoundInv

LEMMA CloseKeeps ==
  ASSUME SoundInv, NEW p \in Positions, Close(p)
  PROVE  SoundInv'
<1>1. Move /\ open' = open \ {p} /\ UNCHANGED <<nfts, minted>>
  BY DEF Close
<1>2. IsFiniteSet(open')
  BY <1>1, FS_Subset DEF SoundInv
<1>3. QED
  BY <1>1, <1>2, MoveKeeps DEF SoundInv

LEMMA ResizeKeeps ==
  ASSUME SoundInv, NEW p \in Positions, NEW left, Resize(p, left)
  PROVE  SoundInv'
BY MoveKeeps DEF SoundInv, Resize

\* The gap of a token that leaves is filled with the last.
LEMMA DropNftType ==
  ASSUME NEW s \in Seq(AllKeys), NEW k
  PROVE  DropNft(s, k) \in Seq(AllKeys)
<1> DEFINE I == {i \in 1..Len(s) : s[i] = k}
           i == SelectInSeq(s, LAMBDA x : x = k)
<1>1. i = IF I # {} THEN Min(I) ELSE 0
  BY DEF SelectInSeq
<1>2. I \subseteq Nat /\ I \subseteq 1..Len(s)
  OBVIOUS
<1>3. I # {} => Min(I) \in 1..Len(s)
  BY <1>2, LeastElement
<1>4. DropNft(s, k) = IF i = 0 THEN s ELSE SubSeq([s EXCEPT ![i] = s[Len(s)]], 1, Len(s) - 1)
  BY DEF DropNft
<1> HIDE DEF I, i
<1>5. CASE i = 0
  BY <1>4, <1>5
<1>6. CASE i # 0
  <2>1. i \in 1..Len(s) /\ Len(s) \in 1..Len(s) /\ s[Len(s)] \in AllKeys
    BY <1>1, <1>3, <1>6
  <2> DEFINE r == [s EXCEPT ![i] = s[Len(s)]]
  <2>2. r \in Seq(AllKeys) /\ Len(r) = Len(s)
    BY <2>1, SeqExcept
  <2> HIDE DEF r
  <2>3. SubSeq(r, 1, Len(s) - 1) \in Seq(AllKeys)
    BY <2>2
  <2>4. QED
    BY <1>4, <1>6, <2>3 DEF r
<1>7. QED
  BY <1>5, <1>6

LEMMA TransferKeeps ==
  ASSUME SoundInv, NEW p \in Positions, NEW o \in Addresses, Transfer(p, o)
  PROVE  SoundInv'
<1>1. /\ Move /\ o # p.owner
      /\ open' = (open \ {p}) \cup {Pos(p.prov, p.key, o)}
      /\ UNCHANGED minted
  BY DEF Transfer, HandedOver
<1>2. p.prov \in Providers /\ p.owner \in Addresses /\ p.key \in AllKeys
  BY DEF Positions
<1>3. Pos(p.prov, p.key, o) \in Positions
  BY <1>2 DEF Pos, Positions
<1>4. IsFiniteSet(open')
  <2>1. IsFiniteSet(open \ {p})
    BY FS_Subset DEF SoundInv
  <2>2. QED
    BY <1>1, <2>1, FS_AddElement
<1>5. nfts' \in [Providers -> [Addresses -> Seq(AllKeys)]]
  <2> DEFINE F == [Addresses -> Seq(AllKeys)]
             a == DropNft(nfts[p.prov][p.owner], p.key)
             m == [nfts EXCEPT ![p.prov][p.owner] = a]
             b == Append(m[p.prov][o], p.key)
  <2>1. nfts \in [Providers -> F]
    BY DEF SoundInv
  <2>2. a \in Seq(AllKeys)
    BY <1>2, <2>1, DropNftType
  <2>3. m \in [Providers -> F]
    BY <1>2, <2>1, <2>2
  <2>4. b \in Seq(AllKeys)
    <3> HIDE DEF m
    <3>1. m[p.prov][o] \in Seq(AllKeys)
      BY <1>2, <2>3
    <3>2. QED
      BY <1>2, <3>1
  <2>5. [m EXCEPT ![p.prov][o] = b] \in [Providers -> F]
    <3> HIDE DEF m, b
    <3>1. QED
      BY <1>2, <2>3, <2>4
  <2>6. nfts' = nfts \/ nfts' = [m EXCEPT ![p.prov][o] = b]
    BY DEF Transfer
  <2> HIDE DEF m, b
  <2>7. QED
    BY <2>1, <2>5, <2>6
<1>6. QED
  BY <1>1, <1>3, <1>4, <1>5, MoveKeeps DEF SoundInv

\* The user adds a provider, or changes one.
LEMMA DialogueKeeps ==
  ASSUME SoundInv, NEW pr \in Providers, Dialogue(pr)
  PROVE  SoundInv'
<1>1. /\ User /\ providers' \in {providers, providers \cup {pr}}
      /\ UNCHANGED <<store, raced>>
  BY DEF Dialogue, DlgLP_V2_add, DlgLP_V3_add, DlgLP_V4_add, DlgStakingAdd, DlgLP_V2_edit,
         DlgLP_V3_edit, DlgLP_V4_edit, DlgStakingEdit, AddProvider, EditProvider
<1>2. Allowed \subseteq Allowed' /\ providers' \subseteq Providers
  BY <1>1 DEF Allowed, SoundInv
<1>3. Sane(version, Allowed, Unclean(disc))
  BY UncleanSane DEF SoundInv
<1>4. Sane(version, Allowed', Unclean(disc)) /\ Kept(version, store, objs, Allowed')
  BY <1>2, <1>3, SaneMore, KeptMore DEF SoundInv
<1>5. QED
  BY <1>1, <1>2, <1>4 DEF SoundInv, User

\* A provider goes with all its positions, or a discovery may bring some back.
LEMMA RemoveProviderKeeps ==
  ASSUME SoundInv, NEW pr \in Providers, RemoveProvider(pr)
  PROVE  SoundInv'
<1>1. /\ providers' = providers \ {pr}
      /\ store' = RemoveOf(store, objs, pr)
      /\ raced' = IF disc.pc = "idle" THEN raced ELSE raced \cup {pr}
      /\ disc' = Unclean(disc)
      /\ UNCHANGED <<version, mode, open, nfts, minted, objs>>
  BY DEF RemoveProvider, User
<1>2. Kept(version, store', objs, Allowed \ {pr})
  BY <1>1, RemoveOfKeeps DEF SoundInv
<1>3. Allowed \ {pr} \subseteq Allowed' /\ (disc.pc # "idle" => Allowed \subseteq Allowed')
  BY <1>1 DEF Allowed
<1>4. Kept(version, store', objs, Allowed')
  BY <1>2, <1>3, KeptMore
<1>5. Sane(version, Allowed', disc)
  BY <1>3, SaneMore DEF SoundInv
<1>6. Sane(version, Allowed', disc')
  BY <1>1, <1>5, UncleanSane
<1>7. providers' \subseteq Providers /\ raced' \subseteq Providers
  BY <1>1 DEF SoundInv
<1>8. QED
  BY <1>1, <1>4, <1>6, <1>7 DEF SoundInv

\* A step that leaves providers, chain and positions as they are, and takes at most a
\* position out, or sorts them.
Quiet ==
  /\ UNCHANGED <<version, open, nfts, minted, providers, objs, raced>>
  /\ disc' \in {disc, Unclean(disc)}
  /\ \/ store' \in Sorted(store) \cup {store}
     \/ \E w, p : store' = RemovePosition(w, store, objs, p)

LEMMA QuietKeeps ==
  ASSUME SoundInv, Quiet
  PROVE  SoundInv'
<1>1. Sane(version, Allowed, disc')
  <2>1. Sane(version, Allowed, disc)
    BY DEF SoundInv
  <2>2. Sane(version, Allowed, Unclean(disc))
    BY <2>1, UncleanSane
  <2>3. QED
    BY <2>1, <2>2 DEF Quiet
<1>2. Kept(version, store', objs, Allowed)
  BY RemoveKeeps, SortKeeps DEF SoundInv, Quiet
<1>3. QED
  BY <1>1, <1>2 DEF SoundInv, Quiet, Allowed

LEMMA DiscoverKeeps ==
  ASSUME SoundInv, NEW f \in SUBSET (Keys \cup Vaults), Discover(f)
  PROVE  SoundInv'
<1> DEFINE c == ~\E u \in Updaters : Stale(u)
           d == [NoDisc EXCEPT !.pc = "provider", !.left = providers, !.filter = f,
                               !.clean = c]
<1>1. disc' = d /\ DiscUnchanged /\ UNCHANGED <<store, objs>>
  BY DEF Discover
<1>2. c \in BOOLEAN
  OBVIOUS
<1>3. NoDisc \in Discoveries /\ NoDisc.loop = "address"
  BY NoDiscSane DEF Sane, NoDisc
<1>4. providers \in SUBSET Providers /\ f \in SUBSET AllKeys /\ providers \subseteq Allowed
  BY DEF SoundInv, AllKeys, Allowed
<1> HIDE DEF c
<1>5. Sane(version, Allowed, d)
  BY <1>2, <1>3, <1>4 DEF Sane, Discoveries
<1> HIDE DEF d
<1>6. QED
  BY <1>1, <1>5 DEF SoundInv, DiscUnchanged, Allowed

LEMMA DiscoverSingleKeeps ==
  ASSUME SoundInv, NEW pr \in Providers, NEW k \in Keys, DiscoverSingle(pr, k)
  PROVE  SoundInv'
<1>1. PICK o \in HolderOf(pr, k) :
        disc' = [NoDisc EXCEPT !.pc = "single", !.prov = pr, !.todo = <<k>>,
                               !.owners = <<o>>, !.clean = FALSE]
  BY DEF DiscoverSingle
<1>2. pr \in providers /\ DiscUnchanged /\ UNCHANGED <<store, objs>>
  BY DEF DiscoverSingle
<1>3. NoDisc \in Discoveries /\ NoDisc.loop = "address"
  BY NoDiscSane DEF Sane, NoDisc
<1>4. NoDisc.left = {}
  BY DEF NoDisc
<1>5. o \in Addresses /\ k \in AllKeys /\ pr \in Allowed
  BY <1>1, <1>2 DEF HolderOf, AllKeys, Allowed
<1>6. /\ <<o>> \in Seq(Addresses) /\ <<o>> # <<>>
      /\ <<k>> \in Seq(AllKeys) /\ <<k>> # <<>>
  BY <1>5
<1> DEFINE os == <<o>>
           ks == <<k>>
<1>7. /\ os \in Seq(Addresses) /\ os # <<>> /\ ks \in Seq(AllKeys) /\ ks # <<>>
      /\ disc' = [NoDisc EXCEPT !.pc = "single", !.prov = pr, !.todo = ks,
                                !.owners = os, !.clean = FALSE]
  BY <1>1, <1>6
<1> HIDE DEF os, ks
<1>8. Sane(version, Allowed, disc')
  BY <1>3, <1>4, <1>5, <1>7 DEF Sane, Discoveries
<1>9. QED
  BY <1>2, <1>8 DEF SoundInv, DiscUnchanged, Allowed

\* The passes of the pane, and what starts them.
LEMMA PaneKeeps ==
  ASSUME SoundInv, NEW u \in Updaters, Pass(u) \/ Listen(u) \/ WakeUp(u)
  PROVE  SoundInv'
<1>1. CASE WakeUp(u)
  <2>1. Quiet
    BY <1>1 DEF WakeUp, Begin, PaneUnchanged, Quiet
  <2>2. QED
    BY <2>1, QuietKeeps
<1>2. CASE Listen(u)
  <2>1. Quiet
    BY <1>2 DEF Listen, scheduleUpdateV2, scheduleUpdateV3, scheduleUpdateV4, processStaking,
                ScheduleUpdate, Begin, PaneUnchanged, Quiet
  <2>2. QED
    BY <2>1, QuietKeeps
<1>3. CASE Pass(u)
  <2>1. \/ ListStep(u) \/ RemovedAtOnce(u) \/ RemovedLater(u) \/ DeleteClosed(u)
        \/ Printed(u) \/ StrangersRemoved(u)
    BY <1>3 DEF Pass, updateListV2, updateListV3, updateListV4, updateListStaking, list
  <2>2. CASE ListStep(u) \/ RemovedLater(u) \/ Printed(u)
    <3>1. Quiet
      BY <2>2 DEF ListStep, AskStatus, Listed, Skipped, Show, RemovedLater, Printed, Proceed,
                  PaneUnchanged, Quiet
    <3>2. QED
      BY <3>1, QuietKeeps
  <2>3. CASE RemovedAtOnce(u) \/ StrangersRemoved(u) \/ DeleteClosed(u)
    <3>1. \E p : /\ store' = RemovePosition(version, store, objs, p)
                 /\ PaneUnchanged /\ disc' \in {disc, Unclean(disc)}
      BY <2>3 DEF RemovedAtOnce, StrangersRemoved, DeleteClosed, TakeOut
    <3>2. Quiet
      BY <3>1 DEF PaneUnchanged, Quiet
    <3>3. QED
      BY <3>2, QuietKeeps
  <2>4. QED
    BY <2>1, <2>2, <2>3
<1>4. QED
  BY <1>1, <1>2, <1>3

LEMMA UserKeeps ==
  ASSUME SoundInv, LP_V2_Process \/ LP_V3_Process \/ LP_V4_Process \/ Staking_Process
  PROVE  SoundInv'
<1>1. \/ Command
      \/ \E p \in Positions : DeletePosition(p)
      \/ \E u \in Updaters : ListPositions(u)
      \/ \E pr \in Providers, k \in Keys : DiscoverSingle(pr, k)
  BY DEF LP_V2_Process, LP_V3_Process, LP_V4_Process, Staking_Process
<1>2. CASE Command
  <2>1. CASE SwitchPane \/ \E k \in Keys : IgnoreToken(k)
    <3>1. Quiet
      BY <2>1 DEF SwitchPane, IgnoreToken, User, Quiet
    <3>2. QED
      BY <3>1, QuietKeeps
  <2>2. QED
    BY <1>2, <2>1, RemoveProviderKeeps, DiscoverKeeps DEF Command
<1>3. CASE \/ \E p \in Positions : DeletePosition(p)
           \/ \E u \in Updaters : ListPositions(u)
  <2>1. Quiet
    BY <1>3 DEF DeletePosition, ListPositions, User, Quiet
  <2>2. QED
    BY <2>1, QuietKeeps
<1>4. QED
  BY <1>1, <1>2, <1>3, DiscoverSingleKeeps

LEMMA StepKeeps ==
  ASSUME SoundInv, [Next]_vars
  PROVE  SoundInv'
<1>1. CASE \E p \in Positions : Open(p) \/ Close(p)
  BY <1>1, OpenKeeps, CloseKeeps
<1>2. CASE \E p \in Positions, o \in Addresses : Transfer(p, o)
  BY <1>2, TransferKeeps
<1>3. CASE \E pr \in Providers : Dialogue(pr)
  BY <1>3, DialogueKeeps
<1>8. CASE \E p \in Positions, left \in {"liquidity", "fees", "owed"} : Resize(p, left)
  BY <1>8, ResizeKeeps
<1>4. CASE \E u \in Updaters : Pass(u) \/ Listen(u) \/ WakeUp(u)
  BY <1>4, PaneKeeps
<1>5. CASE Elapse \/ PriceUpdated
  <2>1. Quiet
    BY <1>5 DEF Elapse, PriceUpdated, PaneUnchanged, Quiet
  <2>2. QED
    BY <2>1, QuietKeeps
<1>6. CASE UNCHANGED vars
  BY <1>6 DEF vars, SoundInv, Allowed
<1>7. QED
  BY <1>1, <1>2, <1>3, <1>4, <1>5, <1>6, <1>8, UserKeeps, DiscoveryKeeps DEF Next

\* At the start the wallet is as it was opened, and nothing has been discovered.
LEMMA InitKeeps == Init => SoundInv
<1> SUFFICES ASSUME Init PROVE SoundInv
  OBVIOUS
<1>1. PICK w \in Worlds :
        /\ version = w.version
        /\ open = w.open
        /\ minted = w.open \cup Range(w.stored)
        /\ nfts = [pr \in Providers |-> [o \in Addresses |->
             IF NFTs(w.version)
             THEN SetToSeq(KeysOf({p \in w.open : p.prov = pr /\ p.owner = o})) ELSE <<>>]]
        /\ providers = w.known
        /\ objs = w.stored
        /\ store = [arr |-> [i \in 1..Len(w.stored) |-> i], len |-> Len(w.stored)]
        /\ disc = NoDisc
        /\ raced = {}
  BY DEF Init
<1>2. IsWorld(w)
  BY WorldsAssumption
<1>3. /\ version \in Versions
      /\ open \subseteq Positions /\ IsFiniteSet(open)
      /\ minted \subseteq Positions
      /\ providers \subseteq Providers /\ raced \subseteq Providers
      /\ objs \in Seq(Positions)
      /\ \A i, j \in DOMAIN objs :
           objs[i].prov \in providers /\ (i # j => ~SameAs(version, objs[i], objs[j]))
  <2>1. Range(w.stored) \subseteq Positions
    BY <1>2 DEF IsWorld, Range
  <2>2. QED
    BY <1>1, <1>2, <2>1 DEF IsWorld
<1>4. nfts \in [Providers -> [Addresses -> Seq(AllKeys)]]
  <2> DEFINE held(pr, o) == {p \in w.open : p.prov = pr /\ p.owner = o}
             tokens(pr, o) == IF NFTs(w.version) THEN SetToSeq(KeysOf(held(pr, o))) ELSE <<>>
  <2>1. nfts = [pr \in Providers |-> [o \in Addresses |-> tokens(pr, o)]]
    BY <1>1
  <2>2. \A pr, o : held(pr, o) \subseteq w.open
    OBVIOUS
  <2> HIDE DEF held
  <2>3. ASSUME NEW pr, NEW o PROVE SetToSeq(KeysOf(held(pr, o))) \in Seq(AllKeys)
    <3>1. held(pr, o) \subseteq Positions /\ IsFiniteSet(held(pr, o))
      BY <1>1, <1>3, <2>2, FS_Subset
    <3>2. QED
      BY <3>1, KeysMakeSeq
  <2>4. <<>> \in Seq(AllKeys)
    OBVIOUS
  <2>5. \A pr, o : tokens(pr, o) \in Seq(AllKeys)
    BY <2>3, <2>4
  <2> HIDE DEF tokens
  <2>6. QED
    BY <2>1, <2>5
<1>5. Kept(version, store, objs, Allowed)
  <2> DEFINE n == Len(objs)
             a == [i \in 1..n |-> i]
  <2>1. store = [arr |-> a, len |-> n] /\ n \in Nat /\ DOMAIN objs = 1..n
    BY <1>1, <1>3
  <2>2. a \in Seq(1..n) /\ Len(a) = n
    BY <2>1
  <2>3. \A i \in 1..n : a[i] = i
    OBVIOUS
  <2> HIDE DEF a
  <2>4. store.arr = a /\ store.len = n
    BY <2>1
  <2>5. IsStore(store, objs)
    BY <2>1, <2>2, <2>4 DEF IsStore
  <2>6. NoneTwice(version, store, objs)
    BY <1>3, <2>1, <2>3, <2>4 DEF NoneTwice
  <2>7. \A i \in 1..store.len : objs[store.arr[i]].prov \in Allowed
    BY <1>3, <2>1, <2>3, <2>4 DEF Allowed
  <2>8. QED
    BY <1>3, <2>5, <2>6, <2>7 DEF Kept
<1>6. QED
  BY <1>1, <1>3, <1>4, <1>5, NoDiscSane DEF SoundInv

\* What is kept is what the wallet promises.
LEMMA KeptIsSound == SoundInv => StoreSound
<1> SUFFICES ASSUME SoundInv PROVE StoreSound
  OBVIOUS
<1>1. /\ objs \in Seq(Positions) /\ IsStore(store, objs) /\ NoneTwice(version, store, objs)
      /\ \A i \in 1..store.len : objs[store.arr[i]].prov \in Allowed
  BY DEF SoundInv, Kept
<1>2. OnePerKey
  BY <1>1 DEF OnePerKey, NoneTwice, Same
<1>3. /\ Elements(store) \in Seq(1..Len(objs)) /\ Len(Elements(store)) = store.len
      /\ \A i \in 1..store.len : Elements(store)[i] = store.arr[i]
  BY <1>1, ElementsAre
<1>4. \A x \in Range(Elements(store)) : \E i \in 1..store.len : x = store.arr[i]
  BY <1>3 DEF Range
<1>5. NoOrphans
  BY <1>1, <1>4 DEF NoOrphans, Stored, Allowed
<1>6. QED
  BY <1>2, <1>5 DEF StoreSound

\* However discovery, passes of the pane, dialogues, commands and the chain interleave, the
\* wallet holds no position twice, and none of a provider that it does not know, but for
\* one that was removed while a discovery held it.
THEOREM StoreStaysSound == Spec => []StoreSound
<1>1. Init => SoundInv
  BY InitKeeps
<1>2. SoundInv /\ [Next]_vars => SoundInv'
  BY StepKeeps
<1>3. SoundInv => StoreSound
  BY KeptIsSound
<1>4. QED
  BY <1>1, <1>2, <1>3, PTL DEF Spec

-----------------------------------------------------------------------------
(***************************************************************************)
(* What is taken out: what a pass of the pane has been told of the positions *)
(* it holds, of a chain that has not changed since, stays true of what the *)
(* wallet keeps, and so does what a discovery knows of a stake.            *)
(***************************************************************************)
Passes(n) ==
  [pc : {"idle", "ask", "use", "show", "delete"}, i : Nat, n : Nat, live : BOOLEAN,
   own : Seq(1..n), x : Nat, got : {"none", "ok", "zero", "error", "stray", "stranger"},
   list : Seq(1..n), todel : Seq(1..n), fresh : BOOLEAN, cmd : BOOLEAN, strays : SUBSET Nat]

\* What the answer "zero" says of p, or of what the wallet keeps in its place.
Worthless(v, s, o, op, p) ==
  /\ v = "v2" => \A i \in 1..s.len : SameAs(v, p, o[s.arr[i]]) => o[s.arr[i]] \notin op
  /\ NFTs(v) => \A q \in op : q.prov = p.prov => q.key # p.key
  /\ v = "staking" => p \notin op

\* What a pass knows: all it holds are positions there were, and those it holds for worthless
\* are, as long as the chain has not changed: op is what is worth something, as far as the
\* pass looks. Only `lp_v3 list` takes out what the wallet does not know.
PassOK(v, s, o, op, q) ==
  /\ q \in Passes(Len(o))
  /\ q.pc \in {"ask", "use"} => q.i >= 1
  /\ q.pc = "use" => q.x \in 1..Len(o)
  /\ q.pc = "delete" => q.todel # <<>>
  /\ q.live => q.n <= Len(s.arr)
  /\ ~q.live => q.n <= Len(q.own)
  /\ q.fresh /\ q.pc = "use" /\ q.got = "zero" => Worthless(v, s, o, op, o[q.x])
  /\ q.fresh /\ NFTs(v) =>
       \A j \in 1..Len(q.todel) :
         q.todel[j] \in q.strays \/ Worthless(v, s, o, op, o[q.todel[j]])
  /\ q.cmd => v = "v3"
  /\ q.got \in {"stray", "stranger"} \/ q.strays # {} => q.cmd

PassInv == /\ DOMAIN upd = Updaters
           /\ \A u \in Updaters : PassOK(version, store, objs, Seen(upd[u].cmd), upd[u])

\* What a discovery has in hand: only stakings ask for stakes, and for validators by name.
HandOK(v, m, op, d) ==
  /\ d.pc = "stake" =>
       /\ v = "staking" /\ m = "plain"
       /\ ~d.has /\ d.fresh => Pos(d.prov, Plain, Head(d.owners)) \notin op
  /\ v = "staking" /\ d.pc = "add" =>
       m = "validators" /\ \A j \in 1..Len(d.todo) : d.todo[j] \in Keys
  /\ d.pc = "single" => v = "v4"

\* What the chain holds to: keys are of the kind the providers know, a vault is of one owner
\* and contract, and a contract that numbers its tokens numbers all that are open.
ChainInv ==
  /\ mode \in Modes[version]
  /\ \A p \in open \cup minted : p.key \in KeysOn(version, mode)
  /\ version = "staking" => open \subseteq minted
  /\ \A p, q \in minted : p.key = q.key /\ p.key \in Vaults => p = q
  /\ version = "staking" =>
       \A i \in 1..Len(objs) : /\ objs[i].key \in KeysOn(version, mode)
                               /\ objs[i].key \in Vaults => objs[i] \in minted
  /\ NFTs(version) =>
       \A p \in open : \E j \in 1..Len(nfts[p.prov][p.owner]) : nfts[p.prov][p.owner][j] = p.key

BudgetInv ==
  budget \in [moves : Nat, fails : Nat, rounds : Nat, user : Nat, passes : SUBSET Updaters]

HandInv == HandOK(version, mode, open, disc)

KeptIn(s, o) == {o[s.arr[i]] : i \in 1..s.len}

LEMMA StoredIs ==
  ASSUME NEW o \in Seq(Positions), NEW s, IsStore(s, o)
  PROVE  {o[x] : x \in Range(Elements(s))} = KeptIn(s, o)
<1>1. /\ Elements(s) \in Seq(1..Len(o)) /\ Len(Elements(s)) = s.len
      /\ \A i \in 1..s.len : Elements(s)[i] = s.arr[i]
  BY ElementsAre
<1>2. DOMAIN Elements(s) = 1..s.len
  BY <1>1
<1>3. Range(Elements(s)) = {s.arr[i] : i \in 1..s.len}
  BY <1>1, <1>2 DEF Range
<1>4. QED
  BY <1>3 DEF KeptIn

\* What a position taken out of the slice was.
LEMMA TakenOut ==
  ASSUME NEW o \in Seq(Positions), NEW s, IsStore(s, o), NEW i \in 1..s.len,
         NEW p \in KeptIn(s, o), p \notin KeptIn(Without(s, i), o)
  PROVE  p = o[s.arr[i]]
<1> DEFINE r == Without(s, i)
<1>1. s.len \in Nat
  BY DEF IsStore
<1>2. /\ r.len = s.len - 1
      /\ \A j \in 1..(s.len - 1) : r.arr[j] = IF i <= j THEN s.arr[j + 1] ELSE s.arr[j]
  BY WithoutIs
<1>3. PICK k \in 1..s.len : p = o[s.arr[k]]
  BY DEF KeptIn
<1> HIDE DEF r
<1>4. \A j \in 1..r.len : p # o[r.arr[j]]
  BY DEF KeptIn, r
<1>5. CASE k < i
  <2>1. k \in 1..(s.len - 1) /\ ~(i <= k)
    BY <1>1, <1>5
  <2>2. r.arr[k] = s.arr[k] /\ k \in 1..r.len
    BY <1>2, <2>1
  <2>3. QED
    BY <1>3, <1>4, <2>2
<1>6. CASE k > i
  <2>1. k - 1 \in 1..(s.len - 1) /\ i <= k - 1 /\ (k - 1) + 1 = k
    BY <1>1, <1>6
  <2>2. r.arr[k - 1] = s.arr[k] /\ k - 1 \in 1..r.len
    BY <1>2, <2>1
  <2>3. QED
    BY <1>3, <1>4, <2>2
<1>7. QED
  BY <1>1, <1>3, <1>5, <1>6

\* Remove*Position takes out one of the provider and the owner, and of the key, but for a
\* stake without a validator.
LEMMA RemovedIs ==
  ASSUME NEW v, NEW s, NEW o, NEW ps, Kept(v, s, o, ps), NEW w, NEW p,
         NEW r \in KeptIn(s, o), r \notin KeptIn(RemovePosition(w, s, o, p), o)
  PROVE  /\ r \in Positions /\ \E i \in 1..Len(o) : r = o[i]
         /\ r.prov = p.prov /\ r.owner = p.owner
         /\ w # "staking" \/ p.key \notin Unvalidated => r.key = p.key
<1> DEFINE i == Removable(w, s, o, p)
<1>1. o \in Seq(Positions) /\ IsStore(s, o)
  BY DEF Kept
<1>2. ASSUME NEW Ids PROVE /\ First(s, Ids) \in 0..s.len
                           /\ First(s, Ids) # 0 => s.arr[First(s, Ids)] \in Ids
  BY <1>1, FirstIs
<1>3. i # 0
  BY DEF RemovePosition
<1>4. i \in 0..s.len
  BY <1>2 DEF Removable, RemoveLPPosition, RemoveStakingPosition,
              RemoveStakingPositionWithValidator
<1>5. /\ s.arr[i] \in SameOwner(o, p)
      /\ w # "staking" \/ p.key \notin Unvalidated => s.arr[i] \in SameKey(o, p)
  BY <1>2, <1>3 DEF Removable, RemoveLPPosition, RemoveStakingPosition,
                    RemoveStakingPositionWithValidator
<1>6. RemovePosition(w, s, o, p) = Without(s, i)
  BY <1>3 DEF RemovePosition
<1> HIDE DEF i
<1>7. i \in 1..s.len
  BY <1>1, <1>3, <1>4 DEF IsStore
<1>8. r = o[s.arr[i]]
  BY <1>1, <1>6, <1>7, TakenOut
<1>9. s.arr[i] \in 1..Len(o)
  BY <1>1, <1>7, ElementsAre
<1>10. o[s.arr[i]] \in Positions
  BY <1>1, <1>9
<1>11. QED
  BY <1>5, <1>8, <1>9, <1>10 DEF SameOwner, SameKey

LEMMA RemoveShrinks ==
  ASSUME NEW v, NEW s, NEW o, NEW ps, Kept(v, s, o, ps), NEW w, NEW p
  PROVE  Shrinks(s, RemovePosition(w, s, o, p))
<1>1. o \in Seq(Positions) /\ IsStore(s, o) /\ s.len \in Nat
  BY DEF Kept, IsStore
<1>2. ASSUME NEW Ids PROVE First(s, Ids) \in 0..s.len
  BY <1>1, FirstIs
<1>3. Removable(w, s, o, p) \in 0..s.len
  BY <1>2 DEF Removable, RemoveLPPosition, RemoveStakingPosition,
              RemoveStakingPositionWithValidator
<1>4. CASE Removable(w, s, o, p) = 0
  BY <1>1, <1>4 DEF RemovePosition, Shrinks
<1>5. CASE Removable(w, s, o, p) # 0
  <2>1. Removable(w, s, o, p) \in 1..s.len
    BY <1>1, <1>3, <1>5
  <2>2. QED
    BY <1>1, <1>5, <2>1, WithoutShrinks DEF RemovePosition
<1>6. QED
  BY <1>4, <1>5

-----------------------------------------------------------------------------
\* A pass keeps what it knows when the wallet loses a position ...
LEMMA PassShrinks ==
  ASSUME NEW v, NEW s, NEW o, NEW op, NEW q, PassOK(v, s, o, op, q), NEW t, Shrinks(s, t)
  PROVE  PassOK(v, t, o, op, q)
<1>1. ASSUME NEW p, Worthless(v, s, o, op, p) PROVE Worthless(v, t, o, op, p)
  BY <1>1 DEF Worthless, Shrinks
<1>2. Len(t.arr) = Len(s.arr)
  BY DEF Shrinks
<1>3. QED
  BY <1>1, <1>2 DEF PassOK

\* ... knows nothing once the chain has moved ...
LEMMA PassMoves ==
  ASSUME NEW v, NEW s, NEW o, NEW op, NEW q, PassOK(v, s, o, op, q), NEW new
  PROVE  PassOK(v, s, o, new, [q EXCEPT !.fresh = FALSE])
<1>1. q \in Passes(Len(o))
  BY DEF PassOK
<1> DEFINE r == [q EXCEPT !.fresh = FALSE]
<1>2. /\ r \in Passes(Len(o)) /\ ~r.fresh
      /\ r.pc = q.pc /\ r.i = q.i /\ r.x = q.x /\ r.todel = q.todel /\ r.live = q.live
      /\ r.n = q.n /\ r.own = q.own /\ r.got = q.got /\ r.cmd = q.cmd /\ r.strays = q.strays
  BY <1>1 DEF Passes
<1> HIDE DEF r
<1>3. PassOK(v, s, o, new, r)
  BY <1>2 DEF PassOK
<1>4. QED
  BY <1>3 DEF r

\* What there is when p has been put in.
Added(v, s, o, p, t, n) ==
  /\ n \in Seq(Positions) /\ IsStore(t, n) /\ Len(n) >= Len(o)
  /\ \A i \in 1..Len(o) : /\ n[i].prov = o[i].prov /\ n[i].key = o[i].key
                          /\ v = "staking" => n[i] = o[i]
  /\ \A i \in (Len(o) + 1)..Len(n) : n[i] = p
  /\ KeptIn(t, n) \subseteq KeptIn(s, o) \cup {p}
  /\ \A q \in KeptIn(s, o) : \E r \in KeptIn(t, n) : SameAs(v, q, r)
  /\ v # "staking" \/ p.key \notin Unvalidated => p \in KeptIn(t, n)
  /\ \E r \in KeptIn(t, n) : r.prov = p.prov /\ r.owner = p.owner
  /\ LET i == Existing(v, s, o, p)
     IN (i # 0 => o[s.arr[i]].owner = p.owner) => KeptIn(s, o) \subseteq KeptIn(t, n)

LEMMA AppendAdds ==
  ASSUME NEW v, NEW s, NEW o \in Seq(Positions), IsStore(s, o), NEW p \in Positions
  PROVE  Added(v, s, o, p, With(s, Len(o) + 1), Append(o, p))
<1> DEFINE x == Len(o) + 1
           t == With(s, x)
           n == Append(o, p)
<1>1. /\ IsStore(t, n) /\ t.len = s.len + 1 /\ t.arr[s.len + 1] = x
      /\ \A j \in 1..s.len : t.arr[j] = s.arr[j]
  BY WithIs
<1>2. /\ n \in Seq(Positions) /\ Len(n) = x /\ n[x] = p /\ Len(o) \in Nat /\ s.len \in Nat
      /\ \A k \in 1..Len(o) : n[k] = o[k]
  BY DEF IsStore
<1>3. \A j \in 1..s.len : s.arr[j] \in 1..Len(o)
  BY ElementsAre
<1>4. Len(n) >= Len(o) /\ \A i \in (Len(o) + 1)..Len(n) : n[i] = p
  BY <1>2
<1> HIDE DEF t, n, x
<1>5. \A j \in 1..s.len : j \in 1..t.len /\ n[t.arr[j]] = o[s.arr[j]]
  BY <1>1, <1>2, <1>3
<1>6. s.len + 1 \in 1..t.len /\ n[t.arr[s.len + 1]] = p
  BY <1>1, <1>2
<1>7. \A j \in 1..t.len : j \in 1..s.len \/ j = s.len + 1
  BY <1>1, <1>2
<1>8. KeptIn(t, n) = KeptIn(s, o) \cup {p}
  BY <1>5, <1>6, <1>7 DEF KeptIn
<1>9. \A q : SameAs(v, q, q)
  BY DEF SameAs
<1>10. Added(v, s, o, p, t, n)
  BY <1>1, <1>2, <1>4, <1>8, <1>9 DEF Added
<1>11. QED
  BY <1>10 DEF t, n, x

LEMMA SamePosition ==
  ASSUME NEW p \in Positions, NEW q \in Positions,
         p.prov = q.prov, p.key = q.key, p.owner = q.owner
  PROVE  p = q
BY DEF Positions

LEMMA OwnerAdds ==
  ASSUME NEW v, v # "staking", NEW s, NEW o \in Seq(Positions), IsStore(s, o),
         NEW p \in Positions, GetPosition(s, o, p) # 0
  PROVE  Added(v, s, o, p, s, [o EXCEPT ![s.arr[GetPosition(s, o, p)]].owner = p.owner])
<1> DEFINE i == GetPosition(s, o, p)
           k == s.arr[i]
           n == [o EXCEPT ![k].owner = p.owner]
<1>1. i \in 0..s.len /\ k \in SameKey(o, p)
  BY FirstIs DEF GetPosition
<1>2. \A j \in 1..s.len : s.arr[j] \in 1..Len(o)
  BY ElementsAre
<1>3. i \in 1..s.len /\ k \in 1..Len(o)
  <2>1. s.len \in Nat
    BY DEF IsStore
  <2> HIDE DEF i
  <2>2. i \in 1..s.len
    BY <1>1, <2>1 DEF i
  <2>3. QED
    BY <1>2, <2>2
<1>4. i = Existing(v, s, o, p)
  BY DEF Existing
<1>5. o[k].prov = p.prov /\ o[k].key = p.key
  BY <1>1 DEF SameKey
<1> HIDE DEF i, k
<1> DEFINE e == [o[k] EXCEPT !.owner = p.owner]
<1>6. e = p
  <2>1. o[k] \in Positions
    BY <1>3
  <2>2. ASSUME NEW w \in Positions, w.prov = p.prov, w.key = p.key
        PROVE  [w EXCEPT !.owner = p.owner] = p
    <3> DEFINE z == [w EXCEPT !.owner = p.owner]
    <3>1. p.owner \in Addresses
      BY DEF Positions
    <3>2. z \in Positions /\ z.prov = p.prov /\ z.key = p.key /\ z.owner = p.owner
      BY <2>2, <3>1 DEF Positions
    <3> HIDE DEF z
    <3>3. z = p
      BY <3>2, SamePosition
    <3>4. QED
      BY <3>3 DEF z
  <2>3. \A w \in Positions : w.prov = p.prov /\ w.key = p.key => [w EXCEPT !.owner = p.owner] = p
    BY <2>2
  <2> DEFINE y == o[k]
  <2>4. e = [y EXCEPT !.owner = p.owner]
    OBVIOUS
  <2> HIDE DEF e
  <2>5. y \in Positions /\ y.prov = p.prov /\ y.key = p.key
    BY <1>5, <2>1
  <2> HIDE DEF y
  <2>6. QED
    BY <2>3, <2>4, <2>5
<1>7. n = [o EXCEPT ![k] = e]
  BY <1>3
<1> HIDE DEF e, n
<1>8. /\ n \in Seq(Positions) /\ Len(n) = Len(o)
      /\ \A j \in 1..Len(o) : n[j] = IF j = k THEN p ELSE o[j]
  <2>1. e \in Positions
    BY <1>6
  <2>2. QED
    BY <1>3, <1>6, <1>7, <2>1, SeqExcept
<1>9. \A j \in 1..Len(o) : n[j].prov = o[j].prov /\ n[j].key = o[j].key
  BY <1>5, <1>8
<1>10. IsStore(s, n)
  BY <1>8 DEF IsStore
<1>11. \A j \in 1..s.len : n[s.arr[j]] = p \/ n[s.arr[j]] = o[s.arr[j]]
  BY <1>2, <1>8
<1>12. KeptIn(s, n) \subseteq KeptIn(s, o) \cup {p}
  BY <1>11 DEF KeptIn
<1>13. p \in KeptIn(s, n)
  BY <1>3, <1>8 DEF KeptIn, k
<1>14. ASSUME NEW q \in KeptIn(s, o) PROVE \E r \in KeptIn(s, n) : SameAs(v, q, r)
  <2>1. PICK j \in 1..s.len : q = o[s.arr[j]]
    BY DEF KeptIn
  <2>2. SameAs(v, q, n[s.arr[j]])
    BY <1>2, <1>9, <2>1 DEF SameAs
  <2>3. QED
    BY <2>2 DEF KeptIn
<1>15. ASSUME o[k].owner = p.owner PROVE KeptIn(s, o) \subseteq KeptIn(s, n)
  <2>1. o[k] = p
    <3>1. o[k] \in Positions
      BY <1>3
    <3>2. QED
      BY <1>5, <1>15, <3>1 DEF Positions
  <2>2. \A j \in 1..s.len : n[s.arr[j]] = o[s.arr[j]]
    BY <1>2, <1>8, <2>1
  <2>3. QED
    BY <2>2 DEF KeptIn
<1>16. Len(n) >= Len(o) /\ \A j \in (Len(o) + 1)..Len(n) : n[j] = p
  <2>1. Len(o) \in Nat
    OBVIOUS
  <2>2. QED
    BY <1>8, <2>1
<1>17. (i # 0 => o[s.arr[i]].owner = p.owner) => KeptIn(s, o) \subseteq KeptIn(s, n)
  <2>1. i # 0
    BY DEF i
  <2>2. QED
    BY <1>15, <2>1 DEF k
<1>18. Added(v, s, o, p, s, n)
  BY <1>4, <1>8, <1>9, <1>10, <1>12, <1>13, <1>14, <1>16, <1>17 DEF Added
<1>19. QED
  BY <1>18 DEF n, k, i

LEMMA AddsIt ==
  ASSUME NEW v, NEW s, NEW o \in Seq(Positions), IsStore(s, o), NEW p \in Positions
  PROVE  Added(v, s, o, p, AddPosition(v, s, o, p).store, AddPosition(v, s, o, p).objs)
<1>1. CASE v # "staking"
  <2>1. CASE GetPosition(s, o, p) = 0
    <3>1. AddPosition(v, s, o, p) = [store |-> With(s, Len(o) + 1), saved |-> TRUE,
                                     objs |-> Append(o, p)]
      BY <1>1, <2>1 DEF AddPosition, AddLPPosition
    <3>2. QED
      BY <3>1, AppendAdds
  <2>2. CASE GetPosition(s, o, p) # 0
    <3>1. AddPosition(v, s, o, p) =
            [store |-> s, saved |-> TRUE,
             objs |-> [o EXCEPT ![s.arr[GetPosition(s, o, p)]].owner = p.owner]]
      BY <1>1, <2>2 DEF AddPosition, AddLPPosition
    <3> DEFINE n == [o EXCEPT ![s.arr[GetPosition(s, o, p)]].owner = p.owner]
    <3>2. Added(v, s, o, p, s, n)
      BY <1>1, <2>2, OwnerAdds
    <3> HIDE DEF n
    <3>3. AddPosition(v, s, o, p) = [store |-> s, saved |-> TRUE, objs |-> n]
      BY <3>1 DEF n
    <3>4. QED
      BY <3>2, <3>3
  <2>3. QED
    BY <2>1, <2>2
<1>2. CASE v = "staking"
  <2> DEFINE i == Existing("staking", s, o, p)
  <2>1. CASE i = 0
    <3>1. AddPosition(v, s, o, p) = [store |-> With(s, Len(o) + 1), saved |-> TRUE,
                                     objs |-> Append(o, p)]
      BY <1>2, <2>1 DEF AddPosition, AddStakingPosition
    <3>2. QED
      BY <3>1, AppendAdds
  <2>2. CASE i # 0
    <3>1. AddPosition(v, s, o, p) = [store |-> s, saved |-> FALSE, objs |-> o]
      BY <1>2, <2>2 DEF AddPosition, AddStakingPosition
    <3>2. ASSUME NEW Ids PROVE /\ First(s, Ids) \in 0..s.len
                               /\ First(s, Ids) # 0 => s.arr[First(s, Ids)] \in Ids
      BY FirstIs
    <3>3. /\ i \in 0..s.len
          /\ s.arr[i] \in SameOwner(o, p)
          /\ p.key \notin Unvalidated => s.arr[i] \in SameKey(o, p)
      BY <2>2, <3>2 DEF Existing, GetStakingPosition, GetStakingPositionWithValidator
    <3> HIDE DEF i
    <3>4. i \in 1..s.len /\ Len(o) \in Nat /\ s.len \in Nat
      <4>1. s.len \in Nat
        BY DEF IsStore
      <4>2. QED
        BY <2>2, <3>3, <4>1
    <3>5. s.arr[i] \in 1..Len(o)
      BY <3>4, ElementsAre
    <3> DEFINE r == o[s.arr[i]]
    <3>6. /\ r \in Positions /\ r \in KeptIn(s, o)
          /\ r.prov = p.prov /\ r.owner = p.owner
          /\ p.key \notin Unvalidated => r.key = p.key
      <4>1. r \in Positions
        BY <3>5
      <4>2. r \in KeptIn(s, o)
        BY <3>4 DEF KeptIn
      <4>3. QED
        BY <3>3, <4>1, <4>2 DEF SameOwner, SameKey
    <3> HIDE DEF r
    <3>7. p.key \notin Unvalidated => r = p
      BY <3>6 DEF Positions
    <3>8. \A q : SameAs(v, q, q)
      BY DEF SameAs
    <3>9. Len(o) >= Len(o) /\ (Len(o) + 1)..Len(o) = {}
      BY <3>4
    <3>10. Added(v, s, o, p, s, o)
      BY <1>2, <3>6, <3>7, <3>8, <3>9 DEF Added
    <3>11. QED
      BY <3>1, <3>10
  <2>3. QED
    BY <2>1, <2>2
<1>3. QED
  BY <1>1, <1>2

\* A pass after the slice s has become t, and perhaps a discovery has overtaken it.
After(s, t, q, b) ==
  [(IF Len(t.arr) # Len(s.arr) /\ q.live
    THEN [q EXCEPT !.live = FALSE, !.own = s.arr] ELSE q) EXCEPT !.fresh = @ /\ ~b]

\* ... and when a position is put in, what no discovery has overtaken.
LEMMA PassAdds ==
  ASSUME NEW v, NEW s, NEW o \in Seq(Positions), IsStore(s, o), NEW op, NEW p, NEW t, NEW n,
         Added(v, s, o, p, t, n), NEW q, PassOK(v, s, o, op, q),
         NEW b \in BOOLEAN, v = "v2" /\ p \in op /\ q.pc = "use" /\ SameAs(v, p, o[q.x]) => b
  PROVE  PassOK(v, t, n, op, After(s, t, q, b))
<1> DEFINE m == IF Len(t.arr) # Len(s.arr) /\ q.live
                THEN [q EXCEPT !.live = FALSE, !.own = s.arr] ELSE q
           r == [m EXCEPT !.fresh = @ /\ ~b]
<1>1. /\ q \in Passes(Len(o))
      /\ q.pc \in {"ask", "use"} => q.i >= 1
      /\ q.pc = "use" => q.x \in 1..Len(o)
      /\ q.pc = "delete" => q.todel # <<>>
      /\ q.live => q.n <= Len(s.arr)
      /\ ~q.live => q.n <= Len(q.own)
      /\ q.fresh /\ q.pc = "use" /\ q.got = "zero" => Worthless(v, s, o, op, o[q.x])
      /\ q.fresh /\ NFTs(v) =>
           \A j \in 1..Len(q.todel) :
             q.todel[j] \in q.strays \/ Worthless(v, s, o, op, o[q.todel[j]])
      /\ q.cmd => v = "v3"
      /\ q.got \in {"stray", "stranger"} \/ q.strays # {} => q.cmd
  BY DEF PassOK
<1>2. s.arr \in Seq(1..Len(o)) /\ Len(o) \in Nat
  BY DEF IsStore
<1>3. /\ n \in Seq(Positions) /\ IsStore(t, n) /\ Len(n) >= Len(o)
      /\ \A i \in 1..Len(o) : /\ n[i].prov = o[i].prov /\ n[i].key = o[i].key
                              /\ v = "staking" => n[i] = o[i]
      /\ KeptIn(t, n) \subseteq KeptIn(s, o) \cup {p}
  BY DEF Added
<1>4. \A w : w \in Seq(1..Len(o)) => w \in Seq(1..Len(n))
  <2>1. 1..Len(o) \subseteq 1..Len(n)
    BY <1>2, <1>3
  <2>2. QED
    BY <2>1, SeqOfMore
<1>5. m \in Passes(Len(o))
  BY <1>1, <1>2 DEF Passes
<1>6. /\ m.pc = q.pc /\ m.i = q.i /\ m.n = q.n /\ m.x = q.x /\ m.got = q.got
      /\ m.todel = q.todel /\ m.fresh = q.fresh /\ m.cmd = q.cmd /\ m.strays = q.strays
      /\ m.live => q.live /\ Len(t.arr) = Len(s.arr)
      /\ ~m.live => \/ ~q.live /\ m.own = q.own
                    \/ q.live /\ m.own = s.arr
  BY <1>1 DEF Passes
<1>7. m.fresh \in BOOLEAN
  BY <1>5 DEF Passes
<1> HIDE DEF r, m
<1>8. /\ r \in Passes(Len(n)) /\ r.fresh = (m.fresh /\ ~b)
      /\ r.pc = m.pc /\ r.i = m.i /\ r.n = m.n /\ r.x = m.x /\ r.got = m.got
      /\ r.todel = m.todel /\ r.live = m.live /\ r.own = m.own
      /\ r.cmd = m.cmd /\ r.strays = m.strays
  <2> DEFINE c == m.fresh /\ ~b
  <2>1. c \in BOOLEAN
    OBVIOUS
  <2> HIDE DEF c
  <2>2. r = [m EXCEPT !.fresh = c]
    BY <1>5 DEF Passes, r, c
  <2>3. /\ r \in Passes(Len(o)) /\ r.fresh = c
        /\ r.pc = m.pc /\ r.i = m.i /\ r.n = m.n /\ r.x = m.x /\ r.got = m.got
        /\ r.todel = m.todel /\ r.live = m.live /\ r.own = m.own
        /\ r.cmd = m.cmd /\ r.strays = m.strays
    BY <1>5, <2>1, <2>2 DEF Passes
  <2>4. r \in Passes(Len(n))
    BY <1>4, <2>3 DEF Passes
  <2>5. QED
    BY <2>3, <2>4 DEF c
<1>9. ASSUME NEW x \in 1..Len(o), Worthless(v, s, o, op, o[x]),
             v = "v2" => ~(p \in op /\ SameAs(v, p, o[x]))
      PROVE  Worthless(v, t, n, op, n[x])
  <2>1. n[x].prov = o[x].prov /\ n[x].key = o[x].key /\ (v = "staking" => n[x] = o[x])
    BY <1>3
  <2>2. ASSUME v = "v2", NEW i \in 1..t.len, SameAs(v, n[x], n[t.arr[i]])
        PROVE  n[t.arr[i]] \notin op
    <3>1. n[t.arr[i]] = p \/ n[t.arr[i]] \in KeptIn(s, o)
      BY <1>3 DEF KeptIn
    <3>2. SameAs(v, o[x], n[t.arr[i]]) /\ SameAs(v, n[t.arr[i]], o[x])
      BY <2>1, <2>2 DEF SameAs
    <3>3. \A z \in KeptIn(s, o) : SameAs(v, o[x], z) => z \notin op
      BY <1>9, <2>2 DEF Worthless, KeptIn
    <3>4. QED
      BY <1>9, <2>2, <3>1, <3>2, <3>3
  <2>3. QED
    BY <1>9, <2>1, <2>2 DEF Worthless
<1>10. r.fresh /\ r.pc = "use" /\ r.got = "zero" => Worthless(v, t, n, op, n[r.x])
  BY <1>1, <1>6, <1>8, <1>9
<1>11. r.fresh /\ NFTs(v) =>
         \A j \in 1..Len(r.todel) :
           r.todel[j] \in r.strays \/ Worthless(v, t, n, op, n[r.todel[j]])
  <2> SUFFICES ASSUME r.fresh, NFTs(v), NEW j \in 1..Len(r.todel), r.todel[j] \notin r.strays
               PROVE  Worthless(v, t, n, op, n[r.todel[j]])
    OBVIOUS
  <2>1. q.todel \in Seq(1..Len(o)) /\ j \in 1..Len(q.todel) /\ r.todel = q.todel
        /\ r.strays = q.strays
    BY <1>1, <1>6, <1>8 DEF Passes
  <2>2. q.todel[j] \in 1..Len(o)
    BY <2>1
  <2>3. v # "v2"
    BY DEF NFTs
  <2>4. Worthless(v, s, o, op, o[q.todel[j]])
    BY <1>1, <1>6, <1>8, <2>1
  <2>5. QED
    BY <1>9, <2>1, <2>2, <2>3, <2>4
<1>12. /\ r.live => r.n <= Len(t.arr)
       /\ ~r.live => r.n <= Len(r.own)
  BY <1>1, <1>6, <1>8
<1>13. r.pc = "use" => r.x \in 1..Len(n)
  BY <1>1, <1>2, <1>3, <1>6, <1>8
<1>14. /\ r.pc \in {"ask", "use"} => r.i >= 1
       /\ r.pc = "delete" => r.todel # <<>>
  BY <1>1, <1>6, <1>8
<1>15. /\ r.cmd => v = "v3"
       /\ r.got \in {"stray", "stranger"} \/ r.strays # {} => r.cmd
  BY <1>1, <1>6, <1>8
<1>16. PassOK(v, t, n, op, r)
  BY <1>8, <1>10, <1>11, <1>12, <1>13, <1>14, <1>15 DEF PassOK
<1>17. QED
  BY <1>16 DEF r, m, After

LEMMA AfterKeeps ==
  ASSUME NEW n, NEW q \in Passes(n), NEW s, NEW t, NEW b \in BOOLEAN
  PROVE  After(s, t, q, b).cmd = q.cmd
BY DEF After, Passes

LEMMA BudgetKeeps ==
  ASSUME BudgetInv, [Next]_vars
  PROVE  BudgetInv'
<1> DEFINE Spent == \/ UNCHANGED budget
                    \/ budget.moves > 0 /\ budget' = [budget EXCEPT !.moves = @ - 1]
                    \/ budget.fails > 0 /\ budget' = [budget EXCEPT !.fails = @ - 1]
                    \/ budget.rounds > 0 /\ budget' = [budget EXCEPT !.rounds = @ - 1]
                    \/ budget.user > 0 /\ budget' = [budget EXCEPT !.user = @ - 1]
<1> SUFFICES Spent
  BY DEF BudgetInv
<1>1. CASE \E p \in Positions : Open(p) \/ Close(p)
  BY <1>1 DEF Open, Close, Move
<1>2. CASE \/ \E p \in Positions, o \in Addresses : Transfer(p, o)
           \/ \E p \in Positions, left \in {"liquidity", "fees", "owed"} : Resize(p, left)
  BY <1>2 DEF Transfer, Resize, Move
<1>3. CASE \E pr \in Providers : Dialogue(pr)
  BY <1>3 DEF Dialogue, DlgLP_V2_add, DlgLP_V3_add, DlgLP_V4_add, DlgStakingAdd, DlgLP_V2_edit,
         DlgLP_V3_edit, DlgLP_V4_edit, DlgStakingEdit, AddProvider, EditProvider, User
<1>4. CASE LP_V2_Process \/ LP_V3_Process \/ LP_V4_Process \/ Staking_Process
  <2>1. \/ \E pr \in Providers : RemoveProvider(pr)
        \/ SwitchPane
        \/ \E p \in Positions : DeletePosition(p)
        \/ \E f \in SUBSET (Keys \cup Vaults) : Discover(f)
        \/ \E pr \in Providers, k \in Keys : DiscoverSingle(pr, k)
        \/ \E k \in Keys : IgnoreToken(k)
        \/ \E u \in Updaters : ListPositions(u)
    BY <1>4 DEF LP_V2_Process, LP_V3_Process, LP_V4_Process, Staking_Process, Command
  <2>2. CASE \E pr \in Providers : RemoveProvider(pr)
    BY <2>2 DEF RemoveProvider, User
  <2>3. CASE \/ SwitchPane \/ (\E p \in Positions : DeletePosition(p))
             \/ (\E k \in Keys : IgnoreToken(k)) \/ (\E u \in Updaters : ListPositions(u))
    BY <2>3 DEF SwitchPane, DeletePosition, IgnoreToken, ListPositions, User
  <2>4. CASE \E f \in SUBSET (Keys \cup Vaults) : Discover(f)
    BY <2>4 DEF Discover
  <2>5. CASE \E pr \in Providers, k \in Keys : DiscoverSingle(pr, k)
    BY <2>5 DEF DiscoverSingle
  <2>6. QED
    BY <2>1, <2>2, <2>3, <2>4, <2>5
<1>5. CASE DiscoveryStep
  <2>1. CASE StakingUpdate
    BY <2>1 DEF StakingUpdate, Go, GoAdd
  <2>2. CASE StakingBalance
    <3>1. (\E d : Go(d)) \/ (\E d : GoFailed(d))
      BY <2>2 DEF StakingBalance
    <3>2. QED
      BY <3>1 DEF Go, GoFailed, Fail, Failed
  <2>3. CASE (\E pr \in Providers : TakeProvider(pr)) \/ LastOwner \/ Finish \/ Probe
             \/ QueryV2Subgraph \/ QueryMints \/ QueryPairs \/ QueryBalances \/ AddFound
    <3>1. (\E d : Go(d)) \/ (\E d : GoFailed(d)) \/ (\E p, d : GoAdd(p, d))
      BY <2>3 DEF TakeProvider, LastOwner, Finish, Probe, QueryV2Subgraph, QueryMints,
                  QueryPairs, QueryBalances, AddFound
    <3>2. QED
      BY <3>1 DEF Go, GoFailed, GoAdd, Fail, Failed
  <2>4. CASE V3BalanceOf \/ V3TokenOfOwner \/ V3Details \/ V3Add
    <3>1. (\E d : Go(d)) \/ (\E d : GoFailed(d)) \/ (\E p, d : GoAdd(p, d))
      BY <2>4 DEF V3BalanceOf, V3TokenOfOwner, V3Details, V3Add
    <3>2. QED
      BY <3>1 DEF Go, GoFailed, GoAdd, Fail, Failed
  <2>5. CASE V4Query \/ V4TokenOfOwner \/ V4Details \/ V4Add \/ SingleAdd
    <3>1. (\E d : Go(d)) \/ (\E d : GoFailed(d)) \/ (\E p, d : GoAdd(p, d))
      BY <2>5 DEF V4Query, V4TokenOfOwner, V4Details, V4Add, SingleAdd
    <3>2. QED
      BY <3>1 DEF Go, GoFailed, GoAdd, Fail, Failed
  <2>6. CASE StakingVault \/ StakingDelegations \/ StakingAdd
    <3>1. (\E d : Go(d)) \/ (\E d : GoFailed(d)) \/ (\E p, d : GoAdd(p, d))
      BY <2>6 DEF StakingVault, StakingDelegations, StakingAdd
    <3>2. QED
      BY <3>1 DEF Go, GoFailed, GoAdd, Fail, Failed
  <2>7. QED
    BY <1>5, <2>1, <2>2, <2>3, <2>4, <2>5, <2>6 DEF DiscoveryStep
<1>6. CASE \E u \in Updaters : Pass(u) \/ Listen(u) \/ WakeUp(u)
  <2>1. PICK u \in Updaters : Pass(u) \/ Listen(u) \/ WakeUp(u)
    BY <1>6
  <2>2. CASE Listen(u) \/ WakeUp(u)
    BY <2>2 DEF Listen, scheduleUpdateV2, scheduleUpdateV3, scheduleUpdateV4, processStaking,
                ScheduleUpdate, WakeUp, Begin
  <2>3. CASE Pass(u)
    <3>1. AskStatus(u) \/ Listed(u) \/ Skipped(u) \/ Show(u) \/ RemovedAtOnce(u)
          \/ RemovedLater(u) \/ DeleteClosed(u) \/ Printed(u) \/ StrangersRemoved(u)
      BY <2>3 DEF Pass, updateListV2, updateListV3, updateListV4, updateListStaking, ListStep,
                  list
    <3>2. CASE AskStatus(u)
      BY <3>2 DEF AskStatus, Fail, Failed
    <3>3. CASE Listed(u) \/ Skipped(u) \/ Show(u) \/ RemovedLater(u) \/ Printed(u)
      BY <3>3 DEF Listed, Skipped, Show, RemovedLater, Printed, Proceed
    <3>4. CASE RemovedAtOnce(u) \/ DeleteClosed(u) \/ StrangersRemoved(u)
      BY <3>4 DEF RemovedAtOnce, DeleteClosed, StrangersRemoved, TakeOut
    <3>5. QED
      BY <3>1, <3>2, <3>3, <3>4
  <2>4. QED
    BY <2>1, <2>2, <2>3
<1>7. CASE Elapse \/ PriceUpdated \/ UNCHANGED vars
  BY <1>7 DEF Elapse, PriceUpdated, vars
<1>8. QED
  BY <1>1, <1>2, <1>3, <1>4, <1>5, <1>6, <1>7 DEF Next

-----------------------------------------------------------------------------
\* Steps that leave the chain and the positions as they are.
LEMMA ChainStays ==
  ASSUME ChainInv, UNCHANGED <<version, mode, open, nfts, minted, objs>>
  PROVE  ChainInv'
BY DEF ChainInv

LEMMA TokensStay ==
  ASSUME NEW s \in Seq(AllKeys), NEW k, NEW j \in 1..Len(s), s[j] # k
  PROVE  \E i \in 1..Len(DropNft(s, k)) : DropNft(s, k)[i] = s[j]
<1> DEFINE I == {i \in 1..Len(s) : s[i] = k}
           i == SelectInSeq(s, LAMBDA x : x = k)
           r == [s EXCEPT ![i] = s[Len(s)]]
<1>1. i = IF I # {} THEN Min(I) ELSE 0
  BY DEF SelectInSeq
<1>2. I \subseteq Nat /\ I \subseteq 1..Len(s)
  OBVIOUS
<1>3. I # {} => Min(I) \in 1..Len(s)
  BY <1>2, LeastElement
<1>4. I # {} => s[Min(I)] = k
  <2>1. I # {} => Min(I) \in I
    BY <1>2, LeastElement
  <2>2. QED
    BY <2>1
<1>5. DropNft(s, k) = IF i = 0 THEN s ELSE SubSeq(r, 1, Len(s) - 1)
  BY DEF DropNft
<1> HIDE DEF I, i
<1>6. CASE i = 0
  BY <1>5, <1>6
<1>7. CASE i # 0
  <2>1. i \in 1..Len(s) /\ s[i] = k /\ Len(s) \in 1..Len(s) /\ Len(s) \in Nat
    BY <1>1, <1>3, <1>4, <1>7
  <2>2. s[Len(s)] \in AllKeys
    BY <2>1
  <2>3. /\ r \in Seq(AllKeys) /\ Len(r) = Len(s)
        /\ \A l \in 1..Len(s) : r[l] = IF l = i THEN s[Len(s)] ELSE s[l]
    BY <2>1, <2>2, SeqExcept
  <2> HIDE DEF r
  <2> DEFINE n == Len(s) - 1
             t == SubSeq(r, 1, n)
  <2>4. n \in Nat /\ Len(t) = n /\ \A l \in 1..n : t[l] = r[l]
    BY <2>1, <2>3
  <2> HIDE DEF t
  <2>5. CASE j = Len(s)
    <3>1. i # j /\ i \in 1..n
      BY <2>1, <2>5
    <3>2. t[i] = s[j]
      BY <2>1, <2>3, <2>4, <2>5, <3>1
    <3>3. QED
      BY <1>5, <1>7, <2>4, <3>1, <3>2 DEF t
  <2>6. CASE j # Len(s)
    <3>1. i # j /\ j \in 1..n
      BY <2>1, <2>6
    <3>2. t[j] = s[j]
      BY <2>3, <2>4, <3>1
    <3>3. QED
      BY <1>5, <1>7, <2>4, <3>1, <3>2 DEF t
  <2>7. QED
    BY <2>5, <2>6
<1>8. QED
  BY <1>6, <1>7

\* The tokens of an owner, and the one after another of them.
Numbered(ns, p) == \E j \in 1..Len(ns[p.prov][p.owner]) : ns[p.prov][p.owner][j] = p.key

LEMMA AppendNumbers ==
  ASSUME NEW ns \in [Providers -> [Addresses -> Seq(AllKeys)]], NEW p \in Positions,
         NEW pr \in Providers, NEW o \in Addresses, NEW k \in AllKeys,
         Numbered(ns, p) \/ p = Pos(pr, k, o)
  PROVE  Numbered([ns EXCEPT ![pr][o] = Append(@, k)], p)
<1> DEFINE m == [ns EXCEPT ![pr][o] = Append(@, k)]
           s == ns[p.prov][p.owner]
<1>1. p.prov \in Providers /\ p.owner \in Addresses
  BY DEF Positions
<1>2. s \in Seq(AllKeys) /\ Len(s) \in Nat
  BY <1>1
<1>3. CASE p.prov = pr /\ p.owner = o
  <2>1. m[p.prov][p.owner] = Append(s, k)
    BY <1>1, <1>3
  <2>2. Len(Append(s, k)) = Len(s) + 1 /\ Append(s, k)[Len(s) + 1] = k
        /\ \A j \in 1..Len(s) : Append(s, k)[j] = s[j]
    BY <1>2
  <2> DEFINE a == Append(s, k)
  <2>3. Numbered(ns, p) => \E j \in 1..Len(s) : s[j] = p.key
    BY DEF Numbered
  <2> HIDE DEF a, s, m
  <2>4. CASE p = Pos(pr, k, o)
    <3>1. p.key = k /\ Len(s) + 1 \in 1..(Len(s) + 1)
      BY <1>2, <2>4 DEF Pos
    <3>2. QED
      BY <2>1, <2>2, <3>1 DEF Numbered, m
  <2>5. CASE Numbered(ns, p)
    <3>1. PICK j \in 1..Len(s) : s[j] = p.key
      BY <2>3, <2>5
    <3>2. j \in 1..(Len(s) + 1)
      BY <1>2, <3>1
    <3>3. QED
      BY <2>1, <2>2, <3>1, <3>2 DEF Numbered, m
  <2>6. QED
    BY <2>4, <2>5
<1>4. CASE ~(p.prov = pr /\ p.owner = o)
  <2>1. m[p.prov][p.owner] = s
    BY <1>1, <1>4
  <2>2. p # Pos(pr, k, o)
    BY <1>4 DEF Pos
  <2> HIDE DEF m
  <2>3. QED
    BY <2>1, <2>2 DEF Numbered, m
<1>5. QED
  BY <1>3, <1>4

LEMMA DropNumbers ==
  ASSUME NEW ns \in [Providers -> [Addresses -> Seq(AllKeys)]], NEW p \in Positions,
         NEW q \in Positions, Numbered(ns, p), p # q
  PROVE  Numbered([ns EXCEPT ![q.prov][q.owner] = DropNft(@, q.key)], p)
<1> DEFINE m == [ns EXCEPT ![q.prov][q.owner] = DropNft(@, q.key)]
           s == ns[p.prov][p.owner]
<1>1. p.prov \in Providers /\ p.owner \in Addresses
      /\ q.prov \in Providers /\ q.owner \in Addresses
  BY DEF Positions
<1>2. s \in Seq(AllKeys)
  BY <1>1
<1>3. PICK j \in 1..Len(s) : s[j] = p.key
  BY DEF Numbered
<1>4. CASE p.prov = q.prov /\ p.owner = q.owner
  <2>1. m[p.prov][p.owner] = DropNft(s, q.key)
    BY <1>1, <1>4
  <2>2. s[j] # q.key
    BY <1>3, <1>4, SamePosition
  <2>3. \E i \in 1..Len(DropNft(s, q.key)) : DropNft(s, q.key)[i] = s[j]
    <3> HIDE DEF s
    <3>1. QED
      BY <1>2, <1>3, <2>2, TokensStay
  <2> HIDE DEF m, s
  <2>4. QED
    BY <1>3, <2>1, <2>3 DEF Numbered, m
<1>5. CASE ~(p.prov = q.prov /\ p.owner = q.owner)
  <2>1. m[p.prov][p.owner] = s
    BY <1>1, <1>5
  <2> HIDE DEF m
  <2>2. QED
    BY <1>3, <2>1 DEF Numbered, m
<1>6. QED
  BY <1>4, <1>5

-----------------------------------------------------------------------------
LEMMA OpenChain ==
  ASSUME SoundInv, ChainInv, NEW p \in Positions, Open(p)
  PROVE  ChainInv'
<1>1. /\ open' = open \cup {p} /\ minted' = minted \cup {p}
      /\ p.key \in KeysOn(version, mode)
      /\ p.key \in Vaults => \A q \in minted : q.key = p.key => q = p
      /\ UNCHANGED <<version, mode, objs>>
  BY DEF Open, Move
<1>2. p.prov \in Providers /\ p.owner \in Addresses /\ p.key \in AllKeys
      /\ p = Pos(p.prov, p.key, p.owner)
  BY DEF Positions, Pos
<1>3. NFTs(version) => \A q \in open' : Numbered(nfts', q)
  <2> SUFFICES ASSUME NFTs(version), NEW q \in open' PROVE Numbered(nfts', q)
    OBVIOUS
  <2>1. /\ nfts \in [Providers -> [Addresses -> Seq(AllKeys)]]
        /\ q \in Positions
        /\ \A r \in open : Numbered(nfts, r)
    BY <1>1 DEF SoundInv, ChainInv, Numbered
  <2>2. CASE HolderOf(p.prov, p.key) = {}
    <3>1. nfts' = [nfts EXCEPT ![p.prov][p.owner] = Append(@, p.key)]
      BY <2>2 DEF Open
    <3>2. Numbered(nfts, q) \/ q = Pos(p.prov, p.key, p.owner)
      BY <1>1, <1>2, <2>1
    <3>3. QED
      BY <1>2, <2>1, <3>1, <3>2, AppendNumbers
  <2>3. CASE HolderOf(p.prov, p.key) # {}
    <3>1. nfts' = nfts
      BY <2>3 DEF Open
    <3>2. p.owner \in HolderOf(p.prov, p.key)
      BY <2>3 DEF Open
    <3>3. p.key \in Range(nfts[p.prov][p.owner])
      BY <3>2 DEF HolderOf
    <3>4. nfts[p.prov][p.owner] \in Seq(AllKeys)
      BY <1>2, <2>1
    <3>5. Numbered(nfts, p)
      BY <3>3, <3>4 DEF Range, Numbered
    <3>6. QED
      BY <1>1, <2>1, <3>1, <3>5
  <2>4. QED
    BY <2>2, <2>3
<1>4. \A a, b \in minted' : a.key = b.key /\ a.key \in Vaults => a = b
  BY <1>1 DEF ChainInv
<1>5. QED
  BY <1>1, <1>3, <1>4 DEF ChainInv, Numbered

LEMMA CloseChain ==
  ASSUME SoundInv, ChainInv, NEW p \in Positions, Close(p)
  PROVE  ChainInv'
<1>1. /\ open' = open \ {p}
      /\ UNCHANGED <<version, mode, nfts, minted, objs>>
  BY DEF Close, Move
<1>2. QED
  BY <1>1 DEF ChainInv

LEMMA TransferChain ==
  ASSUME SoundInv, ChainInv, NEW p \in Positions, NEW o \in Addresses, Transfer(p, o)
  PROVE  ChainInv'
<1> DEFINE t == Pos(p.prov, p.key, o)
<1>1. /\ open' = (open \ {p}) \cup {t} /\ p \in open /\ o # p.owner /\ version # "staking"
      /\ UNCHANGED <<version, mode, minted, objs>>
  BY DEF Transfer, HandedOver, Move
<1>2. p.prov \in Providers /\ p.owner \in Addresses /\ p.key \in AllKeys
  BY DEF Positions
<1>3. t \in Positions /\ t.key = p.key /\ t # p
  BY <1>1, <1>2 DEF Pos, Positions
<1>4. NFTs(version) => \A q \in open' : Numbered(nfts', q)
  <2> SUFFICES ASSUME NFTs(version), NEW q \in open' PROVE Numbered(nfts', q)
    OBVIOUS
  <2>1. /\ nfts \in [Providers -> [Addresses -> Seq(AllKeys)]]
        /\ \A r \in open : r \in Positions /\ Numbered(nfts, r)
    BY DEF SoundInv, ChainInv, Numbered
  <2> DEFINE m == [nfts EXCEPT ![p.prov][p.owner] = DropNft(@, p.key)]
  <2>2. nfts' = [m EXCEPT ![p.prov][o] = Append(@, p.key)]
    BY DEF Transfer
  <2>3. m \in [Providers -> [Addresses -> Seq(AllKeys)]]
    <3> DEFINE F == [Addresses -> Seq(AllKeys)]
               a == DropNft(nfts[p.prov][p.owner], p.key)
    <3>1. nfts[p.prov][p.owner] \in Seq(AllKeys)
      BY <1>2, <2>1
    <3>2. a \in Seq(AllKeys)
      BY <3>1, DropNftType
    <3> HIDE DEF a
    <3>3. [nfts EXCEPT ![p.prov][p.owner] = a] \in [Providers -> F]
      BY <1>2, <2>1, <3>2
    <3>4. QED
      BY <3>3 DEF a
  <2>4. q = t \/ Numbered(m, q)
    <3>1. q = t \/ (q \in Positions /\ Numbered(nfts, q) /\ q # p)
      BY <1>1, <2>1
    <3>2. QED
      BY <2>1, <3>1, DropNumbers
  <2>5. q \in Positions
    BY <1>1, <1>3, <2>1
  <2> HIDE DEF m
  <2>6. QED
    BY <1>2, <2>2, <2>3, <2>4, <2>5, AppendNumbers
<1>5. \A q \in open' : q = t \/ q \in open
  BY <1>1
<1>6. \A q \in open' : q.key \in KeysOn(version, mode)
  BY <1>1, <1>3, <1>5 DEF ChainInv
<1>7. QED
  BY <1>1, <1>4, <1>6 DEF ChainInv, Numbered

LEMMA ResizeChain ==
  ASSUME ChainInv, NEW p, NEW left, Resize(p, left)
  PROVE  ChainInv'
BY ChainStays DEF Resize, Move

WorthInv == ChainInv /\ PassInv /\ HandInv

\* What the wallet may be given: a stake of the kind its contract knows, a vault that is one.
Fits(p) == version = "staking" => /\ p.key \in KeysOn(version, mode)
                                  /\ p.key \in Vaults => p \in minted

LEMMA UncleanHand ==
  ASSUME NEW v, NEW m, NEW op, NEW d \in Discoveries, HandOK(v, m, op, d), NEW new
  PROVE  /\ HandOK(v, m, op, Unclean(d))
         /\ HandOK(v, m, new, [Unclean(d) EXCEPT !.fresh = FALSE])
         /\ HandOK(v, m, new, [d EXCEPT !.fresh = FALSE])
<1>1. /\ Unclean(d).pc = d.pc /\ Unclean(d).todo = d.todo /\ Unclean(d).has = d.has
      /\ Unclean(d).fresh = d.fresh /\ Unclean(d).prov = d.prov /\ Unclean(d).owners = d.owners
  BY DEF Unclean, Discoveries
<1> DEFINE r == [Unclean(d) EXCEPT !.fresh = FALSE]
           q == [d EXCEPT !.fresh = FALSE]
<1>2. /\ r.pc = d.pc /\ r.todo = d.todo /\ r.has = d.has /\ ~r.fresh
      /\ q.pc = d.pc /\ q.todo = d.todo /\ q.has = d.has /\ ~q.fresh
  BY DEF Unclean, Discoveries
<1> HIDE DEF r, q
<1>3. HandOK(v, m, new, r) /\ HandOK(v, m, new, q)
  BY <1>2 DEF HandOK
<1>4. HandOK(v, m, op, Unclean(d))
  BY <1>1 DEF HandOK
<1>5. QED
  BY <1>3, <1>4 DEF r, q

\* What a step of the discovery makes of it, and what is left when it is disturbed.
Hand(d) == HandOK(version, mode, open, d) /\ HandOK(version, mode, open, Unclean(d))

LEMMA GoWorth ==
  ASSUME WorthInv, NEW d, Hand(d), Go(d) \/ GoFailed(d)
  PROVE  WorthInv'
<1>1. HandOK(version, mode, open, d) /\ HandOK(version, mode, open, Unclean(d))
  BY DEF Hand
<1>2. /\ UNCHANGED <<version, mode, open, owed, dust, nfts, minted, objs, store, upd>>
      /\ disc' = d \/ disc' = Unclean(d)
  BY DEF Go, GoFailed, DiscUnchanged
<1>3. ChainInv'
  BY <1>2, ChainStays DEF WorthInv
<1>4. PassInv'
  BY <1>2 DEF WorthInv, PassInv, Seen
<1>5. QED
  BY <1>1, <1>2, <1>3, <1>4 DEF WorthInv, HandInv

LEMMA GoAddWorth ==
  ASSUME SoundInv, WorthInv, NEW p \in Positions, p.prov \in Allowed, Fits(p),
         NEW d, Hand(d), GoAdd(p, d)
  PROVE  /\ WorthInv'
         /\ Added(version, store, objs, p, store', objs')
<1> DEFINE r == AddPosition(version, store, objs, p)
<1>1. /\ store' = r.store /\ objs' = r.objs
      /\ upd' = [u \in Updaters |-> [Moved(r.store)[u] EXCEPT !.fresh = @ /\ ~Overtaken(u, p)]]
      /\ disc' = d \/ disc' = Unclean(d)
      /\ UNCHANGED <<version, mode, open, owed, dust, nfts, minted>>
  BY DEF GoAdd, DiscUnchanged
<1>2. objs \in Seq(Positions) /\ IsStore(store, objs)
  BY DEF SoundInv, Kept
<1>3. Added(version, store, objs, p, r.store, r.objs)
  BY <1>2, AddsIt
<1> HIDE DEF r
<1>4. Added(version, store, objs, p, store', objs')
  BY <1>1, <1>3
<1>5. ChainInv'
  <2>1. ASSUME version = "staking", NEW i \in 1..Len(objs')
        PROVE  /\ objs'[i].key \in KeysOn(version, mode)
               /\ objs'[i].key \in Vaults => objs'[i] \in minted
    <3>1. \/ i \in 1..Len(objs) /\ objs'[i] = objs[i]
          \/ i \in (Len(objs) + 1)..Len(objs') /\ objs'[i] = p
      <4>1. Len(objs) \in Nat
        BY <1>2
      <4>2. i \in 1..Len(objs) \/ i \in (Len(objs) + 1)..Len(objs')
        BY <4>1
      <4>3. QED
        BY <1>4, <2>1, <4>2 DEF Added
    <3>2. QED
      BY <2>1, <3>1 DEF WorthInv, ChainInv, Fits
  <2>2. QED
    BY <1>1, <2>1 DEF WorthInv, ChainInv
<1>6. HandInv'
  <2>1. HandOK(version, mode, open, d) /\ HandOK(version, mode, open, Unclean(d))
    BY DEF Hand
  <2>2. QED
    BY <1>1, <2>1 DEF HandInv
<1>7. PassInv'
  <2> SUFFICES ASSUME NEW u \in Updaters
               PROVE  PassOK(version, store', objs', Seen(upd'[u].cmd), upd'[u])
    BY <1>1 DEF PassInv, Seen
  <2> DEFINE b == Overtaken(u, p)
             q == upd[u]
             op == Seen(q.cmd)
  <2>1. PassOK(version, store, objs, op, q)
    BY DEF WorthInv, PassInv
  <2>2. b \in BOOLEAN
    BY DEF Overtaken
  <2>3. version = "v2" /\ p \in op /\ q.pc = "use" /\ SameAs(version, p, objs[q.x]) => b
    BY DEF Overtaken, Seen
  <2>4. upd'[u] = After(store, store', q, b)
    BY <1>1 DEF Moved, After
  <2> HIDE DEF b, q, op
  <2>5. PassOK(version, store', objs', op, After(store, store', q, b))
    BY <1>2, <1>4, <2>1, <2>2, <2>3, PassAdds
  <2>6. After(store, store', q, b).cmd = q.cmd
    BY <2>1, <2>2, AfterKeeps DEF PassOK
  <2>7. QED
    BY <2>4, <2>5, <2>6 DEF op
<1>8. QED
  BY <1>4, <1>5, <1>6, <1>7 DEF WorthInv

\* A stake that is gone takes its position with it.
StakeGone ==
  /\ disc.pc = "stake" /\ ~disc.has
  /\ store' = RemovePosition(version, store, objs, Pos(disc.prov, Plain, This))
  /\ disc' = NextOwner(disc)
  /\ DiscUnchanged
  /\ UNCHANGED <<objs, upd, budget>>

\* What a step of the discovery does.
Goes == \/ \E d : Hand(d) /\ (Go(d) \/ GoFailed(d))
        \/ \E p \in Positions : \E d : p.prov \in Allowed /\ Fits(p) /\ Hand(d) /\ GoAdd(p, d)
        \/ StakeGone

LEMMA NextOwnerHand ==
  ASSUME NEW d \in Discoveries
  PROVE  NextOwner(d).pc = d.loop /\ Hand(NextOwner(d)) /\ Hand(Abort)
<1> DEFINE w == NextOwner(d)
<1>1. w.pc = d.loop /\ d.loop \in {"address", "mints", "balances"} /\ Unclean(w).pc = w.pc
  BY DEF NextOwner, Discoveries, Unclean
<1>2. Abort.pc = "idle" /\ Unclean(Abort).pc = "idle"
  BY DEF Abort, NoDisc, Unclean
<1> HIDE DEF w
<1>3. QED
  BY <1>1, <1>2 DEF Hand, HandOK, w

LEMMA BeginsGoes ==
  ASSUME SoundInv, (\E pr \in Providers : TakeProvider(pr)) \/ LastOwner \/ Finish
  PROVE  Goes
<1>1. disc \in Discoveries
  BY DEF SoundInv, Sane
<1>2. CASE \E pr \in Providers : TakeProvider(pr)
  <2>1. PICK pr \in Providers : TakeProvider(pr)
    BY <1>2
  <2> DEFINE c == IF version # "staking" /\ pr \in beyond.dark THEN "provider"
                  ELSE IF mode = "vaults" THEN "vault"
                  ELSE IF version # "v2" THEN "address"
                  ELSE IF mode = "none" THEN "provider" ELSE "probe"
             d == [disc EXCEPT !.left = @ \ {pr}, !.prov = pr, !.owners = Owners,
                               !.loop = "address", !.pc = c]
  <2>2. Go(d)
    BY <2>1 DEF TakeProvider
  <2>3. c \in {"vault", "address", "provider", "probe"}
    OBVIOUS
  <2> HIDE DEF c
  <2>4. d.pc = c /\ Unclean(d).pc = c
    BY <1>1 DEF Discoveries, Unclean
  <2> HIDE DEF d
  <2>5. Hand(d)
    BY <2>3, <2>4 DEF Hand, HandOK
  <2>6. QED
    BY <2>2, <2>5 DEF Goes
<1>3. CASE LastOwner
  <2> DEFINE d == [disc EXCEPT !.pc = "provider"]
  <2>1. Go(d)
    BY <1>3 DEF LastOwner
  <2>2. d.pc = "provider" /\ Unclean(d).pc = "provider"
    BY <1>1 DEF Discoveries, Unclean
  <2> HIDE DEF d
  <2>3. QED
    BY <2>1, <2>2 DEF Goes, Hand, HandOK
<1>4. CASE Finish
  <2> DEFINE d == [NoDisc EXCEPT !.clean = disc.clean, !.fresh = disc.fresh]
  <2>1. Go(d)
    BY <1>4 DEF Finish
  <2>2. d.pc = "idle" /\ Unclean(d).pc = "idle"
    BY DEF NoDisc, Unclean
  <2> HIDE DEF d
  <2>3. QED
    BY <2>1, <2>2 DEF Goes, Hand, HandOK
<1>5. QED
  BY <1>2, <1>3, <1>4

LEMMA V2Goes ==
  ASSUME SoundInv, Probe \/ QueryV2Subgraph \/ QueryMints \/ QueryPairs \/ QueryBalances
  PROVE  Goes
<1>1. disc \in Discoveries /\ version # "staking"
  BY DEF SoundInv, Sane, Probe, QueryV2Subgraph, QueryMints, QueryPairs, QueryBalances, At
<1>2. Hand(NextOwner(disc))
  BY <1>1, NextOwnerHand
<1>3. ASSUME NEW c \in {"address", "mints", "provider", "pairs"}, NEW l,
             \/ Go([disc EXCEPT !.pc = c]) \/ GoFailed([disc EXCEPT !.pc = c])
             \/ Go([disc EXCEPT !.pc = c, !.loop = l])
      PROVE  Goes
  <2> DEFINE d == [disc EXCEPT !.pc = c]
             e == [disc EXCEPT !.pc = c, !.loop = l]
  <2>1. d.pc = c /\ e.pc = c /\ Unclean(d).pc = c /\ Unclean(e).pc = c
    BY <1>1 DEF Discoveries, Unclean
  <2> HIDE DEF d, e
  <2>2. Hand(d) /\ Hand(e)
    BY <2>1 DEF Hand, HandOK
  <2>3. QED
    BY <1>3, <2>2 DEF Goes, d, e
<1>4. ASSUME NEW q, Go([disc EXCEPT !.todo = q, !.pc = "add"])
      PROVE  Goes
  <2> DEFINE d == [disc EXCEPT !.todo = q, !.pc = "add"]
  <2>1. d.pc = "add" /\ Unclean(d).pc = "add"
    BY <1>1 DEF Discoveries, Unclean
  <2> HIDE DEF d
  <2>2. Hand(d)
    BY <1>1, <2>1 DEF Hand, HandOK
  <2>3. QED
    BY <1>4, <2>2 DEF Goes, d
<1>5. ASSUME NEW ks, NEW os, NEW l,
             \/ Go([disc EXCEPT !.pairs = ks, !.pc = "balances"])
             \/ Go([disc EXCEPT !.pairs = ks, !.owners = os, !.pc = "balances", !.loop = l])
      PROVE  Goes
  <2> DEFINE d == [disc EXCEPT !.pairs = ks, !.pc = "balances"]
             e == [disc EXCEPT !.pairs = ks, !.owners = os, !.pc = "balances", !.loop = l]
  <2>1. d.pc = "balances" /\ e.pc = "balances"
        /\ Unclean(d).pc = "balances" /\ Unclean(e).pc = "balances"
    BY <1>1 DEF Discoveries, Unclean
  <2> HIDE DEF d, e
  <2>2. Hand(d) /\ Hand(e)
    BY <2>1 DEF Hand, HandOK
  <2>3. QED
    BY <1>5, <2>2 DEF Goes, d, e
<1>6. CASE Probe
  BY <1>3, <1>6 DEF Probe
<1>7. CASE QueryV2Subgraph
  BY <1>2, <1>4, <1>7 DEF QueryV2Subgraph, Goes
<1>8. CASE QueryMints
  <2> DEFINE c == IF disc.filter = {} THEN "provider" ELSE "pairs"
  <2>1. \/ Go(NextOwner(disc)) \/ GoFailed([disc EXCEPT !.pc = c])
        \/ \E ks : Go([disc EXCEPT !.pairs = ks, !.pc = "balances"])
    BY <1>8 DEF QueryMints
  <2>2. c \in {"provider", "pairs"}
    OBVIOUS
  <2> HIDE DEF c
  <2>3. CASE Go(NextOwner(disc))
    BY <1>2, <2>3 DEF Goes
  <2>4. QED
    BY <1>3, <1>5, <2>1, <2>2, <2>3
<1>9. CASE QueryPairs
  BY <1>3, <1>5, <1>9 DEF QueryPairs
<1>10. CASE QueryBalances
  BY <1>2, <1>4, <1>10 DEF QueryBalances, Goes
<1>11. QED
  BY <1>6, <1>7, <1>8, <1>9, <1>10

LEMMA AddFoundGoes ==
  ASSUME SoundInv, AddFound
  PROVE  Goes
<1>1. disc \in Discoveries /\ disc.pc = "add" /\ version = "v2"
  BY DEF SoundInv, Sane, AddFound, At
<1>2. CASE disc.todo = <<>>
  BY <1>1, <1>2, NextOwnerHand DEF AddFound, Goes
<1>3. CASE disc.todo # <<>>
  <2> DEFINE p == Pos(disc.prov, Head(disc.todo), This)
             d == [disc EXCEPT !.todo = Tail(@)]
  <2>1. GoAdd(p, d)
    BY <1>3 DEF AddFound
  <2>2. p \in Positions /\ p.prov \in Allowed
    BY <1>1, <1>3, InHand DEF Pos
  <2>3. d.pc = "add" /\ Unclean(d).pc = "add"
    BY <1>1 DEF Discoveries, Unclean
  <2> HIDE DEF p, d
  <2>4. Hand(d) /\ Fits(p)
    BY <1>1, <2>3 DEF Hand, HandOK, Fits
  <2>5. QED
    BY <2>1, <2>2, <2>4 DEF Goes
<1>4. QED
  BY <1>2, <1>3

LEMMA V3Goes ==
  ASSUME SoundInv, V3BalanceOf \/ V3TokenOfOwner \/ V3Details
  PROVE  Goes
<1>1. disc \in Discoveries /\ version = "v3"
  BY DEF SoundInv, Sane, V3BalanceOf, V3TokenOfOwner, V3Details
<1>2. Hand(NextOwner(disc)) /\ Hand(Abort)
  BY <1>1, NextOwnerHand
<1>3. ASSUME NEW n, Go([disc EXCEPT !.n = n, !.i = 0, !.pc = "index"]) PROVE Goes
  <2> DEFINE d == [disc EXCEPT !.n = n, !.i = 0, !.pc = "index"]
  <2>1. d.pc = "index" /\ Unclean(d).pc = "index"
    BY <1>1 DEF Discoveries, Unclean
  <2> HIDE DEF d
  <2>2. QED
    BY <1>3, <2>1 DEF Goes, Hand, HandOK, d
<1>4. ASSUME NEW q, Go([disc EXCEPT !.todo = q, !.pc = "details"]) PROVE Goes
  <2> DEFINE d == [disc EXCEPT !.todo = q, !.pc = "details"]
  <2>1. d.pc = "details" /\ Unclean(d).pc = "details"
    BY <1>1 DEF Discoveries, Unclean
  <2> HIDE DEF d
  <2>2. QED
    BY <1>4, <2>1 DEF Goes, Hand, HandOK, d
<1>5. ASSUME Go([disc EXCEPT !.pc = "add"]) \/ Go(V3NextToken(disc)) PROVE Goes
  <2> DEFINE d == [disc EXCEPT !.pc = "add"]
             e == V3NextToken(disc)
  <2>1. /\ d.pc = "add" /\ Unclean(d).pc = "add"
        /\ e.pc = "index" /\ Unclean(e).pc = "index"
    BY <1>1 DEF Discoveries, Unclean, V3NextToken
  <2> HIDE DEF d, e
  <2>2. Hand(d) /\ Hand(e)
    BY <1>1, <2>1 DEF Hand, HandOK
  <2>3. QED
    BY <1>5, <2>2 DEF Goes, d, e
<1>6. CASE V3BalanceOf
  BY <1>2, <1>3, <1>6 DEF V3BalanceOf, Goes
<1>7. CASE V3TokenOfOwner
  <2>1. \/ Go(NextOwner(disc)) \/ Go(Abort) \/ GoFailed(Abort)
        \/ \E q : Go([disc EXCEPT !.todo = q, !.pc = "details"])
    BY <1>7 DEF V3TokenOfOwner
  <2>2. QED
    BY <1>2, <1>4, <2>1 DEF Goes
<1>8. CASE V3Details
  <2>1. \/ Go([disc EXCEPT !.pc = "add"]) \/ Go(V3NextToken(disc)) \/ GoFailed(Abort)
    BY <1>8 DEF V3Details
  <2>2. QED
    BY <1>2, <1>5, <2>1 DEF Goes
<1>9. QED
  BY <1>6, <1>7, <1>8

LEMMA V3AddGoes ==
  ASSUME SoundInv, V3Add
  PROVE  Goes
<1>1. disc \in Discoveries /\ disc.pc = "add" /\ version = "v3" /\ disc.todo # <<>>
  BY DEF SoundInv, Sane, V3Add, At
<1> DEFINE p == Pos(disc.prov, Head(disc.todo), This)
           d == V3NextToken(disc)
<1>2. GoAdd(p, d) \/ GoFailed(Abort)
  BY DEF V3Add
<1>3. p \in Positions /\ p.prov \in Allowed
  BY <1>1, InHand DEF Pos
<1>4. d.pc = "index" /\ Unclean(d).pc = "index"
  BY <1>1 DEF Discoveries, Unclean, V3NextToken
<1>5. Hand(Abort)
  BY <1>1, NextOwnerHand
<1> HIDE DEF p, d
<1>6. Hand(d) /\ Fits(p)
  BY <1>1, <1>4 DEF Hand, HandOK, Fits
<1>7. QED
  BY <1>2, <1>3, <1>5, <1>6 DEF Goes

LEMMA V4Goes ==
  ASSUME SoundInv, V4Query \/ V4TokenOfOwner \/ V4Details
  PROVE  Goes
<1>1. disc \in Discoveries /\ version = "v4"
  BY DEF SoundInv, Sane, V4Query, V4TokenOfOwner, V4Details
<1>2. Hand(NextOwner(disc))
  BY <1>1, NextOwnerHand
<1>3. ASSUME NEW n, Go([disc EXCEPT !.n = n, !.i = 0, !.pc = "index"]) PROVE Goes
  <2> DEFINE d == [disc EXCEPT !.n = n, !.i = 0, !.pc = "index"]
  <2>1. d.pc = "index" /\ Unclean(d).pc = "index"
    BY <1>1 DEF Discoveries, Unclean
  <2> HIDE DEF d
  <2>2. QED
    BY <1>3, <2>1 DEF Goes, Hand, HandOK, d
<1>4. ASSUME NEW q, Go([disc EXCEPT !.todo = q, !.pc = "details"]) PROVE Goes
  <2> DEFINE d == [disc EXCEPT !.todo = q, !.pc = "details"]
  <2>1. d.pc = "details" /\ Unclean(d).pc = "details"
    BY <1>1 DEF Discoveries, Unclean
  <2> HIDE DEF d
  <2>2. QED
    BY <1>4, <2>1 DEF Goes, Hand, HandOK, d
<1>5. ASSUME NEW c \in {"add", "details"}, Go([disc EXCEPT !.pc = c]) PROVE Goes
  <2> DEFINE d == [disc EXCEPT !.pc = c]
  <2>1. d.pc = c /\ Unclean(d).pc = c
    BY <1>1 DEF Discoveries, Unclean
  <2> HIDE DEF d
  <2>2. Hand(d)
    BY <1>1, <2>1 DEF Hand, HandOK
  <2>3. QED
    BY <1>5, <2>2 DEF Goes, d
<1>6. CASE V4Query
  <2>1. \/ GoFailed(NextOwner(disc))
        \/ \E q : Go([disc EXCEPT !.todo = q, !.pc = "details"])
        \/ \E n : Go([disc EXCEPT !.n = n, !.i = 0, !.pc = "index"])
    BY <1>6 DEF V4Query
  <2>2. QED
    BY <1>2, <1>3, <1>4, <2>1 DEF Goes
<1>7. CASE V4TokenOfOwner
  <2> DEFINE t == nfts[disc.prov][This][disc.i + 1]
             a == [disc EXCEPT !.i = @ + 1]
             b == [a EXCEPT !.todo = Append(@, t)]
  <2>1. \/ Go([disc EXCEPT !.pc = "details"]) \/ Go(a) \/ Go(b) \/ GoFailed(a)
    BY <1>7 DEF V4TokenOfOwner
  <2>2. /\ disc.pc = "index"
        /\ a.pc = disc.pc /\ Unclean(a).pc = disc.pc /\ b.pc = disc.pc /\ Unclean(b).pc = disc.pc
    BY <1>1, <1>7 DEF Discoveries, Unclean, V4TokenOfOwner, At
  <2> HIDE DEF a, b
  <2>3. Hand(a) /\ Hand(b)
    BY <2>2 DEF Hand, HandOK
  <2>4. QED
    BY <1>5, <2>1, <2>3 DEF Goes
<1>8. CASE V4Details
  <2> DEFINE a == [disc EXCEPT !.todo = Tail(@)]
  <2>1. \/ Go(NextOwner(disc)) \/ Go([disc EXCEPT !.pc = "add"]) \/ Go(a) \/ GoFailed(a)
    BY <1>8 DEF V4Details
  <2>2. /\ disc.pc = "details"
        /\ a.pc = disc.pc /\ Unclean(a).pc = disc.pc
    BY <1>1, <1>8 DEF Discoveries, Unclean, V4Details, At
  <2> HIDE DEF a
  <2>3. Hand(a)
    BY <2>2 DEF Hand, HandOK
  <2>4. QED
    BY <1>2, <1>5, <2>1, <2>3 DEF Goes
<1>9. QED
  BY <1>6, <1>7, <1>8

LEMMA V4AddGoes ==
  ASSUME SoundInv, WorthInv, V4Add \/ SingleAdd
  PROVE  Goes
<1>1. disc \in Discoveries /\ disc.pc \in {"add", "single"} /\ disc.todo # <<>>
      /\ version # "staking"
  BY DEF SoundInv, Sane, V4Add, SingleAdd, At, WorthInv, HandInv, HandOK
<1> DEFINE p == Pos(disc.prov, Head(disc.todo), This)
           d == [disc EXCEPT !.todo = Tail(@), !.pc = "details"]
<1>2. GoAdd(p, d) \/ GoAdd(p, Abort) \/ GoFailed(Abort)
  BY DEF V4Add, SingleAdd
<1>3. p \in Positions /\ p.prov \in Allowed
  BY <1>1, InHand DEF Pos
<1>4. d.pc = "details" /\ Unclean(d).pc = "details"
  BY <1>1 DEF Discoveries, Unclean
<1>5. Hand(Abort)
  BY <1>1, NextOwnerHand
<1> HIDE DEF p, d
<1>6. Hand(d) /\ Fits(p)
  BY <1>1, <1>4 DEF Hand, HandOK, Fits
<1>7. QED
  BY <1>2, <1>3, <1>5, <1>6 DEF Goes

\* ... and every one of them is in it.
LEMMA SetListed ==
  ASSUME NEW ks, IsFiniteSet(ks)
  PROVE  LET q == SetToSeq(ks)
         IN /\ \A j \in 1..Len(q) : q[j] \in ks
            /\ \A k \in ks : \E j \in 1..Len(q) : q[j] = k
<1> DEFINE n == Cardinality(ks)
           q == SetToSeq(ks)
<1>1. n \in Nat /\ ExistsBijection(1..n, ks)
  BY FS_CardinalityType
<1>2. \E g \in [1..n -> ks] : IsInjective(g)
  BY <1>1 DEF ExistsBijection, Bijection, Injection, IsInjective
<1>3. q \in [1..n -> ks] /\ IsInjective(q)
  BY <1>2 DEF SetToSeq
<1>4. q \in Injection(1..n, ks)
  BY <1>3 DEF Injection, IsInjective
<1>5. Cardinality(1..n) = n /\ IsFiniteSet(1..n)
  BY <1>1, FS_Interval
<1>6. q \in Surjection(1..n, ks)
  BY <1>4, <1>5, FS_Injection
<1>7. q \in Seq(ks) /\ Len(q) = n
  BY <1>1, <1>3, FunctionIsSeq
<1> HIDE DEF n, q
<1>8. \A j \in 1..Len(q) : q[j] \in ks
  BY <1>7
<1>9. \A k \in ks : \E j \in 1..n : q[j] = k
  BY <1>6 DEF Surjection
<1>10. QED
  BY <1>7, <1>8, <1>9 DEF q

LEMMA KeysListed ==
  ASSUME NEW ps, ps \subseteq Positions, IsFiniteSet(ps), NEW ks, ks \subseteq KeysOf(ps)
  PROVE  LET q == SetToSeq(ks)
         IN /\ \A j \in 1..Len(q) : q[j] \in ks
            /\ \A k \in ks : \E j \in 1..Len(q) : q[j] = k
<1> DEFINE f == [p \in ps |-> p.key]
<1>1. KeysOf(ps) = {f[p] : p \in ps}
  BY DEF KeysOf
<1>2. f \in [ps -> KeysOf(ps)]
  BY DEF KeysOf
<1> HIDE DEF f
<1>3. f \in Surjection(ps, KeysOf(ps))
  BY <1>1, <1>2 DEF Surjection
<1>4. IsFiniteSet(KeysOf(ps))
  BY <1>3, FS_Surjection
<1>5. IsFiniteSet(ks)
  BY <1>4, FS_Subset
<1>6. QED
  BY <1>5, SetListed

LEMMA StakingVaultGoes ==
  ASSUME SoundInv, WorthInv, StakingVault
  PROVE  Goes
<1>1. disc \in Discoveries /\ disc.pc = "vault" /\ disc.prov \in Allowed
  BY DEF SoundInv, Sane, StakingVault, At
<1> DEFINE next == [disc EXCEPT !.pc = "provider"]
<1>2. \/ Go(next) \/ GoFailed(next)
      \/ \E v \in disc.filter : \E p \in ValidateAztecVault(v) : GoAdd(p, next)
  BY DEF StakingVault
<1>3. next.pc = "provider" /\ Unclean(next).pc = "provider"
  BY <1>1 DEF Discoveries, Unclean
<1> HIDE DEF next
<1>4. Hand(next)
  BY <1>3 DEF Hand, HandOK
<1>5. ASSUME NEW v, NEW p \in ValidateAztecVault(v)
      PROVE  p \in Positions /\ p.prov \in Allowed /\ Fits(p)
  <2>1. p \in open /\ p.prov = disc.prov
    BY <1>5 DEF ValidateAztecVault
  <2>2. QED
    BY <1>1, <2>1 DEF SoundInv, WorthInv, ChainInv, Fits
<1>6. QED
  BY <1>2, <1>4, <1>5 DEF Goes

LEMMA StakingDelegationsGoes ==
  ASSUME SoundInv, WorthInv, StakingDelegations
  PROVE  Goes
<1>1. disc \in Discoveries /\ version = "staking" /\ mode = "validators"
  BY DEF SoundInv, Sane, StakingDelegations
<1> DEFINE ks == KeysOf(HeldBy(This))
           q == SetToSeq(ks)
           d == [disc EXCEPT !.todo = q, !.pc = "add"]
<1>2. Go(d) \/ GoFailed(NextOwner(disc))
  BY DEF StakingDelegations
<1>3. HeldBy(This) \subseteq Positions /\ IsFiniteSet(HeldBy(This)) /\ HeldBy(This) \subseteq open
  BY FS_Subset DEF SoundInv, HeldBy
<1>4. ks \subseteq Keys
  BY <1>1, <1>3 DEF KeysOf, WorthInv, ChainInv, KeysOn
<1>5. q \in Seq(AllKeys) /\ \A j \in 1..Len(q) : q[j] \in ks
  BY <1>3, KeysMakeSeq, KeysListed
<1> HIDE DEF q, ks
<1>6. /\ d.pc = "add" /\ d.todo = q
      /\ Unclean(d).pc = "add" /\ Unclean(d).todo = q
  BY <1>1 DEF Discoveries, Unclean
<1> HIDE DEF d
<1>7. Hand(d)
  BY <1>1, <1>4, <1>5, <1>6 DEF Hand, HandOK
<1>8. Hand(NextOwner(disc))
  BY <1>1, NextOwnerHand
<1>9. QED
  BY <1>2, <1>7, <1>8 DEF Goes

LEMMA StakingAddGoes ==
  ASSUME SoundInv, WorthInv, StakingAdd
  PROVE  Goes
<1>1. disc \in Discoveries /\ disc.pc = "add" /\ version = "staking"
  BY DEF SoundInv, Sane, StakingAdd, At
<1>2. mode = "validators" /\ \A j \in 1..Len(disc.todo) : disc.todo[j] \in Keys
  BY <1>1 DEF WorthInv, HandInv, HandOK
<1>3. CASE disc.todo = <<>>
  BY <1>1, <1>3, NextOwnerHand DEF StakingAdd, Goes
<1>4. CASE disc.todo # <<>>
  <2> DEFINE p == Pos(disc.prov, Head(disc.todo), This)
             d == [disc EXCEPT !.todo = Tail(@)]
  <2>1. Go(d) \/ GoAdd(p, d)
    BY <1>4 DEF StakingAdd
  <2>2. p \in Positions /\ p.prov \in Allowed
    BY <1>1, <1>4, InHand DEF Pos
  <2>3. disc.todo \in Seq(AllKeys)
    BY <1>1 DEF Discoveries
  <2>4. Head(disc.todo) \in Keys /\ \A j \in 1..Len(Tail(disc.todo)) : Tail(disc.todo)[j] \in Keys
    <3>1. ASSUME NEW s \in Seq(AllKeys), s # <<>>, \A j \in 1..Len(s) : s[j] \in Keys
          PROVE  Head(s) \in Keys /\ \A j \in 1..Len(Tail(s)) : Tail(s)[j] \in Keys
      <4>1. Len(s) \in Nat /\ Len(s) > 0 /\ Head(s) = s[1] /\ Len(Tail(s)) = Len(s) - 1
            /\ \A j \in 1..(Len(s) - 1) : Tail(s)[j] = s[j + 1]
        BY <3>1
      <4>2. \A j \in 1..(Len(s) - 1) : j + 1 \in 1..Len(s)
        BY <4>1
      <4>3. QED
        BY <3>1, <4>1, <4>2
    <3>2. QED
      BY <1>2, <1>4, <2>3, <3>1
  <2>5. d.pc = "add" /\ d.todo = Tail(disc.todo)
        /\ Unclean(d).pc = "add" /\ Unclean(d).todo = Tail(disc.todo)
    BY <1>1 DEF Discoveries, Unclean
  <2>6. Fits(p)
    BY <1>1, <1>2, <2>4, KeysAreApart DEF Fits, Pos, KeysOn, Unvalidated
  <2> HIDE DEF p, d
  <2>7. Hand(d)
    BY <1>1, <1>2, <2>4, <2>5 DEF Hand, HandOK
  <2>8. QED
    BY <2>1, <2>2, <2>6, <2>7 DEF Goes
<1>5. QED
  BY <1>3, <1>4

LEMMA StakingBalanceGoes ==
  ASSUME SoundInv, StakingBalance
  PROVE  Goes
<1>1. disc \in Discoveries /\ version = "staking" /\ mode = "plain"
  BY DEF SoundInv, Sane, StakingBalance
<1> DEFINE d(has) == [disc EXCEPT !.has = has, !.pc = "stake"]
           p == Pos(disc.prov, Plain, Head(disc.owners))
           has == p \in open
           f == d(FALSE)
           e == [f EXCEPT !.fresh = FALSE]
<1>2. Go(d(has)) \/ GoFailed(e)
  BY DEF StakingBalance, This
<1>3. has \in BOOLEAN
  OBVIOUS
<1>4. /\ d(has).pc = "stake" /\ d(has).has = has /\ d(has).prov = disc.prov
      /\ d(has).owners = disc.owners
      /\ Unclean(d(has)).pc = "stake" /\ Unclean(d(has)).has = has
      /\ Unclean(d(has)).prov = disc.prov /\ Unclean(d(has)).owners = disc.owners
      /\ e.pc = "stake" /\ ~e.fresh /\ Unclean(e).pc = "stake" /\ ~Unclean(e).fresh
  BY <1>1, <1>3 DEF Discoveries, Unclean
<1> HIDE DEF d, f, e
<1>5. Hand(d(has)) /\ Hand(e)
  BY <1>1, <1>4 DEF Hand, HandOK
<1>6. QED
  BY <1>2, <1>5 DEF Goes

LEMMA StakingUpdateGoes ==
  ASSUME SoundInv, WorthInv, StakingUpdate
  PROVE  Goes
<1>1. disc \in Discoveries /\ disc.pc = "stake"
  BY DEF SoundInv, Sane, StakingUpdate, At
<1>2. version = "staking" /\ mode = "plain"
  BY <1>1 DEF WorthInv, HandInv, HandOK
<1> DEFINE p == Pos(disc.prov, Plain, This)
<1>3. Hand(NextOwner(disc))
  BY <1>1, NextOwnerHand
<1>4. p \in Positions /\ p.prov \in Allowed /\ p.key = Plain
  BY <1>1, InHand DEF Pos
<1>5. Fits(p)
  BY <1>2, <1>4, KeysAreApart DEF Fits, KeysOn
<1>6. disc.has \in BOOLEAN
  BY <1>1 DEF Discoveries
<1>7. Go(NextOwner(disc)) \/ GoAdd(p, NextOwner(disc)) \/ StakeGone
  BY <1>1, <1>6 DEF StakingUpdate, StakeGone
<1> HIDE DEF p
<1>8. QED
  BY <1>3, <1>4, <1>5, <1>7 DEF Goes

LEMMA DiscoveryGoes ==
  ASSUME SoundInv, WorthInv, DiscoveryStep
  PROVE  Goes
<1>1. CASE (\E pr \in Providers : TakeProvider(pr)) \/ LastOwner \/ Finish
  BY <1>1, BeginsGoes
<1>2. CASE Probe \/ QueryV2Subgraph \/ QueryMints \/ QueryPairs \/ QueryBalances
  BY <1>2, V2Goes
<1>3. CASE AddFound
  BY <1>3, AddFoundGoes
<1>4. CASE V3BalanceOf \/ V3TokenOfOwner \/ V3Details
  BY <1>4, V3Goes
<1>5. CASE V3Add
  BY <1>5, V3AddGoes
<1>6. CASE V4Query \/ V4TokenOfOwner \/ V4Details
  BY <1>6, V4Goes
<1>7. CASE V4Add \/ SingleAdd
  BY <1>7, V4AddGoes
<1>8. CASE StakingVault \/ StakingDelegations \/ StakingAdd
  BY <1>8, StakingVaultGoes, StakingDelegationsGoes, StakingAddGoes
<1>9. CASE StakingBalance \/ StakingUpdate
  BY <1>9, StakingBalanceGoes, StakingUpdateGoes
<1>10. QED
  BY <1>1, <1>2, <1>3, <1>4, <1>5, <1>6, <1>7, <1>8, <1>9 DEF DiscoveryStep

LEMMA ShrinksSelf ==
  ASSUME NEW s, s.len \in Nat
  PROVE  Shrinks(s, s)
BY DEF Shrinks

LEMMA StoreType ==
  ASSUME SoundInv
  PROVE  /\ objs \in Seq(Positions) /\ Len(objs) \in Nat /\ IsStore(store, objs)
         /\ store.len \in Nat /\ Shrinks(store, store)
<1>1. objs \in Seq(Positions) /\ IsStore(store, objs)
  BY DEF SoundInv, Kept
<1>2. store.len \in Nat
  BY <1>1 DEF IsStore
<1>3. QED
  BY <1>1, <1>2, ShrinksSelf

\* A step that leaves chain and positions alone, puts nothing in, and makes of each pass
\* one that knows what it says.
LEMMA StepsWorth ==
  ASSUME WorthInv, UNCHANGED <<version, mode, open, owed, dust, nfts, minted, objs>>,
         Shrinks(store, store'), HandInv', DOMAIN upd' = Updaters,
         \A u \in Updaters :
           upd'[u] = upd[u] \/ PassOK(version, store, objs, Seen(upd'[u].cmd), upd'[u])
  PROVE  WorthInv'
<1>1. ChainInv'
  BY ChainStays DEF WorthInv
<1>2. ASSUME NEW u \in Updaters
      PROVE  PassOK(version, store', objs, Seen(upd'[u].cmd), upd'[u])
  <2> DEFINE q == upd'[u]
             op == Seen(q.cmd)
  <2>1. PassOK(version, store, objs, op, q)
    BY DEF WorthInv, PassInv
  <2> HIDE DEF q, op
  <2>2. PassOK(version, store', objs, op, q)
    BY <2>1, PassShrinks
  <2>3. QED
    BY <2>2 DEF q, op
<1>3. PassInv'
  BY <1>2 DEF PassInv, Seen
<1>4. QED
  BY <1>1, <1>3 DEF WorthInv

LEMMA GoesWorth ==
  ASSUME SoundInv, WorthInv, Goes
  PROVE  WorthInv'
<1>1. CASE StakeGone
  <2>1. disc \in Discoveries
    BY DEF SoundInv, Sane
  <2>2. Hand(NextOwner(disc))
    BY <2>1, NextOwnerHand
  <2>3. /\ UNCHANGED <<version, mode, open, owed, dust, nfts, minted, objs, upd>>
        /\ disc' = NextOwner(disc)
    BY <1>1 DEF StakeGone, DiscUnchanged
  <2>4. HandInv'
    BY <2>2, <2>3 DEF Hand, HandInv
  <2>5. Shrinks(store, store')
    BY <1>1, RemoveShrinks DEF StakeGone, SoundInv
  <2>6. QED
    BY <2>3, <2>4, <2>5, StepsWorth DEF WorthInv, PassInv
<1>2. QED
  BY <1>1, GoWorth, GoAddWorth DEF Goes

-----------------------------------------------------------------------------
LEMMA MoveWorth ==
  ASSUME SoundInv, WorthInv, Move, ChainInv'
  PROVE  WorthInv'
<1>1. /\ UNCHANGED <<version, mode, store, objs>>
      /\ disc' = [Unclean(disc) EXCEPT !.fresh = FALSE]
      /\ upd' = [u \in Updaters |-> [upd[u] EXCEPT !.fresh = FALSE]]
  BY DEF Move
<1>2. HandOK(version, mode, open', disc')
  <2>1. disc \in Discoveries /\ HandOK(version, mode, open, disc)
    BY DEF SoundInv, Sane, WorthInv, HandInv
  <2>2. QED
    BY <1>1, <2>1, UncleanHand
<1>3. ASSUME NEW u \in Updaters, NEW new PROVE PassOK(version, store, objs, new, upd'[u])
  <2> DEFINE op == Seen(upd[u].cmd)
  <2>1. PassOK(version, store, objs, op, upd[u])
    BY DEF WorthInv, PassInv
  <2> HIDE DEF op
  <2>2. PassOK(version, store, objs, new, [upd[u] EXCEPT !.fresh = FALSE])
    BY <2>1, PassMoves
  <2>3. QED
    BY <1>1, <2>2
<1>4. HandInv' /\ PassInv'
  BY <1>1, <1>2, <1>3 DEF HandInv, PassInv
<1>5. QED
  BY <1>4 DEF WorthInv

\* The user takes positions out, but puts none in.
LEMMA UserWorth ==
  ASSUME SoundInv, WorthInv, User, Shrinks(store, store'), DOMAIN upd' = Updaters,
         \A u \in Updaters :
           upd'[u] = upd[u] \/ PassOK(version, store, objs, Seen(upd'[u].cmd), upd'[u])
  PROVE  WorthInv'
<1>1. /\ UNCHANGED <<version, mode, open, owed, dust, nfts, minted, objs>>
      /\ disc' = Unclean(disc)
  BY DEF User
<1>2. disc \in Discoveries /\ HandOK(version, mode, open, disc)
  BY DEF SoundInv, Sane, WorthInv, HandInv
<1>3. HandOK(version, mode, open, Unclean(disc))
  BY <1>2, UncleanHand
<1>4. HandInv'
  BY <1>1, <1>3 DEF HandInv
<1>5. QED
  BY <1>1, <1>4, StepsWorth

LEMMA UserLeavesWorth ==
  ASSUME SoundInv, WorthInv, User, UNCHANGED upd, Shrinks(store, store')
  PROVE  WorthInv'
<1>1. DOMAIN upd' = Updaters /\ \A u \in Updaters : upd'[u] = upd[u]
  BY DEF WorthInv, PassInv
<1>2. QED
  BY <1>1, UserWorth

LEMMA BeginsWorth ==
  ASSUME SoundInv, WorthInv,
         (\E f \in SUBSET (Keys \cup Vaults) : Discover(f))
           \/ \E pr \in Providers, k \in Keys : DiscoverSingle(pr, k)
  PROVE  WorthInv'
<1>1. /\ UNCHANGED <<version, mode, open, owed, dust, nfts, minted, objs, upd, store>>
      /\ \/ disc'.pc = "provider"
         \/ disc'.pc = "single" /\ version = "v4"
  <2>1. CASE \E f \in SUBSET (Keys \cup Vaults) : Discover(f)
    <3>1. NoDisc \in Discoveries
      BY NoDiscSane DEF Sane
    <3>2. PICK f \in SUBSET (Keys \cup Vaults) : Discover(f)
      BY <2>1
    <3> DEFINE c == ~\E u \in Updaters : Stale(u)
               d == [NoDisc EXCEPT !.pc = "provider", !.left = providers, !.filter = f,
                                   !.clean = c]
    <3>3. disc' = d /\ DiscUnchanged /\ UNCHANGED <<store, objs, upd>>
      BY <3>2 DEF Discover
    <3> HIDE DEF c
    <3>4. d.pc = "provider"
      BY <3>1 DEF Discoveries
    <3> HIDE DEF d
    <3>5. disc'.pc = "provider"
      BY <3>3, <3>4
    <3>6. DiscUnchanged /\ UNCHANGED <<store, objs, upd>>
      BY <3>3
    <3>7. QED
      BY <3>5, <3>6 DEF DiscUnchanged
  <2>2. CASE \E pr \in Providers, k \in Keys : DiscoverSingle(pr, k)
    <3>1. NoDisc \in Discoveries
      BY NoDiscSane DEF Sane
    <3>2. PICK pr \in Providers, k \in Keys : DiscoverSingle(pr, k)
      BY <2>2
    <3>3. PICK o \in HolderOf(pr, k) :
            disc' = [NoDisc EXCEPT !.pc = "single", !.prov = pr, !.todo = <<k>>,
                                   !.owners = <<o>>, !.clean = FALSE]
      BY <3>2 DEF DiscoverSingle
    <3>4. version = "v4" /\ DiscUnchanged /\ UNCHANGED <<store, objs, upd>>
      BY <3>2 DEF DiscoverSingle
    <3>5. disc'.pc = "single"
      BY <3>1, <3>3 DEF Discoveries
    <3>6. QED
      BY <3>4, <3>5 DEF DiscUnchanged
  <2>3. QED
    BY <2>1, <2>2
<1>2. HandInv'
  BY <1>1 DEF HandInv, HandOK
<1>3. Shrinks(store, store')
  BY <1>1, StoreType
<1>4. QED
  BY <1>1, <1>2, <1>3, StepsWorth DEF WorthInv, PassInv

LEMMA NoPassOK ==
  ASSUME NEW v, NEW s, NEW o, NEW op, Len(o) \in Nat
  PROVE  PassOK(v, s, o, op, NoPass)
<1>1. <<>> \in Seq(1..Len(o)) /\ Len(<<>>) = 0
  OBVIOUS
<1>2. NoPass \in Passes(Len(o)) /\ NoPass.pc = "idle" /\ ~NoPass.live /\ NoPass.n = 0
      /\ NoPass.own = <<>> /\ NoPass.todel = <<>> /\ ~NoPass.cmd /\ NoPass.strays = {}
      /\ NoPass.got = "none"
  BY <1>1 DEF NoPass, Passes
<1> HIDE DEF NoPass
<1>3. QED
  BY <1>1, <1>2 DEF PassOK

\* A pass begins, of the pane or of `lp_v3 list`.
LEMMA BeginsOK ==
  ASSUME NEW v, NEW s, NEW o, NEW op, Len(o) \in Nat, IsStore(s, o)
  PROVE  LET r == [NoPass EXCEPT !.pc = "ask", !.i = 1, !.n = s.len, !.live = TRUE]
             l == [NoPass EXCEPT !.pc = "ask", !.i = 1, !.n = s.len, !.live = TRUE, !.cmd = TRUE]
         IN /\ PassOK(v, s, o, op, r)
            /\ v = "v3" => PassOK(v, s, o, op, l)
<1> DEFINE r == [NoPass EXCEPT !.pc = "ask", !.i = 1, !.n = s.len, !.live = TRUE]
           l == [NoPass EXCEPT !.pc = "ask", !.i = 1, !.n = s.len, !.live = TRUE, !.cmd = TRUE]
<1>1. <<>> \in Seq(1..Len(o)) /\ Len(<<>>) = 0
  OBVIOUS
<1>2. s.len \in Nat /\ s.len <= Len(s.arr)
  BY DEF IsStore
<1>3. r \in Passes(Len(o)) /\ r.pc = "ask" /\ r.live /\ r.n = s.len /\ r.i = 1
      /\ r.todel = <<>> /\ ~r.cmd /\ r.strays = {} /\ r.got = "none"
  BY <1>1, <1>2 DEF NoPass, Passes
<1>4. l \in Passes(Len(o)) /\ l.pc = "ask" /\ l.live /\ l.n = s.len /\ l.i = 1
      /\ l.todel = <<>> /\ l.cmd /\ l.strays = {} /\ l.got = "none"
  BY <1>1, <1>2 DEF NoPass, Passes
<1> HIDE DEF r, l
<1>5. PassOK(v, s, o, op, r)
  BY <1>1, <1>2, <1>3 DEF PassOK
<1>6. v = "v3" => PassOK(v, s, o, op, l)
  BY <1>1, <1>2, <1>4 DEF PassOK
<1>7. QED
  BY <1>5, <1>6 DEF r, l

LEMMA ListPositionsWorth ==
  ASSUME SoundInv, WorthInv, NEW u \in Updaters, ListPositions(u)
  PROVE  WorthInv'
<1> DEFINE l == [NoPass EXCEPT !.pc = "ask", !.i = 1, !.n = store.len, !.live = TRUE,
                               !.cmd = TRUE]
<1>1. /\ User /\ version = "v3" /\ store' \in Sorted(store) /\ upd' = [upd EXCEPT ![u] = l]
  BY DEF ListPositions
<1>2. objs \in Seq(Positions) /\ Len(objs) \in Nat /\ IsStore(store, objs)
  BY StoreType
<1>3. Shrinks(store, store')
  BY <1>1, <1>2, SortShrinks
<1>4. \A op : PassOK(version, store, objs, op, l)
  BY <1>1, <1>2, BeginsOK
<1> HIDE DEF l
<1>5. DOMAIN upd = Updaters
  BY DEF WorthInv, PassInv
<1>6. DOMAIN upd' = Updaters /\ \A w \in Updaters : upd'[w] = upd[w] \/ upd'[w] = l
  BY <1>1, <1>5
<1>7. QED
  BY <1>1, <1>3, <1>4, <1>6, UserWorth

LEMMA ProcessWorth ==
  ASSUME SoundInv, WorthInv,
         \/ \E pr \in Providers : Dialogue(pr)
         \/ LP_V2_Process \/ LP_V3_Process \/ LP_V4_Process \/ Staking_Process
  PROVE  WorthInv'
<1>1. CASE \E pr \in Providers : Dialogue(pr)
  <2>1. User /\ UNCHANGED <<store, upd>>
    BY <1>1 DEF Dialogue, DlgLP_V2_add, DlgLP_V3_add, DlgLP_V4_add, DlgStakingAdd,
         DlgLP_V2_edit, DlgLP_V3_edit, DlgLP_V4_edit, DlgStakingEdit, AddProvider, EditProvider
  <2>2. Shrinks(store, store')
    BY <2>1, StoreType
  <2>3. QED
    BY <2>1, <2>2, UserLeavesWorth
<1>2. CASE LP_V2_Process \/ LP_V3_Process \/ LP_V4_Process \/ Staking_Process
  <2>1. \/ \E pr \in Providers : RemoveProvider(pr)
        \/ SwitchPane \/ \E k \in Keys : IgnoreToken(k)
        \/ \E p \in Positions : DeletePosition(p)
        \/ \E u \in Updaters : ListPositions(u)
        \/ (\E f \in SUBSET (Keys \cup Vaults) : Discover(f))
             \/ \E pr \in Providers, k \in Keys : DiscoverSingle(pr, k)
    BY <1>2 DEF LP_V2_Process, LP_V3_Process, LP_V4_Process, Staking_Process, Command
  <2>2. CASE \E pr \in Providers : RemoveProvider(pr)
    <3>1. PICK pr \in Providers : User /\ UNCHANGED upd /\ store' = RemoveOf(store, objs, pr)
      BY <2>2 DEF RemoveProvider
    <3>2. Kept(version, store, objs, Allowed)
      BY DEF SoundInv
    <3>3. Shrinks(store, RemoveOf(store, objs, pr))
      BY <3>2, RemoveOfKeeps
    <3>4. Shrinks(store, store')
      BY <3>1, <3>3
    <3>5. QED
      BY <3>1, <3>4, UserLeavesWorth
  <2>3. CASE SwitchPane \/ \E k \in Keys : IgnoreToken(k)
    <3>1. User /\ UNCHANGED <<store, upd>>
      BY <2>3 DEF SwitchPane, IgnoreToken
    <3>2. Shrinks(store, store')
      BY <3>1, StoreType
    <3>3. QED
      BY <3>1, <3>2, UserLeavesWorth
  <2>4. CASE \E p \in Positions : DeletePosition(p)
    <3>1. User /\ UNCHANGED upd /\ \E p : store' = RemovePosition(version, store, objs, p)
      BY <2>4 DEF DeletePosition
    <3>2. Shrinks(store, store')
      BY <3>1, RemoveShrinks DEF SoundInv
    <3>3. QED
      BY <3>1, <3>2, UserLeavesWorth
  <2>5. QED
    BY <2>1, <2>2, <2>3, <2>4, BeginsWorth, ListPositionsWorth
<1>3. QED
  BY <1>1, <1>2

-----------------------------------------------------------------------------
\* The answer "zero" is right.
LEMMA ZeroIsWorthless ==
  ASSUME SoundInv, NEW p \in Positions, NEW cmd \in BOOLEAN, cmd => version = "v3",
         Status(cmd, p) = "zero"
  PROVE  Worthless(version, store, objs, Seen(cmd), p)
<1>1. CASE version = "v2"
  <2> DEFINE g == GetPosition(store, objs, p)
  <2>1. getPositionStatusV2(p) = "zero"
    BY <1>1 DEF Status
  <2>2. g # 0 /\ objs[store.arr[g]] \notin open
    BY <2>1 DEF getPositionStatusV2, Followed, Worth
  <2>3. objs \in Seq(Positions) /\ IsStore(store, objs) /\ store.len \in Nat
    BY StoreType
  <2>4. g \in 0..store.len /\ store.arr[g] \in SameKey(objs, p)
    BY <2>2, <2>3, FirstIs DEF GetPosition
  <2> HIDE DEF g
  <2>5. g \in 1..store.len
    BY <2>2, <2>3, <2>4
  <2>6. ASSUME NEW i \in 1..store.len, SameAs(version, p, objs[store.arr[i]])
        PROVE  objs[store.arr[i]] \notin Seen(cmd)
    <3>1. SameAs(version, objs[store.arr[i]], objs[store.arr[g]])
      BY <1>1, <2>4, <2>6 DEF SameAs, SameKey
    <3>2. i = g
      BY <2>5, <3>1 DEF SoundInv, Kept, NoneTwice
    <3>3. QED
      BY <2>2, <3>2 DEF Seen
  <2>7. QED
    BY <1>1, <2>6 DEF Worthless, NFTs
<1>2. CASE version = "v3"
  <2>1. get_position_statusV3(cmd, p) = "zero"
    <3>1. CASE cmd
      <4>1. cmd = TRUE /\ listStatus(p) = "zero"
        BY <3>1 DEF Status
      <4>2. QED
        BY <4>1 DEF listStatus
    <3>2. CASE ~cmd
      <4>1. cmd = FALSE
        BY <3>2
      <4>2. QED
        BY <1>2, <4>1 DEF Status
    <3>3. QED
      BY <3>1, <3>2
  <2>2. ~OneSeen(cmd, p)
    BY <2>1 DEF get_position_statusV3
  <2>3. QED
    BY <1>2, <2>2 DEF Worthless, OneSeen
<1>3. CASE version = "v4"
  <2>1. getPositionStatusV4(p) = "zero"
    BY <1>3 DEF Status
  <2>2. ~IsOpen(p.prov, p.key)
    BY <2>1 DEF getPositionStatusV4
  <2>3. QED
    BY <1>3, <2>2 DEF Worthless, IsOpen, Seen
<1>4. CASE version = "staking"
  <2>1. getBalance(p) = "zero"
    BY <1>4 DEF Status
  <2>2. p \notin open
    BY <2>1 DEF getBalance, Worth
  <2>3. QED
    BY <1>4, <2>2 DEF Worthless, NFTs, Seen
<1>5. QED
  BY <1>1, <1>2, <1>3, <1>4 DEF SoundInv, Versions

LEMMA StatusType ==
  ASSUME SoundInv, NEW p, NEW cmd \in BOOLEAN
  PROVE  /\ Status(cmd, p) \in {"ok", "zero", "error", "stray", "stranger"}
         /\ Status(cmd, p) \in {"stray", "stranger"} => cmd
         /\ StatusUnread \subseteq {"ok", "zero", "error"}
<1>1. getPositionStatusV2(p) \in {"ok", "zero", "error"}
  BY DEF getPositionStatusV2, Worth
<1>2. \A c : get_position_statusV3(c, p) \in {"ok", "zero", "error"}
  BY DEF get_position_statusV3
<1>3. getPositionStatusV4(p) \in {"ok", "zero", "error"}
  BY DEF getPositionStatusV4
<1>4. getBalance(p) \in {"ok", "zero", "error"}
  BY DEF getBalance, Worth
<1>5. version \in Versions
  BY DEF SoundInv
<1>6. ~cmd => Status(cmd, p) \in {"ok", "zero", "error"}
  BY <1>1, <1>2, <1>3, <1>4, <1>5 DEF Status, Versions
<1>7. cmd => Status(cmd, p) \in {"ok", "zero", "error", "stray", "stranger"}
  <2>1. listStatus(p) \in {"ok", "zero", "error", "stray", "stranger"}
    BY <1>2 DEF listStatus
  <2>2. cmd => Status(cmd, p) = listStatus(p)
    BY DEF Status
  <2>3. QED
    BY <2>1, <2>2
<1>8. StatusUnread \subseteq {"ok", "zero", "error"}
  BY <1>5 DEF StatusUnread, Versions
<1>9. QED
  BY <1>6, <1>7, <1>8

\* What a pass ranges over are positions, wherever the slice has moved.
LEMMA RangedIs ==
  ASSUME NEW v, NEW s, NEW o, NEW op, NEW q, Len(o) \in Nat, IsStore(s, o),
         PassOK(v, s, o, op, q), q.pc = "ask", q.i <= q.n
  PROVE  (IF q.live THEN s.arr[q.i] ELSE q.own[q.i]) \in 1..Len(o)
<1>1. q.i \in Nat /\ q.n \in Nat /\ q.i >= 1 /\ q.own \in Seq(1..Len(o))
      /\ (q.live => q.n <= Len(s.arr)) /\ (~q.live => q.n <= Len(q.own))
  BY DEF PassOK, Passes
<1>2. s.arr \in Seq(1..Len(o)) /\ Len(s.arr) \in Nat
  BY DEF IsStore
<1>3. CASE q.live
  <2>1. q.i \in 1..Len(s.arr)
    BY <1>1, <1>2, <1>3
  <2>2. QED
    BY <1>2, <1>3, <2>1
<1>4. CASE ~q.live
  <2>1. q.i \in 1..Len(q.own)
    BY <1>1, <1>4
  <2>2. QED
    BY <1>1, <1>4, <2>1
<1>5. QED
  BY <1>3, <1>4

LEMMA AsksOK ==
  ASSUME NEW v, NEW s, NEW o, NEW op, NEW q, Len(o) \in Nat, PassOK(v, s, o, op, q), q.pc = "ask",
         NEW x \in 1..Len(o), NEW got \in {"ok", "zero", "error", "stray", "stranger"},
         got \in {"stray", "stranger"} => q.cmd,
         NEW b \in BOOLEAN, b => q.fresh, b /\ got = "zero" => Worthless(v, s, o, op, o[x])
  PROVE  PassOK(v, s, o, op, [q EXCEPT !.pc = "use", !.x = x, !.got = got, !.fresh = b])
<1> DEFINE r == [q EXCEPT !.pc = "use", !.x = x, !.got = got, !.fresh = b]
<1>1. q \in Passes(Len(o))
  BY DEF PassOK
<1>2. x \in Nat
  OBVIOUS
<1>3. /\ r \in Passes(Len(o)) /\ r.pc = "use" /\ r.x = x /\ r.got = got /\ r.fresh = b
      /\ r.i = q.i /\ r.n = q.n /\ r.live = q.live /\ r.own = q.own /\ r.todel = q.todel
      /\ r.cmd = q.cmd /\ r.strays = q.strays
  BY <1>1, <1>2 DEF Passes
<1> HIDE DEF r
<1>4. PassOK(v, s, o, op, r)
  BY <1>3 DEF PassOK
<1>5. QED
  BY <1>4 DEF r

-----------------------------------------------------------------------------
LEMMA OnePassWorth ==
  ASSUME SoundInv, WorthInv, NEW u \in Updaters, NEW r,
         PassOK(version, store, objs, Seen(r.cmd), r), upd' = [upd EXCEPT ![u] = r],
         PaneUnchanged, UNCHANGED disc \/ disc' = Unclean(disc), Shrinks(store, store')
  PROVE  WorthInv'
<1>1. disc \in Discoveries /\ HandOK(version, mode, open, disc)
  BY DEF SoundInv, Sane, WorthInv, HandInv
<1>2. HandOK(version, mode, open, Unclean(disc))
  BY <1>1, UncleanHand
<1>3. UNCHANGED <<version, mode, open, owed, dust, nfts, minted, objs>>
  BY DEF PaneUnchanged
<1>4. HandInv'
  BY <1>1, <1>2, <1>3 DEF HandInv
<1>5. DOMAIN upd = Updaters
  BY DEF WorthInv, PassInv
<1>6. DOMAIN upd' = Updaters
      /\ \A w \in Updaters :
           upd'[w] = upd[w] \/ PassOK(version, store, objs, Seen(upd'[w].cmd), upd'[w])
  BY <1>5
<1>7. QED
  BY <1>3, <1>4, <1>6, StepsWorth

LEMMA PassOKNow ==
  ASSUME WorthInv, NEW u \in Updaters
  PROVE  /\ PassOK(version, store, objs, Seen(upd[u].cmd), upd[u])
         /\ upd[u] \in Passes(Len(objs)) /\ upd[u].cmd \in BOOLEAN
         /\ DOMAIN upd = Updaters
<1>1. PassOK(version, store, objs, Seen(upd[u].cmd), upd[u]) /\ DOMAIN upd = Updaters
  BY DEF WorthInv, PassInv
<1>2. upd[u] \in Passes(Len(objs))
  BY <1>1 DEF PassOK
<1>3. upd[u].cmd \in BOOLEAN
  BY <1>2 DEF Passes
<1>4. QED
  BY <1>1, <1>2, <1>3

LEMMA AskStatusWorth ==
  ASSUME SoundInv, WorthInv, NEW u \in Updaters, AskStatus(u)
  PROVE  WorthInv'
<1> DEFINE q == upd[u]
           x == Ranged(u)
           op == Seen(q.cmd)
<1>1. /\ PassOK(version, store, objs, op, q) /\ q \in Passes(Len(objs))
      /\ DOMAIN upd = Updaters /\ q.pc = "ask"
      /\ q.cmd \in BOOLEAN /\ (q.cmd => version = "v3")
  <2>1. PassOK(version, store, objs, op, q) /\ q \in Passes(Len(objs))
        /\ DOMAIN upd = Updaters /\ q.cmd \in BOOLEAN
    BY PassOKNow
  <2>2. q.cmd => version = "v3"
    BY <2>1 DEF PassOK
  <2>3. q.pc = "ask"
    BY DEF AskStatus
  <2>4. QED
    BY <2>1, <2>2, <2>3
<1>2. /\ objs \in Seq(Positions) /\ Len(objs) \in Nat /\ IsStore(store, objs)
      /\ Shrinks(store, store)
  BY StoreType
<1>3. PaneUnchanged /\ UNCHANGED store /\ (UNCHANGED disc \/ disc' = Unclean(disc))
  BY DEF AskStatus
<1>4. Shrinks(store, store')
  BY <1>2, <1>3
<1>5. CASE upd' = [upd EXCEPT ![u].pc = "show"]
  <2> DEFINE r == [q EXCEPT !.pc = "show"]
  <2>1. upd' = [upd EXCEPT ![u] = r]
    BY <1>5
  <2>2. r \in Passes(Len(objs)) /\ r.pc = "show" /\ r.i = q.i /\ r.todel = q.todel
        /\ r.fresh = q.fresh /\ r.live = q.live /\ r.n = q.n /\ r.own = q.own
        /\ r.got = q.got /\ r.cmd = q.cmd /\ r.strays = q.strays
    BY <1>1 DEF Passes
  <2> HIDE DEF r, op, q
  <2>3. PassOK(version, store, objs, op, r)
    BY <1>1, <2>2 DEF PassOK
  <2>4. op = Seen(r.cmd)
    BY <2>2 DEF op
  <2>5. QED
    BY <1>3, <1>4, <2>1, <2>3, <2>4, OnePassWorth
<1>6. ASSUME q.i <= q.n, NEW got \in {"ok", "zero", "error", "stray", "stranger"},
             got \in {"stray", "stranger"} => q.cmd, NEW b \in BOOLEAN,
             b => q.fresh, b /\ got = "zero" => Status(q.cmd, objs[x]) = "zero",
             upd' = [upd EXCEPT ![u] = [q EXCEPT !.pc = "use", !.x = x, !.got = got,
                                                 !.fresh = b]]
      PROVE  WorthInv'
  <2> DEFINE r == [q EXCEPT !.pc = "use", !.x = x, !.got = got, !.fresh = b]
  <2>1. x \in 1..Len(objs)
    BY <1>1, <1>2, <1>6, RangedIs DEF Ranged
  <2>2. objs[x] \in Positions
    BY <1>2, <2>1
  <2>3. b /\ got = "zero" => Worthless(version, store, objs, op, objs[x])
    BY <1>1, <1>6, <2>2, ZeroIsWorthless
  <2>4. upd' = [upd EXCEPT ![u] = r]
    BY <1>6
  <2>5. r.cmd = q.cmd
    BY <1>1 DEF Passes
  <2> HIDE DEF x, q, op
  <2>6. PassOK(version, store, objs, op, r)
    BY <1>1, <1>2, <1>6, <2>1, <2>3, AsksOK
  <2> HIDE DEF r
  <2>7. op = Seen(r.cmd)
    BY <2>5 DEF op
  <2>8. QED
    BY <1>3, <1>4, <2>4, <2>6, <2>7, OnePassWorth
<1>7. CASE /\ q.i <= q.n
           /\ upd' = [upd EXCEPT ![u].pc = "use", ![u].x = x, ![u].got = Asked(u)]
  <2> DEFINE got == Status(q.cmd, objs[x])
  <2>0. got = Asked(u)
    BY DEF Asked
  <2>1. /\ got \in {"ok", "zero", "error", "stray", "stranger"}
        /\ got \in {"stray", "stranger"} => q.cmd
    BY <1>1, StatusType
  <2>2. q.fresh \in BOOLEAN
    BY <1>1 DEF Passes
  <2>3. upd' = [upd EXCEPT ![u] = [q EXCEPT !.pc = "use", !.x = x, !.got = got,
                                            !.fresh = q.fresh]]
    <3>1. [q EXCEPT !.pc = "use", !.x = x, !.got = got, !.fresh = q.fresh]
            = [q EXCEPT !.pc = "use", !.x = x, !.got = got]
      <4> HIDE DEF q, x, got
      <4>1. q = [pc |-> q.pc, i |-> q.i, n |-> q.n, live |-> q.live, own |-> q.own,
                 x |-> q.x, got |-> q.got, list |-> q.list, todel |-> q.todel,
                 fresh |-> q.fresh, cmd |-> q.cmd, strays |-> q.strays]
        BY <1>1 DEF Passes
      <4>2. QED
        BY <4>1
    <3>2. upd' = [upd EXCEPT ![u] = [q EXCEPT !.pc = "use", !.x = x, !.got = got]]
      <4> HIDE DEF x, got
      <4>1. QED
        BY <1>1, <1>7, <2>0
    <3>3. QED
      BY <3>1, <3>2
  <2> HIDE DEF x, q
  <2>4. QED
    BY <1>6, <1>7, <2>1, <2>2, <2>3
<1>8. ASSUME q.i <= q.n, NEW got \in StatusUnread,
             upd' = [upd EXCEPT ![u].pc = "use", ![u].x = x, ![u].got = got,
                                ![u].fresh = @ /\ got # "zero"]
      PROVE  WorthInv'
  <2> DEFINE b == q.fresh /\ got # "zero"
  <2>1. got \in {"ok", "zero", "error"}
    BY <1>1, StatusType
  <2>2. b \in BOOLEAN
    OBVIOUS
  <2>3. upd' = [upd EXCEPT ![u] = [q EXCEPT !.pc = "use", !.x = x, !.got = got, !.fresh = b]]
    <3> HIDE DEF x
    <3>1. QED
      BY <1>1, <1>8 DEF Passes
  <2>4. b => q.fresh /\ got # "zero"
    OBVIOUS
  <2> HIDE DEF b, q, x
  <2>5. QED
    BY <1>6, <1>8, <2>1, <2>2, <2>3, <2>4
<1>9. QED
  BY <1>5, <1>7, <1>8 DEF AskStatus

\* A pass that goes on to the next position, with what it has listed or is to delete.
LEMMA AdvanceOK ==
  ASSUME NEW v, NEW s, NEW o, NEW op, NEW q, Len(o) \in Nat, PassOK(v, s, o, op, q), q.pc = "use"
  PROVE  LET r == [q EXCEPT !.pc = "ask", !.i = @ + 1, !.x = 0, !.got = "none"]
             l == [r EXCEPT !.list = Append(@, q.x)]
             t == [r EXCEPT !.todel = Append(@, q.x)]
             y == [r EXCEPT !.todel = Append(@, q.x), !.strays = @ \cup {q.x}]
         IN /\ r.cmd = q.cmd /\ l.cmd = q.cmd /\ t.cmd = q.cmd /\ y.cmd = q.cmd
            /\ PassOK(v, s, o, op, r) /\ PassOK(v, s, o, op, l)
            /\ (q.fresh => Worthless(v, s, o, op, o[q.x])) => PassOK(v, s, o, op, t)
            /\ q.cmd => PassOK(v, s, o, op, y)
<1> DEFINE r == [q EXCEPT !.pc = "ask", !.i = @ + 1, !.x = 0, !.got = "none"]
           l == [r EXCEPT !.list = Append(@, q.x)]
           t == [r EXCEPT !.todel = Append(@, q.x)]
           y == [r EXCEPT !.todel = Append(@, q.x), !.strays = @ \cup {q.x}]
<1>1. q \in Passes(Len(o)) /\ q.x \in 1..Len(o) /\ q.i >= 1
  BY DEF PassOK
<1>2. /\ q.i \in Nat /\ q.list \in Seq(1..Len(o)) /\ q.todel \in Seq(1..Len(o))
      /\ q.strays \in SUBSET Nat
  BY <1>1 DEF Passes
<1>3. /\ q.i + 1 \in Nat /\ q.i + 1 >= 1
      /\ Append(q.list, q.x) \in Seq(1..Len(o)) /\ Append(q.todel, q.x) \in Seq(1..Len(o))
  BY <1>1, <1>2
<1>4. q.strays \cup {q.x} \in SUBSET Nat
  BY <1>1, <1>2
<1>5. /\ r \in Passes(Len(o)) /\ r.pc = "ask" /\ r.i = q.i + 1 /\ r.todel = q.todel
      /\ r.fresh = q.fresh /\ r.live = q.live /\ r.n = q.n /\ r.own = q.own /\ r.list = q.list
      /\ r.cmd = q.cmd /\ r.strays = q.strays /\ r.got = "none"
  BY <1>1, <1>3 DEF Passes
<1> HIDE DEF r
<1>6. /\ l \in Passes(Len(o)) /\ l.pc = "ask" /\ l.i = q.i + 1 /\ l.todel = q.todel
      /\ l.fresh = q.fresh /\ l.live = q.live /\ l.n = q.n /\ l.own = q.own
      /\ l.cmd = q.cmd /\ l.strays = q.strays /\ l.got = "none"
  BY <1>3, <1>5 DEF Passes
<1>7. /\ t \in Passes(Len(o)) /\ t.pc = "ask" /\ t.i = q.i + 1 /\ t.todel = Append(q.todel, q.x)
      /\ t.fresh = q.fresh /\ t.live = q.live /\ t.n = q.n /\ t.own = q.own
      /\ t.cmd = q.cmd /\ t.strays = q.strays /\ t.got = "none"
  BY <1>3, <1>5 DEF Passes
<1>8. /\ y \in Passes(Len(o)) /\ y.pc = "ask" /\ y.i = q.i + 1 /\ y.todel = Append(q.todel, q.x)
      /\ y.fresh = q.fresh /\ y.live = q.live /\ y.n = q.n /\ y.own = q.own
      /\ y.cmd = q.cmd /\ y.strays = q.strays \cup {q.x} /\ y.got = "none"
  BY <1>3, <1>4, <1>5 DEF Passes
<1> HIDE DEF l, t, y
<1>9. /\ q.fresh /\ NFTs(v) =>
           \A j \in 1..Len(q.todel) :
             q.todel[j] \in q.strays \/ Worthless(v, s, o, op, o[q.todel[j]])
      /\ q.cmd => v = "v3"
      /\ q.strays # {} => q.cmd
      /\ q.live => q.n <= Len(s.arr)
      /\ ~q.live => q.n <= Len(q.own)
  BY DEF PassOK
<1>10. PassOK(v, s, o, op, r) /\ PassOK(v, s, o, op, l)
  BY <1>3, <1>5, <1>6, <1>9 DEF PassOK
<1> DEFINE d == Append(q.todel, q.x)
<1>11. \A j \in 1..Len(d) : d[j] = q.x \/ \E k \in 1..Len(q.todel) : d[j] = q.todel[k]
  <2> DEFINE n == Len(q.todel)
  <2>1. n \in Nat /\ Len(d) = n + 1 /\ d[n + 1] = q.x /\ \A k \in 1..n : d[k] = q.todel[k]
    BY <1>1, <1>2
  <2> HIDE DEF d, n
  <2>2. \A j \in 1..(n + 1) : j = n + 1 \/ j \in 1..n
    BY <2>1
  <2>3. \A j \in 1..Len(d) : d[j] = q.x \/ \E k \in 1..n : d[j] = q.todel[k]
    BY <2>1, <2>2
  <2>4. QED
    BY <2>3 DEF n
<1>12. t.todel = d /\ y.todel = d
  BY <1>7, <1>8
<1> HIDE DEF d
<1>13. ASSUME q.fresh => Worthless(v, s, o, op, o[q.x])
       PROVE  PassOK(v, s, o, op, t)
  <2>1. q.fresh /\ NFTs(v) =>
          \A j \in 1..Len(d) : d[j] \in q.strays \/ Worthless(v, s, o, op, o[d[j]])
    BY <1>9, <1>11, <1>13
  <2>2. QED
    BY <1>3, <1>7, <1>9, <1>12, <2>1 DEF PassOK
<1>14. ASSUME q.cmd PROVE PassOK(v, s, o, op, y)
  <2>1. q.fresh /\ NFTs(v) =>
          \A j \in 1..Len(d) : d[j] \in q.strays \cup {q.x} \/ Worthless(v, s, o, op, o[d[j]])
    BY <1>9, <1>11
  <2>2. QED
    BY <1>3, <1>8, <1>9, <1>12, <1>14, <2>1 DEF PassOK
<1>15. QED
  BY <1>5, <1>6, <1>7, <1>8, <1>10, <1>13, <1>14 DEF r, l, t, y

LEMMA TakeOutShrinks ==
  ASSUME SoundInv, NEW u, NEW p, NEW then, TakeOut(u, p, then)
  PROVE  /\ upd' = then /\ PaneUnchanged /\ Shrinks(store, store')
         /\ UNCHANGED disc \/ disc' = Unclean(disc)
<1>1. store' = RemovePosition(version, store, objs, p) /\ upd' = then /\ PaneUnchanged
      /\ (UNCHANGED disc \/ disc' = Unclean(disc))
  BY DEF TakeOut
<1>2. Shrinks(store, store')
  BY <1>1, RemoveShrinks DEF SoundInv
<1>3. QED
  BY <1>1, <1>2

LEMMA AdvanceWorth ==
  ASSUME SoundInv, WorthInv, NEW u \in Updaters,
         \/ Listed(u) \/ Skipped(u) \/ RemovedAtOnce(u) \/ RemovedLater(u)
         \/ StrangersRemoved(u)
  PROVE  WorthInv'
<1> DEFINE q == upd[u]
           op == Seen(q.cmd)
           r == [q EXCEPT !.pc = "ask", !.i = @ + 1, !.x = 0, !.got = "none"]
           l == [r EXCEPT !.list = Append(@, q.x)]
           t == [r EXCEPT !.todel = Append(@, q.x)]
           y == [r EXCEPT !.todel = Append(@, q.x), !.strays = @ \cup {q.x}]
<1>1. /\ PassOK(version, store, objs, op, q) /\ Len(objs) \in Nat
      /\ Shrinks(store, store)
  BY PassOKNow, StoreType
<1>2. q.pc = "use"
  BY DEF Listed, Skipped, RemovedAtOnce, RemovedLater, StrangersRemoved, Got
<1>3. /\ r.cmd = q.cmd /\ l.cmd = q.cmd /\ t.cmd = q.cmd /\ y.cmd = q.cmd
      /\ PassOK(version, store, objs, op, r) /\ PassOK(version, store, objs, op, l)
      /\ (q.fresh => Worthless(version, store, objs, op, objs[q.x])) =>
           PassOK(version, store, objs, op, t)
      /\ q.cmd => PassOK(version, store, objs, op, y)
  <2> HIDE DEF q, op
  <2>1. QED
    BY <1>1, <1>2, AdvanceOK
<1>4. Advance(u) = r
  BY DEF Advance
<1>5. ASSUME NEW z, Proceed(u, z), z.cmd = q.cmd, PassOK(version, store, objs, op, z)
      PROVE  WorthInv'
  <2>1. upd' = [upd EXCEPT ![u] = z] /\ PaneUnchanged /\ UNCHANGED <<store, disc>>
    BY <1>5 DEF Proceed
  <2>2. Shrinks(store, store')
    BY <1>1, <2>1
  <2>3. PassOK(version, store, objs, Seen(z.cmd), z)
    BY <1>5
  <2>4. QED
    BY <2>1, <2>2, <2>3, OnePassWorth
<1>6. CASE Listed(u) \/ Skipped(u)
  <2>1. Proceed(u, r) \/ Proceed(u, l)
    BY <1>4, <1>6 DEF Listed, Skipped
  <2> HIDE DEF r, l, op, q
  <2>2. QED
    BY <1>3, <1>5, <2>1
<1>7. CASE RemovedAtOnce(u) \/ StrangersRemoved(u)
  <2>1. TakeOut(u, objs[q.x], [upd EXCEPT ![u] = r])
    BY <1>4, <1>7 DEF RemovedAtOnce, StrangersRemoved
  <2>2. PassOK(version, store, objs, Seen(r.cmd), r)
    BY <1>3
  <2> HIDE DEF r, q, op
  <2>3. QED
    BY <2>1, <2>2, TakeOutShrinks, OnePassWorth
<1>8. CASE RemovedLater(u)
  <2>1. \/ q.got = "zero" /\ Proceed(u, t)
        \/ q.got = "stray" /\ Proceed(u, y)
    BY <1>4, <1>8 DEF RemovedLater, Got
  <2>2. q.got = "zero" => (q.fresh => Worthless(version, store, objs, op, objs[q.x]))
    BY <1>1, <1>2 DEF PassOK
  <2>3. q.got = "stray" => q.cmd
    BY <1>1 DEF PassOK
  <2> HIDE DEF t, y, op, q
  <2>4. QED
    BY <1>3, <1>5, <2>1, <2>2, <2>3
<1>9. QED
  BY <1>6, <1>7, <1>8

\* The end of a pass, which may have positions to take out.
LEMMA ClosingOK ==
  ASSUME NEW v, NEW s, NEW o, NEW op, NEW q, Len(o) \in Nat, PassOK(v, s, o, op, q)
  PROVE  /\ PassOK(v, s, o, op, Closing(q))
         /\ Closing(q) = NoPass \/ Closing(q).cmd = q.cmd
<1> DEFINE d == [NoPass EXCEPT !.pc = "delete", !.todel = q.todel, !.fresh = q.fresh,
                               !.cmd = q.cmd, !.strays = q.strays]
<1>1. q \in Passes(Len(o))
  BY DEF PassOK
<1>2. PassOK(v, s, o, op, NoPass)
  BY NoPassOK
<1>3. ASSUME q.todel # <<>> PROVE PassOK(v, s, o, op, d) /\ d.cmd = q.cmd
  <2>1. q.todel \in Seq(1..Len(o)) /\ q.fresh \in BOOLEAN /\ q.cmd \in BOOLEAN
        /\ q.strays \in SUBSET Nat
    BY <1>1 DEF Passes
  <2>2. <<>> \in Seq(1..Len(o)) /\ Len(<<>>) = 0
    OBVIOUS
  <2>3. d \in Passes(Len(o)) /\ d.pc = "delete" /\ d.todel = q.todel /\ d.fresh = q.fresh
        /\ ~d.live /\ d.n = 0 /\ d.own = <<>> /\ d.cmd = q.cmd /\ d.strays = q.strays
        /\ d.got = "none"
    BY <2>1, <2>2 DEF NoPass, Passes
  <2>4. /\ q.fresh /\ NFTs(v) =>
             \A j \in 1..Len(q.todel) :
               q.todel[j] \in q.strays \/ Worthless(v, s, o, op, o[q.todel[j]])
        /\ q.cmd => v = "v3"
        /\ q.strays # {} => q.cmd
    BY DEF PassOK
  <2> HIDE DEF d
  <2>5. QED
    BY <1>3, <2>2, <2>3, <2>4 DEF PassOK
<1>4. Closing(q) = IF q.todel = <<>> THEN NoPass ELSE d
  BY DEF Closing
<1> HIDE DEF d
<1>5. QED
  BY <1>2, <1>3, <1>4

LEMMA ShowWorth ==
  ASSUME SoundInv, WorthInv, NEW u \in Updaters, Show(u) \/ Printed(u)
  PROVE  WorthInv'
<1> DEFINE q == upd[u]
           op == Seen(q.cmd)
           r == Closing(q)
<1>1. /\ PassOK(version, store, objs, op, q)
      /\ Len(objs) \in Nat /\ Shrinks(store, store)
  BY PassOKNow, StoreType
<1>2. upd' = [upd EXCEPT ![u] = r] /\ PaneUnchanged /\ UNCHANGED <<store, disc>>
  BY DEF Show, Printed, Proceed
<1>3. PassOK(version, store, objs, op, r) /\ (r = NoPass \/ r.cmd = q.cmd)
  <2> HIDE DEF q, op
  <2>1. QED
    BY <1>1, ClosingOK
<1>4. \A new : PassOK(version, store, objs, new, NoPass)
  BY <1>1, NoPassOK
<1>5. PassOK(version, store, objs, Seen(r.cmd), r)
  BY <1>3, <1>4
<1>6. Shrinks(store, store')
  BY <1>1, <1>2
<1> HIDE DEF r, q, op
<1>7. QED
  BY <1>2, <1>5, <1>6, OnePassWorth

LEMMA TailIs ==
  ASSUME NEW S, NEW s \in Seq(S), s # <<>>
  PROVE  /\ Tail(s) \in Seq(S) /\ Len(s) \in Nat /\ Len(Tail(s)) = Len(s) - 1
         /\ Head(s) = s[1] /\ 1 \in 1..Len(s)
         /\ \A j \in 1..Len(Tail(s)) : j + 1 \in 1..Len(s) /\ Tail(s)[j] = s[j + 1]
<1>1. /\ Tail(s) \in Seq(S) /\ Len(s) \in Nat /\ Len(s) > 0 /\ Len(Tail(s)) = Len(s) - 1
      /\ Head(s) = s[1] /\ \A j \in 1..(Len(s) - 1) : Tail(s)[j] = s[j + 1]
  OBVIOUS
<1>2. \A j \in 1..(Len(s) - 1) : j + 1 \in 1..Len(s)
  BY <1>1
<1>3. 1 \in 1..Len(s)
  BY <1>1
<1>4. QED
  BY <1>1, <1>2, <1>3

LEMMA DeleteClosedWorth ==
  ASSUME SoundInv, WorthInv, NEW u \in Updaters, DeleteClosed(u)
  PROVE  WorthInv'
<1> DEFINE q == upd[u]
           rest == Tail(q.todel)
           d == [q EXCEPT !.todel = rest]
           r == IF rest = <<>> THEN NoPass ELSE d
           op == Seen(q.cmd)
<1>1. /\ PassOK(version, store, objs, op, q) /\ q \in Passes(Len(objs)) /\ q.pc = "delete"
      /\ Len(objs) \in Nat /\ DOMAIN upd = Updaters
  BY PassOKNow, StoreType DEF DeleteClosed
<1>2. TakeOut(u, objs[Head(q.todel)], [upd EXCEPT ![u] = r])
  BY <1>1 DEF DeleteClosed
<1>3. \A new : PassOK(version, store, objs, new, NoPass)
  BY <1>1, NoPassOK
<1>4. ASSUME rest # <<>> PROVE PassOK(version, store, objs, op, d) /\ d.cmd = q.cmd
  <2>1. q.todel \in Seq(1..Len(objs)) /\ q.todel # <<>>
    BY <1>1 DEF Passes, PassOK
  <2>2. /\ rest \in Seq(1..Len(objs))
        /\ \A j \in 1..Len(rest) : j + 1 \in 1..Len(q.todel) /\ rest[j] = q.todel[j + 1]
    BY <2>1, TailIs
  <2> HIDE DEF rest
  <2>3. d \in Passes(Len(objs)) /\ d.pc = "delete" /\ d.todel = rest /\ d.fresh = q.fresh
        /\ d.live = q.live /\ d.n = q.n /\ d.own = q.own
        /\ d.got = q.got /\ d.cmd = q.cmd /\ d.strays = q.strays
    BY <1>1, <2>2 DEF Passes
  <2>4. q.fresh /\ NFTs(version) =>
          \A j \in 1..Len(rest) :
            rest[j] \in q.strays \/ Worthless(version, store, objs, op, objs[rest[j]])
    BY <1>1, <2>2 DEF PassOK
  <2> HIDE DEF d, q, op
  <2>5. QED
    BY <1>1, <1>4, <2>3, <2>4 DEF PassOK
<1> HIDE DEF d, rest
<1>5. PassOK(version, store, objs, Seen(r.cmd), r)
  BY <1>3, <1>4
<1> HIDE DEF r, q, op
<1>6. QED
  BY <1>2, <1>5, TakeOutShrinks, OnePassWorth

LEMMA BeginWorth ==
  ASSUME SoundInv, WorthInv, NEW u \in Updaters, NEW p, Begin(u, p)
  PROVE  WorthInv'
<1> DEFINE r == [NoPass EXCEPT !.pc = "ask", !.i = 1, !.n = store.len, !.live = TRUE]
<1>1. /\ Len(objs) \in Nat /\ IsStore(store, objs) /\ Shrinks(store, store)
  BY StoreType
<1>2. PassOK(version, store, objs, Seen(r.cmd), r)
  BY <1>1, BeginsOK
<1>3. /\ upd' = upd \/ upd' = [upd EXCEPT ![u] = r]
      /\ PaneUnchanged /\ UNCHANGED <<store, disc>>
  BY DEF Begin
<1> HIDE DEF r
<1>4. Shrinks(store, store')
  BY <1>1, <1>3
<1>5. CASE upd' = upd
  BY <1>3, <1>4, <1>5, StepsWorth DEF WorthInv, PassInv, HandInv, PaneUnchanged
<1>6. QED
  BY <1>2, <1>3, <1>4, <1>5, OnePassWorth

LEMMA PaneWorth ==
  ASSUME SoundInv, WorthInv, NEW u \in Updaters, Pass(u) \/ Listen(u) \/ WakeUp(u)
  PROVE  WorthInv'
<1>1. CASE WakeUp(u)
  BY <1>1, BeginWorth DEF WakeUp
<1>2. CASE Listen(u)
  <2>1. (\E p : Begin(u, p)) \/ (PaneUnchanged /\ UNCHANGED <<store, upd, disc, budget>>)
    BY <1>2 DEF Listen, scheduleUpdateV2, scheduleUpdateV3, scheduleUpdateV4, processStaking,
                ScheduleUpdate
  <2>2. CASE PaneUnchanged /\ UNCHANGED <<store, upd, disc, budget>>
    BY <2>2, StoreType, StepsWorth DEF WorthInv, PassInv, HandInv, PaneUnchanged
  <2>3. QED
    BY <2>1, <2>2, BeginWorth
<1>3. CASE Pass(u)
  <2>1. \/ AskStatus(u) \/ Show(u) \/ Printed(u) \/ DeleteClosed(u) \/ StrangersRemoved(u)
        \/ Listed(u) \/ Skipped(u) \/ RemovedAtOnce(u) \/ RemovedLater(u)
    BY <1>3 DEF Pass, updateListV2, updateListV3, updateListV4, updateListStaking, ListStep, list
  <2>2. QED
    BY <2>1, AskStatusWorth, ShowWorth, DeleteClosedWorth, AdvanceWorth
<1>4. QED
  BY <1>1, <1>2, <1>3

LEMMA StepWorth ==
  ASSUME SoundInv, WorthInv, [Next]_vars
  PROVE  WorthInv'
<1>1. CASE \E p \in Positions : Open(p) \/ Close(p)
  BY <1>1, OpenChain, CloseChain, MoveWorth DEF Open, Close, WorthInv
<1>2. CASE \/ \E p \in Positions, o \in Addresses : Transfer(p, o)
           \/ \E p \in Positions, left \in {"liquidity", "fees", "owed"} : Resize(p, left)
  BY <1>2, TransferChain, ResizeChain, MoveWorth DEF Transfer, Resize, WorthInv
<1>3. CASE \/ \E pr \in Providers : Dialogue(pr)
           \/ LP_V2_Process \/ LP_V3_Process \/ LP_V4_Process \/ Staking_Process
  BY <1>3, ProcessWorth
<1>4. CASE DiscoveryStep
  BY <1>4, DiscoveryGoes, GoesWorth
<1>5. CASE \E u \in Updaters : Pass(u) \/ Listen(u) \/ WakeUp(u)
  BY <1>5, PaneWorth
<1>6. CASE Elapse \/ PriceUpdated \/ UNCHANGED vars
  <2>1. UNCHANGED <<version, mode, open, owed, dust, nfts, minted, objs, store, upd, disc>>
    BY <1>6 DEF Elapse, PriceUpdated, PaneUnchanged, vars
  <2>2. Shrinks(store, store')
    BY <2>1, StoreType
  <2>3. QED
    BY <2>1, <2>2, StepsWorth DEF WorthInv, PassInv, HandInv
<1>7. QED
  BY <1>1, <1>2, <1>3, <1>4, <1>5, <1>6 DEF Next

LEMMA InitWorth == Init => WorthInv /\ BudgetInv
<1> SUFFICES ASSUME Init PROVE WorthInv /\ BudgetInv
  OBVIOUS
<1>1. PICK w \in Worlds :
        /\ version = w.version /\ mode = w.mode
        /\ open = w.open
        /\ minted = w.open \cup Range(w.stored)
        /\ nfts = [pr \in Providers |-> [o \in Addresses |->
             IF NFTs(w.version)
             THEN SetToSeq(KeysOf({p \in w.open : p.prov = pr /\ p.owner = o})) ELSE <<>>]]
        /\ objs = w.stored
        /\ store = [arr |-> [i \in 1..Len(w.stored) |-> i], len |-> Len(w.stored)]
        /\ upd = [u \in Updaters |-> NoPass]
        /\ disc = NoDisc
        /\ budget = w.budget
  BY DEF Init
<1>2. IsWorld(w)
  BY WorldsAssumption
<1>3. open \subseteq Positions /\ IsFiniteSet(open) /\ objs \in Seq(Positions)
  BY InitKeeps DEF SoundInv, Kept
<1>4. \A i \in 1..Len(objs) : objs[i] \in Range(objs)
  BY <1>3 DEF Range
<1>5. NFTs(version) =>
       \A p \in open : \E j \in 1..Len(nfts[p.prov][p.owner]) : nfts[p.prov][p.owner][j] = p.key
  <2> SUFFICES ASSUME NFTs(version), NEW p \in open
               PROVE  \E j \in 1..Len(nfts[p.prov][p.owner]) : nfts[p.prov][p.owner][j] = p.key
    OBVIOUS
  <2> DEFINE held == {q \in w.open : q.prov = p.prov /\ q.owner = p.owner}
             s == SetToSeq(KeysOf(held))
  <2>1. p.prov \in Providers /\ p.owner \in Addresses
    BY <1>3 DEF Positions
  <2>2. nfts[p.prov][p.owner] = s
    BY <1>1, <2>1
  <2>3. held \subseteq Positions /\ IsFiniteSet(held) /\ p \in held
    BY <1>1, <1>3, FS_Subset
  <2> HIDE DEF held
  <2>4. p.key \in KeysOf(held)
    BY <2>3 DEF KeysOf
  <2>5. \A k \in KeysOf(held) : \E j \in 1..Len(s) : s[j] = k
    BY <2>3, KeysListed
  <2> HIDE DEF s
  <2>6. QED
    BY <2>2, <2>4, <2>5
<1>6. ChainInv
  <2>1. \A p \in open \cup minted : p \in w.open \cup Range(w.stored)
    BY <1>1
  <2>2. /\ mode \in Modes[version]
        /\ \A p \in open \cup minted : p.key \in KeysOn(version, mode)
        /\ \A p, q \in minted : p.key = q.key /\ p.key \in Vaults => p = q
    BY <1>1, <1>2, <2>1 DEF IsWorld
  <2>3. \A i \in 1..Len(objs) : objs[i] \in minted
    BY <1>1, <1>4
  <2>4. open \subseteq minted
    BY <1>1
  <2>5. QED
    BY <1>5, <2>2, <2>3, <2>4 DEF ChainInv
<1>7. PassInv
  <2>1. Len(objs) \in Nat
    BY <1>3
  <2>2. PassOK(version, store, objs, Seen(NoPass.cmd), NoPass)
    BY <2>1, NoPassOK
  <2>3. QED
    BY <1>1, <2>2 DEF PassInv
<1>8. HandInv
  BY <1>1 DEF HandInv, HandOK, NoDisc
<1>9. BudgetInv
  BY <1>1, <1>2 DEF BudgetInv, IsWorld
<1>10. QED
  BY <1>6, <1>7, <1>8, <1>9 DEF WorthInv

\* What a pass takes out, when what it knows of z is right, is worth nothing.
LEMMA ItselfOrVault ==
  ASSUME SoundInv, WorthInv, NEW x \in 1..Len(objs),
         NEW p \in KeptIn(store, objs), p \in open,
         p \notin KeptIn(RemovePosition(version, store, objs, objs[x]), objs)
  PROVE  p = objs[x] \/ TwoVaults(p)
<1> DEFINE z == objs[x]
<1>1. z \in Positions /\ objs \in Seq(Positions)
  BY DEF SoundInv, Kept
<1>2. p \in Positions /\ p.prov = z.prov /\ p.owner = z.owner
      /\ (version # "staking" \/ z.key \notin Unvalidated => p.key = z.key)
  <2>1. Kept(version, store, objs, Allowed)
    BY DEF SoundInv
  <2> HIDE DEF z
  <2>2. p \notin KeptIn(RemovePosition(version, store, objs, z), objs)
    BY DEF z
  <2>3. QED
    BY <2>1, <2>2, RemovedIs
<1> HIDE DEF z
<1>3. CASE p.key = z.key
  <2>1. p = z
    BY <1>1, <1>2, <1>3, SamePosition
  <2>2. QED
    BY <2>1 DEF z
<1>4. CASE p.key # z.key
  <2>1. version = "staking" /\ z.key \in Unvalidated
    BY <1>2, <1>4
  <2>2. /\ p.key \in KeysOn(version, mode) /\ z.key \in KeysOn(version, mode)
        /\ z.key \in Vaults => z \in minted
    BY <2>1 DEF WorthInv, ChainInv, z
  <2>3. mode \in {"plain", "validators", "vaults"}
    BY <2>1 DEF WorthInv, ChainInv, Modes
  <2>4. CASE mode = "plain"
    BY <1>4, <2>1, <2>2, <2>4 DEF KeysOn
  <2>5. CASE mode = "validators"
    BY <2>1, <2>2, <2>5, KeysAreApart DEF KeysOn
  <2>6. CASE mode = "vaults"
    <3>1. p.key \in Vaults /\ z.key \in Vaults /\ z \in minted
      BY <2>1, <2>2, <2>6 DEF KeysOn
    <3>2. z # p
      BY <1>4
    <3>3. QED
      BY <1>2, <3>1, <3>2 DEF TwoVaults
  <2>7. QED
    BY <2>3, <2>4, <2>5, <2>6
<1>5. QED
  BY <1>3, <1>4

LEMMA OnlyWorthless ==
  ASSUME SoundInv, WorthInv, NEW x \in 1..Len(objs), NEW b \in BOOLEAN,
         NEW op \in SUBSET open, b => Worthless(version, store, objs, op, objs[x]),
         NEW p \in KeptIn(store, objs), p \in op,
         p \notin KeptIn(RemovePosition(version, store, objs, objs[x]), objs)
  PROVE  ~b \/ TwoVaults(p)
<1> DEFINE z == objs[x]
<1>1. p = z => ~Worthless(version, store, objs, op, z)
  <2> SUFFICES ASSUME p = z, Worthless(version, store, objs, op, z) PROVE FALSE
    OBVIOUS
  <2>1. version = "v2" => \A q \in KeptIn(store, objs) : SameAs(version, z, q) => q \notin op
    BY DEF Worthless, KeptIn
  <2>2. SameAs(version, z, z)
    BY DEF SameAs
  <2>3. version = "v2" \/ version = "staking" \/ NFTs(version)
    BY DEF SoundInv, Versions, NFTs
  <2> HIDE DEF z
  <2>4. QED
    BY <2>1, <2>2, <2>3 DEF Worthless
<1>2. p = z \/ TwoVaults(p)
  BY ItselfOrVault
<1>3. QED
  BY <1>1, <1>2

\* A discovery is told of what a pass takes out that is worth something.
Noticed(u, p) ==
  disc' = IF Astray(u) \/ \E q \in open : SameAs(version, p, q) /\ Unseen(u, q)
          THEN Unclean(disc) ELSE disc

\* A pass takes a position out: which, and what it knows of it.
LEMMA TakesOut ==
  ASSUME SoundInv, WorthInv, NEW u \in Updaters,
         \/ RemovedAtOnce(u) \/ StrangersRemoved(u)
         \/ NFTs(version) /\ DeleteClosed(u)
  PROVE  /\ upd[u].pc # "idle" /\ upd[u].fresh \in BOOLEAN
         /\ upd'[u] # upd[u]
         /\ UNCHANGED <<objs, budget>>
         /\ \E x \in 1..Len(objs) :
              /\ store' = RemovePosition(version, store, objs, objs[x])
              /\ Noticed(u, objs[x])
              /\ \/ Astray(u)
                 \/ upd[u].fresh =>
                      Worthless(version, store, objs, Seen(upd[u].cmd), objs[x])
<1> DEFINE q == upd[u]
           op == Seen(q.cmd)
<1>1. /\ PassOK(version, store, objs, op, q) /\ q \in Passes(Len(objs))
      /\ Len(objs) \in Nat /\ DOMAIN upd = Updaters /\ q.cmd \in BOOLEAN
  BY PassOKNow, StoreType
<1>2. q.fresh \in BOOLEAN
  BY <1>1 DEF Passes
<1>3. CASE RemovedAtOnce(u) \/ StrangersRemoved(u)
  <2>1. /\ q.pc = "use" /\ q.x \in 1..Len(objs)
        /\ Astray(u) \/ (q.fresh => Worthless(version, store, objs, op, objs[q.x]))
    <3>1. CASE RemovedAtOnce(u)
      BY <1>1, <3>1 DEF RemovedAtOnce, Got, PassOK
    <3>2. CASE StrangersRemoved(u)
      <4>1. q.pc = "use" /\ q.got = "stranger"
        BY <3>2 DEF StrangersRemoved, Got
      <4>2. q.cmd /\ q.x \in 1..Len(objs)
        BY <1>1, <4>1 DEF PassOK
      <4>3. QED
        BY <4>1, <4>2 DEF Astray, Got
    <3>3. QED
      BY <1>3, <3>1, <3>2
  <2>2. /\ store' = RemovePosition(version, store, objs, objs[q.x])
        /\ upd' = [upd EXCEPT ![u] = Advance(u)] /\ UNCHANGED <<objs, budget>>
        /\ Noticed(u, objs[q.x])
    BY <1>3 DEF RemovedAtOnce, StrangersRemoved, TakeOut, PaneUnchanged, Noticed
  <2>3. Advance(u).pc = "ask"
    BY <1>1 DEF Advance, Passes
  <2>4. upd'[u] = Advance(u)
    BY <1>1, <2>2
  <2>5. upd'[u] # upd[u]
    BY <2>1, <2>3, <2>4
  <2>6. QED
    BY <1>2, <2>1, <2>2, <2>5
<1>4. CASE NFTs(version) /\ DeleteClosed(u)
  <2> DEFINE rest == Tail(q.todel)
             r == IF rest = <<>> THEN NoPass ELSE [q EXCEPT !.todel = rest]
  <2>1. q.pc = "delete" /\ q.todel # <<>> /\ q.todel \in Seq(1..Len(objs))
    BY <1>1, <1>4 DEF DeleteClosed, PassOK, Passes
  <2>2. /\ store' = RemovePosition(version, store, objs, objs[Head(q.todel)])
        /\ upd' = [upd EXCEPT ![u] = r] /\ UNCHANGED <<objs, budget>>
        /\ Noticed(u, objs[Head(q.todel)])
    BY <1>1, <1>4 DEF DeleteClosed, TakeOut, PaneUnchanged, Noticed
  <2>3. /\ Len(q.todel) \in Nat /\ Len(rest) = Len(q.todel) - 1
        /\ Head(q.todel) = q.todel[1] /\ 1 \in 1..Len(q.todel)
    BY <2>1, TailIs
  <2>4. Head(q.todel) \in 1..Len(objs)
    BY <2>1, <2>3
  <2>5. Astray(u) \/ (q.fresh => Worthless(version, store, objs, op, objs[Head(q.todel)]))
    <3>1. CASE Head(q.todel) \in q.strays
      <4>1. q.cmd
        BY <1>1, <3>1 DEF PassOK
      <4>2. QED
        BY <2>1, <3>1, <4>1 DEF Astray
    <3>2. CASE Head(q.todel) \notin q.strays
      BY <1>1, <1>4, <2>3, <3>2 DEF PassOK
    <3>3. QED
      BY <3>1, <3>2
  <2>6. r.pc = "idle" \/ r.todel = rest
    BY <1>1 DEF NoPass, Passes
  <2>7. rest # q.todel
    <3> HIDE DEF rest, q
    <3>1. ASSUME rest = q.todel PROVE FALSE
      <4>1. Len(q.todel) = Len(q.todel) - 1 /\ Len(q.todel) \in Nat
        BY <2>3, <3>1
      <4>2. QED
        BY <4>1
    <3>2. QED
      BY <3>1
  <2> HIDE DEF r, rest
  <2>8. r # q
    BY <2>1, <2>6, <2>7
  <2>9. upd'[u] # upd[u]
    BY <1>1, <2>2, <2>8
  <2>10. QED
    BY <1>2, <2>1, <2>2, <2>4, <2>5, <2>9
<1>5. QED
  BY <1>3, <1>4

LEMMA StoredIsKept ==
  ASSUME SoundInv
  PROVE  Stored = KeptIn(store, objs)
BY StoreType, StoredIs DEF Stored

LEMMA StoredThen ==
  ASSUME SoundInv'
  PROVE  Stored' = KeptIn(store', objs')
<1>1. objs' \in Seq(Positions) /\ IsStore(store', objs')
  BY DEF SoundInv, Kept
<1>2. {objs'[x] : x \in Range(Elements(store'))} = KeptIn(store', objs')
  BY <1>1, StoredIs
<1>3. QED
  BY <1>2 DEF Stored

-----------------------------------------------------------------------------
\* A step that leaves the slice, or one of the user.
LEMMA StaysOrUser ==
  ASSUME SoundInv, BudgetInv,
         \/ UNCHANGED <<store, objs>>
         \/ User
  PROVE  \A p \in Stored \ Stored' : p \in open => MayTakeOut(p)
<1>1. CASE UNCHANGED <<store, objs>>
  BY <1>1 DEF Stored
<1>2. CASE User
  <2>1. budget' = [budget EXCEPT !.user = @ - 1]
    BY <1>2 DEF User
  <2>2. budget'.user # budget.user
    BY <2>1 DEF BudgetInv
  <2>3. QED
    BY <2>2 DEF MayTakeOut
<1>3. QED
  BY <1>1, <1>2

LEMMA GoesTakesOut ==
  ASSUME SoundInv, WorthInv, SoundInv', Goes
  PROVE  \A p \in Stored \ Stored' : p \in open => MayTakeOut(p)
<1> SUFFICES ASSUME NEW p \in Stored \ Stored', p \in open PROVE MayTakeOut(p)
  OBVIOUS
<1>1. Stored = KeptIn(store, objs) /\ Stored' = KeptIn(store', objs')
  BY StoredIsKept, StoredThen
<1>2. CASE \E d : Go(d) \/ GoFailed(d)
  BY <1>2 DEF Go, GoFailed, Stored
<1>3. CASE \E z \in Positions : \E d : z.prov \in Allowed /\ Fits(z) /\ Hand(d) /\ GoAdd(z, d)
  <2>1. PICK z \in Positions : \E d : z.prov \in Allowed /\ Fits(z) /\ Hand(d) /\ GoAdd(z, d)
    BY <1>3
  <2>2. Added(version, store, objs, z, store', objs')
    BY <2>1, GoAddWorth
  <2>3. \E r \in KeptIn(store', objs') : SameAs(version, p, r)
    BY <1>1, <2>2 DEF Added
  <2>4. QED
    BY <1>1, <2>3 DEF MayTakeOut, Same
<1>4. CASE StakeGone
  <2> DEFINE z == Pos(disc.prov, Plain, This)
  <2>1. /\ disc.pc = "stake" /\ ~disc.has /\ disc' = NextOwner(disc) /\ UNCHANGED objs
        /\ store' = RemovePosition(version, store, objs, z)
    BY <1>4 DEF StakeGone
  <2>2. /\ disc \in Discoveries /\ version = "staking" /\ mode = "plain"
        /\ disc.fresh => z \notin open
    BY <2>1 DEF SoundInv, Sane, WorthInv, HandInv, HandOK, This
  <2>3. disc' # disc
    <3>1. disc'.pc = disc.loop /\ disc.loop \in {"address", "mints", "balances"}
      BY <2>1, <2>2, NextOwnerHand DEF Discoveries
    <3>2. QED
      BY <2>1, <3>1
  <2>4. z \in Positions /\ z.key = Plain
    BY <2>1, InHand DEF Pos
  <2>5. p \in Positions /\ p.prov = z.prov /\ p.owner = z.owner
    <3>1. Kept(version, store, objs, Allowed)
      BY DEF SoundInv
    <3> HIDE DEF z
    <3>2. p \in KeptIn(store, objs) /\ p \notin KeptIn(RemovePosition(version, store, objs, z), objs)
      BY <1>1, <2>1
    <3>3. QED
      BY <3>1, <3>2, RemovedIs
  <2>6. p.key = Plain
    BY <2>2 DEF WorthInv, ChainInv, KeysOn
  <2>7. p = z
    <3> HIDE DEF z
    <3>1. QED
      BY <2>4, <2>5, <2>6, SamePosition
  <2>8. disc.fresh \in BOOLEAN
    BY <2>2 DEF Discoveries
  <2> HIDE DEF z
  <2>9. ~disc.fresh
    BY <2>2, <2>7, <2>8
  <2>10. QED
    BY <2>3, <2>9 DEF MayTakeOut
<1>5. QED
  BY <1>2, <1>3, <1>4 DEF Goes

LEMMA PaneStill ==
  ASSUME NEW u \in Updaters, Pass(u) \/ Listen(u) \/ WakeUp(u)
  PROVE  /\ UNCHANGED <<version, mode, open, owed, dust, nfts, minted, providers, beyond>>
         /\ disc' = disc \/ disc' = Unclean(disc)
         /\ \/ UNCHANGED <<store, objs>>
            \/ RemovedAtOnce(u) \/ StrangersRemoved(u) \/ (NFTs(version) /\ DeleteClosed(u))
<1>1. CASE Pass(u)
  <2>1. \/ ListStep(u) \/ RemovedLater(u) \/ Printed(u)
        \/ RemovedAtOnce(u) \/ StrangersRemoved(u) \/ (NFTs(version) /\ DeleteClosed(u))
    BY <1>1 DEF Pass, updateListV2, updateListV3, updateListV4, updateListStaking, NFTs, list
  <2>2. CASE ListStep(u) \/ RemovedLater(u) \/ Printed(u)
    BY <2>2 DEF ListStep, AskStatus, Listed, Skipped, Show, RemovedLater, Printed, Proceed,
                PaneUnchanged
  <2>3. CASE RemovedAtOnce(u) \/ StrangersRemoved(u) \/ (NFTs(version) /\ DeleteClosed(u))
    BY <2>3 DEF RemovedAtOnce, StrangersRemoved, DeleteClosed, TakeOut, PaneUnchanged
  <2>4. QED
    BY <2>1, <2>2, <2>3
<1>2. CASE Listen(u) \/ WakeUp(u)
  BY <1>2 DEF Listen, scheduleUpdateV2, scheduleUpdateV3, scheduleUpdateV4, processStaking,
              ScheduleUpdate, WakeUp, Begin, PaneUnchanged
<1>3. QED
  BY <1>1, <1>2

LEMMA PaneTakesOut ==
  ASSUME SoundInv, WorthInv, SoundInv', NEW u \in Updaters, Pass(u) \/ Listen(u) \/ WakeUp(u)
  PROVE  \A p \in Stored \ Stored' : p \in open => MayTakeOut(p)
<1> SUFFICES ASSUME NEW p \in Stored \ Stored', p \in open PROVE MayTakeOut(p)
  OBVIOUS
<1>1. Stored = KeptIn(store, objs) /\ Stored' = KeptIn(store', objs')
  BY StoredIsKept, StoredThen
<1>2. \/ UNCHANGED <<store, objs>>
      \/ RemovedAtOnce(u) \/ StrangersRemoved(u) \/ (NFTs(version) /\ DeleteClosed(u))
  BY PaneStill
<1>3. CASE UNCHANGED <<store, objs>>
  BY <1>3 DEF Stored
<1>4. CASE RemovedAtOnce(u) \/ StrangersRemoved(u) \/ (NFTs(version) /\ DeleteClosed(u))
  <2> DEFINE op == Seen(upd[u].cmd)
  <2>1. /\ upd[u].pc # "idle" /\ upd[u].fresh \in BOOLEAN
        /\ upd'[u] # upd[u] /\ UNCHANGED objs
    BY <1>4, TakesOut
  <2>2. PICK x \in 1..Len(objs) :
          /\ store' = RemovePosition(version, store, objs, objs[x])
          /\ Astray(u) \/ (upd[u].fresh => Worthless(version, store, objs, op, objs[x]))
    BY <1>4, TakesOut
  <2>3. /\ p \in KeptIn(store, objs)
        /\ p \notin KeptIn(RemovePosition(version, store, objs, objs[x]), objs)
    BY <1>1, <2>1, <2>2
  <2>4. op \in SUBSET open
    BY DEF Seen
  <2>5. Unseen(u, p) \/ p \in op
    BY DEF Unseen
  <2> HIDE DEF op
  <2>6. Unseen(u, p) \/ Astray(u) \/ ~upd[u].fresh \/ TwoVaults(p)
    BY <2>1, <2>2, <2>3, <2>4, <2>5, OnlyWorthless
  <2>7. QED
    BY <2>1, <2>6 DEF MayTakeOut, Stale
<1>5. QED
  BY <1>2, <1>3, <1>4

LEMMA StepTakesOut ==
  ASSUME SoundInv, WorthInv, BudgetInv, SoundInv', [Next]_vars
  PROVE  \A p \in Stored \ Stored' : p \in open => MayTakeOut(p)
<1>1. CASE \/ \E p \in Positions : Open(p) \/ Close(p)
           \/ \E p \in Positions, o \in Addresses : Transfer(p, o)
           \/ \E p \in Positions, left \in {"liquidity", "fees", "owed"} : Resize(p, left)
           \/ Elapse \/ PriceUpdated \/ UNCHANGED vars
  <2>1. UNCHANGED <<store, objs>>
    BY <1>1 DEF Open, Close, Transfer, Resize, Move, Elapse, PriceUpdated, PaneUnchanged, vars
  <2>2. QED
    BY <2>1, StaysOrUser
<1>2. CASE \/ \E pr \in Providers : Dialogue(pr)
           \/ LP_V2_Process \/ LP_V3_Process \/ LP_V4_Process \/ Staking_Process
  <2>1. CASE \E pr \in Providers : Dialogue(pr)
    BY <2>1, StaysOrUser DEF Dialogue, DlgLP_V2_add, DlgLP_V3_add, DlgLP_V4_add,
         DlgStakingAdd, DlgLP_V2_edit, DlgLP_V3_edit, DlgLP_V4_edit, DlgStakingEdit,
         AddProvider, EditProvider
  <2>2. CASE LP_V2_Process \/ LP_V3_Process \/ LP_V4_Process \/ Staking_Process
    <3>1. \/ \E pr \in Providers : RemoveProvider(pr)
          \/ SwitchPane \/ \E k \in Keys : IgnoreToken(k)
          \/ \E p \in Positions : DeletePosition(p)
          \/ \E u \in Updaters : ListPositions(u)
          \/ \E f \in SUBSET (Keys \cup Vaults) : Discover(f)
          \/ \E pr \in Providers, k \in Keys : DiscoverSingle(pr, k)
      BY <2>2 DEF LP_V2_Process, LP_V3_Process, LP_V4_Process, Staking_Process, Command
    <3>2. User \/ UNCHANGED <<store, objs>>
      BY <3>1 DEF RemoveProvider, SwitchPane, DeletePosition, IgnoreToken, ListPositions,
                  Discover, DiscoverSingle
    <3>3. QED
      BY <3>2, StaysOrUser
  <2>3. QED
    BY <1>2, <2>1, <2>2
<1>3. CASE DiscoveryStep
  BY <1>3, DiscoveryGoes, GoesTakesOut
<1>4. CASE \E u \in Updaters : Pass(u) \/ Listen(u) \/ WakeUp(u)
  BY <1>4, PaneTakesOut
<1>5. QED
  BY <1>1, <1>2, <1>3, <1>4 DEF Next

(* Whatever chain, discoveries, passes and the user do at the same time,   *)
(* what goes without being asked for is worth nothing, but for the races   *)
(* that MayTakeOut names.                                                  *)
THEOREM OnlyTheEmptyGo == Spec => DeletesOnlyEmpty
<1> DEFINE Inv == SoundInv /\ WorthInv /\ BudgetInv
<1>1. Init => Inv
  BY InitKeeps, InitWorth
<1>2. Inv /\ [Next]_vars => Inv'
  BY StepKeeps, StepWorth, BudgetKeeps
<1>3. Inv /\ [Next]_vars /\ Inv' => [\A p \in Stored \ Stored' : p \in open => MayTakeOut(p)]_vars
  BY StepTakesOut
<1>4. QED
  BY <1>1, <1>2, <1>3, PTL DEF Spec, DeletesOnlyEmpty

-----------------------------------------------------------------------------
(***************************************************************************)
(* What is found: a position that is worth something either is still to be *)
(* come across, at a provider, an owner, a token or a key that waits, or the *)
(* wallet keeps it.                                                        *)
(***************************************************************************)
\* What is still to be looked at for the owner whose turn it is.
AtHand(d, p) ==
  LET tokens == nfts[d.prov][Head(d.owners)]
  IN \/ d.pc \in {"address", "mints", "balances", "stake"}
     \/ /\ d.pc = "index" \/ version = "v3"
        /\ \E j \in (d.i + 1)..Len(tokens) : tokens[j] = p.key
     \/ version # "v3" /\ \E j \in 1..Len(d.todo) : d.todo[j] = p.key

\* p is still to be come across: its provider waits, or its owner, or p itself.
Waits(d, p) ==
  \/ p.prov \in d.left
  \/ /\ p.prov = d.prov
     /\ \/ d.pc \in {"probe", "vault"}
        \/ /\ d.pc \notin {"probe", "vault", "provider"} /\ d.owners # <<>>
           /\ \/ \E j \in 2..Len(d.owners) : d.owners[j] = p.owner
              \/ d.owners[1] = p.owner /\ AtHand(d, p)

InReachOf(filter, p) ==
  /\ p.prov \in providers \ beyond.dark
  /\ p.owner \in Range(Owners)
  /\ mode \in {"positions", "mints", "graph"} => p.owner \notin beyond.crowded
  /\ version = "v2" => mode # "none"
  /\ mode = "mints" => p \in minted
  /\ p.key \in Vaults => p.key \in filter /\ ~TwoVaults(p)

\* Nothing that can be seen is lost: it waits, or the wallet keeps it.
Covers(d) == \A p \in open : InReachOf(d.filter, p) => Waits(d, p) \/ p \in Stored

NoneStale == \A u \in Updaters : ~Stale(u)

\* A discovery that nothing has disturbed: what it was told is still so, and it asks as its
\* kind of provider is asked.
OnWay(d) ==
  /\ d.fresh
  /\ d.pc \notin {"single", "pairs"}
  /\ IF mode = "vaults" THEN d.pc \in {"provider", "vault"} ELSE d.pc # "vault"
  /\ version = "v2" /\ d.pc # "provider" =>
       /\ mode # "none"
       /\ d.loop = IF mode = "mints" /\ d.pc # "probe" THEN "mints" ELSE "address"
       /\ d.pc = "probe" => d.owners = Owners
       /\ d.pc = "address" => mode = "positions"
       /\ d.pc \in {"mints", "balances"} => mode = "mints"
       /\ d.pc = "balances" /\ Head(d.owners) \notin beyond.crowded =>
            \A p \in minted : p.prov = d.prov /\ p.owner = Head(d.owners) => p.key \in d.pairs
  /\ d.pc = "index" \/ (version = "v3" /\ d.pc \in {"details", "add"}) =>
       d.n = Len(nfts[d.prov][Head(d.owners)])
  /\ version = "v3" /\ d.pc \in {"details", "add"} =>
       d.i < d.n /\ d.todo = <<nfts[d.prov][Head(d.owners)][d.i + 1]>>
  /\ d.pc = "stake" => d.has = (Pos(d.prov, Plain, Head(d.owners)) \in open)

OnCourse == disc.clean /\ disc.pc # "idle" => NoneStale /\ OnWay(disc) /\ Covers(disc)

WayInv ==
  /\ version # "v2" => \A a, b \in disc.filter : a = b
  /\ OnCourse

\* The turn of p: its provider and its owner are asked, and it has not been reached yet.
Turn(p) ==
  /\ p.prov = disc.prov /\ disc.owners # <<>> /\ p.owner = This
  /\ AtHand(disc, p)

Between == {"probe", "vault", "provider"}

LEMMA OwnersWait ==
  ASSUME NEW d, NEW p, p.owner \in Range(Owners), d.prov = p.prov, d.owners = Owners,
         d.pc \in {"address", "mints"}
  PROVE  Waits(d, p)
<1>1. Owners \in Seq(Addresses)
  BY OwnersType
<1>2. DOMAIN Owners = 1..Len(Owners) /\ Len(Owners) \in Nat
  BY <1>1
<1>3. PICK j \in 1..Len(Owners) : Owners[j] = p.owner
  BY <1>1, <1>2 DEF Range
<1>4. d.owners # <<>>
  <2>1. ASSUME Owners = <<>> PROVE FALSE
    <3>1. Len(Owners) = 0
      BY <2>1
    <3>2. QED
      BY <1>3, <3>1
  <2>2. QED
    BY <2>1
<1>5. j = 1 \/ j \in 2..Len(Owners)
  BY <1>2, <1>3
<1>6. AtHand(d, p)
  BY DEF AtHand
<1>7. QED
  BY <1>3, <1>4, <1>5, <1>6 DEF Waits

\* A step on the way to the next owner keeps waiting all but the one whose turn it is ...
LEMMA TurnWaits ==
  ASSUME NEW d, d.left = disc.left, d.prov = disc.prov, d.owners = disc.owners,
         d.pc \notin Between, disc.pc \notin Between, NEW p,
         disc \in Discoveries, Waits(disc, p), Turn(p) => AtHand(d, p)
  PROVE  Waits(d, p)
<1>1. disc.owners \in Seq(Addresses)
  BY DEF Discoveries
<1>2. disc.owners # <<>> => This = disc.owners[1]
  BY <1>1 DEF This
<1>3. QED
  BY <1>2 DEF Waits, Turn, Between

\* ... and so does the step to the next owner.
LEMMA NextWaits ==
  ASSUME NEW p, disc \in Discoveries, disc.owners # <<>>, disc.pc \notin Between,
         Waits(disc, p), ~Turn(p)
  PROVE  Waits(NextOwner(disc), p)
<1> DEFINE w == NextOwner(disc)
<1>1. disc.owners \in Seq(Addresses)
  BY DEF Discoveries
<1>2. /\ w.left = disc.left /\ w.prov = disc.prov /\ w.owners = Tail(disc.owners)
      /\ w.pc = disc.loop /\ w.pc \in {"address", "mints", "balances"}
  BY DEF Discoveries, NextOwner
<1>3. /\ Len(disc.owners) \in Nat /\ Len(w.owners) = Len(disc.owners) - 1
      /\ This = disc.owners[1]
      /\ \A j \in 1..Len(w.owners) : w.owners[j] = disc.owners[j + 1]
  BY <1>1, <1>2, TailIs DEF This
<1> HIDE DEF w
<1>4. CASE p.prov \in disc.left
  BY <1>2, <1>4 DEF Waits, w
<1>5. CASE p.prov \notin disc.left
  <2>1. /\ p.prov = disc.prov
        /\ \/ \E j \in 2..Len(disc.owners) : disc.owners[j] = p.owner
           \/ disc.owners[1] = p.owner /\ AtHand(disc, p)
    BY <1>5 DEF Waits, Between
  <2>2. PICK j \in 2..Len(disc.owners) : disc.owners[j] = p.owner
    BY <1>3, <2>1 DEF Turn
  <2>3. j - 1 \in 1..Len(w.owners) /\ w.owners[j - 1] = p.owner /\ w.owners # <<>>
    <3>1. j - 1 \in 1..Len(w.owners)
      BY <1>3, <2>2
    <3>2. (j - 1) + 1 = j
      BY <1>3, <2>2
    <3>3. Len(w.owners) # 0
      BY <1>3, <2>2
    <3>4. QED
      BY <1>3, <2>2, <3>1, <3>2, <3>3
  <2>4. AtHand(w, p)
    BY <1>2 DEF AtHand
  <2>5. j - 1 = 1 \/ j - 1 \in 2..Len(w.owners)
    BY <1>3, <2>2, <2>3
  <2>6. QED
    BY <1>2, <2>1, <2>3, <2>4, <2>5 DEF Waits, w
<1>6. QED
  BY <1>4, <1>5

LEMMA NextOnWay ==
  ASSUME SoundInv, WorthInv, OnWay(disc), disc.pc \notin Between
  PROVE  OnWay(NextOwner(disc)) /\ NextOwner(disc).filter = disc.filter
<1> DEFINE w == NextOwner(disc)
<1>1. disc \in Discoveries /\ (disc.loop # "address" => version = "v2")
      /\ mode \in Modes[version] /\ version \in Versions
  BY DEF SoundInv, Sane, WorthInv, ChainInv
<1>2. /\ w.fresh = disc.fresh /\ w.filter = disc.filter
      /\ w.pc = disc.loop /\ w.loop = disc.loop /\ w.pc \in {"address", "mints", "balances"}
  BY <1>1 DEF Discoveries, NextOwner
<1> HIDE DEF w
<1>3. version = "v2" => mode \in {"none", "positions", "mints"}
  BY <1>1 DEF Modes
<1>4. OnWay(w)
  BY <1>1, <1>2, <1>3 DEF OnWay, Between
<1>5. QED
  BY <1>2, <1>4 DEF w

\* What a discovery may lose sight of: what the wallet keeps, or is given.
Lasts(d, new) ==
  \A p \in open : InReachOf(disc.filter, p) /\ Waits(disc, p) =>
                    Waits(d, p) \/ p \in Stored \/ p \in new

Good(d, new) == d.filter = disc.filter /\ OnWay(d) /\ Lasts(d, new)

LEMMA NextGood ==
  ASSUME SoundInv, WorthInv, OnWay(disc), disc.pc \notin Between, disc.owners # <<>>, NEW new,
         \A p \in open : InReachOf(disc.filter, p) /\ Turn(p) => p \in Stored \/ p \in new
  PROVE  Good(NextOwner(disc), new)
<1>1. disc \in Discoveries
  BY DEF SoundInv, Sane
<1>2. Lasts(NextOwner(disc), new)
  <2> SUFFICES ASSUME NEW p \in open, InReachOf(disc.filter, p), Waits(disc, p),
                      p \notin Stored, p \notin new
               PROVE  Waits(NextOwner(disc), p)
    BY DEF Lasts
  <2>1. ~Turn(p)
    OBVIOUS
  <2>2. QED
    BY <1>1, <2>1, NextWaits
<1>3. QED
  BY <1>2, NextOnWay DEF Good

LEMMA TurnGood ==
  ASSUME SoundInv, NEW d, d.left = disc.left, d.prov = disc.prov, d.owners = disc.owners,
         d.filter = disc.filter, d.pc \notin Between, disc.pc \notin Between, OnWay(d), NEW new,
         \A p \in open : InReachOf(disc.filter, p) /\ Turn(p) =>
                           AtHand(d, p) \/ p \in Stored \/ p \in new
  PROVE  Good(d, new)
<1>1. disc \in Discoveries
  BY DEF SoundInv, Sane
<1>2. Lasts(d, new)
  <2> SUFFICES ASSUME NEW p \in open, InReachOf(disc.filter, p), Waits(disc, p),
                      p \notin Stored, p \notin new
               PROVE  Waits(d, p)
    BY DEF Lasts
  <2>1. Turn(p) => AtHand(d, p)
    OBVIOUS
  <2>2. QED
    BY <1>1, <2>1, TurnWaits
<1>3. QED
  BY <1>2 DEF Good

\* What a step of a discovery does that is on its way.
Advances == \/ \E d : GoFailed(d)
            \/ \E d : Go(d) /\ Good(d, {})
            \/ \E p \in Positions : \E d : GoAdd(p, d) /\ Good(d, {p})
            \/ StakeGone /\ Good(NextOwner(disc), {})
            \/ Finish

OnTrack == SoundInv /\ WorthInv /\ OnWay(disc)

\* The one in hand, or one that is still to come.
LEMMA TodoTurn ==
  ASSUME OnTrack, version # "v3", disc.pc \in {"add", "details"}, NEW p \in open, Turn(p)
  PROVE  /\ disc.todo # <<>>
         /\ \/ p = Pos(disc.prov, Head(disc.todo), This)
            \/ \E j \in 1..Len(Tail(disc.todo)) : Tail(disc.todo)[j] = p.key
<1>1. disc.todo \in Seq(AllKeys) /\ p \in Positions
  BY DEF OnTrack, SoundInv, Sane, Discoveries
<1>2. PICK j \in 1..Len(disc.todo) : disc.todo[j] = p.key
  BY DEF Turn, AtHand
<1>3. Len(disc.todo) \in Nat
  BY <1>1
<1>4. disc.todo # <<>>
  <2>1. ASSUME disc.todo = <<>> PROVE FALSE
    <3>1. Len(disc.todo) = 0
      BY <2>1
    <3>2. QED
      BY <1>2, <3>1
  <2>2. QED
    BY <2>1
<1>5. /\ Head(disc.todo) = disc.todo[1]
      /\ Len(Tail(disc.todo)) = Len(disc.todo) - 1
      /\ \A i \in 1..Len(Tail(disc.todo)) : Tail(disc.todo)[i] = disc.todo[i + 1]
  BY <1>1, <1>4, TailIs
<1>6. CASE j = 1
  <2>1. p = Pos(p.prov, p.key, p.owner)
    BY <1>1 DEF Pos, Positions
  <2>2. QED
    BY <1>2, <1>4, <1>5, <1>6, <2>1 DEF Turn
<1>7. CASE j # 1
  <2>1. j - 1 \in 1..Len(Tail(disc.todo)) /\ (j - 1) + 1 = j
    BY <1>2, <1>3, <1>5, <1>7
  <2>2. QED
    BY <1>2, <1>4, <1>5, <2>1
<1>8. QED
  BY <1>6, <1>7

\* All that an owner holds is listed.
LEMMA HeldListed ==
  ASSUME OnTrack, NEW p \in open, Turn(p), NEW ks, ks \subseteq KeysOf(HeldBy(This)),
         p.key \in ks
  PROVE  \E j \in 1..Len(SetToSeq(ks)) : SetToSeq(ks)[j] = p.key
<1>1. HeldBy(This) \subseteq Positions /\ IsFiniteSet(HeldBy(This))
  BY FS_Subset DEF OnTrack, SoundInv, HeldBy
<1>2. QED
  BY <1>1, KeysListed

LEMMA TakeProviderAdvances ==
  ASSUME OnTrack, NEW pr \in Providers, TakeProvider(pr)
  PROVE  Advances
<1>1. disc \in Discoveries /\ disc.pc = "provider" /\ open \subseteq Positions
      /\ version \in Versions /\ mode \in Modes[version]
  BY DEF OnTrack, SoundInv, Sane, WorthInv, ChainInv, TakeProvider, At
<1>2. mode = "vaults" => version = "staking"
  BY <1>1 DEF Versions, Modes
<1> DEFINE c == IF version # "staking" /\ pr \in beyond.dark THEN "provider"
                ELSE IF mode = "vaults" THEN "vault"
                ELSE IF version # "v2" THEN "address"
                ELSE IF mode = "none" THEN "provider" ELSE "probe"
           d == [disc EXCEPT !.left = @ \ {pr}, !.prov = pr, !.owners = Owners,
                             !.loop = "address", !.pc = c]
<1>3. Go(d)
  BY DEF TakeProvider
<1>4. /\ c \in {"vault", "address", "provider", "probe"}
      /\ mode = "vaults" <=> c = "vault"
      /\ version = "v2" => c \in {"provider", "probe"}
      /\ c = "provider" <=> \/ version # "staking" /\ pr \in beyond.dark
                            \/ version = "v2" /\ mode = "none"
  BY <1>2
<1> HIDE DEF c
<1>5. /\ d.left = disc.left \ {pr} /\ d.prov = pr /\ d.owners = Owners /\ d.loop = "address"
      /\ d.pc = c /\ d.fresh = disc.fresh /\ d.filter = disc.filter
  BY <1>1 DEF Discoveries
<1> HIDE DEF d
<1>6. OnWay(d)
  BY <1>4, <1>5 DEF OnWay, OnTrack
<1>7. Lasts(d, {})
  <2> SUFFICES ASSUME NEW p \in open, InReachOf(disc.filter, p), Waits(disc, p)
               PROVE  Waits(d, p)
    BY DEF Lasts
  <2>1. p.prov \in disc.left
    BY <1>1 DEF Waits
  <2>2. CASE p.prov # pr
    BY <1>5, <2>1, <2>2 DEF Waits
  <2>3. CASE p.prov = pr
    <3>1. c # "provider" /\ p.owner \in Range(Owners)
      BY <1>4, <2>3 DEF InReachOf
    <3>2. CASE c \in {"vault", "probe"}
      BY <1>5, <2>3, <3>2 DEF Waits
    <3>3. CASE c = "address"
      BY <1>5, <2>3, <3>1, <3>3, OwnersWait
    <3>4. QED
      BY <1>4, <3>1, <3>2, <3>3
  <2>4. QED
    BY <2>2, <2>3
<1>8. QED
  BY <1>3, <1>5, <1>6, <1>7 DEF Advances, Good

LEMMA LastOwnerAdvances ==
  ASSUME OnTrack, LastOwner
  PROVE  Advances
<1> DEFINE d == [disc EXCEPT !.pc = "provider"]
<1>1. disc \in Discoveries /\ disc.pc \in {"address", "mints", "balances"}
      /\ disc.owners = <<>> /\ Go(d)
  BY DEF OnTrack, SoundInv, Sane, LastOwner
<1>2. d.left = disc.left /\ d.fresh = disc.fresh /\ d.filter = disc.filter /\ d.pc = "provider"
  BY <1>1 DEF Discoveries
<1> HIDE DEF d
<1>3. OnWay(d)
  BY <1>2 DEF OnTrack, OnWay
<1>4. Lasts(d, {})
  BY <1>1, <1>2 DEF Lasts, Waits
<1>5. QED
  BY <1>1, <1>2, <1>3, <1>4 DEF Advances, Good

LEMMA ProbeAdvances ==
  ASSUME OnTrack, Probe
  PROVE  Advances
<1> DEFINE a == [disc EXCEPT !.pc = "address"]
           m == [disc EXCEPT !.pc = "mints", !.loop = "mints"]
           d == IF mode = "positions" THEN a ELSE m
<1>1. /\ disc \in Discoveries /\ disc.pc = "probe" /\ version = "v2" /\ open \subseteq Positions
      /\ mode \in {"none", "positions", "mints"}
  BY DEF OnTrack, SoundInv, Sane, WorthInv, ChainInv, Modes, Probe, At
<1>2. Go(d) \/ GoFailed(a)
  BY DEF Probe
<1>3. CASE Go(d)
  <2>1. /\ mode # "none" /\ disc.loop = "address" /\ disc.owners = Owners /\ disc.fresh
    BY <1>1 DEF OnTrack, OnWay
  <2>2. /\ d.left = disc.left /\ d.prov = disc.prov /\ d.owners = Owners
        /\ d.fresh = disc.fresh /\ d.filter = disc.filter
        /\ \/ mode = "positions" /\ d.pc = "address" /\ d.loop = "address"
           \/ mode = "mints" /\ d.pc = "mints" /\ d.loop = "mints"
    BY <1>1, <2>1 DEF Discoveries
  <2> HIDE DEF d
  <2>3. OnWay(d)
    BY <1>1, <2>1, <2>2 DEF OnWay
  <2>4. Lasts(d, {})
    <3> SUFFICES ASSUME NEW p \in open, InReachOf(disc.filter, p), Waits(disc, p)
                 PROVE  Waits(d, p)
      BY DEF Lasts
    <3>1. CASE p.prov \in disc.left
      BY <2>2, <3>1 DEF Waits
    <3>2. CASE p.prov = disc.prov
      BY <1>1, <2>2, <3>2, OwnersWait DEF InReachOf
    <3>3. QED
      BY <3>1, <3>2 DEF Waits
  <2>5. QED
    BY <1>3, <2>2, <2>3, <2>4 DEF Advances, Good
<1>4. QED
  BY <1>2, <1>3 DEF Advances

LEMMA NextAdvances ==
  ASSUME OnTrack, disc.pc \notin Between, disc.owners # <<>>, Go(NextOwner(disc)),
         \A p \in open : InReachOf(disc.filter, p) /\ Turn(p) => p \in Stored
  PROVE  Advances
BY NextGood DEF OnTrack, Advances

\* What the owner holds has been asked for: it is to be put in.
LEMMA ListAdvances ==
  ASSUME OnTrack, version # "v3", disc.pc \in {"address", "balances"}, mode # "vaults",
         disc.owners # <<>>,
         NEW ks, ks \subseteq KeysOf(HeldBy(This)),
         \A p \in open : InReachOf(disc.filter, p) /\ Turn(p) => p.key \in ks,
         Go([disc EXCEPT !.todo = SetToSeq(ks), !.pc = "add"])
  PROVE  Advances
<1> DEFINE q == SetToSeq(ks)
           d == [disc EXCEPT !.todo = q, !.pc = "add"]
<1>1. disc \in Discoveries
  BY DEF OnTrack, SoundInv, Sane
<1>2. \A p \in open : InReachOf(disc.filter, p) /\ Turn(p) =>
        \E j \in 1..Len(q) : q[j] = p.key
  BY HeldListed
<1> HIDE DEF q
<1>3. /\ d.left = disc.left /\ d.prov = disc.prov /\ d.owners = disc.owners /\ d.pc = "add"
      /\ d.filter = disc.filter /\ d.fresh = disc.fresh /\ d.loop = disc.loop /\ d.todo = q
  BY <1>1 DEF Discoveries
<1>4. Go(d)
  BY DEF q
<1> HIDE DEF d
<1>5. OnWay(d)
  BY <1>3 DEF OnTrack, OnWay
<1>6. \A p \in open : InReachOf(disc.filter, p) /\ Turn(p) => AtHand(d, p)
  BY <1>2, <1>3 DEF AtHand
<1>7. Good(d, {})
  BY <1>3, <1>5, <1>6, TurnGood DEF OnTrack, Between
<1>8. QED
  BY <1>4, <1>7 DEF Advances

LEMMA TurnHeld ==
  ASSUME SoundInv, NEW p \in open, Turn(p)
  PROVE  p \in HeldBy(This) /\ p.key \in KeysOf(HeldBy(This)) /\ p \in Positions
BY DEF SoundInv, Turn, HeldBy, KeysOf

LEMMA QueryV2SubgraphAdvances ==
  ASSUME OnTrack, QueryV2Subgraph
  PROVE  Advances
<1> DEFINE d(ks) == [disc EXCEPT !.todo = SetToSeq(ks), !.pc = "add"]
<1>1. disc.pc = "address" /\ disc.owners # <<>> /\ version = "v2"
  BY DEF QueryV2Subgraph, AddressStep, At
<1>2. mode = "positions"
  BY <1>1 DEF OnTrack, OnWay
<1>3. (\E ks \in Page(KeysOf(HeldBy(This))) : Go(d(ks))) \/ GoFailed(NextOwner(disc))
  BY <1>2 DEF QueryV2Subgraph
<1>4. ASSUME NEW ks \in Page(KeysOf(HeldBy(This))), Go(d(ks))
      PROVE  Advances
  <2>1. ks \subseteq KeysOf(HeldBy(This))
        /\ (This \notin beyond.crowded => ks = KeysOf(HeldBy(This)))
    BY PageIs
  <2>2. \A p \in open : InReachOf(disc.filter, p) /\ Turn(p) => p.key \in ks
    <3> SUFFICES ASSUME NEW p \in open, InReachOf(disc.filter, p), Turn(p) PROVE p.key \in ks
      OBVIOUS
    <3>1. This \notin beyond.crowded
      BY <1>2 DEF InReachOf, Turn
    <3>2. p.key \in KeysOf(HeldBy(This))
      BY TurnHeld DEF OnTrack
    <3>3. QED
      BY <2>1, <3>1, <3>2
  <2>3. Go([disc EXCEPT !.todo = SetToSeq(ks), !.pc = "add"])
    BY <1>4
  <2>4. QED
    BY <1>1, <1>2, <2>1, <2>2, <2>3, ListAdvances
<1> HIDE DEF d
<1>5. QED
  BY <1>3, <1>4 DEF Advances

LEMMA QueryMintsAdvances ==
  ASSUME OnTrack, QueryMints
  PROVE  Advances
<1> DEFINE ever == KeysOf({q \in minted : q.prov = disc.prov /\ q.owner = This})
           f == [disc EXCEPT !.pc = IF disc.filter = {} THEN "provider" ELSE "pairs"]
           g(pairs) == [disc EXCEPT !.pairs = pairs, !.pc = "balances"]
<1>1. disc.pc = "mints" /\ disc.owners # <<>> /\ disc \in Discoveries
  BY DEF OnTrack, SoundInv, Sane, QueryMints, At
<1>2. version = "v2"
  BY <1>1 DEF OnTrack, SoundInv, Sane
<1>3. mode = "mints" /\ disc.loop = "mints"
  BY <1>1, <1>2 DEF OnTrack, OnWay
<1>4. \/ GoFailed(f)
      \/ \E pairs \in Page(ever) : (pairs = {} /\ Go(NextOwner(disc))) \/ Go(g(pairs))
  BY DEF QueryMints
<1>5. \A p \in minted : p.prov = disc.prov /\ p.owner = This => p.key \in ever
  BY DEF KeysOf
<1> HIDE DEF ever
<1>6. ASSUME NEW pairs \in Page(ever), This \notin beyond.crowded,
             NEW p \in minted, p.prov = disc.prov, p.owner = This
      PROVE  p.key \in pairs
  BY <1>5, <1>6, PageIs
<1>7. ASSUME NEW pairs \in Page(ever), pairs = {}, Go(NextOwner(disc)) PROVE Advances
  <2>1. \A p \in open : InReachOf(disc.filter, p) /\ Turn(p) => FALSE
    BY <1>3, <1>6, <1>7 DEF InReachOf, Turn
  <2>2. QED
    BY <1>1, <1>7, <2>1, NextAdvances DEF Between
<1>8. ASSUME NEW pairs \in Page(ever), Go(g(pairs)) PROVE Advances
  <2> DEFINE d == g(pairs)
  <2>1. /\ d.left = disc.left /\ d.prov = disc.prov /\ d.owners = disc.owners
        /\ d.pc = "balances" /\ d.pairs = pairs
        /\ d.filter = disc.filter /\ d.fresh = disc.fresh /\ d.loop = disc.loop
    BY <1>1 DEF Discoveries
  <2> HIDE DEF d
  <2>2. OnWay(d)
    BY <1>1, <1>2, <1>3, <1>6, <2>1 DEF OnTrack, OnWay, This
  <2>3. \A p \in open : AtHand(d, p)
    BY <2>1 DEF AtHand
  <2>4. Good(d, {})
    BY <1>1, <2>1, <2>2, <2>3, TurnGood DEF OnTrack, Between
  <2>5. Go(d)
    BY <1>8 DEF d
  <2>6. QED
    BY <2>4, <2>5 DEF Advances
<1> HIDE DEF g
<1>9. QED
  BY <1>4, <1>7, <1>8 DEF Advances

LEMMA QueryBalancesAdvances ==
  ASSUME OnTrack, QueryBalances
  PROVE  Advances
<1> DEFINE ks == KeysOf(HeldBy(This)) \cap disc.pairs
           d == [disc EXCEPT !.todo = SetToSeq(ks), !.pc = "add"]
<1>1. disc.pc = "balances" /\ disc.owners # <<>>
  BY DEF QueryBalances, At
<1>2. version = "v2"
  BY <1>1 DEF OnTrack, SoundInv, Sane
<1>3. /\ mode = "mints"
      /\ This \notin beyond.crowded =>
           \A p \in minted : p.prov = disc.prov /\ p.owner = This => p.key \in disc.pairs
  BY <1>1, <1>2 DEF OnTrack, OnWay, This
<1>4. Go(d) \/ GoFailed(NextOwner(disc))
  BY DEF QueryBalances
<1>5. CASE Go(d)
  <2>1. \A p \in open : InReachOf(disc.filter, p) /\ Turn(p) => p.key \in ks
    BY <1>3, TurnHeld DEF OnTrack, InReachOf, Turn
  <2>2. ks \subseteq KeysOf(HeldBy(This))
    OBVIOUS
  <2> HIDE DEF ks
  <2>3. QED
    BY <1>1, <1>2, <1>3, <1>5, <2>1, <2>2, ListAdvances
<1>6. QED
  BY <1>4, <1>5 DEF Advances

\* The position in hand is put in, and the next one is in hand.
LEMMA AddAdvances ==
  ASSUME OnTrack, version # "v3", disc.pc = "add", disc.todo # <<>>, NEW c \in {"add", "details"},
         c = "details" => version = "v4", NEW d,
         d = [disc EXCEPT !.todo = Tail(@), !.pc = c],
         \/ GoAdd(Pos(disc.prov, Head(disc.todo), This), d)
         \/ Go(d) /\ Pos(disc.prov, Head(disc.todo), This) \in Stored
  PROVE  Advances
<1> DEFINE z == Pos(disc.prov, Head(disc.todo), This)
<1>1. disc \in Discoveries
  BY DEF OnTrack, SoundInv, Sane
<1>2. /\ d.left = disc.left /\ d.prov = disc.prov /\ d.owners = disc.owners /\ d.pc = c
      /\ d.filter = disc.filter /\ d.fresh = disc.fresh /\ d.loop = disc.loop
      /\ d.todo = Tail(disc.todo)
  BY <1>1 DEF Discoveries
<1>3. OnWay(d)
  <2>1. version = "v2" => c = "add"
    OBVIOUS
  <2>2. QED
    BY <1>2, <2>1 DEF OnTrack, OnWay
<1>4. z \in Positions
  BY InHand DEF OnTrack, Pos
<1>5. \A p \in open : Turn(p) => AtHand(d, p) \/ p = z
  BY <1>2, TodoTurn DEF AtHand
<1> HIDE DEF z
<1>6. ASSUME NEW new, z \in new \/ z \in Stored PROVE Good(d, new)
  BY <1>2, <1>3, <1>5, <1>6, TurnGood DEF OnTrack, Between
<1>7. CASE GoAdd(z, d)
  BY <1>4, <1>6, <1>7 DEF Advances
<1>8. CASE Go(d) /\ z \in Stored
  BY <1>6, <1>8 DEF Advances
<1>9. QED
  BY <1>7, <1>8 DEF z

LEMMA AddFoundAdvances ==
  ASSUME OnTrack, AddFound
  PROVE  Advances
<1>1. disc.pc = "add" /\ version = "v2" /\ disc \in Discoveries /\ disc.owners # <<>>
  BY DEF OnTrack, SoundInv, Sane, AddFound, At
<1>2. CASE disc.todo = <<>>
  <2>1. \A p \in open : ~Turn(p)
    BY <1>1, <1>2, TodoTurn
  <2>2. QED
    BY <1>1, <1>2, <2>1, NextAdvances DEF AddFound, Between
<1>3. CASE disc.todo # <<>>
  <2> DEFINE d == [disc EXCEPT !.todo = Tail(@)]
  <2>1. GoAdd(Pos(disc.prov, Head(disc.todo), This), d)
    BY <1>3 DEF AddFound
  <2>2. d = [disc EXCEPT !.todo = Tail(@), !.pc = "add"]
    BY <1>1 DEF Discoveries
  <2> HIDE DEF d
  <2>3. QED
    BY <1>1, <1>3, <2>1, <2>2, AddAdvances
<1>4. QED
  BY <1>2, <1>3

Tokens == nfts[disc.prov][This]

LEMMA TokensNumber ==
  ASSUME SoundInv, WorthInv, NFTs(version), disc.owners # <<>>,
         disc.prov \in Providers
  PROVE  /\ Tokens \in Seq(AllKeys) /\ Len(Tokens) \in Nat
         /\ \A p \in open : Turn(p) => \E j \in 1..Len(Tokens) : Tokens[j] = p.key
<1>1. disc.owners \in Seq(Addresses) /\ nfts \in [Providers -> [Addresses -> Seq(AllKeys)]]
  BY DEF SoundInv, Sane, Discoveries
<1>2. This \in Addresses
  BY <1>1, TailIs DEF This
<1>3. Tokens \in Seq(AllKeys) /\ Len(Tokens) \in Nat
  BY <1>1, <1>2 DEF Tokens
<1>4. QED
  BY <1>3 DEF WorthInv, ChainInv, Turn, Tokens

LEMMA DiscProv ==
  ASSUME SoundInv, disc.pc \notin {"idle", "provider"}
  PROVE  disc.prov \in Providers /\ disc \in Discoveries
BY DEF SoundInv, Sane, Allowed

\* A position that is worth something is not passed over.
LEMMA TurnOpen ==
  ASSUME NEW p \in open, Turn(p)
  PROVE  IsOpen(disc.prov, p.key)
BY DEF Turn, IsOpen

LEMMA V3BalanceOfAdvances ==
  ASSUME OnTrack, V3BalanceOf
  PROVE  Advances
<1> DEFINE d == [disc EXCEPT !.n = Len(Tokens), !.i = 0, !.pc = "index"]
<1>1. disc.pc = "address" /\ disc.owners # <<>> /\ version = "v3"
  BY DEF V3BalanceOf, AddressStep, At
<1>2. disc.prov \in Providers /\ disc \in Discoveries
  BY <1>1, DiscProv DEF OnTrack
<1>3. /\ Len(Tokens) \in Nat
      /\ \A p \in open : Turn(p) => \E j \in 1..Len(Tokens) : Tokens[j] = p.key
  BY <1>1, <1>2, TokensNumber DEF OnTrack, NFTs
<1>4. Go(d) \/ GoFailed(Abort)
  BY DEF V3BalanceOf, Tokens
<1>5. CASE Go(d)
  <2>1. /\ d.left = disc.left /\ d.prov = disc.prov /\ d.owners = disc.owners
        /\ d.pc = "index" /\ d.n = Len(Tokens) /\ d.i = 0
        /\ d.filter = disc.filter /\ d.fresh = disc.fresh /\ d.loop = disc.loop
    BY <1>2 DEF Discoveries
  <2> HIDE DEF d
  <2>2. OnWay(d)
    BY <1>1, <2>1 DEF OnTrack, OnWay, Tokens, This
  <2>3. \A p \in open : Turn(p) => AtHand(d, p)
    BY <1>1, <1>3, <2>1 DEF AtHand, Tokens, This
  <2>4. Good(d, {})
    BY <1>1, <2>1, <2>2, <2>3, TurnGood DEF OnTrack, Between
  <2>5. QED
    BY <1>5, <2>4 DEF Advances
<1>6. QED
  BY <1>4, <1>5 DEF Advances

LEMMA V3TokenOfOwnerAdvances ==
  ASSUME OnTrack, V3TokenOfOwner
  PROVE  Advances
<1> DEFINE d == [disc EXCEPT !.todo = <<Tokens[disc.i + 1]>>, !.pc = "details"]
<1>1. disc.pc = "index" /\ version = "v3" /\ disc.owners # <<>>
  BY DEF OnTrack, SoundInv, Sane, V3TokenOfOwner, At
<1>2. disc.prov \in Providers /\ disc \in Discoveries
  BY <1>1, DiscProv DEF OnTrack
<1>3. Len(Tokens) \in Nat /\ disc.n = Len(Tokens) /\ disc.i \in Nat
  BY <1>1, <1>2, TokensNumber DEF OnTrack, NFTs, OnWay, Tokens, This, Discoveries
<1>4. CASE disc.i >= disc.n
  <2>1. Go(NextOwner(disc))
    BY <1>4 DEF V3TokenOfOwner
  <2>2. ASSUME NEW p \in open, Turn(p) PROVE FALSE
    <3>1. \E j \in (disc.i + 1)..Len(Tokens) : Tokens[j] = p.key
      BY <1>1, <2>2 DEF Turn, AtHand, Tokens, This
    <3>2. QED
      BY <1>3, <1>4, <3>1
  <2>3. QED
    BY <1>1, <2>1, <2>2, NextAdvances DEF Between
<1>5. CASE disc.i < disc.n
  <2>1. Go(d) \/ GoFailed(Abort)
    BY <1>3, <1>5 DEF V3TokenOfOwner, Tokens
  <2>2. /\ d.left = disc.left /\ d.prov = disc.prov /\ d.owners = disc.owners
        /\ d.pc = "details" /\ d.n = Len(Tokens) /\ d.i = disc.i
        /\ d.todo = <<Tokens[disc.i + 1]>>
        /\ d.filter = disc.filter /\ d.fresh = disc.fresh /\ d.loop = disc.loop
    BY <1>2, <1>3 DEF Discoveries
  <2> HIDE DEF d
  <2>3. OnWay(d)
    BY <1>1, <1>3, <1>5, <2>2 DEF OnTrack, OnWay, Tokens, This
  <2>4. \A p \in open : Turn(p) => AtHand(d, p)
    BY <1>1, <2>2 DEF Turn, AtHand
  <2>5. Good(d, {})
    BY <1>1, <2>2, <2>3, <2>4, TurnGood DEF OnTrack, Between
  <2>6. QED
    BY <2>1, <2>5 DEF Advances
<1>6. QED
  BY <1>3, <1>4, <1>5

\* The token in hand, or one that is still to come.
LEMMA TokenTurn ==
  ASSUME OnTrack, version = "v3", disc.pc \in {"details", "add"}
  PROVE  /\ V3NextToken(disc).left = disc.left /\ V3NextToken(disc).filter = disc.filter
         /\ V3NextToken(disc).prov = disc.prov /\ V3NextToken(disc).owners = disc.owners
         /\ V3NextToken(disc).pc = "index" /\ OnWay(V3NextToken(disc))
         /\ \A p \in open : Turn(p) =>
              p = Pos(disc.prov, Head(disc.todo), This) \/ AtHand(V3NextToken(disc), p)
<1> DEFINE d == V3NextToken(disc)
<1>1. disc.prov \in Providers /\ disc \in Discoveries /\ disc.owners # <<>> /\ open \subseteq Positions
  BY DiscProv DEF OnTrack, SoundInv, Sane
<1>2. /\ Len(Tokens) \in Nat /\ disc.n = Len(Tokens) /\ disc.i \in Nat
      /\ disc.i < disc.n /\ disc.todo = <<Tokens[disc.i + 1]>>
  BY <1>1, TokensNumber DEF OnTrack, NFTs, OnWay, Tokens, This, Discoveries
<1>3. /\ d.left = disc.left /\ d.prov = disc.prov /\ d.owners = disc.owners
      /\ d.pc = "index" /\ d.n = Len(Tokens) /\ d.i = disc.i + 1
      /\ d.filter = disc.filter /\ d.fresh = disc.fresh /\ d.loop = disc.loop
  BY <1>1, <1>2 DEF V3NextToken, Discoveries
<1> HIDE DEF d
<1>4. OnWay(d)
  BY <1>3 DEF OnTrack, OnWay, Tokens, This
<1>5. ASSUME NEW p \in open, Turn(p)
      PROVE  p = Pos(disc.prov, Head(disc.todo), This) \/ AtHand(d, p)
  <2>1. PICK j \in (disc.i + 1)..Len(Tokens) : Tokens[j] = p.key
    BY <1>5 DEF Turn, AtHand, Tokens, This
  <2>2. CASE j = disc.i + 1
    <3>1. Head(disc.todo) = p.key
      BY <1>2, <2>1, <2>2
    <3>2. p = Pos(p.prov, p.key, p.owner)
      BY <1>1 DEF Pos, Positions
    <3>3. QED
      BY <1>5, <3>1, <3>2 DEF Turn
  <2>3. CASE j # disc.i + 1
    <3>1. j \in (d.i + 1)..Len(Tokens)
      BY <1>2, <1>3, <2>1, <2>3
    <3>2. QED
      BY <1>3, <2>1, <3>1 DEF AtHand, Tokens, This
  <2>4. QED
    BY <2>2, <2>3
<1>6. QED
  BY <1>3, <1>4, <1>5 DEF d

LEMMA V3DetailsAdvances ==
  ASSUME OnTrack, V3Details
  PROVE  Advances
<1> DEFINE d == [disc EXCEPT !.pc = "add"]
           e == V3NextToken(disc)
<1>1. disc.pc = "details" /\ version = "v3" /\ disc \in Discoveries
  BY DEF OnTrack, SoundInv, Sane, V3Details, At
<1>2. \/ GoFailed(Abort) \/ Go(d)
      \/ ~IsOpen(disc.prov, Head(disc.todo)) /\ Go(e)
  BY DEF V3Details
<1>3. CASE Go(d)
  <2>1. /\ d.left = disc.left /\ d.prov = disc.prov /\ d.owners = disc.owners
        /\ d.pc = "add" /\ d.n = disc.n /\ d.i = disc.i /\ d.todo = disc.todo
        /\ d.filter = disc.filter /\ d.fresh = disc.fresh /\ d.loop = disc.loop
    BY <1>1 DEF Discoveries
  <2> HIDE DEF d
  <2>2. OnWay(d)
    BY <1>1, <2>1 DEF OnTrack, OnWay
  <2>3. \A p \in open : Turn(p) => AtHand(d, p)
    BY <1>1, <2>1 DEF Turn, AtHand
  <2>4. Good(d, {})
    BY <1>1, <2>1, <2>2, <2>3, TurnGood DEF OnTrack, Between
  <2>5. QED
    BY <1>3, <2>4 DEF Advances
<1>4. CASE ~IsOpen(disc.prov, Head(disc.todo)) /\ Go(e)
  <2>1. /\ e.left = disc.left /\ e.filter = disc.filter /\ e.prov = disc.prov
        /\ e.owners = disc.owners /\ e.pc = "index" /\ OnWay(e)
        /\ \A p \in open : Turn(p) =>
             p = Pos(disc.prov, Head(disc.todo), This) \/ AtHand(e, p)
    BY <1>1, TokenTurn
  <2> HIDE DEF e
  <2>2. \A p \in open : Turn(p) => AtHand(e, p)
    BY <1>4, <2>1, TurnOpen DEF Pos
  <2>3. Good(e, {})
    BY <1>1, <2>1, <2>2, TurnGood DEF OnTrack, Between
  <2>4. QED
    BY <1>4, <2>3 DEF Advances
<1>5. QED
  BY <1>2, <1>3, <1>4 DEF Advances

LEMMA V3AddAdvances ==
  ASSUME OnTrack, V3Add
  PROVE  Advances
<1> DEFINE z == Pos(disc.prov, Head(disc.todo), This)
           e == V3NextToken(disc)
<1>1. disc.pc = "add" /\ version = "v3" /\ disc.todo # <<>>
  BY DEF OnTrack, SoundInv, Sane, V3Add, At
<1>2. GoAdd(z, e) \/ GoFailed(Abort)
  BY DEF V3Add
<1>3. z \in Positions
  BY <1>1, InHand DEF OnTrack, Pos
<1>4. /\ e.left = disc.left /\ e.filter = disc.filter /\ e.prov = disc.prov
      /\ e.owners = disc.owners /\ e.pc = "index" /\ OnWay(e)
      /\ \A p \in open : Turn(p) => p = z \/ AtHand(e, p)
  BY <1>1, TokenTurn
<1> HIDE DEF z, e
<1>5. Good(e, {z})
  BY <1>1, <1>4, TurnGood DEF OnTrack, Between
<1>6. QED
  BY <1>2, <1>3, <1>5 DEF Advances

\* All the tokens of an owner that are given are listed.
LEMMA TokensListed ==
  ASSUME NEW tokens \in Seq(AllKeys), NEW ks, ks \subseteq Range(tokens)
  PROVE  \A k \in ks : \E j \in 1..Len(SetToSeq(ks)) : SetToSeq(ks)[j] = k
<1>1. /\ tokens \in [1..Len(tokens) -> Range(tokens)] /\ Len(tokens) \in Nat
      /\ Range(tokens) = {tokens[i] : i \in 1..Len(tokens)}
  BY DEF Range
<1>2. tokens \in Surjection(1..Len(tokens), Range(tokens))
  BY <1>1 DEF Surjection
<1>3. IsFiniteSet(1..Len(tokens))
  <2>1. 1 \in Int /\ Len(tokens) \in Int
    BY <1>1
  <2>2. QED
    BY <2>1, FS_Interval
<1>4. IsFiniteSet(ks)
  BY <1>2, <1>3, FS_Surjection, FS_Subset
<1>5. QED
  BY <1>4, SetListed

LEMMA V4QueryAdvances ==
  ASSUME OnTrack, V4Query
  PROVE  Advances
<1> DEFINE l(keys) == [disc EXCEPT !.todo = SetToSeq(keys), !.pc = "details"]
           n == [disc EXCEPT !.n = Len(Tokens), !.i = 0, !.pc = "index"]
<1>1. disc.pc = "address" /\ disc.owners # <<>> /\ version = "v4"
  BY DEF V4Query, AddressStep, At
<1>2. disc.prov \in Providers /\ disc \in Discoveries
  BY <1>1, DiscProv DEF OnTrack
<1>3. /\ Len(Tokens) \in Nat /\ Tokens \in Seq(AllKeys)
      /\ \A p \in open : Turn(p) => \E j \in 1..Len(Tokens) : Tokens[j] = p.key
  BY <1>1, <1>2, TokensNumber DEF OnTrack, NFTs
<1>4. \/ Go(n) \/ GoFailed(NextOwner(disc))
      \/ mode = "graph" /\ \E keys \in Page(Range(Tokens)) : Go(l(keys))
  BY DEF V4Query, Tokens
<1>5. ASSUME Go(n) PROVE Advances
  <2> DEFINE d == n
  <2>1. /\ d.left = disc.left /\ d.prov = disc.prov /\ d.owners = disc.owners
        /\ d.pc = "index" /\ d.n = Len(Tokens) /\ d.i = 0
        /\ d.filter = disc.filter /\ d.fresh = disc.fresh /\ d.loop = disc.loop
    BY <1>2, <1>3 DEF Discoveries
  <2> HIDE DEF d
  <2>2. OnWay(d)
    BY <1>1, <2>1 DEF OnTrack, OnWay, Tokens, This
  <2>3. \A p \in open : Turn(p) => AtHand(d, p)
    BY <1>1, <1>3, <2>1 DEF AtHand, Tokens, This
  <2>4. Good(d, {})
    BY <1>1, <2>1, <2>2, <2>3, TurnGood DEF OnTrack, Between
  <2>5. Go(d)
    BY <1>5 DEF d
  <2>6. QED
    BY <2>4, <2>5 DEF Advances
<1>6. ASSUME mode = "graph", NEW keys \in Page(Range(Tokens)), Go(l(keys)) PROVE Advances
  <2> DEFINE q == SetToSeq(keys)
             d == l(keys)
  <2>1. /\ keys \subseteq Range(Tokens)
        /\ This \notin beyond.crowded => keys = Range(Tokens)
    BY PageIs
  <2>2. \A k \in keys : \E j \in 1..Len(q) : q[j] = k
    <3> DEFINE t == Tokens
    <3>1. t \in Seq(AllKeys) /\ keys \subseteq Range(t)
      BY <1>3, <2>1
    <3> HIDE DEF t
    <3>2. QED
      BY ONLY <3>1, TokensListed
  <2>3. d = [disc EXCEPT !.todo = q, !.pc = "details"]
    OBVIOUS
  <2> HIDE DEF q
  <2>4. /\ d.left = disc.left /\ d.prov = disc.prov /\ d.owners = disc.owners
        /\ d.pc = "details" /\ d.todo = q
        /\ d.filter = disc.filter /\ d.fresh = disc.fresh /\ d.loop = disc.loop
    BY <1>2, <2>3 DEF Discoveries
  <2>5. Go(d)
    BY <1>6
  <2> HIDE DEF d
  <2>6. OnWay(d)
    BY <1>1, <2>4 DEF OnTrack, OnWay
  <2>7. ASSUME NEW p \in open, InReachOf(disc.filter, p), Turn(p) PROVE AtHand(d, p)
    <3>1. This \notin beyond.crowded
      BY <1>6, <2>7 DEF InReachOf, Turn
    <3>2. PICK j \in 1..Len(Tokens) : Tokens[j] = p.key
      BY <1>3, <2>7
    <3>3. p.key \in Range(Tokens)
      BY <1>3, <3>2 DEF Range
    <3>4. PICK i \in 1..Len(q) : q[i] = p.key
      BY <2>1, <2>2, <3>1, <3>3
    <3>5. QED
      BY <1>1, <2>4, <3>4 DEF AtHand
  <2>8. Good(d, {})
    BY <1>1, <2>4, <2>6, <2>7, TurnGood DEF OnTrack, Between
  <2>9. QED
    BY <2>5, <2>8 DEF Advances
<1> HIDE DEF n, l
<1>7. QED
  BY <1>4, <1>5, <1>6 DEF Advances

LEMMA V4TokenOfOwnerAdvances ==
  ASSUME OnTrack, V4TokenOfOwner
  PROVE  Advances
<1> DEFINE e == [disc EXCEPT !.pc = "details"]
           a == [disc EXCEPT !.i = @ + 1]
           b == [a EXCEPT !.todo = Append(@, Tokens[disc.i + 1])]
<1>1. disc.pc = "index" /\ version = "v4" /\ disc.owners # <<>>
  BY DEF OnTrack, SoundInv, Sane, V4TokenOfOwner, At
<1>2. disc.prov \in Providers /\ disc \in Discoveries
  BY <1>1, DiscProv DEF OnTrack
<1>3. /\ Len(Tokens) \in Nat /\ disc.n = Len(Tokens) /\ disc.i \in Nat
      /\ disc.todo \in Seq(AllKeys)
  BY <1>1, <1>2, TokensNumber DEF OnTrack, NFTs, OnWay, Tokens, This, Discoveries
<1>4. CASE disc.i >= disc.n
  <2>1. Go(e)
    BY <1>4 DEF V4TokenOfOwner
  <2>2. /\ e.left = disc.left /\ e.prov = disc.prov /\ e.owners = disc.owners
        /\ e.pc = "details" /\ e.todo = disc.todo
        /\ e.filter = disc.filter /\ e.fresh = disc.fresh /\ e.loop = disc.loop
    BY <1>2 DEF Discoveries
  <2> HIDE DEF e
  <2>3. OnWay(e)
    BY <1>1, <2>2 DEF OnTrack, OnWay
  <2>4. \A p \in open : Turn(p) => AtHand(e, p)
    <3> SUFFICES ASSUME NEW p \in open, Turn(p) PROVE AtHand(e, p)
      OBVIOUS
    <3>1. ~\E j \in (disc.i + 1)..Len(Tokens) : Tokens[j] = p.key
      BY <1>3, <1>4
    <3>2. QED
      BY <1>1, <2>2, <3>1 DEF Turn, AtHand, Tokens, This
  <2>5. Good(e, {})
    BY <1>1, <2>2, <2>3, <2>4, TurnGood DEF OnTrack, Between
  <2>6. QED
    BY <2>1, <2>5 DEF Advances
<1>5. CASE disc.i < disc.n
  <2>1. Go(b) \/ GoFailed(a)
    BY <1>3, <1>5 DEF V4TokenOfOwner, Tokens
  <2>2. /\ b.left = disc.left /\ b.prov = disc.prov /\ b.owners = disc.owners
        /\ b.pc = "index" /\ b.n = disc.n /\ b.i = disc.i + 1
        /\ b.todo = Append(disc.todo, Tokens[disc.i + 1])
        /\ b.filter = disc.filter /\ b.fresh = disc.fresh /\ b.loop = disc.loop
    BY <1>1, <1>2 DEF Discoveries
  <2> HIDE DEF b
  <2>3. OnWay(b)
    BY <1>1, <2>2 DEF OnTrack, OnWay
  <2>4. /\ Len(disc.todo) \in Nat /\ Len(b.todo) = Len(disc.todo) + 1
        /\ \A j \in 1..Len(disc.todo) : b.todo[j] = disc.todo[j]
        /\ b.todo[Len(b.todo)] = Tokens[disc.i + 1]
    BY <1>3, <2>2
  <2>5. \A p \in open : Turn(p) => AtHand(b, p)
    <3> SUFFICES ASSUME NEW p \in open, Turn(p) PROVE AtHand(b, p)
      OBVIOUS
    <3>1. CASE \E j \in (disc.i + 1)..Len(Tokens) : Tokens[j] = p.key
      <4>1. PICK j \in (disc.i + 1)..Len(Tokens) : Tokens[j] = p.key
        BY <3>1
      <4>2. CASE j = disc.i + 1
        <5>1. Len(b.todo) \in 1..Len(b.todo)
          BY <2>4
        <5>2. b.todo[Len(b.todo)] = p.key
          BY <2>4, <4>1, <4>2
        <5>3. QED
          BY <1>1, <5>1, <5>2 DEF AtHand
      <4>3. CASE j # disc.i + 1
        <5>1. j \in (b.i + 1)..Len(Tokens)
          BY <1>3, <2>2, <4>1, <4>3
        <5>2. QED
          BY <2>2, <4>1, <5>1 DEF AtHand, Tokens, This
      <4>4. QED
        BY <4>2, <4>3
    <3>2. CASE \E j \in 1..Len(disc.todo) : disc.todo[j] = p.key
      <4>1. PICK j \in 1..Len(disc.todo) : disc.todo[j] = p.key
        BY <3>2
      <4>2. j \in 1..Len(b.todo) /\ b.todo[j] = p.key
        BY <2>4, <4>1
      <4>3. QED
        BY <1>1, <4>2 DEF AtHand
    <3>3. QED
      BY <1>1, <3>1, <3>2 DEF Turn, AtHand, Tokens, This
  <2>6. Good(b, {})
    BY <1>1, <2>2, <2>3, <2>5, TurnGood DEF OnTrack, Between
  <2>7. QED
    BY <2>1, <2>6 DEF Advances
<1>6. QED
  BY <1>3, <1>4, <1>5

LEMMA V4DetailsAdvances ==
  ASSUME OnTrack, V4Details
  PROVE  Advances
<1> DEFINE a == [disc EXCEPT !.pc = "add"]
           t == [disc EXCEPT !.todo = Tail(@)]
<1>1. disc.pc = "details" /\ version = "v4" /\ disc \in Discoveries /\ disc.owners # <<>>
  BY DEF OnTrack, SoundInv, Sane, V4Details, At
<1>2. CASE disc.todo = <<>>
  <2>1. \A p \in open : ~Turn(p)
    BY <1>1, <1>2, TodoTurn
  <2>2. Go(NextOwner(disc))
    BY <1>2 DEF V4Details
  <2>3. QED
    BY <1>1, <2>1, <2>2, NextAdvances DEF Between
<1>3. CASE disc.todo # <<>>
  <2>1. \/ GoFailed(t) \/ Go(a)
        \/ ~IsOpen(disc.prov, Head(disc.todo)) /\ Go(t)
    BY <1>3 DEF V4Details
  <2>2. CASE Go(a)
    <3>1. /\ a.left = disc.left /\ a.prov = disc.prov /\ a.owners = disc.owners
          /\ a.pc = "add" /\ a.todo = disc.todo
          /\ a.filter = disc.filter /\ a.fresh = disc.fresh /\ a.loop = disc.loop
      BY <1>1 DEF Discoveries
    <3> HIDE DEF a
    <3>2. OnWay(a)
      BY <1>1, <3>1 DEF OnTrack, OnWay
    <3>3. \A p \in open : Turn(p) => AtHand(a, p)
      BY <1>1, <3>1 DEF Turn, AtHand
    <3>4. Good(a, {})
      BY <1>1, <3>1, <3>2, <3>3, TurnGood DEF OnTrack, Between
    <3>5. QED
      BY <2>2, <3>4 DEF Advances
  <2>3. CASE ~IsOpen(disc.prov, Head(disc.todo)) /\ Go(t)
    <3>1. /\ t.left = disc.left /\ t.prov = disc.prov /\ t.owners = disc.owners
          /\ t.pc = "details" /\ t.todo = Tail(disc.todo)
          /\ t.filter = disc.filter /\ t.fresh = disc.fresh /\ t.loop = disc.loop
      BY <1>1 DEF Discoveries
    <3> HIDE DEF t
    <3>2. OnWay(t)
      BY <1>1, <3>1 DEF OnTrack, OnWay
    <3>3. \A p \in open : Turn(p) => AtHand(t, p)
      BY <1>1, <2>3, <3>1, TodoTurn, TurnOpen DEF AtHand, Pos
    <3>4. Good(t, {})
      BY <1>1, <3>1, <3>2, <3>3, TurnGood DEF OnTrack, Between
    <3>5. QED
      BY <2>3, <3>4 DEF Advances
  <2>4. QED
    BY <2>1, <2>2, <2>3 DEF Advances
<1>4. QED
  BY <1>2, <1>3

LEMMA V4AddAdvances ==
  ASSUME OnTrack, V4Add
  PROVE  Advances
<1> DEFINE d == [disc EXCEPT !.todo = Tail(@), !.pc = "details"]
<1>1. disc.pc = "add" /\ version = "v4" /\ disc.todo # <<>>
  BY DEF OnTrack, SoundInv, Sane, V4Add, At
<1>2. GoAdd(Pos(disc.prov, Head(disc.todo), This), d)
  BY DEF V4Add
<1> HIDE DEF d
<1>3. QED
  BY <1>1, <1>2, AddAdvances DEF d

-----------------------------------------------------------------------------
LEMMA StakingDelegationsAdvances ==
  ASSUME OnTrack, StakingDelegations
  PROVE  Advances
<1> DEFINE ks == KeysOf(HeldBy(This))
           d == [disc EXCEPT !.todo = SetToSeq(ks), !.pc = "add"]
<1>1. disc.pc = "address" /\ disc.owners # <<>> /\ version = "staking" /\ mode = "validators"
  BY DEF StakingDelegations, AddressStep, At
<1>2. Go(d) \/ GoFailed(NextOwner(disc))
  BY DEF StakingDelegations
<1>3. CASE Go(d)
  <2>1. \A p \in open : InReachOf(disc.filter, p) /\ Turn(p) => p.key \in ks
    BY TurnHeld DEF OnTrack
  <2> HIDE DEF ks
  <2>2. ks \subseteq KeysOf(HeldBy(This))
    BY DEF ks
  <2>3. QED
    BY <1>1, <1>3, <2>1, <2>2, ListAdvances
<1>4. QED
  BY <1>2, <1>3 DEF Advances

\* What a look through the wallet finds is there.
LEMMA FoundIsStored ==
  ASSUME SoundInv, NEW Ids, First(store, Ids) # 0
  PROVE  \E x \in Ids \cap (1..Len(objs)) : objs[x] \in Stored
<1>1. objs \in Seq(Positions) /\ IsStore(store, objs)
  BY StoreType
<1> DEFINE i == First(store, Ids)
<1>2. i \in 1..store.len /\ store.arr[i] \in Ids
  <2>1. i \in 0..store.len /\ (i # 0 => store.arr[i] \in Ids) /\ store.len \in Nat
    BY <1>1, FirstIs, StoreType
  <2> HIDE DEF i
  <2>2. i # 0
    BY DEF i
  <2>3. QED
    BY <2>1, <2>2
<1>3. store.arr[i] \in 1..Len(objs)
  BY <1>1, <1>2, ElementsAre
<1>4. objs[store.arr[i]] \in KeptIn(store, objs)
  BY <1>2 DEF KeptIn
<1> HIDE DEF i
<1>5. QED
  BY <1>2, <1>3, <1>4, StoredIsKept

LEMMA StakingAddAdvances ==
  ASSUME OnTrack, StakingAdd
  PROVE  Advances
<1>1. disc.pc = "add" /\ version = "staking" /\ disc \in Discoveries /\ disc.owners # <<>>
  BY DEF OnTrack, SoundInv, Sane, StakingAdd, At
<1>2. CASE disc.todo = <<>>
  <2>1. \A p \in open : ~Turn(p)
    BY <1>1, <1>2, TodoTurn
  <2>2. Go(NextOwner(disc))
    BY <1>2 DEF StakingAdd
  <2>3. QED
    BY <1>1, <2>1, <2>2, NextAdvances DEF Between
<1>3. CASE disc.todo # <<>>
  <2> DEFINE z == Pos(disc.prov, Head(disc.todo), This)
             d == [disc EXCEPT !.todo = Tail(@)]
  <2>1. \/ GetStakingPositionWithValidator(store, objs, z) # 0 /\ Go(d)
        \/ GoAdd(z, d)
    BY <1>3 DEF StakingAdd
  <2>2. d = [disc EXCEPT !.todo = Tail(@), !.pc = "add"]
    BY <1>1 DEF Discoveries
  <2>3. z \in Positions
    BY <1>1, <1>3, InHand DEF OnTrack
  <2> HIDE DEF z, d
  <2>4. GetStakingPositionWithValidator(store, objs, z) # 0 => z \in Stored
    <3> SUFFICES ASSUME GetStakingPositionWithValidator(store, objs, z) # 0 PROVE z \in Stored
      OBVIOUS
    <3> DEFINE Ids == SameOwner(objs, z) \cap SameKey(objs, z)
    <3>1. PICK x \in Ids \cap (1..Len(objs)) : objs[x] \in Stored
      BY FoundIsStored DEF OnTrack, GetStakingPositionWithValidator
    <3>2. objs[x].prov = z.prov /\ objs[x].key = z.key /\ objs[x].owner = z.owner
      BY <3>1 DEF SameOwner, SameKey
    <3>3. objs[x] \in Positions
      BY <3>1, StoreType DEF OnTrack
    <3>4. QED
      BY <2>3, <3>1, <3>2, <3>3, SamePosition
  <2>5. QED
    BY <1>1, <1>3, <2>1, <2>2, <2>4, AddAdvances DEF z
<1>4. QED
  BY <1>2, <1>3

LEMMA StakingBalanceAdvances ==
  ASSUME OnTrack, StakingBalance
  PROVE  Advances
<1> DEFINE d(has) == [disc EXCEPT !.has = has, !.pc = "stake"]
           has == Pos(disc.prov, Plain, This) \in open
           r == d(has)
           e == [d(FALSE) EXCEPT !.fresh = FALSE]
<1>1. disc.pc = "address" /\ disc.owners # <<>> /\ version = "staking" /\ disc \in Discoveries
      /\ mode = "plain"
  BY DEF OnTrack, SoundInv, Sane, StakingBalance, AddressStep, At
<1>2. Go(r) \/ GoFailed(e)
  BY DEF StakingBalance
<1>3. has \in BOOLEAN
  OBVIOUS
<1> HIDE DEF has
<1>4. CASE Go(r)
  <2>1. /\ r.left = disc.left /\ r.prov = disc.prov /\ r.owners = disc.owners
        /\ r.pc = "stake" /\ r.has = has
        /\ r.filter = disc.filter /\ r.fresh = disc.fresh /\ r.loop = disc.loop
    BY <1>1, <1>3 DEF Discoveries
  <2> HIDE DEF r
  <2>2. OnWay(r)
    BY <1>1, <2>1 DEF OnTrack, OnWay, This, has
  <2>3. \A p \in open : AtHand(r, p)
    BY <2>1 DEF AtHand
  <2>4. Good(r, {})
    BY <1>1, <2>1, <2>2, <2>3, TurnGood DEF OnTrack, Between
  <2>5. QED
    BY <1>4, <2>4 DEF Advances
<1>5. QED
  BY <1>2, <1>4 DEF Advances

LEMMA StakingVaultAdvances ==
  ASSUME OnTrack, version # "v2" => \A a, b \in disc.filter : a = b, StakingVault
  PROVE  Advances
<1> DEFINE d == [disc EXCEPT !.pc = "provider"]
           known == KeysOf({objs[x] : x \in Range(Elements(store))})
<1>1. disc.pc = "vault" /\ disc \in Discoveries
  BY DEF OnTrack, SoundInv, Sane, StakingVault, At
<1>2. mode = "vaults" /\ version = "staking"
  <2>1. mode = "vaults"
    BY <1>1 DEF OnTrack, OnWay
  <2>2. version \in Versions /\ mode \in Modes[version]
    BY DEF OnTrack, SoundInv, WorthInv, ChainInv
  <2>3. QED
    BY <2>1, <2>2 DEF Versions, Modes
<1>3. \/ disc.filter = {} /\ Go(d)
      \/ \E v \in disc.filter : /\ v \in known \/ ValidateAztecVault(v) = {}
                                /\ Go(d)
      \/ \E v \in disc.filter : \E z \in ValidateAztecVault(v) : GoAdd(z, d)
      \/ GoFailed(d)
  BY DEF StakingVault
<1>4. d.left = disc.left /\ d.pc = "provider" /\ d.fresh = disc.fresh /\ d.filter = disc.filter
  BY <1>1 DEF Discoveries
<1> HIDE DEF d
<1>5. OnWay(d)
  BY <1>2, <1>4 DEF OnTrack, OnWay
<1>6. /\ open \subseteq Positions /\ open \subseteq minted
      /\ \A p \in open : p.key \in Vaults
      /\ \A p, q \in minted : p.key = q.key /\ p.key \in Vaults => p = q
      /\ \A i \in 1..Len(objs) : objs[i].key \in Vaults /\ objs[i] \in minted
  BY <1>2 DEF OnTrack, SoundInv, WorthInv, ChainInv, KeysOn
<1>7. ASSUME NEW new,
             \A p \in open : /\ InReachOf(disc.filter, p) /\ p.key \in disc.filter
                             /\ p.prov = disc.prov
                             => p \in Stored \/ p \in new
      PROVE  Good(d, new)
  <2> SUFFICES ASSUME NEW p \in open, InReachOf(disc.filter, p), Waits(disc, p)
               PROVE  Waits(d, p) \/ p \in Stored \/ p \in new
    BY <1>4, <1>5 DEF Good, Lasts
  <2>1. p.key \in disc.filter
    BY <1>6 DEF InReachOf
  <2>2. p.prov \in disc.left \/ p.prov = disc.prov
    BY DEF Waits
  <2>3. QED
    BY <1>4, <1>7, <2>1, <2>2 DEF Waits
<1>8. CASE disc.filter = {} /\ Go(d)
  BY <1>7, <1>8 DEF Advances
<1>9. CASE \E v \in disc.filter : /\ v \in known \/ ValidateAztecVault(v) = {}
                                  /\ Go(d)
  <2>1. PICK v \in disc.filter : /\ v \in known \/ ValidateAztecVault(v) = {}
                                 /\ Go(d)
    BY <1>9
  <2>2. ASSUME NEW p \in open, p.key \in disc.filter, p.prov = disc.prov PROVE p \in Stored
    <3>1. p.key = v
      BY <1>2, <2>1, <2>2
    <3>2. v \in known
      BY <2>1, <2>2, <3>1 DEF ValidateAztecVault
    <3>3. PICK r \in Stored : r.key = v
      BY <3>2 DEF KeysOf, Stored
    <3>4. r \in KeptIn(store, objs) /\ IsStore(store, objs) /\ objs \in Seq(Positions)
      BY <3>3, StoredIsKept, StoreType DEF OnTrack
    <3>5. PICK i \in 1..store.len : r = objs[store.arr[i]]
      BY <3>4 DEF KeptIn
    <3>6. store.arr[i] \in 1..Len(objs)
      BY <3>4, ElementsAre
    <3>7. r = p
      BY <1>6, <2>2, <3>1, <3>3, <3>5, <3>6
    <3>8. QED
      BY <3>3, <3>7
  <2>3. Good(d, {})
    BY <1>7, <2>2
  <2>4. QED
    BY <2>1, <2>3 DEF Advances
<1>10. CASE \E v \in disc.filter : \E z \in ValidateAztecVault(v) : GoAdd(z, d)
  <2>1. PICK v \in disc.filter : \E z \in ValidateAztecVault(v) : GoAdd(z, d)
    BY <1>10
  <2>2. PICK z \in ValidateAztecVault(v) : GoAdd(z, d)
    BY <2>1
  <2>3. z \in open /\ z.key = v
    BY <2>2 DEF ValidateAztecVault
  <2>4. \A p \in open : p.key \in disc.filter => p = z
    BY <1>2, <1>6, <2>1, <2>3
  <2>5. Good(d, {z})
    BY <1>7, <2>4
  <2>6. QED
    BY <1>6, <2>2, <2>3, <2>5 DEF Advances
<1>11. QED
  BY <1>3, <1>8, <1>9, <1>10 DEF Advances

LEMMA StakingUpdateAdvances ==
  ASSUME OnTrack, StakingUpdate
  PROVE  Advances
<1> DEFINE z == Pos(disc.prov, Plain, This)
           w == NextOwner(disc)
<1>1. disc.pc = "stake" /\ disc \in Discoveries /\ disc.owners # <<>>
  BY DEF OnTrack, SoundInv, Sane, StakingUpdate, At
<1>2. version = "staking" /\ mode = "plain" /\ disc.has = (z \in open)
  BY <1>1 DEF OnTrack, OnWay, WorthInv, HandInv, HandOK, This
<1>3. z \in Positions /\ z.prov = disc.prov /\ z.key = Plain /\ z.owner = This
  BY <1>1, InHand DEF OnTrack, Pos
<1>4. /\ \A p \in open : p.key = Plain /\ p \in Positions
      /\ \A i \in 1..Len(objs) : objs[i].key = Plain
  BY <1>2 DEF OnTrack, SoundInv, WorthInv, ChainInv, KeysOn
<1>5. \/ disc.has = (GetStakingPosition(store, objs, z) # 0) /\ Go(w)
      \/ GoAdd(z, w)
      \/ StakeGone
  BY <1>1, <1>2 DEF StakingUpdate, StakeGone
<1> HIDE DEF z
<1>6. \A p \in open : Turn(p) => p = z
  BY <1>3, <1>4, SamePosition DEF Turn
<1>7. ASSUME NEW new, z \in open => z \in Stored \/ z \in new PROVE Good(w, new)
  BY <1>1, <1>6, <1>7, NextGood DEF OnTrack, Between
<1>8. CASE disc.has = (GetStakingPosition(store, objs, z) # 0) /\ Go(w)
  <2>1. ASSUME z \in open PROVE z \in Stored
    <3>1. GetStakingPosition(store, objs, z) # 0
      BY <1>2, <1>8, <2>1
    <3>2. PICK x \in SameOwner(objs, z) \cap (1..Len(objs)) : objs[x] \in Stored
      BY <3>1, FoundIsStored DEF OnTrack, GetStakingPosition
    <3>3. objs[x].prov = z.prov /\ objs[x].owner = z.owner /\ objs[x].key = Plain
          /\ objs[x] \in Positions
      BY <1>4, <3>2, StoreType DEF OnTrack, SameOwner
    <3>4. QED
      BY <1>3, <3>2, <3>3, SamePosition
  <2>2. QED
    BY <1>7, <1>8, <2>1 DEF Advances
<1>9. CASE GoAdd(z, w)
  BY <1>3, <1>7, <1>9 DEF Advances
<1>10. CASE StakeGone
  <2>1. z \notin open
    BY <1>2, <1>10 DEF StakeGone
  <2>2. QED
    BY <1>7, <1>10, <2>1 DEF Advances
<1>11. QED
  BY <1>5, <1>8, <1>9, <1>10

LEMMA DiscoveryAdvances ==
  ASSUME OnTrack, version # "v2" => \A a, b \in disc.filter : a = b, DiscoveryStep
  PROVE  Advances
<1>1. ~QueryPairs /\ ~SingleAdd
  BY DEF OnTrack, OnWay, QueryPairs, SingleAdd, At
<1>2. CASE (\E pr \in Providers : TakeProvider(pr)) \/ LastOwner \/ Finish
  BY <1>2, TakeProviderAdvances, LastOwnerAdvances DEF Advances
<1>3. CASE Probe \/ QueryV2Subgraph \/ QueryMints \/ QueryBalances \/ AddFound
  BY <1>3, ProbeAdvances, QueryV2SubgraphAdvances, QueryMintsAdvances, QueryBalancesAdvances,
     AddFoundAdvances
<1>4. CASE V3BalanceOf \/ V3TokenOfOwner \/ V3Details \/ V3Add
  BY <1>4, V3BalanceOfAdvances, V3TokenOfOwnerAdvances, V3DetailsAdvances, V3AddAdvances
<1>5. CASE V4Query \/ V4TokenOfOwner \/ V4Details \/ V4Add
  BY <1>5, V4QueryAdvances, V4TokenOfOwnerAdvances, V4DetailsAdvances, V4AddAdvances
<1>6. CASE StakingVault \/ StakingDelegations \/ StakingAdd
  BY <1>6, StakingVaultAdvances, StakingDelegationsAdvances, StakingAddAdvances
<1>7. CASE StakingBalance \/ StakingUpdate
  BY <1>7, StakingBalanceAdvances, StakingUpdateAdvances
<1>8. QED
  BY <1>1, <1>2, <1>3, <1>4, <1>5, <1>6, <1>7 DEF DiscoveryStep

LEMMA StaysOnWay ==
  ASSUME NEW d, disc' = d, UNCHANGED <<version, mode, open, nfts, minted, beyond>>, OnWay(d)
  PROVE  OnWay(disc)'
BY DEF OnWay

LEMMA StillCovers ==
  ASSUME Covers(disc), NEW d, d.filter = disc.filter, NEW new, Lasts(d, new), disc' = d,
         UNCHANGED <<version, mode, open, nfts, minted, providers, beyond>>,
         \A p \in open : InReachOf(disc.filter, p) /\ (p \in Stored \/ p \in new) => p \in Stored'
  PROVE  Covers(disc)'
<1>1. \A p \in open : InReachOf(d.filter, p) => Waits(d, p) \/ p \in Stored'
  BY DEF Covers, Lasts
<1>2. QED
  BY <1>1 DEF Covers, InReachOf, TwoVaults, Waits, AtHand

\* What is put in is there, or another vault for it.
LEMMA AddStores ==
  ASSUME OnTrack, SoundInv', ChainInv', NEW z \in Positions, NEW d, GoAdd(z, d), disc' = d,
         d.clean, d \in Discoveries
  PROVE  /\ Stored \subseteq Stored'
         /\ z \in open => z \in Stored' \/ TwoVaults(z)
         /\ \A u \in Updaters : ~Overtaken(u, z)
<1>1. objs \in Seq(Positions) /\ IsStore(store, objs)
  BY StoreType DEF OnTrack
<1> DEFINE r == AddPosition(version, store, objs, z)
           i == Existing(version, store, objs, z)
           same == i # 0 => objs[store.arr[i]].owner = z.owner
           over == \E u \in Updaters : Overtaken(u, z)
<1>2. /\ store' = r.store /\ objs' = r.objs
      /\ disc' = IF same /\ ~over THEN d ELSE Unclean(d)
      /\ UNCHANGED <<version, mode, open, minted>>
  BY DEF GoAdd, DiscUnchanged
<1>3. Added(version, store, objs, z, store', objs')
  BY <1>1, <1>2, AddsIt
<1>4. same /\ ~over
  <2>1. ~Unclean(d).clean
    BY DEF Unclean, Discoveries
  <2> HIDE DEF same, over
  <2>2. QED
    BY <1>2, <2>1
<1>5. Stored = KeptIn(store, objs) /\ Stored' = KeptIn(store', objs')
  BY StoredIsKept, StoredThen DEF OnTrack
<1>6. Stored \subseteq Stored'
  BY <1>3, <1>4, <1>5 DEF Added
<1>7. ASSUME z \in open PROVE z \in Stored' \/ TwoVaults(z)
  <2>1. CASE version # "staking" \/ z.key \notin Unvalidated
    BY <1>3, <1>5, <2>1 DEF Added
  <2>2. CASE version = "staking" /\ z.key \in Unvalidated
    <3>1. PICK q \in KeptIn(store', objs') : q.prov = z.prov /\ q.owner = z.owner
      BY <1>3 DEF Added
    <3>2. PICK j \in 1..store'.len : q = objs'[store'.arr[j]]
      BY <3>1 DEF KeptIn
    <3>3. store'.arr[j] \in 1..Len(objs') /\ objs' \in Seq(Positions)
      <4>1. objs' \in Seq(Positions) /\ IsStore(store', objs')
        BY <1>3 DEF Added
      <4>2. QED
        BY <3>2, <4>1, ElementsAre
    <3>4. q \in Positions
      BY <3>2, <3>3
    <3>5. /\ q.key \in KeysOn(version, mode) /\ (q.key \in Vaults => q \in minted)
      BY <1>2, <2>2, <3>2, <3>3 DEF ChainInv
    <3>6. z.key \in KeysOn(version, mode)
      BY <1>7 DEF OnTrack, WorthInv, ChainInv
    <3>7. mode \in {"plain", "validators", "vaults"}
      BY <2>2 DEF OnTrack, WorthInv, ChainInv, Modes
    <3>8. CASE q.key = z.key
      BY <1>5, <3>1, <3>4, <3>8, SamePosition
    <3>9. CASE q.key # z.key
      <4>1. mode = "vaults"
        BY <2>2, <3>5, <3>6, <3>7, <3>9, KeysAreApart DEF KeysOn
      <4>2. q.key \in Vaults /\ z.key \in Vaults
        BY <2>2, <3>5, <3>6, <4>1 DEF KeysOn
      <4>3. q # z
        BY <3>9
      <4>4. QED
        BY <3>1, <3>5, <4>2, <4>3 DEF TwoVaults
    <3>10. QED
      BY <3>8, <3>9
  <2>3. QED
    BY <2>1, <2>2
<1>8. QED
  BY <1>4, <1>6, <1>7

\* A stake that is gone was worth nothing, and so is what goes with it.
LEMMA StakeGoneKeeps ==
  ASSUME OnTrack, SoundInv', StakeGone, NEW p \in open, p \in Stored
  PROVE  p \in Stored'
<1> DEFINE z == Pos(disc.prov, Plain, This)
<1>1. Stored = KeptIn(store, objs) /\ Stored' = KeptIn(store', objs')
  BY StoredIsKept, StoredThen DEF OnTrack
<1>2. /\ disc.pc = "stake" /\ ~disc.has /\ UNCHANGED objs
      /\ store' = RemovePosition(version, store, objs, z)
  BY DEF StakeGone
<1>3. /\ version = "staking" /\ mode = "plain" /\ z \notin open
  BY <1>2 DEF OnTrack, OnWay, WorthInv, HandInv, HandOK, This
<1>4. z \in Positions /\ z.key = Plain
  BY <1>2, InHand DEF OnTrack, Pos
<1>5. ASSUME p \notin Stored' PROVE FALSE
  <2>1. Kept(version, store, objs, Allowed)
    BY DEF OnTrack, SoundInv
  <2> HIDE DEF z
  <2>2. p \in Positions /\ p.prov = z.prov /\ p.owner = z.owner
    <3>1. p \in KeptIn(store, objs) /\ p \notin KeptIn(RemovePosition(version, store, objs, z), objs)
      BY <1>1, <1>2, <1>5
    <3>2. QED
      BY <2>1, <3>1, RemovedIs
  <2>3. p.key = Plain
    BY <1>3 DEF OnTrack, WorthInv, ChainInv, KeysOn
  <2>4. p = z
    BY <1>4, <2>2, <2>3, SamePosition
  <2>5. QED
    BY <1>3, <2>4
<1>6. QED
  BY <1>5

LEMMA AdvancesOnCourse ==
  ASSUME OnTrack, NoneStale, Covers(disc), Advances, SoundInv', ChainInv'
  PROVE  OnCourse'
<1> SUFFICES ASSUME disc'.clean, disc'.pc # "idle"
             PROVE  NoneStale' /\ OnWay(disc)' /\ Covers(disc)'
  BY DEF OnCourse
<1>1. disc' \in Discoveries /\ disc \in Discoveries
  BY DEF SoundInv, Sane, OnTrack
<1>2. CASE \E d : GoFailed(d)
  <2>1. PICK d : GoFailed(d)
    BY <1>2
  <2>2. disc' = [d EXCEPT !.clean = FALSE]
    BY <2>1 DEF GoFailed, Unclean
  <2>3. ~disc'.clean
    BY <1>1, <2>2 DEF Discoveries
  <2>4. QED
    BY <2>3
<1>3. CASE \E d : Go(d) /\ Good(d, {})
  <2>1. PICK d : Go(d) /\ Good(d, {})
    BY <1>3
  <2>2. /\ disc' = d /\ d.filter = disc.filter /\ OnWay(d) /\ Lasts(d, {})
        /\ UNCHANGED <<version, mode, open, nfts, minted, providers, beyond, store, objs, upd>>
    BY <2>1 DEF Go, Good, DiscUnchanged
  <2>3. Stored' = Stored
    BY <2>2 DEF Stored
  <2>4. NoneStale'
    BY <2>2 DEF NoneStale, Stale
  <2>5. OnWay(disc)'
    BY <2>2, StaysOnWay
  <2>6. Covers(disc)'
    BY <2>2, <2>3, StillCovers
  <2>7. QED
    BY <2>4, <2>5, <2>6
<1>4. CASE \E z \in Positions : \E d : GoAdd(z, d) /\ Good(d, {z})
  <2>1. PICK z \in Positions : \E d : GoAdd(z, d) /\ Good(d, {z})
    BY <1>4
  <2>2. PICK d : GoAdd(z, d) /\ Good(d, {z})
    BY <2>1
  <2>3. disc' = d
    <3>1. disc' = d \/ disc' = [d EXCEPT !.clean = FALSE]
      BY <2>2 DEF GoAdd, Unclean
    <3>2. disc' = [d EXCEPT !.clean = FALSE] => ~disc'.clean
      BY <1>1 DEF Discoveries
    <3>3. QED
      BY <3>1, <3>2
  <2>4. /\ d.filter = disc.filter /\ OnWay(d) /\ Lasts(d, {z})
        /\ UNCHANGED <<version, mode, open, nfts, minted, providers, beyond>>
    BY <2>2 DEF GoAdd, Good, DiscUnchanged
  <2>5. /\ Stored \subseteq Stored'
        /\ z \in open => z \in Stored' \/ TwoVaults(z)
        /\ \A u \in Updaters : ~Overtaken(u, z)
    BY <1>1, <2>2, <2>3, AddStores
  <2>6. NoneStale'
    <3> SUFFICES ASSUME NEW u \in Updaters PROVE ~Stale(u)'
      BY DEF NoneStale
    <3> DEFINE q == upd[u]
               t == AddPosition(version, store, objs, z).store
               m == IF Len(t.arr) # Len(store.arr) /\ q.live
                    THEN [q EXCEPT !.live = FALSE, !.own = store.arr] ELSE q
               b == Overtaken(u, z)
    <3>1. upd'[u] = [m EXCEPT !.fresh = @ /\ ~b]
      BY <2>2 DEF GoAdd, Moved
    <3>2. b = FALSE
      BY <2>5 DEF Overtaken
    <3>3. q \in Passes(Len(objs))
      BY PassOKNow DEF OnTrack
    <3> HIDE DEF b
    <3>4. m.pc = q.pc /\ m.fresh = q.fresh /\ DOMAIN m = DOMAIN q
      BY <3>3 DEF Passes
    <3>5. q.fresh \in BOOLEAN /\ {"pc", "fresh"} \subseteq DOMAIN q
      BY <3>3 DEF Passes
    <3>6. q.pc # "idle" => q.fresh
      BY DEF NoneStale, Stale
    <3> HIDE DEF m, q
    <3>7. upd'[u].pc = q.pc /\ (upd'[u].fresh = q.fresh)
      BY <3>1, <3>2, <3>4, <3>5
    <3>8. QED
      BY <3>5, <3>6, <3>7 DEF Stale
  <2>7. OnWay(disc)'
    BY <2>3, <2>4, StaysOnWay
  <2>8. \A p \in open : InReachOf(disc.filter, p) /\ (p \in Stored \/ p \in {z}) => p \in Stored'
    <3> SUFFICES ASSUME NEW p \in open, InReachOf(disc.filter, p), p = z, p \notin Stored'
                 PROVE  FALSE
      BY <2>5
    <3>1. TwoVaults(z)
      BY <2>5
    <3>2. QED
      BY <3>1 DEF InReachOf, TwoVaults
  <2>9. Covers(disc)'
    BY <2>3, <2>4, <2>8, StillCovers
  <2>10. QED
    BY <2>6, <2>7, <2>9
<1>5. CASE StakeGone /\ Good(NextOwner(disc), {})
  <2> DEFINE d == NextOwner(disc)
  <2>1. /\ disc' = d
        /\ UNCHANGED <<version, mode, open, nfts, minted, providers, beyond, objs, upd>>
    BY <1>5 DEF StakeGone, DiscUnchanged
  <2>2. d.filter = disc.filter /\ OnWay(d) /\ Lasts(d, {})
    BY <1>5 DEF Good
  <2> HIDE DEF d
  <2>3. \A p \in open : p \in Stored => p \in Stored'
    BY <1>5, StakeGoneKeeps
  <2>4. NoneStale'
    BY <2>1 DEF NoneStale, Stale
  <2>5. OnWay(disc)'
    BY <2>1, <2>2, StaysOnWay
  <2>6. Covers(disc)'
    BY <2>1, <2>2, <2>3, StillCovers
  <2>7. QED
    BY <2>4, <2>5, <2>6
<1>6. CASE Finish
  <2>1. disc' = [NoDisc EXCEPT !.clean = disc.clean, !.fresh = disc.fresh]
    BY <1>6 DEF Finish, Go
  <2>2. disc'.pc = "idle"
    BY <2>1 DEF NoDisc
  <2>3. QED
    BY <2>2
<1>7. QED
  BY <1>2, <1>3, <1>4, <1>5, <1>6 DEF Advances

\* What a discovery looks for does not change, and one that was disturbed stays so.
Carried == /\ disc'.filter = disc.filter \/ disc'.filter = {}
           /\ disc'.clean => disc.clean

LEMMA ClosedCarried ==
  ASSUME SoundInv, disc' = NextOwner(disc) \/ disc' = Unclean(NextOwner(disc))
                   \/ disc' = Abort \/ disc' = Unclean(Abort)
  PROVE  Carried
<1>1. disc \in Discoveries
  BY DEF SoundInv, Sane
<1>2. NextOwner(disc).filter = disc.filter /\ NextOwner(disc).clean = disc.clean
      /\ Unclean(NextOwner(disc)).filter = disc.filter /\ ~Unclean(NextOwner(disc)).clean
  BY <1>1 DEF NextOwner, Unclean, Discoveries
<1>3. Abort.filter = {} /\ ~Abort.clean /\ Unclean(Abort).filter = {} /\ ~Unclean(Abort).clean
  BY DEF Abort, NoDisc, Unclean
<1>4. QED
  BY <1>2, <1>3 DEF Carried

LEMMA GoesMade ==
  ASSUME NEW d, \/ Go(d) \/ GoFailed(d)
                \/ \E p : GoAdd(p, d)
  PROVE  disc' = d \/ disc' = Unclean(d)
BY DEF Go, GoFailed, GoAdd

LEMMA DiscoveryCarries ==
  ASSUME SoundInv, DiscoveryStep
  PROVE  Carried
<1>1. disc \in Discoveries
  BY DEF SoundInv, Sane
<1>2. CASE \E pr \in Providers : TakeProvider(pr)
  <2>1. PICK pr \in Providers : TakeProvider(pr)
    BY <1>2
  <2> DEFINE c == IF version # "staking" /\ pr \in beyond.dark THEN "provider"
                  ELSE IF mode = "vaults" THEN "vault"
                  ELSE IF version # "v2" THEN "address"
                  ELSE IF mode = "none" THEN "provider" ELSE "probe"
             l == disc.left \ {pr}
  <2>2. disc' = [disc EXCEPT !.left = l, !.prov = pr, !.owners = Owners, !.loop = "address",
                             !.pc = c]
    BY <2>1 DEF TakeProvider, Go
  <2> HIDE DEF c, l
  <2>3. QED
    BY <1>1, <2>2 DEF Carried, Discoveries
<1>3. CASE LastOwner \/ Finish
  BY <1>1, <1>3 DEF LastOwner, Finish, Go, Carried, Discoveries, NoDisc
<1>4. CASE Probe \/ QueryPairs
  BY <1>1, <1>4 DEF Probe, QueryPairs, Go, GoFailed, Unclean, Carried, Discoveries
<1>5. CASE QueryV2Subgraph \/ QueryBalances \/ StakingDelegations
  <2>1. \/ Go(NextOwner(disc)) \/ GoFailed(NextOwner(disc))
        \/ \E q : Go([disc EXCEPT !.todo = q, !.pc = "add"])
    BY <1>5 DEF QueryV2Subgraph, QueryBalances, StakingDelegations
  <2>2. CASE Go(NextOwner(disc)) \/ GoFailed(NextOwner(disc))
    BY <2>2, GoesMade, ClosedCarried
  <2>3. CASE \E q : Go([disc EXCEPT !.todo = q, !.pc = "add"])
    BY <1>1, <2>3 DEF Go, Carried, Discoveries
  <2>4. QED
    BY <2>1, <2>2, <2>3
<1>6. CASE QueryMints
  <2>1. \/ Go(NextOwner(disc))
        \/ \E q : Go([disc EXCEPT !.pairs = q, !.pc = "balances"])
        \/ \E q : GoFailed([disc EXCEPT !.pc = q])
    BY <1>6 DEF QueryMints
  <2>2. CASE Go(NextOwner(disc))
    BY <2>2, GoesMade, ClosedCarried
  <2>3. CASE \E q : Go([disc EXCEPT !.pairs = q, !.pc = "balances"])
    BY <1>1, <2>3 DEF Go, Carried, Discoveries
  <2>4. CASE \E q : GoFailed([disc EXCEPT !.pc = q])
    <3>1. PICK q : disc' = Unclean([disc EXCEPT !.pc = q])
      BY <2>4 DEF GoFailed
    <3>2. QED
      BY <1>1, <3>1 DEF Unclean, Carried, Discoveries
  <2>5. QED
    BY <2>1, <2>2, <2>3, <2>4
<1>7. CASE AddFound \/ StakingAdd
  <2>1. \/ Go(NextOwner(disc))
        \/ Go([disc EXCEPT !.todo = Tail(@)])
        \/ \E p : GoAdd(p, [disc EXCEPT !.todo = Tail(@)])
    BY <1>7 DEF AddFound, StakingAdd
  <2>2. \A d : (Go(d) \/ \E p : GoAdd(p, d)) => disc' = d \/ disc' = Unclean(d)
    BY GoesMade
  <2>3. disc' = NextOwner(disc) \/ disc' = [disc EXCEPT !.todo = Tail(@)]
        \/ disc' = Unclean([disc EXCEPT !.todo = Tail(@)])
    BY <2>1, <2>2 DEF Go
  <2>4. CASE disc' = [disc EXCEPT !.todo = Tail(@)]
    BY <1>1, <2>4 DEF Carried, Discoveries
  <2>5. CASE disc' = Unclean([disc EXCEPT !.todo = Tail(@)])
    BY <1>1, <2>5 DEF Unclean, Carried, Discoveries
  <2>6. QED
    BY <2>3, <2>4, <2>5, ClosedCarried
<1>8. CASE V3BalanceOf \/ V3TokenOfOwner \/ V3Details
  <2>1. \/ Go(NextOwner(disc)) \/ Go(Abort) \/ GoFailed(Abort)
        \/ \E q : Go([disc EXCEPT !.n = q, !.i = 0, !.pc = "index"])
        \/ \E q : Go([disc EXCEPT !.todo = q, !.pc = "details"])
        \/ Go([disc EXCEPT !.pc = "add"])
        \/ Go(V3NextToken(disc))
    BY <1>8 DEF V3BalanceOf, V3TokenOfOwner, V3Details
  <2>2. CASE Go(NextOwner(disc)) \/ Go(Abort) \/ GoFailed(Abort)
    BY <2>2, GoesMade, ClosedCarried
  <2>3. CASE \/ \E q : Go([disc EXCEPT !.n = q, !.i = 0, !.pc = "index"])
             \/ \E q : Go([disc EXCEPT !.todo = q, !.pc = "details"])
             \/ Go([disc EXCEPT !.pc = "add"])
             \/ Go(V3NextToken(disc))
    BY <1>1, <2>3 DEF Go, V3NextToken, Carried, Discoveries
  <2>4. QED
    BY <2>1, <2>2, <2>3
<1>9. CASE V3Add
  <2>1. GoFailed(Abort) \/ \E p : GoAdd(p, V3NextToken(disc))
    BY <1>9 DEF V3Add
  <2>2. CASE GoFailed(Abort)
    BY <2>2, GoesMade, ClosedCarried
  <2>3. CASE \E p : GoAdd(p, V3NextToken(disc))
    <3>1. disc' = V3NextToken(disc) \/ disc' = Unclean(V3NextToken(disc))
      BY <2>3, GoesMade
    <3>2. QED
      BY <1>1, <3>1 DEF V3NextToken, Unclean, Carried, Discoveries
  <2>4. QED
    BY <2>1, <2>2, <2>3
<1>10. CASE V4Query
  <2>1. \/ GoFailed(NextOwner(disc))
        \/ \E q : Go([disc EXCEPT !.todo = q, !.pc = "details"])
        \/ \E q : Go([disc EXCEPT !.n = q, !.i = 0, !.pc = "index"])
    BY <1>10 DEF V4Query
  <2>2. CASE GoFailed(NextOwner(disc))
    BY <2>2, GoesMade, ClosedCarried
  <2>3. CASE \/ \E q : Go([disc EXCEPT !.todo = q, !.pc = "details"])
             \/ \E q : Go([disc EXCEPT !.n = q, !.i = 0, !.pc = "index"])
    BY <1>1, <2>3 DEF Go, Carried, Discoveries
  <2>4. QED
    BY <2>1, <2>2, <2>3
<1>11. CASE V4TokenOfOwner
  BY <1>1, <1>11 DEF V4TokenOfOwner, Go, GoFailed, Unclean, Carried, Discoveries
<1>12. CASE V4Details
  <2>1. \/ Go(NextOwner(disc)) \/ Go([disc EXCEPT !.pc = "add"])
        \/ Go([disc EXCEPT !.todo = Tail(@)]) \/ GoFailed([disc EXCEPT !.todo = Tail(@)])
    BY <1>12 DEF V4Details
  <2>2. CASE Go(NextOwner(disc))
    BY <2>2, GoesMade, ClosedCarried
  <2>3. CASE \/ Go([disc EXCEPT !.pc = "add"])
             \/ Go([disc EXCEPT !.todo = Tail(@)]) \/ GoFailed([disc EXCEPT !.todo = Tail(@)])
    BY <1>1, <2>3 DEF Go, GoFailed, Unclean, Carried, Discoveries
  <2>4. QED
    BY <2>1, <2>2, <2>3
<1>13. CASE V4Add \/ SingleAdd
  <2>1. \/ GoFailed(Abort) \/ \E p : GoAdd(p, Abort)
        \/ \E p : GoAdd(p, [disc EXCEPT !.todo = Tail(@), !.pc = "details"])
    BY <1>13 DEF V4Add, SingleAdd
  <2>2. \/ disc' = Abort \/ disc' = Unclean(Abort)
        \/ disc' = [disc EXCEPT !.todo = Tail(@), !.pc = "details"]
        \/ disc' = Unclean([disc EXCEPT !.todo = Tail(@), !.pc = "details"])
    BY <2>1, GoesMade
  <2>3. QED
    BY <1>1, <2>2, ClosedCarried DEF Unclean, Carried, Discoveries
<1>14. CASE StakingVault
  <2> DEFINE d == [disc EXCEPT !.pc = "provider"]
  <2>1. \/ Go(d) \/ GoFailed(d) \/ \E p : GoAdd(p, d)
    BY <1>14 DEF StakingVault
  <2>2. disc' = d \/ disc' = Unclean(d)
    BY <2>1, GoesMade
  <2>3. QED
    BY <1>1, <2>2 DEF Unclean, Carried, Discoveries
<1>15. CASE StakingBalance
  BY <1>1, <1>15 DEF StakingBalance, Go, GoFailed, Unclean, Carried, Discoveries
<1>16. CASE StakingUpdate
  <2>1. \/ Go(NextOwner(disc)) \/ disc' = NextOwner(disc)
        \/ \E p : GoAdd(p, NextOwner(disc))
    BY <1>16 DEF StakingUpdate
  <2>2. QED
    BY <2>1, GoesMade, ClosedCarried
<1>17. QED
  BY <1>2, <1>3, <1>4, <1>5, <1>6, <1>7, <1>8, <1>9, <1>10, <1>11, <1>12, <1>13, <1>14,
     <1>15, <1>16 DEF DiscoveryStep

LEMMA DiscoveryWay ==
  ASSUME SoundInv, WorthInv, WayInv, SoundInv', WorthInv', DiscoveryStep
  PROVE  WayInv'
<1>1. Carried
  BY DiscoveryCarries
<1>2. UNCHANGED version
  BY DiscoveryGoes DEF Goes, Go, GoFailed, GoAdd, StakeGone, DiscUnchanged
<1>3. version' # "v2" => \A a, b \in disc'.filter : a = b
  BY <1>1, <1>2 DEF WayInv, Carried
<1>4. disc.pc # "idle"
  BY DEF DiscoveryStep, TakeProvider, LastOwner, Finish, Probe, QueryV2Subgraph, QueryMints,
     QueryPairs, QueryBalances, AddFound, V3BalanceOf, V3TokenOfOwner, V3Details, V3Add,
     V4Query, V4TokenOfOwner, V4Details, V4Add, SingleAdd, StakingVault, StakingDelegations,
     StakingAdd, StakingBalance, StakingUpdate, AddressStep, At
<1>5. CASE ~disc.clean
  BY <1>1, <1>3, <1>5 DEF Carried, WayInv, OnCourse
<1>6. CASE disc.clean
  <2>1. NoneStale /\ OnWay(disc) /\ Covers(disc)
    BY <1>4, <1>6 DEF WayInv, OnCourse
  <2>2. OnTrack
    BY <2>1 DEF OnTrack
  <2>3. Advances
    BY <2>2, DiscoveryAdvances DEF WayInv
  <2>4. ChainInv'
    BY DEF WorthInv
  <2>5. OnCourse'
    BY <2>1, <2>2, <2>3, <2>4, AdvancesOnCourse
  <2>6. QED
    BY <1>3, <2>5 DEF WayInv
<1>7. QED
  BY <1>5, <1>6

\* A step that disturbs the discovery, or a chain or user that does.
LEMMA DisturbedWay ==
  ASSUME WayInv, ~disc'.clean, UNCHANGED version, disc'.filter = disc.filter \/ disc'.filter = {}
  PROVE  WayInv'
BY DEF WayInv, OnCourse

LEMMA UncleanWay ==
  ASSUME SoundInv, WayInv, UNCHANGED version,
         disc' = Unclean(disc) \/ disc' = [Unclean(disc) EXCEPT !.fresh = FALSE]
  PROVE  WayInv'
<1>1. disc \in Discoveries
  BY DEF SoundInv, Sane
<1>2. ~disc'.clean /\ disc'.filter = disc.filter
  BY <1>1 DEF Discoveries, Unclean
<1>3. QED
  BY <1>2, DisturbedWay

LEMMA SingleWay ==
  ASSUME WayInv, NEW pr, NEW k, DiscoverSingle(pr, k)
  PROVE  WayInv'
<1>1. ~disc'.clean /\ disc'.filter = {}
  BY DEF DiscoverSingle, NoDisc
<1>2. UNCHANGED version
  BY DEF DiscoverSingle, DiscUnchanged
<1>3. QED
  BY <1>1, <1>2, DisturbedWay

LEMMA BeginsWay ==
  ASSUME SoundInv, WayInv, NEW f, Discover(f)
  PROVE  WayInv'
<1> DEFINE c == ~\E u \in Updaters : Stale(u)
           d == [NoDisc EXCEPT !.pc = "provider", !.left = providers, !.filter = f, !.clean = c]
<1>1. disc' = d
      /\ UNCHANGED <<version, mode, open, nfts, minted, providers, beyond, store, objs, upd>>
      /\ (version # "v2" => \A a, b \in f : a = b)
  BY DEF Discover, DiscUnchanged
<1>2. c => NoneStale
  BY DEF NoneStale
<1> HIDE DEF c
<1>3. d.pc = "provider" /\ d.left = providers /\ d.filter = f /\ d.clean = c /\ d.fresh = TRUE
  BY DEF NoDisc
<1> HIDE DEF d
<1>4. OnWay(d)
  BY <1>3 DEF OnWay
<1>5. OnWay(disc)'
  BY <1>1, <1>4, StaysOnWay
<1>6. disc'.clean => NoneStale'
  BY <1>1, <1>2, <1>3 DEF NoneStale, Stale
<1>7. Covers(disc)'
  BY <1>1, <1>3 DEF Covers, InReachOf, Waits
<1>8. QED
  BY <1>1, <1>3, <1>5, <1>6, <1>7 DEF WayInv, OnCourse

\* A step that neither touches the discovery, nor leaves a pass stale, nor takes out what is
\* still to be found in the wallet.
LEMMA BesideWay ==
  ASSUME SoundInv, WayInv,
         UNCHANGED <<version, mode, open, nfts, minted, providers, beyond, disc>>,
         disc.clean /\ disc.pc # "idle" /\ NoneStale => NoneStale',
         disc.clean /\ disc.pc # "idle" /\ NoneStale =>
           \A p \in open : InReachOf(disc.filter, p) /\ p \in Stored => p \in Stored'
  PROVE  WayInv'
<1>1. CASE disc.clean /\ disc.pc # "idle"
  <2>1. NoneStale /\ OnWay(disc) /\ Covers(disc)
    BY <1>1 DEF WayInv, OnCourse
  <2>2. NoneStale'
    BY <1>1, <2>1
  <2>3. OnWay(disc)'
    BY <2>1, StaysOnWay
  <2>4. Lasts(disc, {}) /\ disc.filter = disc.filter
    BY DEF Lasts
  <2>5. \A p \in open : InReachOf(disc.filter, p) /\ (p \in Stored \/ p \in {}) => p \in Stored'
    BY <1>1, <2>1
  <2>6. Covers(disc)'
    BY <2>1, <2>4, <2>5, StillCovers
  <2>7. QED
    BY <2>2, <2>3, <2>6 DEF WayInv, OnCourse
<1>2. CASE ~(disc.clean /\ disc.pc # "idle")
  BY <1>2 DEF WayInv, OnCourse
<1>3. QED
  BY <1>1, <1>2

\* One pass moves on.
LEMMA OnePassFresh ==
  ASSUME WorthInv, NoneStale, NEW u \in Updaters, NEW r,
         upd' = [upd EXCEPT ![u] = r] \/ upd' = upd,
         r.pc = "idle" \/ r.fresh
  PROVE  NoneStale'
<1>1. DOMAIN upd = Updaters
  BY DEF WorthInv, PassInv
<1>2. \A w \in Updaters : upd'[w] = upd[w] \/ upd'[w] = r
  BY <1>1
<1>3. QED
  BY <1>2 DEF NoneStale, Stale

LEMMA PaneFresh ==
  ASSUME SoundInv, WorthInv, NoneStale, NEW u \in Updaters,
         Pass(u) \/ Listen(u) \/ WakeUp(u), UNCHANGED disc, disc.clean
  PROVE  NoneStale'
<1> DEFINE q == upd[u]
           a == Advance(u)
           b == [NoPass EXCEPT !.pc = "ask", !.i = 1, !.n = store.len, !.live = TRUE]
           s == [NoPass EXCEPT !.pc = "delete", !.todel = q.todel, !.fresh = q.fresh,
                               !.cmd = q.cmd, !.strays = q.strays]
<1>1. q \in Passes(Len(objs)) /\ DOMAIN upd = Updaters /\ (q.pc = "idle" \/ q.fresh)
  BY PassOKNow DEF NoneStale, Stale
<1>2. ~(disc' = Unclean(disc))
  <2>1. disc \in Discoveries
    BY DEF SoundInv, Sane
  <2>2. ~Unclean(disc).clean
    BY <2>1 DEF Unclean, Discoveries
  <2>3. QED
    BY <2>2
<1>3. NoPass.pc = "idle" /\ b.fresh /\ NoPass.fresh
  BY DEF NoPass
<1>4. CASE AskStatus(u)
  <2>1. q.pc = "ask"
    BY <1>4 DEF AskStatus
  <2>2. PICK x, got : \/ upd' = [upd EXCEPT ![u].pc = "show"]
                      \/ upd' = [upd EXCEPT ![u].pc = "use", ![u].x = x, ![u].got = got]
    BY <1>2, <1>4 DEF AskStatus
  <2> DEFINE m == [q EXCEPT !.pc = "show"]
             n == [q EXCEPT !.pc = "use", !.x = x, !.got = got]
  <2>3. upd' = [upd EXCEPT ![u] = m] \/ upd' = [upd EXCEPT ![u] = n]
    BY <1>1, <2>2
  <2>4. m.fresh /\ n.fresh
    BY <1>1, <2>1 DEF Passes
  <2> HIDE DEF m, n
  <2>5. QED
    BY <2>3, <2>4, OnePassFresh
<1>5. CASE \/ Listed(u) \/ Skipped(u) \/ RemovedAtOnce(u) \/ StrangersRemoved(u)
           \/ RemovedLater(u)
  <2> DEFINE l == [a EXCEPT !.list = Append(@, q.x)]
             t == [a EXCEPT !.todel = Append(@, q.x)]
             y == [a EXCEPT !.todel = Append(@, q.x), !.strays = @ \cup {q.x}]
  <2>1. q.pc = "use"
    BY <1>5 DEF Listed, Skipped, RemovedAtOnce, StrangersRemoved, RemovedLater, Got
  <2>2. \/ upd' = [upd EXCEPT ![u] = a] \/ upd' = [upd EXCEPT ![u] = l]
        \/ upd' = [upd EXCEPT ![u] = t] \/ upd' = [upd EXCEPT ![u] = y]
    BY <1>5 DEF Listed, Skipped, RemovedAtOnce, StrangersRemoved, RemovedLater, TakeOut,
                Proceed
  <2>3. a.fresh /\ l.fresh /\ t.fresh /\ y.fresh
    BY <1>1, <2>1 DEF Advance, Passes
  <2> HIDE DEF a, l, t, y
  <2>4. QED
    BY <2>2, <2>3, OnePassFresh
<1>6. CASE Show(u) \/ Printed(u)
  <2>1. q.pc = "show"
    BY <1>6 DEF Show, Printed
  <2> DEFINE r == IF q.todel = <<>> THEN NoPass ELSE s
  <2>2. upd' = [upd EXCEPT ![u] = r]
    BY <1>6 DEF Show, Printed, Proceed, Closing
  <2>3. s.fresh
    BY <1>1, <2>1 DEF NoPass
  <2> HIDE DEF s
  <2>4. r.pc = "idle" \/ r.fresh
    BY <1>3, <2>3
  <2> HIDE DEF r
  <2>5. QED
    BY <2>2, <2>4, OnePassFresh
<1>7. CASE DeleteClosed(u)
  <2> DEFINE rest == Tail(q.todel)
             r == IF rest = <<>> THEN NoPass ELSE [q EXCEPT !.todel = rest]
  <2>1. q.pc = "delete"
    BY <1>7 DEF DeleteClosed
  <2>2. upd' = [upd EXCEPT ![u] = r]
    BY <1>1, <1>7 DEF DeleteClosed, TakeOut
  <2>3. r.pc = "idle" \/ r.fresh
    BY <1>1, <1>3, <2>1 DEF Passes
  <2> HIDE DEF r
  <2>4. QED
    BY <2>2, <2>3, OnePassFresh
<1>8. CASE Listen(u) \/ WakeUp(u)
  <2>1. upd' = upd \/ upd' = [upd EXCEPT ![u] = b]
    BY <1>8 DEF Listen, scheduleUpdateV2, scheduleUpdateV3, scheduleUpdateV4, processStaking,
       ScheduleUpdate, WakeUp, Begin
  <2> HIDE DEF b
  <2>2. QED
    BY <1>3, <2>1, OnePassFresh
<1>9. QED
  BY <1>4, <1>5, <1>6, <1>7, <1>8 DEF Pass, updateListV2, updateListV3, updateListV4,
     updateListStaking, ListStep, list

\* A pass that asked the chain as it is takes nothing out that is worth something, as far as
\* the discovery knows ...
LEMMA PaneSpares ==
  ASSUME SoundInv, WorthInv, SoundInv', NoneStale, NEW u \in Updaters,
         Pass(u) \/ Listen(u) \/ WakeUp(u), UNCHANGED disc, disc.clean,
         NEW p \in open, p \in Stored, ~TwoVaults(p)
  PROVE  p \in Stored'
<1>1. Stored = KeptIn(store, objs) /\ Stored' = KeptIn(store', objs')
  BY StoredIsKept, StoredThen
<1>2. CASE UNCHANGED <<store, objs>>
  BY <1>2 DEF Stored
<1>3. CASE RemovedAtOnce(u) \/ StrangersRemoved(u) \/ (NFTs(version) /\ DeleteClosed(u))
  <2> DEFINE op == Seen(upd[u].cmd)
  <2>1. upd[u].pc # "idle" /\ upd[u].fresh \in BOOLEAN /\ UNCHANGED objs
    BY <1>3, TakesOut
  <2>2. PICK x \in 1..Len(objs) :
          /\ store' = RemovePosition(version, store, objs, objs[x])
          /\ Noticed(u, objs[x])
          /\ Astray(u) \/ (upd[u].fresh => Worthless(version, store, objs, op, objs[x]))
    BY <1>3, TakesOut
  <2>3. upd[u].fresh
    BY <2>1 DEF NoneStale, Stale
  <2>4. /\ ~Astray(u)
        /\ \A q \in open : SameAs(version, objs[x], q) => ~Unseen(u, q)
    <3>1. disc \in Discoveries
      BY DEF SoundInv, Sane
    <3>2. ~Unclean(disc).clean
      BY <3>1 DEF Unclean, Discoveries
    <3>3. disc' # Unclean(disc)
      BY <3>2
    <3>4. QED
      BY <2>2, <3>3 DEF Noticed
  <2>5. op \in SUBSET open
    BY DEF Seen
  <2>6. ASSUME p \notin Stored' PROVE FALSE
    <3>1. /\ p \in KeptIn(store, objs)
          /\ p \notin KeptIn(RemovePosition(version, store, objs, objs[x]), objs)
      BY <1>1, <2>1, <2>2, <2>6
    <3>2. p = objs[x]
      BY <3>1, ItselfOrVault
    <3>3. SameAs(version, objs[x], p)
      BY <3>2 DEF SameAs
    <3>4. p \in op
      BY <2>4, <3>3 DEF Unseen
    <3> HIDE DEF op
    <3>5. ~upd[u].fresh \/ TwoVaults(p)
      BY <2>1, <2>2, <2>4, <2>5, <3>1, <3>4, OnlyWorthless
    <3>6. QED
      BY <2>3, <3>5
  <2>7. QED
    BY <2>6
<1>4. QED
  BY <1>2, <1>3, PaneStill

\* ... and so does not undo what a discovery has done.
LEMMA PaneWay ==
  ASSUME SoundInv, WorthInv, WayInv, SoundInv', NEW u \in Updaters,
         Pass(u) \/ Listen(u) \/ WakeUp(u)
  PROVE  WayInv'
<1>1. /\ UNCHANGED <<version, mode, open, nfts, minted, providers, beyond>>
      /\ disc' = disc \/ disc' = Unclean(disc)
  BY PaneStill
<1>2. CASE disc' = Unclean(disc)
  BY <1>1, <1>2, UncleanWay
<1>3. CASE disc' = disc
  <2>1. disc.clean /\ NoneStale => NoneStale'
    BY <1>3, PaneFresh
  <2>2. disc.clean /\ NoneStale =>
          \A p \in open : InReachOf(disc.filter, p) /\ p \in Stored => p \in Stored'
    <3> SUFFICES ASSUME disc.clean, NoneStale, NEW p \in open, InReachOf(disc.filter, p),
                        p \in Stored
                 PROVE  p \in Stored'
      OBVIOUS
    <3>1. ~TwoVaults(p)
      BY DEF InReachOf, TwoVaults
    <3>2. QED
      BY <1>3, <3>1, PaneSpares
  <2>3. QED
    BY <1>1, <1>3, <2>1, <2>2, BesideWay
<1>4. QED
  BY <1>1, <1>2, <1>3

LEMMA StillWay ==
  ASSUME SoundInv, WayInv, Elapse \/ PriceUpdated \/ UNCHANGED vars
  PROVE  WayInv'
<1>1. UNCHANGED <<version, mode, open, nfts, minted, providers, beyond, disc, store, objs, upd>>
  BY DEF Elapse, PriceUpdated, PaneUnchanged, vars
<1>2. (NoneStale => NoneStale') /\ Stored' = Stored
  BY <1>1 DEF NoneStale, Stale, Stored
<1>3. QED
  BY <1>1, <1>2, BesideWay

LEMMA StepWay ==
  ASSUME SoundInv, WorthInv, WayInv, SoundInv', WorthInv', [Next]_vars
  PROVE  WayInv'
<1>1. CASE \/ \E p \in Positions : Open(p) \/ Close(p)
           \/ \E p \in Positions, o \in Addresses : Transfer(p, o)
           \/ \E p \in Positions, left \in {"liquidity", "fees", "owed"} : Resize(p, left)
  <2>1. Move
    BY <1>1 DEF Open, Close, Transfer, Resize
  <2>2. QED
    BY <2>1, UncleanWay DEF Move
<1>2. CASE \E pr \in Providers : Dialogue(pr)
  <2>1. User
    BY <1>2 DEF Dialogue, DlgLP_V2_add, DlgLP_V3_add, DlgLP_V4_add, DlgStakingAdd,
       DlgLP_V2_edit, DlgLP_V3_edit, DlgLP_V4_edit, DlgStakingEdit, AddProvider, EditProvider
  <2>2. QED
    BY <2>1, UncleanWay DEF User
<1>3. CASE LP_V2_Process \/ LP_V3_Process \/ LP_V4_Process \/ Staking_Process
  <2>1. \/ \E pr \in Providers : RemoveProvider(pr)
        \/ SwitchPane \/ \E k \in Keys : IgnoreToken(k)
        \/ \E p \in Positions : DeletePosition(p)
        \/ \E u \in Updaters : ListPositions(u)
        \/ \E f \in SUBSET (Keys \cup Vaults) : Discover(f)
        \/ \E pr \in Providers, k \in Keys : DiscoverSingle(pr, k)
    BY <1>3 DEF LP_V2_Process, LP_V3_Process, LP_V4_Process, Staking_Process, Command
  <2>2. CASE \E f \in SUBSET (Keys \cup Vaults) : Discover(f)
    BY <2>2, BeginsWay
  <2>3. CASE \E pr \in Providers, k \in Keys : DiscoverSingle(pr, k)
    BY <2>3, SingleWay
  <2>4. CASE User
    BY <2>4, UncleanWay DEF User
  <2>5. QED
    BY <2>1, <2>2, <2>3, <2>4 DEF RemoveProvider, SwitchPane, DeletePosition, IgnoreToken,
                                  ListPositions
<1>4. CASE DiscoveryStep
  BY <1>4, DiscoveryWay
<1>5. CASE \E u \in Updaters : Pass(u) \/ Listen(u) \/ WakeUp(u)
  BY <1>5, PaneWay
<1>6. CASE Elapse \/ PriceUpdated \/ UNCHANGED vars
  BY <1>6, StillWay
<1>7. QED
  BY <1>1, <1>2, <1>3, <1>4, <1>5, <1>6 DEF Next

LEMMA InitWay == Init => WayInv
<1> SUFFICES ASSUME Init PROVE WayInv
  OBVIOUS
<1>1. disc.pc = "idle" /\ disc.filter = {}
  BY DEF Init, NoDisc
<1>2. QED
  BY <1>1 DEF WayInv, OnCourse

LEMMA FinishFindsAll ==
  ASSUME SoundInv, WayInv, Finish, disc.clean
  PROVE  FoundAll
<1>1. disc.pc = "provider" /\ disc.left = {}
  BY DEF Finish, At
<1>2. Covers(disc)
  BY <1>1 DEF WayInv, OnCourse
<1>3. ASSUME NEW p \in open, InReach(p) PROVE \E q \in Stored : Same(p, q)
  <2>1. InReachOf(disc.filter, p)
    BY <1>3 DEF InReach, InReachOf
  <2>2. p \in Stored
    BY <1>1, <1>2, <2>1 DEF Covers, Waits
  <2>3. Same(p, p)
    BY DEF Same, SameAs
  <2>4. QED
    BY <2>2, <2>3
<1>4. QED
  BY <1>3 DEF FoundAll

(* A discovery that ends undisturbed, in any of the four servers, has      *)
(* found every position it can see, whatever the pane took out meanwhile.  *)
THEOREM DiscoveryFindsAll == Spec => DiscoveryComplete
<1> DEFINE Inv == SoundInv /\ WorthInv /\ WayInv
<1>1. Init => Inv
  BY InitKeeps, InitWorth, InitWay
<1>2. Inv /\ [Next]_vars => Inv'
  BY StepKeeps, StepWorth, StepWay
<1>3. Inv => ((Finish /\ disc.clean) => FoundAll)
  BY FinishFindsAll
<1>4. Inv /\ [Next]_vars => [(Finish /\ disc.clean) => FoundAll]_vars
  BY <1>3
<1>5. QED
  BY <1>1, <1>2, <1>4, PTL DEF Spec, DiscoveryComplete
=============================================================================
