----------------------- MODULE IntrusiveQueue_proofs -----------------------
(***************************************************************************)
(* The linked lists implement the sequences of TaskLists, for any number   *)
(* of items and lists: no list loses an item, shows one twice, or takes in *)
(* another's items through a `next` field left over from an earlier one.   *)
(***************************************************************************)
EXTENDS IntrusiveQueue, FunctionTheorems, FiniteSetTheorems,
        WellFoundedInduction, TLAPS

---------------------------------------------------------------------------
(* Chains: the items met from a start s, through the next fields nx.       *)

OnChain(c) == {c[n] : n \in 1..Len(c)}

Chain(s, nx, c) ==
    /\ c \in Seq(Items)
    /\ s = IF Len(c) = 0 THEN Null ELSE c[1]
    /\ \A n \in 1..Len(c) : nx[c[n]] = IF n = Len(c) THEN Null ELSE c[n + 1]
    /\ \A m, n \in 1..Len(c) : c[m] = c[n] => m = n

LEMMA ChainTypes ==
    ASSUME NEW s, NEW nx, NEW c, Chain(s, nx, c)
    PROVE  /\ c \in Seq(Items) /\ Len(c) \in Nat
           /\ \A n \in 1..Len(c) : c[n] \in Items /\ c[n] # Null
           /\ OnChain(c) \subseteq Items
           /\ s = Null <=> Len(c) = 0
BY ItemsAssumption DEF Chain, OnChain

\* A chain depends on the fields of its own items only.
LEMMA ChainOther ==
    ASSUME NEW s, NEW nx, NEW c, Chain(s, nx, c),
           NEW ny, \A i \in OnChain(c) : ny[i] = nx[i]
    PROVE  Chain(s, ny, c)
BY DEF Chain, OnChain

LEMMA ChainEmpty == \A nx : Chain(Null, nx, <<>>)
BY DEF Chain

LEMMA ChainOne ==
    ASSUME NEW i \in Items, NEW nx, nx[i] = Null
    PROVE  Chain(i, nx, <<i>>) /\ OnChain(<<i>>) = {i}
BY DEF Chain, OnChain

\* The next field of p is set to i, and after that the one of q to j.
Relinked(nx, ny, p, i, q, j) ==
    /\ nx \in [Items -> Items \union {Null}]
    /\ ny = [nx EXCEPT ![p] = i, ![q] = j]

\* A new item at the end, its own next field cleared.
LEMMA ChainPush ==
    ASSUME NEW s, NEW nx, NEW c, Chain(s, nx, c), Len(c) > 0,
           NEW i \in Items, i \notin OnChain(c),
           NEW ny, Relinked(nx, ny, c[Len(c)], i, i, Null)
    PROVE  Chain(s, ny, Append(c, i)) /\ OnChain(Append(c, i)) = OnChain(c) \union {i}
<1>. DEFINE d == Append(c, i)
            L == Len(c)
<1>1. /\ d \in Seq(Items) /\ Len(d) = L + 1 /\ L \in Nat
      /\ d[L + 1] = i /\ \A n \in 1..L : d[n] = c[n]
      /\ \A n \in 1..L : c[n] \in Items /\ c[n] # i
      /\ nx \in [Items -> Items \union {Null}]
      /\ ny = [nx EXCEPT ![c[L]] = i, ![i] = Null]
  BY ChainTypes DEF OnChain, Relinked
<1>2. /\ s = c[1]
      /\ \A n \in 1..L : nx[c[n]] = IF n = L THEN Null ELSE c[n + 1]
      /\ \A m, n \in 1..L : c[m] = c[n] => m = n
  BY DEF Chain
<1>. HIDE DEF d, L
<1>3. \A n \in 1..(L + 1) : ny[d[n]] = IF n = L + 1 THEN Null ELSE d[n + 1]
  <2>. SUFFICES ASSUME NEW n \in 1..(L + 1)
                PROVE  ny[d[n]] = IF n = L + 1 THEN Null ELSE d[n + 1]
    OBVIOUS
  <2>1. CASE n = L + 1
    BY <1>1, <2>1
  <2>2. CASE n = L
    BY <1>1, <2>2 DEF L
  <2>3. CASE n < L
    <3>1. n \in 1..L /\ n + 1 \in 1..L /\ c[n] # c[L] /\ L \in 1..L
      BY <1>1, <1>2, <2>3
    <3>2. ny[c[n]] = nx[c[n]]
      BY <1>1, <3>1 DEF L
    <3>. QED
      BY <1>1, <1>2, <2>3, <3>1, <3>2
  <2>. QED
    BY <1>1, <2>1, <2>2, <2>3
<1>4. \A m, n \in 1..(L + 1) : d[m] = d[n] => m = n
  <2>. SUFFICES ASSUME NEW m \in 1..(L + 1), NEW n \in 1..(L + 1), d[m] = d[n]
                PROVE  m = n
    OBVIOUS
  <2>1. (m \in 1..L \/ m = L + 1) /\ (n \in 1..L \/ n = L + 1)
    BY <1>1
  <2>. QED
    BY <1>1, <1>2, <2>1
<1>5. Chain(s, ny, d)
  <2>1. s = d[1] /\ L + 1 # 0
    BY <1>1, <1>2 DEF L
  <2>. QED
    BY <1>1, <1>3, <1>4, <2>1 DEF Chain
<1>6. OnChain(d) = OnChain(c) \union {i}
  <2>1. OnChain(d) = {d[n] : n \in 1..(L + 1)} /\ OnChain(c) = {c[n] : n \in 1..L}
    BY <1>1 DEF OnChain, L
  <2>2. \A n \in 1..(L + 1) : n \in 1..L \/ n = L + 1
    BY <1>1
  <2>3. L + 1 \in 1..(L + 1) /\ \A n \in 1..L : n \in 1..(L + 1)
    BY <1>1
  <2>. QED
    BY <1>1, <2>1, <2>2, <2>3
<1>. QED
  BY <1>5, <1>6 DEF d

\* An item taken out of a sequence.
Without(c, n) == SubSeq(c, 1, n - 1) \o SubSeq(c, n + 1, Len(c))

LEMMA WithoutOne ==
    ASSUME NEW c \in Seq(Items), NEW n \in 1..Len(c)
    PROVE  /\ Without(c, n) \in Seq(Items) /\ Len(Without(c, n)) = Len(c) - 1
           /\ \A m \in 1..(Len(c) - 1) :
                 Without(c, n)[m] = IF m < n THEN c[m] ELSE c[m + 1]
<1>. DEFINE u == SubSeq(c, 1, n - 1)
            v == SubSeq(c, n + 1, Len(c))
<1>1. Len(c) \in Nat
  OBVIOUS
<1>2. u \in Seq(Items) /\ Len(u) = n - 1 /\ \A m \in 1..(n - 1) : u[m] = c[m]
  BY <1>1
<1>3. /\ v \in Seq(Items) /\ Len(v) = Len(c) - n
      /\ \A m \in 1..(Len(c) - n) : v[m] = c[n + m]
  BY <1>1
<1>. HIDE DEF u, v
<1>4. /\ u \o v \in Seq(Items) /\ Len(u \o v) = Len(c) - 1
      /\ \A m \in 1..(Len(c) - 1) : (u \o v)[m] = IF m <= n - 1 THEN u[m] ELSE v[m - (n - 1)]
  BY <1>1, <1>2, <1>3
<1>5. ASSUME NEW m \in 1..(Len(c) - 1)
      PROVE  (u \o v)[m] = IF m < n THEN c[m] ELSE c[m + 1]
  <2>1. CASE m < n
    BY <1>1, <1>2, <1>4, <2>1
  <2>2. CASE ~(m < n)
    <3>1. m - (n - 1) \in 1..(Len(c) - n) /\ n + (m - (n - 1)) = m + 1
      BY <1>1, <2>2
    <3>2. (u \o v)[m] = v[m - (n - 1)]
      BY <1>1, <1>4, <2>2
    <3>. QED
      BY <1>1, <1>3, <2>2, <3>1, <3>2
  <2>. QED
    BY <2>1, <2>2
<1>. QED
  BY <1>4, <1>5 DEF Without, u, v

\* What is left of the items when one is taken out.
LEMMA WithoutChain ==
    ASSUME NEW s, NEW nx, NEW c, Chain(s, nx, c), NEW n \in 1..Len(c)
    PROVE  OnChain(Without(c, n)) \subseteq OnChain(c) \ {c[n]}
<1>. DEFINE d == Without(c, n)
<1>1. c \in Seq(Items) /\ Len(c) \in Nat
  BY ChainTypes
<1>2. /\ Len(d) = Len(c) - 1
      /\ \A m \in 1..(Len(c) - 1) : d[m] = IF m < n THEN c[m] ELSE c[m + 1]
  BY <1>1, WithoutOne
<1>. HIDE DEF d
<1>3. ASSUME NEW m \in 1..Len(d) PROVE d[m] \in OnChain(c) \ {c[n]}
  <2>1. CASE m < n
    <3>1. m \in 1..Len(c) /\ m # n /\ d[m] = c[m]
      BY <1>1, <1>2, <2>1
    <3>. QED
      BY <3>1 DEF Chain, OnChain
  <2>2. CASE ~(m < n)
    <3>1. m + 1 \in 1..Len(c) /\ m + 1 # n /\ d[m] = c[m + 1]
      BY <1>1, <1>2, <2>2
    <3>. QED
      BY <3>1 DEF Chain, OnChain
  <2>. QED
    BY <2>1, <2>2
<1>. QED
  BY <1>3 DEF OnChain, d

\* The head goes: the start moves on, no next field is written.
LEMMA ChainPop ==
    ASSUME NEW s, NEW nx, NEW c, Chain(s, nx, c), Len(c) > 0
    PROVE  Chain(nx[s], nx, Without(c, 1)) /\ s = c[1]
<1>. DEFINE d == Without(c, 1)
            L == Len(c)
<1>1. c \in Seq(Items) /\ L \in Nat /\ L > 0 /\ 1 \in 1..L
  BY ChainTypes
<1>2. /\ d \in Seq(Items) /\ Len(d) = L - 1
      /\ \A m \in 1..(L - 1) : d[m] = c[m + 1]
  BY <1>1, WithoutOne
<1>3. /\ s = c[1]
      /\ \A n \in 1..L : nx[c[n]] = IF n = L THEN Null ELSE c[n + 1]
      /\ \A m, n \in 1..L : c[m] = c[n] => m = n
  BY <1>1 DEF Chain
<1>. HIDE DEF d, L
<1>4. nx[s] = IF L - 1 = 0 THEN Null ELSE d[1]
  BY <1>1, <1>2, <1>3
<1>5. \A n \in 1..(L - 1) : nx[d[n]] = IF n = L - 1 THEN Null ELSE d[n + 1]
  <2>. SUFFICES ASSUME NEW n \in 1..(L - 1)
                PROVE  nx[d[n]] = IF n = L - 1 THEN Null ELSE d[n + 1]
    OBVIOUS
  <2>1. n + 1 \in 1..L /\ d[n] = c[n + 1]
    BY <1>1, <1>2
  <2>2. n # L - 1 => n + 1 \in 1..(L - 1)
    BY <1>1
  <2>3. nx[c[n + 1]] = IF n + 1 = L THEN Null ELSE c[(n + 1) + 1]
    BY <1>3, <2>1
  <2>. QED
    BY <1>1, <1>2, <2>1, <2>2, <2>3
<1>6. \A m, n \in 1..(L - 1) : d[m] = d[n] => m = n
  BY <1>1, <1>2, <1>3
<1>. QED
  BY <1>1, <1>2, <1>3, <1>4, <1>5, <1>6 DEF Chain, d

\* Any other item goes: its predecessor is linked to its successor.
LEMMA ChainCut ==
    ASSUME NEW s, NEW nx, NEW c, Chain(s, nx, c), NEW n \in 2..Len(c),
           NEW ny, Relinked(nx, ny, c[n - 1], nx[c[n]], c[n - 1], nx[c[n]])
    PROVE  Chain(s, ny, Without(c, n))
<1>. DEFINE d == Without(c, n)
            L == Len(c)
<1>1. /\ c \in Seq(Items) /\ L \in Nat /\ n \in 1..L /\ n - 1 \in 1..L
      /\ \A m \in 1..L : c[m] \in Items
  BY ChainTypes
<1>7. /\ nx \in [Items -> Items \union {Null}]
      /\ ny = [nx EXCEPT ![c[n - 1]] = nx[c[n]]]
  BY DEF Relinked
<1>2. /\ d \in Seq(Items) /\ Len(d) = L - 1
      /\ \A m \in 1..(L - 1) : d[m] = IF m < n THEN c[m] ELSE c[m + 1]
  BY <1>1, WithoutOne
<1>3. /\ s = c[1]
      /\ \A m \in 1..L : nx[c[m]] = IF m = L THEN Null ELSE c[m + 1]
      /\ \A m, k \in 1..L : c[m] = c[k] => m = k
  BY <1>1 DEF Chain
<1>. HIDE DEF d, L
<1>4. L - 1 # 0 /\ s = d[1]
  BY <1>1, <1>2, <1>3
<1>5. \A m \in 1..(L - 1) : ny[d[m]] = IF m = L - 1 THEN Null ELSE d[m + 1]
  <2>. SUFFICES ASSUME NEW m \in 1..(L - 1)
                PROVE  ny[d[m]] = IF m = L - 1 THEN Null ELSE d[m + 1]
    OBVIOUS
  <2>1. CASE m = n - 1
    <3>1. d[m] = c[n - 1] /\ ny[c[n - 1]] = nx[c[n]]
      BY <1>7, <1>1, <1>2, <2>1
    <3>2. nx[c[n]] = IF n = L THEN Null ELSE c[n + 1]
      BY <1>1, <1>3
    <3>3. n # L => d[m + 1] = c[n + 1]
      BY <1>1, <1>2, <2>1
    <3>. QED
      BY <1>1, <2>1, <3>1, <3>2, <3>3
  <2>2. CASE m < n - 1
    <3>1. m \in 1..L /\ m # n - 1 /\ d[m] = c[m] /\ m + 1 < n /\ m + 1 \in 1..(L - 1)
      BY <1>1, <1>2, <2>2
    <3>2. c[m] # c[n - 1] /\ ny[c[m]] = nx[c[m]]
      BY <1>7, <1>1, <1>3, <3>1
    <3>3. d[m + 1] = c[m + 1] /\ m # L /\ m # L - 1
      BY <1>1, <1>2, <3>1
    <3>. QED
      BY <1>3, <3>1, <3>2, <3>3
  <2>3. CASE m >= n
    <3>1. m + 1 \in 1..L /\ m + 1 # n - 1 /\ d[m] = c[m + 1]
      BY <1>1, <1>2, <2>3
    <3>2. c[m + 1] # c[n - 1] /\ ny[c[m + 1]] = nx[c[m + 1]]
      BY <1>7, <1>1, <1>3, <3>1
    <3>3. m # L - 1 => d[m + 1] = c[(m + 1) + 1]
      <4>1. m # L - 1 => m + 1 \in 1..(L - 1) /\ ~(m + 1 < n)
        BY <1>1, <2>3
      <4>. QED
        BY <1>2, <4>1
    <3>4. nx[c[m + 1]] = IF m + 1 = L THEN Null ELSE c[(m + 1) + 1]
      BY <1>3, <3>1
    <3>. QED
      BY <1>1, <3>1, <3>2, <3>3, <3>4
  <2>. QED
    BY <1>1, <2>1, <2>2, <2>3
<1>6. \A m, k \in 1..(L - 1) : d[m] = d[k] => m = k
  <2>. SUFFICES ASSUME NEW m \in 1..(L - 1), NEW k \in 1..(L - 1), d[m] = d[k]
                PROVE  m = k
    OBVIOUS
  <2>1. m \in 1..L /\ k \in 1..L /\ m + 1 \in 1..L /\ k + 1 \in 1..L
    BY <1>1
  <2>2. CASE m < n /\ k < n
    BY <1>2, <1>3, <2>1, <2>2
  <2>3. CASE m < n /\ ~(k < n)
    <3>1. c[m] = c[k + 1]
      BY <1>2, <2>3
    <3>2. m = k + 1
      BY <1>3, <2>1, <3>1
    <3>. QED
      BY <1>1, <2>3, <3>2
  <2>4. CASE ~(m < n) /\ k < n
    <3>1. c[m + 1] = c[k]
      BY <1>2, <2>4
    <3>2. m + 1 = k
      BY <1>3, <2>1, <3>1
    <3>. QED
      BY <1>1, <2>4, <3>2
  <2>5. CASE ~(m < n) /\ ~(k < n)
    <3>1. c[m + 1] = c[k + 1]
      BY <1>2, <2>5
    <3>2. m + 1 = k + 1
      BY <1>3, <2>1, <3>1
    <3>. QED
      BY <3>2
  <2>. QED
    BY <2>2, <2>3, <2>4, <2>5
<1>. QED
  BY <1>2, <1>4, <1>5, <1>6 DEF Chain, d

---------------------------------------------------------------------------
(* The state laid out as one sequence of items for each list.              *)

LaidOut(c) ==
    /\ c \in [Lists -> Seq(Items)]
    /\ \A l \in Lists : Chain(start[l], next, c[l]) /\ size[l] = Len(c[l])
    /\ \A k, l \in Lists : k # l => OnChain(c[k]) \cap OnChain(c[l]) = {}

\* A step that changes list l to d, and takes in only items that were on none.
BecomesOnly(c, l, d, New) ==
    /\ Chain(start'[l], next', d) /\ size'[l] = Len(d)
    /\ OnChain(d) \subseteq OnChain(c[l]) \union New
    /\ \A k \in Lists : New \cap OnChain(c[k]) = {}
    /\ \A k \in Lists \ {l} : start'[k] = start[k] /\ size'[k] = size[k]
    /\ \A i \in Items \ (OnChain(c[l]) \union New) : next'[i] = next[i]

LEMMA OneChanges ==
    ASSUME NEW c, LaidOut(c), NEW l \in Lists, NEW d, NEW New, BecomesOnly(c, l, d, New)
    PROVE  LaidOut([c EXCEPT ![l] = d])'
<1>. DEFINE e == [c EXCEPT ![l] = d]
<1>1. /\ e \in [Lists -> Seq(Items)] /\ e[l] = d
      /\ \A k \in Lists \ {l} : e[k] = c[k]
  BY DEF LaidOut, Chain, BecomesOnly
<1>2. \A k \in Lists \ {l} : OnChain(c[k]) \cap (OnChain(c[l]) \union New) = {}
  BY DEF LaidOut, BecomesOnly
<1>. HIDE DEF e
<1>3. ASSUME NEW k \in Lists PROVE Chain(start'[k], next', e[k]) /\ size'[k] = Len(e[k])
  <2>1. CASE k = l
    BY <1>1, <2>1 DEF BecomesOnly
  <2>2. CASE k # l
    <3>1. Chain(start[k], next, c[k]) /\ size[k] = Len(c[k])
      BY DEF LaidOut
    <3>2. \A i \in OnChain(c[k]) : next'[i] = next[i]
      BY <1>2, <2>2, <3>1, ChainTypes DEF BecomesOnly
    <3>3. Chain(start[k], next', c[k])
      BY <3>1, <3>2, ChainOther
    <3>. QED
      BY <1>1, <2>2, <3>1, <3>3 DEF BecomesOnly
  <2>. QED
    BY <2>1, <2>2
<1>4. ASSUME NEW k \in Lists, NEW m \in Lists, k # m
      PROVE  OnChain(e[k]) \cap OnChain(e[m]) = {}
  <2>1. CASE k # l /\ m # l
    BY <1>1, <1>4, <2>1 DEF LaidOut
  <2>2. CASE k = l
    BY <1>1, <1>2, <1>4, <2>2 DEF BecomesOnly
  <2>3. CASE m = l
    BY <1>1, <1>2, <1>4, <2>3 DEF BecomesOnly
  <2>. QED
    BY <2>1, <2>2, <2>3
<1>. QED
  BY <1>1, <1>3, <1>4 DEF LaidOut, e

---------------------------------------------------------------------------
(* What walking a list from its start finds is its chain.                  *)

\* A set of numbers that is not empty has a least one.
LEMMA LeastOf ==
    ASSUME NEW S \in SUBSET Nat, S # {}
    PROVE  \E x \in S : \A y \in S : x <= y
<1>1. IsWellFoundedOn(OpToRel(<, Nat), Nat)
  BY NatLessThanWellFounded, Zenon
<1>2. PICK x \in S : \A y \in S : <<y, x>> \notin OpToRel(<, Nat)
  BY <1>1, WFMin, Zenon
<1>3. ASSUME NEW y \in S PROVE x <= y
  <2>1. ~(y < x)
    BY <1>2, Zenon DEF OpToRel
  <2>2. x \in Nat /\ y \in Nat
    OBVIOUS
  <2>. QED
    BY <2>1, <2>2
<1>. QED
  BY <1>3

\* A chain never has more items than there are.
LEMMA ChainFits ==
    ASSUME NEW s, NEW nx, NEW c, Chain(s, nx, c)
    PROVE  Cardinality(Items) \in Nat /\ Len(c) <= Cardinality(Items)
<1>1. Len(c) \in Nat /\ c \in [1..Len(c) -> Items]
  BY ChainTypes
<1>2. c \in Injection(1..Len(c), Items)
  BY <1>1 DEF Chain, Injection, IsInjective
<1>3. IsFiniteSet(Items) /\ Cardinality(Items) \in Nat
  BY ItemsAssumption, FS_CardinalityType
<1>4. Cardinality(1..Len(c)) <= Cardinality(Items)
  BY <1>2, <1>3, FS_Injection
<1>5. Cardinality(1..Len(c)) = Len(c)
  <2>1. Cardinality(1..Len(c)) = IF 1 > Len(c) THEN 0 ELSE Len(c) - 1 + 1
    BY <1>1, FS_Interval
  <2>. QED
    BY <1>1, <2>1
<1>. QED
  BY <1>3, <1>4, <1>5

Places == 1..(Cardinality(Items) + 1)

IsWalk(at, l) ==
    at = [n \in Places |-> IF n = 1 THEN start[l]
                           ELSE IF at[n - 1] = Null THEN Null ELSE next[at[n - 1]]]

LEMMA WalkIsUnique ==
    ASSUME Cardinality(Items) \in Nat, NEW l, NEW t, NEW u, IsWalk(t, l), IsWalk(u, l)
    PROVE  t = u
<1>. DEFINE Part == {n \in Places : t[n] # u[n]}
<1>1. CASE Part = {}
  <2>1. \A n \in Places : t[n] = u[n]
    BY <1>1
  <2>. QED
    BY <2>1 DEF IsWalk
<1>2. CASE Part # {}
  <2>1. PICK n \in Part : \A m \in Part : n <= m
    <3>1. Part \in SUBSET Nat
      BY DEF Places
    <3>. HIDE DEF Part
    <3>. QED
      BY <1>2, <3>1, LeastOf
  <2>2. n # 1
    BY <2>1 DEF IsWalk
  <2>3. n - 1 \in Places /\ t[n - 1] = u[n - 1]
    BY <2>1, <2>2 DEF Places
  <2>4. /\ t[n] = IF t[n - 1] = Null THEN Null ELSE next[t[n - 1]]
        /\ u[n] = IF u[n - 1] = Null THEN Null ELSE next[u[n - 1]]
    BY <2>1, <2>2 DEF IsWalk
  <2>. QED
    BY <2>1, <2>3, <2>4
<1>. QED
  BY <1>1, <1>2

LEMMA WalkIsChain ==
    ASSUME NEW l, NEW c, Chain(start[l], next, c)
    PROVE  Walk(l) = [n \in Places |-> IF n <= Len(c) THEN c[n] ELSE Null]
<1>. DEFINE w == [n \in Places |-> IF n <= Len(c) THEN c[n] ELSE Null]
<1>1. /\ Cardinality(Items) \in Nat /\ Len(c) \in Nat /\ Len(c) <= Cardinality(Items)
      /\ \A n \in 1..Len(c) : c[n] # Null
  BY ChainFits, ChainTypes
<1>2. ASSUME NEW n \in Places
      PROVE  w[n] = IF n = 1 THEN start[l]
                    ELSE IF w[n - 1] = Null THEN Null ELSE next[w[n - 1]]
  <2>1. CASE n = 1
    BY <1>1, <2>1 DEF Chain, Places
  <2>2. CASE n # 1
    <3>1. n - 1 \in Places /\ n \in Nat
      BY <2>2, <1>1 DEF Places
    <3>2. CASE n - 1 <= Len(c)
      <4>1. n - 1 \in 1..Len(c) /\ w[n - 1] = c[n - 1]
        BY <3>1, <3>2, <1>1 DEF Places
      <4>2. next[c[n - 1]] = IF n - 1 = Len(c) THEN Null ELSE c[(n - 1) + 1]
        BY <4>1 DEF Chain
      <4>3. w[n] = IF n - 1 = Len(c) THEN Null ELSE c[n]
        BY <1>1, <3>1, <3>2
      <4>. QED
        BY <1>1, <2>2, <3>1, <4>1, <4>2, <4>3
    <3>3. CASE ~(n - 1 <= Len(c))
      <4>1. w[n - 1] = Null /\ w[n] = Null
        BY <1>1, <3>1, <3>3
      <4>. QED
        BY <2>2, <4>1
    <3>. QED
      BY <3>2, <3>3
  <2>. QED
    BY <2>1, <2>2
<1>. HIDE DEF w
<1>3. w = [n \in Places |-> w[n]]
  BY DEF w
<1>4. IsWalk(w, l)
  BY <1>2, <1>3 DEF IsWalk
<1>5. Walk(l) = CHOOSE at : IsWalk(at, l)
  BY DEF Walk, IsWalk, Places
<1>6. IsWalk(Walk(l), l)
  BY <1>4, <1>5
<1>. QED
  BY <1>1, <1>4, <1>6, WalkIsUnique DEF w

\* What is on a list, in which order, and which item is its last.
LEMMA ListFacts ==
    ASSUME NEW l, NEW c, Chain(start[l], next, c)
    PROVE  /\ Content(l) = c
           /\ Held(l) = OnChain(c)
           /\ Len(c) > 0 => PeekEnd(l) = c[Len(c)]
<1>. DEFINE w == [n \in Places |-> IF n <= Len(c) THEN c[n] ELSE Null]
<1>1. /\ Cardinality(Items) \in Nat /\ Len(c) \in Nat /\ Len(c) <= Cardinality(Items)
      /\ c \in Seq(Items)
      /\ \A n \in 1..Len(c) : c[n] # Null
  BY ChainFits, ChainTypes
<1>2. Walk(l) = w
  BY WalkIsChain
<1>3. DOMAIN w = Places /\ 1..Len(c) \subseteq Places
  BY <1>1 DEF Places
<1>4. /\ \A n \in 1..Len(c) : w[n] = c[n]
      /\ \A n \in Places \ (1..Len(c)) : w[n] = Null
  BY <1>1, <1>3 DEF Places
<1>. HIDE DEF w
<1>5. {n \in DOMAIN w : w[n] # Null} = 1..Len(c)
  BY <1>1, <1>3, <1>4
<1>6. Content(l) = c
  <2>1. Content(l) = [n \in 1..Len(c) |-> w[n]]
    BY <1>2, <1>5 DEF Content
  <2>2. c = [n \in 1..Len(c) |-> c[n]]
    BY <1>1
  <2>. QED
    BY <1>4, <2>1, <2>2
<1>7. Held(l) = OnChain(c)
  <2>1. Held(l) = {w[n] : n \in Places} \ {Null}
    BY <1>2, <1>3 DEF Held
  <2>2. ASSUME NEW i \in Held(l) PROVE i \in OnChain(c)
    <3>1. PICK n \in Places : w[n] = i /\ i # Null
      BY <2>1
    <3>. QED
      BY <1>4, <3>1 DEF OnChain
  <2>3. ASSUME NEW i \in OnChain(c) PROVE i \in Held(l)
    <3>1. PICK n \in 1..Len(c) : i = c[n]
      BY DEF OnChain
    <3>. QED
      BY <1>1, <1>3, <1>4, <2>1, <3>1
  <2>. QED
    BY <2>2, <2>3
<1>8. ASSUME Len(c) > 0 PROVE PeekEnd(l) = c[Len(c)]
  <2>1. Len(c) \in 1..Len(c) /\ c[Len(c)] \in OnChain(c) /\ next[c[Len(c)]] = Null
    BY <1>1, <1>8 DEF Chain, OnChain
  <2>2. ASSUME NEW i \in OnChain(c), next[i] = Null PROVE i = c[Len(c)]
    <3>1. PICK n \in 1..Len(c) : i = c[n]
      BY DEF OnChain
    <3>2. n # Len(c) => next[i] = c[n + 1] /\ n + 1 \in 1..Len(c)
      BY <1>1, <3>1 DEF Chain
    <3>. QED
      BY <1>1, <2>2, <3>1, <3>2
  <2>. QED
    BY <1>7, <2>1, <2>2 DEF PeekEnd
<1>. QED
  BY <1>6, <1>7, <1>8

LEMMA ContentIsLayout ==
    ASSUME NEW c, LaidOut(c)
    PROVE  c = [l \in Lists |-> Content(l)]
BY ListFacts DEF LaidOut

---------------------------------------------------------------------------
(* Every operation changes one sequence the way TaskLists says.            *)


LEMMA PushKeeps ==
    ASSUME TypeOK, NEW c, LaidOut(c), NEW l \in Lists, NEW i \in Items, Push(l, i)
    PROVE  /\ TypeOK' /\ \A k \in Lists : i \notin OnChain(c[k])
           /\ LaidOut([c EXCEPT ![l] = Append(c[l], i)])'
<1>. DEFINE d == c[l]
<1>1. Chain(start[l], next, d) /\ size[l] = Len(d)
  BY DEF LaidOut
<1>2. \A k \in Lists : Chain(start[k], next, c[k]) /\ i \notin OnChain(c[k])
  <2>. TAKE k \in Lists
  <2>1. Chain(start[k], next, c[k])
    BY DEF LaidOut
  <2>2. Held(k) = OnChain(c[k])
    BY <2>1, ListFacts
  <2>. QED
    BY <2>1, <2>2 DEF Push
<1>3. d \in Seq(Items) /\ Len(d) \in Nat /\ (start[l] = Null <=> Len(d) = 0)
  BY <1>1, ChainTypes
<1>. HIDE DEF d
<1>4. \A k \in Lists : {i} \cap OnChain(c[k]) = {}
  BY <1>2
<1>5. CASE start[l] = Null
  <2>1. /\ start' = [start EXCEPT ![l] = i]
        /\ next' = [next EXCEPT ![i] = Null]
        /\ size' = [size EXCEPT ![l] = 1]
    BY <1>5 DEF Push
  <2>2. TypeOK'
    BY <2>1 DEF TypeOK
  <2>3. Append(d, i) = <<i>>
    BY <1>3, <1>5
  <2>4. /\ start'[l] = i /\ size'[l] = Len(<<i>>) /\ next'[i] = Null
        /\ \A k \in Lists \ {l} : start'[k] = start[k] /\ size'[k] = size[k]
        /\ \A j \in Items \ (OnChain(c[l]) \union {i}) : next'[j] = next[j]
    BY <2>1 DEF TypeOK
  <2>5. Chain(start'[l], next', <<i>>) /\ OnChain(<<i>>) = {i}
    BY <2>4, ChainOne
  <2>6. BecomesOnly(c, l, <<i>>, {i})
    BY <1>4, <2>4, <2>5 DEF BecomesOnly
  <2>7. LaidOut([c EXCEPT ![l] = <<i>>])'
    BY <2>6, OneChanges
  <2>. QED
    BY <1>2, <2>2, <2>3, <2>7 DEF d
<1>6. CASE start[l] # Null
  <2>1. Len(d) > 0 /\ PeekEnd(l) = d[Len(d)] /\ d[Len(d)] \in Items
    <3>1. Len(d) > 0 /\ Len(d) \in 1..Len(d)
      BY <1>3, <1>6
    <3>2. PeekEnd(l) = d[Len(d)]
      BY <1>1, <3>1, ListFacts
    <3>. QED
      BY <1>3, <3>1, <3>2
  <2>2. /\ start' = start
        /\ next' = [next EXCEPT ![d[Len(d)]] = i, ![i] = Null]
        /\ size' = [size EXCEPT ![l] = @ + 1]
    BY <1>6, <2>1 DEF Push
  <2>3. TypeOK'
    BY <2>1, <2>2 DEF TypeOK
  <2>4. i \notin OnChain(d) /\ Relinked(next, next', d[Len(d)], i, i, Null)
    BY <1>2, <2>2 DEF TypeOK, d, Relinked
  <2>5. /\ Chain(start[l], next', Append(d, i))
        /\ OnChain(Append(d, i)) = OnChain(d) \union {i}
    <3>1. Chain(start[l], next, d) /\ Len(d) > 0
      BY <1>1, <2>1
    <3>. QED
      BY <3>1, <2>4, ChainPush, Z3
  <2>6. d[Len(d)] \in OnChain(d)
    BY <1>3, <2>1 DEF OnChain
  <2>7. /\ start'[l] = start[l] /\ size'[l] = Len(Append(d, i))
        /\ \A k \in Lists \ {l} : start'[k] = start[k] /\ size'[k] = size[k]
        /\ \A j \in Items \ (OnChain(d) \union {i}) : next'[j] = next[j]
    BY <1>1, <1>3, <2>1, <2>2, <2>6 DEF TypeOK
  <2>8. BecomesOnly(c, l, Append(d, i), {i})
    BY <1>4, <2>5, <2>7 DEF BecomesOnly, d
  <2>9. LaidOut([c EXCEPT ![l] = Append(d, i)])'
    BY <2>8, OneChanges
  <2>. QED
    BY <1>2, <2>3, <2>9 DEF d
<1>. QED
  BY <1>5, <1>6

\* Without the first item what is left is the tail.
LEMMA WithoutHead ==
    ASSUME NEW c \in Seq(Items), Len(c) > 0
    PROVE  Without(c, 1) = Tail(c)
<1>1. 1 \in 1..Len(c) /\ Len(c) \in Nat
  OBVIOUS
<1>2. /\ Without(c, 1) \in Seq(Items) /\ Len(Without(c, 1)) = Len(c) - 1
      /\ \A m \in 1..(Len(c) - 1) : Without(c, 1)[m] = c[m + 1]
  BY <1>1, WithoutOne
<1>3. /\ Tail(c) \in Seq(Items) /\ Len(Tail(c)) = Len(c) - 1
      /\ \A m \in 1..(Len(c) - 1) : Tail(c)[m] = c[m + 1]
  BY <1>1
<1>4. \A m \in 1..Len(Without(c, 1)) : Without(c, 1)[m] = Tail(c)[m]
  BY <1>2, <1>3
<1>. QED
  BY <1>2, <1>3, <1>4

\* A list that is not empty, by its chain.
LEMMA NotEmpty ==
    ASSUME NEW c, LaidOut(c), NEW l \in Lists, start[l] # Null
    PROVE  /\ Chain(start[l], next, c[l]) /\ size[l] = Len(c[l])
           /\ c[l] \in Seq(Items) /\ Len(c[l]) \in Nat /\ Len(c[l]) > 0
           /\ start[l] = c[l][1] /\ start[l] \in Items
<1>1. Chain(start[l], next, c[l]) /\ size[l] = Len(c[l])
  BY DEF LaidOut
<1>2. c[l] \in Seq(Items) /\ Len(c[l]) \in Nat /\ Len(c[l]) # 0
  BY <1>1, ChainTypes
<1>3. start[l] = c[l][1] /\ 1 \in 1..Len(c[l])
  BY <1>1, <1>2 DEF Chain
<1>. QED
  BY <1>1, <1>2, <1>3

LEMMA PopKeeps ==
    ASSUME TypeOK, NEW c, LaidOut(c), NEW l \in Lists, Pop(l)
    PROVE  TypeOK' /\ Len(c[l]) > 0 /\ LaidOut([c EXCEPT ![l] = Without(c[l], 1)])'
<1>. DEFINE d == c[l]
<1>1. /\ Chain(start[l], next, d) /\ size[l] = Len(d)
      /\ d \in Seq(Items) /\ Len(d) \in Nat /\ Len(d) > 0
      /\ start[l] \in Items
  BY NotEmpty DEF Pop
<1>2. /\ start' = [start EXCEPT ![l] = next[start[l]]]
      /\ size' = [size EXCEPT ![l] = @ - 1] /\ next' = next
  BY DEF Pop
<1>3. TypeOK'
  BY <1>1, <1>2 DEF TypeOK
<1>4. Chain(next[start[l]], next', Without(d, 1))
  BY <1>1, <1>2, ChainPop
<1>5. Len(Without(d, 1)) = Len(d) - 1 /\ OnChain(Without(d, 1)) \subseteq OnChain(d)
  <2>1. 1 \in 1..Len(d)
    BY <1>1
  <2>. QED
    BY <1>1, <2>1, WithoutOne, WithoutChain
<1>. HIDE DEF d
<1>6. /\ start'[l] = next[start[l]] /\ size'[l] = Len(Without(d, 1))
      /\ \A k \in Lists \ {l} : start'[k] = start[k] /\ size'[k] = size[k]
  BY <1>1, <1>2, <1>5 DEF TypeOK
<1>7. LaidOut([c EXCEPT ![l] = Without(d, 1)])'
  <2>1. BecomesOnly(c, l, Without(d, 1), {})
    BY <1>2, <1>4, <1>5, <1>6 DEF BecomesOnly, d
  <2>. QED
    BY <2>1, OneChanges
<1>. QED
  BY <1>1, <1>3, <1>7 DEF d

LEMMA ClearKeeps ==
    ASSUME TypeOK, NEW c, LaidOut(c), NEW l \in Lists, Clear(l)
    PROVE  TypeOK' /\ LaidOut([c EXCEPT ![l] = <<>>])'
<1>1. /\ start' = [start EXCEPT ![l] = Null]
      /\ size' = [size EXCEPT ![l] = 0] /\ next' = next
  BY DEF Clear
<1>2. TypeOK'
  BY <1>1 DEF TypeOK
<1>3. /\ start'[l] = Null /\ size'[l] = Len(<<>>)
      /\ \A k \in Lists \ {l} : start'[k] = start[k] /\ size'[k] = size[k]
  BY <1>1 DEF TypeOK
<1>4. Chain(start'[l], next', <<>>) /\ OnChain(<<>>) \subseteq OnChain(c[l]) \union {}
  BY <1>3, ChainEmpty DEF OnChain
<1>5. LaidOut([c EXCEPT ![l] = <<>>])'
  <2>1. BecomesOnly(c, l, <<>>, {})
    BY <1>1, <1>3, <1>4 DEF BecomesOnly
  <2>. QED
    BY <2>1, OneChanges
<1>. QED
  BY <1>2, <1>5

LEMMA RotateKeeps ==
    ASSUME TypeOK, NEW c, LaidOut(c), NEW l \in Lists, Rotate(l)
    PROVE  /\ TypeOK' /\ Len(c[l]) > 0
           /\ LaidOut([c EXCEPT ![l] = Append(Without(c[l], 1), c[l][1])])'
<1>. DEFINE d == c[l]
            t == Without(d, 1)
            i == d[1]
<1>1. /\ Chain(start[l], next, d) /\ size[l] = Len(d)
      /\ d \in Seq(Items) /\ Len(d) \in Nat /\ Len(d) > 0 /\ 1 \in 1..Len(d)
      /\ start[l] = i /\ i \in Items
  BY NotEmpty DEF Rotate
<1>2. /\ t \in Seq(Items) /\ Len(t) = Len(d) - 1
      /\ \A m \in 1..(Len(d) - 1) : t[m] = d[m + 1]
      /\ OnChain(t) \subseteq OnChain(d) \ {i}
  <2>1. OnChain(t) \subseteq OnChain(d) \ {i}
    BY <1>1, WithoutChain
  <2>2. /\ t \in Seq(Items) /\ Len(t) = Len(d) - 1
        /\ \A m \in 1..(Len(d) - 1) : t[m] = IF m < 1 THEN d[m] ELSE d[m + 1]
    BY <1>1, WithoutOne
  <2>. HIDE DEF t, d, i
  <2>. QED
    BY <1>1, <2>1, <2>2
<1>3. Chain(next[i], next, t)
  BY <1>1, ChainPop
<1>4. next[i] # Null
  BY <1>1 DEF Rotate
<1>. HIDE DEF d, t, i
<1>5. Len(t) > 0 /\ Len(t) \in 1..Len(t)
  BY <1>1, <1>2, <1>3, <1>4, ChainTypes
<1>6. PeekEnd(l) = t[Len(t)] /\ t[Len(t)] \in Items /\ t[Len(t)] \in OnChain(t)
  <2>1. PeekEnd(l) = d[Len(d)]
    BY <1>1, ListFacts
  <2>2. t[Len(t)] = d[Len(d)]
    BY <1>1, <1>2, <1>5
  <2>. QED
    BY <1>2, <1>5, <2>1, <2>2 DEF OnChain
<1>7. /\ start' = [start EXCEPT ![l] = next[i]] /\ size' = size
      /\ next' = [next EXCEPT ![t[Len(t)]] = i, ![i] = Null]
  BY <1>1, <1>6 DEF Rotate
<1>8. TypeOK'
  BY <1>1, <1>6, <1>7 DEF TypeOK
<1>9. i \notin OnChain(t) /\ Relinked(next, next', t[Len(t)], i, i, Null)
  BY <1>2, <1>7 DEF TypeOK, Relinked
<1>10. /\ Chain(next[i], next', Append(t, i))
       /\ OnChain(Append(t, i)) = OnChain(t) \union {i}
  BY <1>1, <1>3, <1>5, <1>9, ChainPush, Z3
<1>11. i \in OnChain(d) /\ OnChain(Append(t, i)) \subseteq OnChain(d) \union {}
  BY <1>1, <1>2, <1>10 DEF OnChain, i
<1>12. /\ start'[l] = next[i] /\ size'[l] = Len(Append(t, i))
       /\ \A k \in Lists \ {l} : start'[k] = start[k] /\ size'[k] = size[k]
       /\ \A j \in Items \ (OnChain(d) \union {}) : next'[j] = next[j]
  BY <1>1, <1>2, <1>6, <1>7, <1>11 DEF TypeOK
<1>13. LaidOut([c EXCEPT ![l] = Append(t, i)])'
  <2>1. BecomesOnly(c, l, Append(t, i), {})
    BY <1>10, <1>11, <1>12 DEF BecomesOnly, d
  <2>. QED
    BY <2>1, OneChanges
<1>. QED
  BY <1>1, <1>8, <1>13 DEF d, t, i

\* The list loses the n-th of its items.
Loses(c, l, n) == LaidOut([c EXCEPT ![l] = Without(c[l], n)])'

LEMMA RemoveKeeps ==
    ASSUME TypeOK, NEW c, LaidOut(c), NEW l \in Lists, NEW i \in Items, Remove(l, i)
    PROVE  /\ TypeOK'
           /\ \/ UNCHANGED vars
              \/ \E n \in 1..Len(c[l]) : c[l][n] = i /\ Loses(c, l, n)
<1>. DEFINE d == c[l]
<1>1. /\ Chain(start[l], next, d) /\ size[l] = Len(d)
      /\ d \in Seq(Items) /\ Len(d) \in Nat /\ Len(d) > 0 /\ 1 \in 1..Len(d)
      /\ start[l] = d[1]
  BY NotEmpty DEF Remove
<1>2. CASE /\ start[l] = i
           /\ start' = [start EXCEPT ![l] = next[i]]
           /\ next' = next
           /\ size' = [size EXCEPT ![l] = @ - 1]
  <2>1. Pop(l)
    BY <1>2 DEF Pop, Remove
  <2>. QED
    BY <1>1, <1>2, <2>1, PopKeeps DEF Loses
<1>3. ASSUME NEW prev \in Held(l), start[l] # i, next[prev] = i,
             next' = [next EXCEPT ![prev] = next[i]],
             size' = [size EXCEPT ![l] = @ - 1], start' = start
      PROVE  TypeOK' /\ \E n \in 1..Len(d) : d[n] = i /\ Loses(c, l, n)
  <2>. HIDE DEF d
  <2>1. PICK m \in 1..Len(d) : prev = d[m]
    <3>1. Held(l) = OnChain(d)
      BY <1>1, ListFacts
    <3>. QED
      BY <1>3, <3>1 DEF OnChain
  <2>2. m # Len(d) /\ i = d[m + 1]
    BY <1>1, <1>3, <2>1, ItemsAssumption DEF Chain
  <2>. DEFINE n == m + 1
              e == Without(d, n)
  <2>3. n \in 2..Len(d) /\ n \in 1..Len(d) /\ n - 1 = m
    BY <1>1, <2>1, <2>2
  <2>. HIDE DEF n
  <2>4. prev = d[n - 1] /\ i = d[n] /\ d[n - 1] \in OnChain(d) /\ prev \in Items
    BY <1>1, <2>1, <2>2, <2>3, ChainTypes DEF n, OnChain
  <2>5. Relinked(next, next', d[n - 1], next[d[n]], d[n - 1], next[d[n]])
    BY <1>3, <2>4 DEF Relinked, TypeOK
  <2>6. Chain(start[l], next', e)
    BY <1>1, <2>3, <2>5, ChainCut
  <2>7. Len(e) = Len(d) - 1 /\ OnChain(e) \subseteq OnChain(d) \union {}
    BY <1>1, <2>3, WithoutOne, WithoutChain
  <2>. HIDE DEF e
  <2>8. /\ start'[l] = start[l] /\ size'[l] = Len(e)
        /\ \A k \in Lists \ {l} : start'[k] = start[k] /\ size'[k] = size[k]
        /\ \A j \in Items \ (OnChain(d) \union {}) : next'[j] = next[j]
    BY <1>1, <1>3, <2>4, <2>7 DEF TypeOK
  <2>9. BecomesOnly(c, l, e, {})
    BY <2>6, <2>7, <2>8 DEF BecomesOnly, d
  <2>10. LaidOut([c EXCEPT ![l] = e])'
    BY <2>9, OneChanges
  <2>11. TypeOK'
    BY <1>1, <1>3, <2>4 DEF TypeOK
  <2>. QED
    BY <2>3, <2>4, <2>10, <2>11 DEF Loses, d, e
<1>4. CASE UNCHANGED vars
  BY <1>4 DEF vars, TypeOK
<1>. QED
  BY <1>2, <1>3, <1>4 DEF Remove

---------------------------------------------------------------------------
(* The invariant.                                                          *)

IInv == TypeOK /\ \E c : LaidOut(c)

LEMMA InitKeeps == Init => IInv
<1>. SUFFICES ASSUME Init PROVE IInv
  OBVIOUS
<1>1. TypeOK
  BY DEF Init, TypeOK
<1>2. LaidOut([l \in Lists |-> <<>>])
  BY ChainEmpty DEF Init, LaidOut, OnChain
<1>. QED
  BY <1>1, <1>2 DEF IInv

LEMMA NextKeeps == IInv /\ [Next]_vars => IInv'
<1>. SUFFICES ASSUME IInv, [Next]_vars PROVE IInv'
  OBVIOUS
<1>1. PICK c : LaidOut(c)
  BY DEF IInv
<1>2. TypeOK
  BY DEF IInv
<1>3. CASE UNCHANGED vars
  BY <1>1, <1>2, <1>3 DEF vars, IInv, TypeOK, LaidOut
<1>4. ASSUME NEW l \in Lists, Pop(l) PROVE IInv'
  BY <1>1, <1>2, <1>4, PopKeeps DEF IInv
<1>5. ASSUME NEW l \in Lists, Clear(l) PROVE IInv'
  BY <1>1, <1>2, <1>5, ClearKeeps DEF IInv
<1>6. ASSUME NEW l \in Lists, Rotate(l) PROVE IInv'
  BY <1>1, <1>2, <1>6, RotateKeeps DEF IInv
<1>7. ASSUME NEW l \in Lists, NEW i \in Items, Push(l, i) PROVE IInv'
  BY <1>1, <1>2, <1>7, PushKeeps DEF IInv
<1>8. ASSUME NEW l \in Lists, NEW i \in Items, Remove(l, i) PROVE IInv'
  BY <1>1, <1>2, <1>3, <1>8, RemoveKeeps DEF IInv, Loses
<1>. QED
  BY <1>3, <1>4, <1>5, <1>6, <1>7, <1>8 DEF Next

(***************************************************************************)
(* At every moment each list is a chain that ends, and no two chains share *)
(* an item, whatever the next fields of the items taken out still say.     *)
(***************************************************************************)
THEOREM Invariance == Spec => []IInv
<1>. QED
  BY InitKeeps, NextKeeps, PTL DEF Spec

(***************************************************************************)
(* The count each list keeps is the number of its items, so that the       *)
(* reaper, which asks isEmpty, is told the truth.                          *)
(***************************************************************************)
THEOREM SizesAreLengths == Spec => []SizeIsLength
<1>1. IInv => SizeIsLength
  <2>. SUFFICES ASSUME NEW c, LaidOut(c), NEW l \in Lists PROVE size[l] = Len(Content(l))
    BY DEF IInv, SizeIsLength
  <2>1. Chain(start[l], next, c[l]) /\ size[l] = Len(c[l])
    BY DEF LaidOut
  <2>. QED
    BY <2>1, ListFacts
<1>. QED
  BY <1>1, Invariance, PTL

---------------------------------------------------------------------------
(* The refinement.                                                         *)

Contents == [l \in Lists |-> Content(l)]

IsContents(c) == Contents = c

LEMMA LayoutNext == ASSUME NEW c PROVE LaidOut(c)' => IsContents(c)'
<1>1. LaidOut(c) => IsContents(c)
  BY ContentIsLayout DEF IsContents, Contents
<1>. QED
  BY <1>1, PTL

LEMMA ContentsNext == \A c : LaidOut(c)' => Contents' = c
<1>. SUFFICES ASSUME NEW c PROVE LaidOut(c)' => Contents' = c
  OBVIOUS
<1>. QED
  BY LayoutNext DEF IsContents

\* A step of the linked lists is a step of the sequences, or changes none.
LEMMA StepRefines ==
    ASSUME IInv, [Next]_vars
    PROVE  [Abstract!Next]_Contents
<1>1. PICK c : LaidOut(c)
  BY DEF IInv
<1>2. TypeOK /\ Contents = c /\ c \in [Lists -> Seq(Items)]
  BY <1>1, ContentIsLayout DEF IInv, Contents, LaidOut
<1>3. CASE UNCHANGED vars
  BY <1>3 DEF vars, Contents, Content, Walk
<1>4. ASSUME NEW l \in Lists, Pop(l) PROVE Abstract!Pop(l)
  <2>1. Len(c[l]) > 0 /\ Contents' = [c EXCEPT ![l] = Without(c[l], 1)]
    BY <1>1, <1>2, <1>4, PopKeeps, ContentsNext
  <2>2. Without(c[l], 1) = Tail(c[l]) /\ c[l] # <<>>
    BY <1>2, <2>1, WithoutHead
  <2>. QED
    BY <1>2, <2>1, <2>2 DEF Abstract!Pop, Contents
<1>5. ASSUME NEW l \in Lists, Clear(l) PROVE Abstract!Clear(l)
  <2>1. Contents' = [c EXCEPT ![l] = <<>>]
    BY <1>1, <1>2, <1>5, ClearKeeps, ContentsNext
  <2>. QED
    BY <1>2, <2>1 DEF Abstract!Clear, Contents
<1>6. ASSUME NEW l \in Lists, Rotate(l) PROVE Abstract!Rotate(l)
  <2>1. /\ Len(c[l]) > 0
        /\ Contents' = [c EXCEPT ![l] = Append(Without(c[l], 1), c[l][1])]
    BY <1>1, <1>2, <1>6, RotateKeeps, ContentsNext
  <2>2. Without(c[l], 1) = Tail(c[l]) /\ c[l] # <<>> /\ Head(c[l]) = c[l][1]
    BY <1>2, <2>1, WithoutHead
  <2>. QED
    BY <1>2, <2>1, <2>2 DEF Abstract!Rotate, Contents
<1>7. ASSUME NEW l \in Lists, NEW i \in Items, Push(l, i) PROVE Abstract!Push(l, i)
  <2>1. /\ \A k \in Lists : i \notin OnChain(c[k])
        /\ Contents' = [c EXCEPT ![l] = Append(c[l], i)]
    BY <1>1, <1>2, <1>7, PushKeeps, ContentsNext
  <2>2. \A k \in Lists : Abstract!On(k) = OnChain(c[k])
    BY <1>2 DEF Abstract!On, Abstract!ToSet, OnChain, Contents
  <2>. QED
    BY <1>2, <2>1, <2>2 DEF Abstract!Push, Abstract!OnSome, Contents
<1>8. ASSUME NEW l \in Lists, NEW i \in Items, Remove(l, i)
      PROVE  Abstract!Take(l, i) \/ UNCHANGED vars
  <2>1. CASE UNCHANGED vars
    BY <2>1
  <2>2. ASSUME NEW n \in 1..Len(c[l]), c[l][n] = i, Loses(c, l, n)
        PROVE  Abstract!Take(l, i)
    <3>1. Contents' = [c EXCEPT ![l] = Without(c[l], n)]
      BY <2>2, ContentsNext DEF Loses
    <3>2. n \in DOMAIN c[l] /\ Without(c[l], n) = Abstract!RemoveAt(c[l], n)
      BY <1>2 DEF Without, Abstract!RemoveAt
    <3>. QED
      BY <1>2, <2>2, <3>1, <3>2 DEF Abstract!Take, Contents
  <2>. QED
    BY <1>1, <1>2, <1>8, <2>1, <2>2, RemoveKeeps
<1>. QED
  BY <1>3, <1>4, <1>5, <1>6, <1>7, <1>8 DEF Next, Abstract!Next

(***************************************************************************)
(* The linked lists implement the sequences the process manager takes them *)
(* for: push appends, pop and rotate take the head, remove takes just the  *)
(* item asked for, and no operation on one list shows on another.          *)
(***************************************************************************)
THEOREM Refinement == Spec => ImplementsTaskLists
<1>1. Init => Abstract!Init
  <2>. SUFFICES ASSUME Init PROVE \A l \in Lists : Content(l) = <<>>
    BY DEF Abstract!Init
  <2>1. \A l \in Lists : Chain(start[l], next, <<>>)
    BY ChainEmpty DEF Init
  <2>. QED
    BY <2>1, ListFacts
<1>2. IInv /\ [Next]_vars => [Abstract!Next]_Contents
  BY StepRefines
<1>. QED
  BY <1>1, <1>2, Invariance, PTL DEF Spec, ImplementsTaskLists, Abstract!Spec, Contents
============================================================================
