---------------------------- MODULE SumTheorems ----------------------------
(***************************************************************************)
(* What the sums of the models are: SumFunctionOnSet(f, S) of the          *)
(* community modules adds f[x] over the members x of a finite set S.  The  *)
(* operator is a fold, that is a CHOOSE of a function that satisfies a     *)
(* recursive equation; the first lemmas show that there is one and only    *)
(* one, by descending to a smallest set for which it fails, and the others *)
(* say how a sum changes when its set or its function changes.             *)
(***************************************************************************)
EXTENDS Integers, FiniteSets, Functions, FiniteSetTheorems,
        WellFoundedInduction, TLAPS

Pick(S) == CHOOSE x \in S : TRUE

\* g is the running sum of f over the subsets of T.
Iterates(g, f, T) ==
    g = [S \in SUBSET T |->
           IF S = {} THEN 0 ELSE f[Pick(S)] + g[S \ {Pick(S)}]]

Iterator(f, T) == CHOOSE g : Iterates(g, f, T)

\* A set of subsets of a finite set has a member that is minimal in it.
LEMMA MinimalSubset ==
    ASSUME NEW S, IsFiniteSet(S), NEW T, T \subseteq SUBSET S, T # {}
    PROVE  \E U \in T : \A V \in T : V \subseteq U => V = U
<1>1. SUBSET S = FiniteSubsetsOf(S)
  BY FS_FiniteSubsetsOfFinite
<1>2. \E U \in T : \A V \in T : <<V, U>> \notin StrictSubsetOrdering(S)
  <2> HIDE DEF StrictSubsetOrdering
  <2> QED BY <1>1, FS_StrictSubsetOrderingWellFounded, WFMin
<1>3. PICK U \in T : \A V \in T : <<V, U>> \notin StrictSubsetOrdering(S)
  BY <1>2
<1>4. ASSUME NEW V \in T, V \subseteq U PROVE V = U
  <2>1. <<V, U>> \notin StrictSubsetOrdering(S)
    BY <1>3, <1>4
  <2>2. <<V, U>> \in (SUBSET S) \X (SUBSET S)
    BY <1>4
  <2> QED BY <2>1, <2>2, <1>4 DEF StrictSubsetOrdering
<1> QED BY <1>4

\* The fold takes a member of the set, if it has one.
LEMMA PickIsMember ==
    ASSUME NEW S, S # {}
    PROVE  Pick(S) \in S
BY DEF Pick

\* The fold is the value of its iterator.
LEMMA SumIsIterator ==
    ASSUME NEW f, NEW S
    PROVE  SumFunctionOnSet(f, S) = Iterator(f, S)[S]
BY DEF SumFunctionOnSet, FoldFunctionOnSet, MapThenFoldSet, Iterates, Iterator,
       Pick

\* The iterator's equation at one subset.
LEMMA IteratesAt ==
    ASSUME NEW f, NEW T, NEW g, Iterates(g, f, T), NEW S \in SUBSET T
    PROVE  /\ S = {} => g[S] = 0
           /\ S # {} => g[S] = f[Pick(S)] + g[S \ {Pick(S)}]
<1> DEFINE rhs == [U \in SUBSET T |->
                     IF U = {} THEN 0 ELSE f[Pick(U)] + g[U \ {Pick(U)}]]
<1>1. g = rhs
  BY DEF Iterates
<1>2. rhs[S] = IF S = {} THEN 0 ELSE f[Pick(S)] + g[S \ {Pick(S)}]
  OBVIOUS
<1> QED BY <1>1, <1>2

\* Restricted to a smaller set, an iterator is one of that set.
LEMMA IteratesOnSubset ==
    ASSUME NEW f, NEW T, NEW g, Iterates(g, f, T), NEW U \in SUBSET T
    PROVE  Iterates([S \in SUBSET U |-> g[S]], f, U)
<1> DEFINE h == [S \in SUBSET U |-> g[S]]
           rhs == [S \in SUBSET U |->
                     IF S = {} THEN 0 ELSE f[Pick(S)] + h[S \ {Pick(S)}]]
<1>1. ASSUME NEW S \in SUBSET U PROVE h[S] = rhs[S]
  <2>1. S \in SUBSET T /\ h[S] = g[S]
    OBVIOUS
  <2>2. CASE S = {}
    <3>1. g[S] = 0
      BY <2>1, <2>2, IteratesAt, SMTT(20)
    <3>2. rhs[S] = 0
      BY <2>2
    <3> QED BY <2>1, <3>1, <3>2
  <2>3. CASE S # {}
    <3>1. h[S \ {Pick(S)}] = g[S \ {Pick(S)}]
      OBVIOUS
    <3>2. g[S] = f[Pick(S)] + g[S \ {Pick(S)}]
      BY <2>1, <2>3, IteratesAt
    <3> QED BY <3>1, <3>2, <2>1, <2>3
  <2> QED BY <2>2, <2>3
<1>2. h = rhs
  <2> HIDE DEF rhs
  <2>1. rhs = [S \in SUBSET U |-> rhs[S]]
    BY DEF rhs
  <2> QED BY <1>1, <2>1
<1> QED BY <1>2 DEF Iterates

\* There is at most one iterator,
LEMMA IteratesUnique ==
    ASSUME NEW f, NEW T, IsFiniteSet(T),
           NEW g, Iterates(g, f, T), NEW h, Iterates(h, f, T)
    PROVE  \A S \in SUBSET T : g[S] = h[S]
<1> DEFINE bad == {S \in SUBSET T : g[S] # h[S]}
<1>1. CASE bad # {}
  <2>1. PICK S \in bad : \A V \in bad : V \subseteq S => V = S
    <3> HIDE DEF bad
    <3>1. bad \subseteq SUBSET T
      BY DEF bad
    <3> QED BY <1>1, <3>1, MinimalSubset
  <2>2. S \in SUBSET T /\ g[S] # h[S]
    OBVIOUS
  <2>3. S # {}
    BY <2>2, IteratesAt
  <2>4. Pick(S) \in S
    BY <2>3, PickIsMember
  <2>5. S \ {Pick(S)} \in SUBSET T /\ S \ {Pick(S)} \notin bad
    BY <2>1, <2>2, <2>4
  <2>6. g[S \ {Pick(S)}] = h[S \ {Pick(S)}]
    BY <2>5
  <2>7. /\ g[S] = f[Pick(S)] + g[S \ {Pick(S)}]
        /\ h[S] = f[Pick(S)] + h[S \ {Pick(S)}]
    BY <2>2, <2>3, IteratesAt
  <2> QED BY <2>2, <2>6, <2>7
<1>2. CASE bad = {}
  BY <1>2
<1> QED BY <1>1, <1>2

\* and at least one.
LEMMA IteratesExists ==
    ASSUME NEW f, NEW T, IsFiniteSet(T)
    PROVE  \E g : Iterates(g, f, T)
<1> DEFINE bad == {S \in SUBSET T : \A g : ~ Iterates(g, f, S)}
<1>1. CASE bad # {}
  <2>1. PICK S \in bad : \A V \in bad : V \subseteq S => V = S
    <3> HIDE DEF bad
    <3>1. bad \subseteq SUBSET T
      BY DEF bad
    <3> QED BY <1>1, <3>1, MinimalSubset
  <2> DEFINE run(U) == Iterator(f, U)
             val(U) == IF U = {} THEN 0
                       ELSE f[Pick(U)] + run(U \ {Pick(U)})[U \ {Pick(U)}]
             g == [U \in SUBSET S |-> val(U)]
             rhs == [U \in SUBSET S |->
                       IF U = {} THEN 0 ELSE f[Pick(U)] + g[U \ {Pick(U)}]]
  <2>2. ASSUME NEW U \in SUBSET S, U # S PROVE Iterates(run(U), f, U)
    <3>1. U \notin bad /\ U \in SUBSET T
      BY <2>1, <2>2
    <3>2. \E h : Iterates(h, f, U)
      BY <3>1
    <3> QED BY <3>2 DEF Iterator
  <2>3. ASSUME NEW U \in SUBSET S, U # S PROVE run(U)[U] = val(U)
    <3>1. Iterates(run(U), f, U)
      BY <2>2, <2>3
    <3>2. CASE U = {}
      BY <3>1, <3>2, IteratesAt
    <3>3. CASE U # {}
      <4> DEFINE V == U \ {Pick(U)}
      <4>1. Pick(U) \in U
        BY <3>3, PickIsMember
      <4>2. V \in SUBSET S /\ V # S /\ V \in SUBSET U /\ IsFiniteSet(V)
        BY <4>1, FS_Subset
      <4>3. Iterates(run(V), f, V)
        BY <4>2, <2>2
      <4>4. Iterates([W \in SUBSET V |-> run(U)[W]], f, V)
        BY <4>2, <3>1, IteratesOnSubset
      <4>5. [W \in SUBSET V |-> run(U)[W]][V] = run(V)[V]
        <5> DEFINE r == [W \in SUBSET V |-> run(U)[W]]
                   q == run(V)
        <5>1. V \in SUBSET V
          OBVIOUS
        <5>2. Iterates(r, f, V) /\ Iterates(q, f, V)
          BY <4>3, <4>4
        <5> HIDE DEF r, q, V, run
        <5>3. \A W \in SUBSET V : r[W] = q[W]
          BY <5>2, <4>2, IteratesUnique
        <5>4. r[V] = q[V]
          BY <5>1, <5>3
        <5> QED BY <5>4 DEF r, q
      <4>6. run(U)[V] = run(V)[V]
        BY <4>5
      <4>7. run(U)[U] = f[Pick(U)] + run(U)[V]
        BY <3>1, <3>3, IteratesAt
      <4> QED BY <4>6, <4>7, <3>3
    <3> QED BY <3>2, <3>3
  <2>4. ASSUME NEW U \in SUBSET S PROVE g[U] = rhs[U]
    <3>1. CASE U = {}
      BY <3>1
    <3>2. CASE U # {}
      <4> DEFINE V == U \ {Pick(U)}
      <4>1. Pick(U) \in U
        BY <3>2, PickIsMember
      <4>2. V \in SUBSET S /\ V # S
        BY <4>1
      <4>3. g[V] = run(V)[V]
        <5> HIDE DEF V, run
        <5>1. g[V] = val(V)
          BY <4>2
        <5> QED BY <5>1, <4>2, <2>3
      <4>4. g[U] = f[Pick(U)] + run(V)[V]
        BY <3>2
      <4>5. rhs[U] = f[Pick(U)] + g[V]
        <5> HIDE DEF g
        <5> QED BY <3>2
      <4> QED BY <4>3, <4>4, <4>5
    <3> QED BY <3>1, <3>2
  <2>5. g = rhs
    <3> DEFINE G == g
               R == rhs
    <3>1. G = [U \in SUBSET S |-> G[U]] /\ R = [U \in SUBSET S |-> R[U]]
      OBVIOUS
    <3>2. \A U \in SUBSET S : G[U] = R[U]
      BY <2>4
    <3> HIDE DEF G, R
    <3>3. G = R
      BY <3>1, <3>2
    <3> QED BY <3>3 DEF G, R
  <2>6. Iterates(g, f, S)
    BY <2>5 DEF Iterates
  <2> QED BY <2>6
<1>2. CASE bad = {}
  <2>1. T \notin bad
    BY <1>2
  <2> QED BY <2>1
<1> QED BY <1>1, <1>2

\* So the one chosen by the fold satisfies its equation.
LEMMA IteratorIterates ==
    ASSUME NEW f, NEW T, IsFiniteSet(T)
    PROVE  Iterates(Iterator(f, T), f, T)
BY IteratesExists DEF Iterator

-----------------------------------------------------------------------------
\* The sum over the empty set.
LEMMA SumEmpty ==
    ASSUME NEW f
    PROVE  SumFunctionOnSet(f, {}) = 0
<1>1. IsFiniteSet({}) /\ {} \in SUBSET {}
  BY FS_EmptySet
<1>2. Iterates(Iterator(f, {}), f, {})
  BY <1>1, IteratorIterates
<1>3. Iterator(f, {})[{}] = 0
  BY <1>1, <1>2, IteratesAt
<1> QED BY <1>3, SumIsIterator

\* The sum over a set with a member.
LEMMA SumPick ==
    ASSUME NEW f, NEW S, IsFiniteSet(S), S # {}
    PROVE  SumFunctionOnSet(f, S)
             = f[Pick(S)] + SumFunctionOnSet(f, S \ {Pick(S)})
<1> DEFINE V == S \ {Pick(S)}
           g == Iterator(f, S)
           h == [U \in SUBSET V |-> g[U]]
           k == Iterator(f, V)
<1>1. Iterates(g, f, S)
  BY IteratorIterates
<1>2. g[S] = f[Pick(S)] + g[V]
  BY <1>1, IteratesAt
<1>3. V \in SUBSET S /\ V \in SUBSET V /\ IsFiniteSet(V)
  BY FS_Subset
<1>4. Iterates(h, f, V)
  BY <1>1, <1>3, IteratesOnSubset
<1>5. Iterates(k, f, V)
  BY <1>3, IteratorIterates
<1>6. h[V] = g[V]
  BY <1>3
<1> HIDE DEF V, g, h, k
<1>7. \A U \in SUBSET V : h[U] = k[U]
  BY <1>3, <1>4, <1>5, IteratesUnique
<1>8. g[V] = k[V]
  BY <1>3, <1>6, <1>7
<1> QED BY <1>2, <1>8, SumIsIterator DEF V, g, k

\* A sum of integers is an integer.
LEMMA SumInt ==
    ASSUME NEW f, NEW S, IsFiniteSet(S), \A x \in S : f[x] \in Int
    PROVE  SumFunctionOnSet(f, S) \in Int
<1> DEFINE bad == {U \in SUBSET S : SumFunctionOnSet(f, U) \notin Int}
<1>1. CASE bad # {}
  <2>1. PICK U \in bad : \A V \in bad : V \subseteq U => V = U
    <3> HIDE DEF bad
    <3>1. bad \subseteq SUBSET S
      BY DEF bad
    <3> QED BY <1>1, <3>1, MinimalSubset
  <2>2. U # {}
    BY SumEmpty
  <2>3. Pick(U) \in U
    BY <2>2, PickIsMember
  <2>4. U \ {Pick(U)} \notin bad
    BY <2>1, <2>3
  <2>5. SumFunctionOnSet(f, U \ {Pick(U)}) \in Int /\ f[Pick(U)] \in Int
    BY <2>3, <2>4
  <2>6. IsFiniteSet(U)
    BY FS_Subset
  <2> QED BY <2>2, <2>5, <2>6, SumPick
<1>2. CASE bad = {}
  BY <1>2
<1> QED BY <1>1, <1>2

\* Any member can be taken out of a sum.
LEMMA SumRemove ==
    ASSUME NEW f, NEW S, IsFiniteSet(S), \A x \in S : f[x] \in Int,
           NEW y \in S
    PROVE  SumFunctionOnSet(f, S) = f[y] + SumFunctionOnSet(f, S \ {y})
<1> DEFINE Total(U) == SumFunctionOnSet(f, U)
           bad == {U \in SUBSET S :
                     \E z \in U : Total(U) # f[z] + Total(U \ {z})}
<1> HIDE DEF Total
<1>0. ASSUME NEW U \in SUBSET S PROVE Total(U) \in Int /\ IsFiniteSet(U)
  <2>1. IsFiniteSet(U)
    BY FS_Subset
  <2> QED BY <2>1, SumInt DEF Total
<1>1. CASE bad # {}
  <2>1. PICK U \in bad : \A V \in bad : V \subseteq U => V = U
    <3> HIDE DEF bad
    <3>1. bad \subseteq SUBSET S
      BY DEF bad
    <3> QED BY <1>1, <3>1, MinimalSubset
  <2>2. PICK z \in U : Total(U) # f[z] + Total(U \ {z})
    BY <2>1
  <2> DEFINE p == Pick(U)
             V == U \ {p}
             W == U \ {z}
  <2>3. U \in SUBSET S /\ p \in U
    BY <2>2, PickIsMember
  <2>4. Total(U) = f[p] + Total(V)
    BY <2>3, <1>0, SumPick DEF Total
  <2> HIDE DEF p
  <2>5. p # z
    BY <2>2, <2>4
  <2>6. V \in SUBSET S /\ z \in V /\ V \notin bad
    BY <2>1, <2>2, <2>3, <2>5
  <2>7. Total(V) = f[z] + Total(V \ {z})
    BY <2>6
  <2>8. W \in SUBSET S /\ p \in W /\ W \notin bad
    BY <2>1, <2>2, <2>3, <2>5
  <2>9. Total(W) = f[p] + Total(W \ {p})
    BY <2>8
  <2>10. Total(V \ {z}) = Total(W \ {p})
    <3>1. V \ {z} = W \ {p}
      OBVIOUS
    <3> HIDE DEF V, W
    <3> QED BY <3>1, Zenon
  <2>11. /\ Total(U) \in Int /\ Total(V) \in Int /\ Total(W) \in Int
         /\ Total(V \ {z}) \in Int /\ f[p] \in Int /\ f[z] \in Int
    BY <2>2, <2>3, <2>6, <2>8, <1>0
  <2> HIDE DEF V, W
  <2>12. Total(U) = f[z] + Total(W)
    BY <2>4, <2>7, <2>9, <2>10, <2>11
  <2> QED BY <2>2, <2>12 DEF W
<1>2. CASE bad = {}
  <2>1. S \notin bad
    BY <1>2
  <2> QED BY <2>1 DEF Total
<1> QED BY <1>1, <1>2

\* A member can be added to a sum.
LEMMA SumAdd ==
    ASSUME NEW f, NEW S, IsFiniteSet(S), \A x \in S : f[x] \in Int,
           NEW y, y \notin S, f[y] \in Int
    PROVE  SumFunctionOnSet(f, S \cup {y}) = f[y] + SumFunctionOnSet(f, S)
<1> DEFINE T == S \cup {y}
<1>1. IsFiniteSet(T)
  BY FS_AddElement
<1>2. y \in T /\ (\A x \in T : f[x] \in Int) /\ T \ {y} = S
  OBVIOUS
<1> HIDE DEF T
<1>3. SumFunctionOnSet(f, T) = f[y] + SumFunctionOnSet(f, T \ {y})
  BY <1>1, <1>2, SumRemove
<1> QED BY <1>2, <1>3 DEF T

\* A sum depends on the values of the function on the set and on nothing else.
LEMMA SumSame ==
    ASSUME NEW f, NEW g, NEW S, IsFiniteSet(S), \A x \in S : f[x] = g[x]
    PROVE  SumFunctionOnSet(f, S) = SumFunctionOnSet(g, S)
<1> DEFINE bad == {U \in SUBSET S :
                     SumFunctionOnSet(f, U) # SumFunctionOnSet(g, U)}
<1>1. CASE bad # {}
  <2>1. PICK U \in bad : \A V \in bad : V \subseteq U => V = U
    <3> HIDE DEF bad
    <3>1. bad \subseteq SUBSET S
      BY DEF bad
    <3> QED BY <1>1, <3>1, MinimalSubset
  <2>2. U # {}
    BY SumEmpty
  <2>3. Pick(U) \in U
    BY <2>2, PickIsMember
  <2>4. U \ {Pick(U)} \notin bad
    BY <2>1, <2>3
  <2>5. /\ f[Pick(U)] = g[Pick(U)]
        /\ SumFunctionOnSet(f, U \ {Pick(U)}) = SumFunctionOnSet(g, U \ {Pick(U)})
    BY <2>3, <2>4
  <2>6. IsFiniteSet(U)
    BY FS_Subset
  <2>7. SumFunctionOnSet(f, U) = SumFunctionOnSet(g, U)
    BY <2>2, <2>5, <2>6, SumPick
  <2> QED BY <2>7
<1>2. CASE bad = {}
  BY <1>2
<1> QED BY <1>1, <1>2

\* Changing the function at one member moves the sum by the difference.
LEMMA SumUpdate ==
    ASSUME NEW f, NEW g, NEW S, IsFiniteSet(S), NEW y \in S,
           \A x \in S : f[x] \in Int, g[y] \in Int,
           \A x \in S \ {y} : g[x] = f[x]
    PROVE  SumFunctionOnSet(g, S) = SumFunctionOnSet(f, S) - f[y] + g[y]
<1> DEFINE T == S \ {y}
<1>1. IsFiniteSet(T) /\ y \notin T /\ T \cup {y} = S
  BY FS_Subset
<1>2. /\ \A x \in T : f[x] \in Int /\ g[x] \in Int
      /\ f[y] \in Int
  OBVIOUS
<1> HIDE DEF T
<1>3. SumFunctionOnSet(g, T) = SumFunctionOnSet(f, T)
  BY <1>1, SumSame DEF T
<1>4. SumFunctionOnSet(f, S) = f[y] + SumFunctionOnSet(f, T)
  BY <1>1, <1>2, SumAdd
<1>5. SumFunctionOnSet(g, S) = g[y] + SumFunctionOnSet(g, T)
  BY <1>1, <1>2, SumAdd
<1>6. SumFunctionOnSet(f, T) \in Int
  BY <1>1, <1>2, SumInt
<1> QED BY <1>2, <1>3, <1>4, <1>5, <1>6

\* A sum of amounts is one.
LEMMA SumNat ==
    ASSUME NEW f, NEW S, IsFiniteSet(S), \A x \in S : f[x] \in Nat
    PROVE  SumFunctionOnSet(f, S) \in Nat
<1> DEFINE bad == {U \in SUBSET S : SumFunctionOnSet(f, U) \notin Nat}
<1>1. CASE bad # {}
  <2>1. PICK U \in bad : \A V \in bad : V \subseteq U => V = U
    <3> HIDE DEF bad
    <3>1. bad \subseteq SUBSET S
      BY DEF bad
    <3> QED BY <1>1, <3>1, MinimalSubset
  <2>2. U # {}
    BY SumEmpty
  <2>3. Pick(U) \in U
    BY <2>2, PickIsMember
  <2>4. U \ {Pick(U)} \notin bad
    BY <2>1, <2>3
  <2>5. SumFunctionOnSet(f, U \ {Pick(U)}) \in Nat /\ f[Pick(U)] \in Nat
    BY <2>3, <2>4
  <2>6. IsFiniteSet(U)
    BY FS_Subset
  <2> QED BY <2>2, <2>5, <2>6, SumPick
<1>2. CASE bad = {}
  BY <1>2
<1> QED BY <1>1, <1>2

\* A sum of amounts is at least each of them.
LEMMA SumMember ==
    ASSUME NEW f, NEW S, IsFiniteSet(S), \A x \in S : f[x] \in Nat, NEW y \in S
    PROVE  f[y] <= SumFunctionOnSet(f, S)
<1> DEFINE T == S \ {y}
<1>1. IsFiniteSet(T) /\ \A x \in T : f[x] \in Nat
  BY FS_Subset
<1> HIDE DEF T
<1>2. SumFunctionOnSet(f, T) \in Nat
  BY <1>1, SumNat
<1>3. SumFunctionOnSet(f, S) = f[y] + SumFunctionOnSet(f, T)
  BY SumRemove DEF T
<1> QED BY <1>2, <1>3

\* A part of a set can be summed by itself.
LEMMA SumSplit ==
    ASSUME NEW f, NEW S, IsFiniteSet(S), \A x \in S : f[x] \in Int,
           NEW T \in SUBSET S
    PROVE  SumFunctionOnSet(f, S)
             = SumFunctionOnSet(f, T) + SumFunctionOnSet(f, S \ T)
<1> DEFINE Total(U) == SumFunctionOnSet(f, U)
           bad == {U \in SUBSET S : Total(S) # Total(U) + Total(S \ U)}
<1> HIDE DEF Total
<1>0. ASSUME NEW U \in SUBSET S PROVE Total(U) \in Int /\ IsFiniteSet(U)
  <2>1. IsFiniteSet(U)
    BY FS_Subset
  <2> QED BY <2>1, SumInt DEF Total
<1>1. CASE bad # {}
  <2>1. PICK U \in bad : \A V \in bad : V \subseteq U => V = U
    <3> HIDE DEF bad
    <3>1. bad \subseteq SUBSET S
      BY DEF bad
    <3> QED BY <1>1, <3>1, MinimalSubset
  <2>2. U # {}
    <3>1. CASE U = {}
      <4>1. Total({}) = 0 /\ S \ U = S /\ Total(S) \in Int
        BY <1>0, <3>1, SumEmpty DEF Total
      <4>2. Total(U) = 0 /\ Total(S \ U) = Total(S)
        BY <3>1, <4>1
      <4> QED BY <2>1, <4>1, <4>2
    <3> QED BY <3>1
  <2> PICK y \in U : TRUE
    BY <2>2
  <2> DEFINE V == U \ {y}
             W == S \ U
             X == S \ V
  <2>3. V \in SUBSET S /\ V \notin bad
    BY <2>1
  <2>4. Total(S) = Total(V) + Total(X)
    BY <2>3
  <2>5. X \in SUBSET S /\ W \in SUBSET S /\ U \in SUBSET S
        /\ y \in X /\ X \ {y} = W
    BY <2>1
  <2> HIDE DEF V, W, X
  <2>6. Total(X) = f[y] + Total(W)
    BY <1>0, <2>5, SumRemove DEF Total
  <2>7. Total(U) = f[y] + Total(V)
    BY <1>0, <2>5, SumRemove DEF Total, V
  <2>8. /\ Total(U) \in Int /\ Total(V) \in Int /\ Total(W) \in Int
        /\ Total(X) \in Int /\ Total(S) \in Int /\ f[y] \in Int
    BY <1>0, <2>3, <2>5
  <2>9. Total(S) = Total(U) + Total(W)
    BY <2>4, <2>6, <2>7, <2>8
  <2> QED BY <2>1, <2>9 DEF W
<1>2. CASE bad = {}
  <2>1. T \notin bad
    BY <1>2
  <2> QED BY <2>1 DEF Total
<1> QED BY <1>1, <1>2

-----------------------------------------------------------------------------
\* A set of numbers has a least one.
LEMMA LeastNumber ==
    ASSUME NEW S, S \subseteq Nat, S # {}
    PROVE  \E n \in S : \A k \in S : n <= k
<1> DEFINE R == OpToRel(<, Nat)
<1>1. IsWellFoundedOn(R, Nat)
  BY NatLessThanWellFounded
<1>2. PICK n \in S : \A k \in S : <<k, n>> \notin R
  <2> HIDE DEF R
  <2> QED BY <1>1, WFMin
<1>3. \A k \in S : ~ (k < n)
  BY <1>2 DEF OpToRel
<1> QED BY <1>3

\* A function to numbers is greatest somewhere on a finite set.
LEMMA GreatestValue ==
    ASSUME NEW f, NEW S, IsFiniteSet(S), S # {}, \A x \in S : f[x] \in Nat
    PROVE  \E x \in S : \A y \in S : f[x] >= f[y]
<1> DEFINE bad == {U \in SUBSET S : U # {} /\ \A x \in U : \E y \in U : f[x] < f[y]}
<1>1. CASE bad # {}
  <2>1. PICK U \in bad : \A V \in bad : V \subseteq U => V = U
    <3> HIDE DEF bad
    <3>1. bad \subseteq SUBSET S
      BY DEF bad
    <3> QED BY <1>1, <3>1, MinimalSubset
  <2>2. PICK x \in U : TRUE
    BY <2>1
  <2>3. PICK y \in U : f[x] < f[y]
    BY <2>1
  <2>4. y \in U \ {x} /\ U \ {x} \notin bad
    <3>1. y # x
      <4>1. f[x] \in Nat
        BY <2>1
      <4> QED BY <2>3, <4>1
    <3>2. U \ {x} \notin bad
      BY <2>1, <2>2
    <3> QED BY <3>1, <3>2
  <2>5. PICK z \in U \ {x} : \A k \in U \ {x} : ~(f[z] < f[k])
    BY <2>1, <2>4
  <2>6. PICK k \in U : f[z] < f[k]
    BY <2>1
  <2>7. k = x
    BY <2>5, <2>6
  <2> QED BY <2>1, <2>3, <2>4, <2>5, <2>6, <2>7
<1>2. CASE bad = {}
  <2>1. S \notin bad
    BY <1>2
  <2> QED BY <2>1
<1> QED BY <1>1, <1>2

\* A finite set of numbers has a greatest one.
LEMMA GreatestNumber ==
    ASSUME NEW S, IsFiniteSet(S), S \subseteq Nat, S # {}
    PROVE  \E n \in S : \A k \in S : n >= k
<1> DEFINE f == [n \in S |-> n]
<1>1. \E x \in S : \A y \in S : f[x] >= f[y]
  <2>1. \A x \in S : f[x] \in Nat
    OBVIOUS
  <2> HIDE DEF f
  <2> QED BY <2>1, GreatestValue
<1> QED BY <1>1
=============================================================================
