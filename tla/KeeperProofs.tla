---------------------------- MODULE KeeperProofs ----------------------------
(***************************************************************************)
(* Theorems about Keeper, for any mandates, prices, budgets, intervals and *)
(* any number of moves of others, crashes and failing calls.               *)
(***************************************************************************)
EXTENDS Keeper, SumTheorems

-----------------------------------------------------------------------------
(* The walk of reconcile over a journal.  FoldLeft is a CHOOSE of a        *)
(* function on the sets of positions of the sequence, which takes the last *)
(* position off a set: there is one and only one, and so one entry more is *)
(* one step more of the walk.                                              *)

Walks(g, s, T) ==
    g = [S \in SUBSET T |->
           IF S = {} THEN NothingWalked ELSE Walk(g[S \ {Max(S)}], s[Max(S)])]

Walker(s, T) == CHOOSE g : Walks(g, s, T)

Positions(T) == IsFiniteSet(T) /\ T \subseteq Nat

Walked(s) == FoldLeft(Walk, NothingWalked, s)

\* The last of some positions is one of them.
LEMMA LastIsMember ==
    ASSUME NEW T, Positions(T), NEW S \in SUBSET T, S # {}
    PROVE  Max(S) \in S /\ \A i \in S : Max(S) >= i
<1>1. IsFiniteSet(S) /\ S \subseteq Nat
  BY FS_Subset DEF Positions
<1>2. \E n \in S : \A k \in S : n >= k
  BY <1>1, GreatestNumber
<1> QED BY <1>2 DEF Max

\* The fold is the value of its walker.
LEMMA WalkIsWalker ==
    ASSUME NEW s
    PROVE  Walked(s) = Walker(s, DOMAIN s)[DOMAIN s]
BY DEF Walked, FoldLeft, MapThenFoldSet, Walks, Walker

\* The walker's equation at one set of positions.
LEMMA WalksAt ==
    ASSUME NEW s, NEW T, NEW g, Walks(g, s, T), NEW S \in SUBSET T
    PROVE  /\ S = {} => g[S] = NothingWalked
           /\ S # {} => g[S] = Walk(g[S \ {Max(S)}], s[Max(S)])
<1> DEFINE rhs == [U \in SUBSET T |->
                     IF U = {} THEN NothingWalked
                     ELSE Walk(g[U \ {Max(U)}], s[Max(U)])]
<1>1. g = rhs
  BY DEF Walks
<1>2. rhs[S] = IF S = {} THEN NothingWalked
               ELSE Walk(g[S \ {Max(S)}], s[Max(S)])
  OBVIOUS
<1> QED BY <1>1, <1>2

\* Restricted to fewer positions, on which two sequences agree, a walker of
\* the one is a walker of the other.
LEMMA WalksOnSubset ==
    ASSUME NEW s, NEW T, Positions(T), NEW g, Walks(g, s, T),
           NEW U \in SUBSET T, NEW t, \A i \in U : t[i] = s[i]
    PROVE  Walks([S \in SUBSET U |-> g[S]], t, U)
<1> DEFINE h == [S \in SUBSET U |-> g[S]]
           rhs == [S \in SUBSET U |->
                     IF S = {} THEN NothingWalked
                     ELSE Walk(h[S \ {Max(S)}], t[Max(S)])]
<1>1. ASSUME NEW S \in SUBSET U PROVE h[S] = rhs[S]
  <2>1. S \in SUBSET T /\ h[S] = g[S]
    OBVIOUS
  <2>2. CASE S = {}
    <3>1. g[S] = NothingWalked
      BY <2>1, <2>2, WalksAt
    <3>2. rhs[S] = NothingWalked
      BY <2>2
    <3> QED BY <2>1, <3>1, <3>2
  <2>3. CASE S # {}
    <3>1. Max(S) \in S
      BY <2>1, <2>3, LastIsMember
    <3>2. h[S \ {Max(S)}] = g[S \ {Max(S)}] /\ t[Max(S)] = s[Max(S)]
      BY <3>1
    <3>3. g[S] = Walk(g[S \ {Max(S)}], s[Max(S)])
      <4>1. Walks(g, s, T) /\ S \in SUBSET T /\ S # {}
        BY <2>1, <2>3
      <4> QED BY ONLY <4>1, WalksAt
    <3>4. rhs[S] = Walk(h[S \ {Max(S)}], t[Max(S)])
      BY <2>3
    <3> QED BY <3>2, <3>3, <3>4, <2>1
  <2> QED BY <2>2, <2>3
<1>2. h = rhs
  <2> HIDE DEF rhs
  <2>1. rhs = [S \in SUBSET U |-> rhs[S]]
    BY DEF rhs
  <2> QED BY <1>1, <2>1
<1> QED BY <1>2 DEF Walks

\* There is at most one walker,
LEMMA WalksUnique ==
    ASSUME NEW s, NEW T, Positions(T),
           NEW g, Walks(g, s, T), NEW h, Walks(h, s, T)
    PROVE  \A S \in SUBSET T : g[S] = h[S]
<1> DEFINE bad == {S \in SUBSET T : g[S] # h[S]}
<1>1. CASE bad # {}
  <2>1. PICK S \in bad : \A V \in bad : V \subseteq S => V = S
    <3> HIDE DEF bad
    <3>1. bad \subseteq SUBSET T
      BY DEF bad
    <3>2. IsFiniteSet(T)
      BY DEF Positions
    <3> QED BY <1>1, <3>1, <3>2, MinimalSubset, SMTT(30)
  <2>2. S \in SUBSET T /\ g[S] # h[S]
    OBVIOUS
  <2>3. S # {}
    <3> SUFFICES ASSUME S = {} PROVE FALSE
      OBVIOUS
    <3>1. g[S] = NothingWalked
      BY <2>2, WalksAt
    <3>2. h[S] = NothingWalked
      BY <2>2, WalksAt
    <3> QED BY <2>2, <3>1, <3>2
  <2>4. Max(S) \in S
    BY <2>2, <2>3, LastIsMember
  <2>5. S \ {Max(S)} \in SUBSET T /\ S \ {Max(S)} \notin bad
    BY <2>1, <2>2, <2>4
  <2>6. g[S \ {Max(S)}] = h[S \ {Max(S)}]
    BY <2>5
  <2>7. /\ g[S] = Walk(g[S \ {Max(S)}], s[Max(S)])
        /\ h[S] = Walk(h[S \ {Max(S)}], s[Max(S)])
    BY <2>2, <2>3, WalksAt
  <2> QED BY <2>2, <2>6, <2>7
<1>2. CASE bad = {}
  BY <1>2
<1> QED BY <1>1, <1>2

\* and at least one.
LEMMA WalksExists ==
    ASSUME NEW s, NEW T, Positions(T)
    PROVE  \E g : Walks(g, s, T)
<1> DEFINE bad == {S \in SUBSET T : \A g : ~ Walks(g, s, S)}
<1>1. CASE bad # {}
  <2>1. PICK S \in bad : \A V \in bad : V \subseteq S => V = S
    <3> HIDE DEF bad
    <3>1. bad \subseteq SUBSET T
      BY DEF bad
    <3>2. IsFiniteSet(T)
      BY DEF Positions
    <3> QED BY <1>1, <3>1, <3>2, MinimalSubset, SMTT(30)
  <2> DEFINE run(U) == Walker(s, U)
             val(U) == IF U = {} THEN NothingWalked
                       ELSE Walk(run(U \ {Max(U)})[U \ {Max(U)}], s[Max(U)])
             g == [U \in SUBSET S |-> val(U)]
             rhs == [U \in SUBSET S |->
                       IF U = {} THEN NothingWalked
                       ELSE Walk(g[U \ {Max(U)}], s[Max(U)])]
  <2>2. ASSUME NEW U \in SUBSET S, U # S PROVE Walks(run(U), s, U)
    <3>1. U \notin bad /\ U \in SUBSET T
      BY <2>1, <2>2
    <3>2. \E h : Walks(h, s, U)
      BY <3>1
    <3> QED BY <3>2 DEF Walker
  <2>3. ASSUME NEW U \in SUBSET S, U # S PROVE run(U)[U] = val(U)
    <3>1. Walks(run(U), s, U)
      BY <2>2, <2>3
    <3>2. CASE U = {}
      BY <3>1, <3>2, WalksAt
    <3>3. CASE U # {}
      <4> DEFINE V == U \ {Max(U)}
      <4>1. Max(U) \in U
        BY <3>3, LastIsMember
      <4>2. /\ V \in SUBSET S /\ V # S /\ V \in SUBSET U
            /\ Positions(V) /\ Positions(U)
        BY <4>1, FS_Subset DEF Positions
      <4>3. Walks(run(V), s, V)
        BY <4>2, <2>2
      <4>4. Walks([W \in SUBSET V |-> run(U)[W]], s, V)
        <5> DEFINE q == run(U)
        <5>1. Walks(q, s, U)
          BY <3>1
        <5> HIDE DEF q, V
        <5>2. Walks([W \in SUBSET V |-> q[W]], s, V)
          BY <4>2, <5>1, WalksOnSubset
        <5> QED BY <5>2 DEF q
      <4>5. [W \in SUBSET V |-> run(U)[W]][V] = run(V)[V]
        <5> DEFINE r == [W \in SUBSET V |-> run(U)[W]]
                   q == run(V)
        <5>1. V \in SUBSET V
          OBVIOUS
        <5>2. Walks(r, s, V) /\ Walks(q, s, V)
          BY <4>3, <4>4
        <5> HIDE DEF r, q, V, run
        <5>3. \A W \in SUBSET V : r[W] = q[W]
          BY <5>2, <4>2, WalksUnique
        <5>4. r[V] = q[V]
          BY <5>1, <5>3
        <5> QED BY <5>4 DEF r, q
      <4>6. run(U)[V] = run(V)[V]
        BY <4>5
      <4>7. run(U)[U] = Walk(run(U)[V], s[Max(U)])
        BY <3>1, <3>3, WalksAt
      <4> QED BY <4>6, <4>7, <3>3
    <3> QED BY <3>2, <3>3
  <2>4. ASSUME NEW U \in SUBSET S PROVE g[U] = rhs[U]
    <3>1. CASE U = {}
      BY <3>1
    <3>2. CASE U # {}
      <4> DEFINE V == U \ {Max(U)}
      <4>1. Max(U) \in U
        BY <3>2, LastIsMember
      <4>2. V \in SUBSET S /\ V # S
        BY <4>1
      <4>3. g[V] = run(V)[V]
        <5> HIDE DEF V, run
        <5>1. g[V] = val(V)
          BY <4>2
        <5> QED BY <5>1, <4>2, <2>3
      <4>4. g[U] = Walk(run(V)[V], s[Max(U)])
        BY <3>2
      <4>5. rhs[U] = Walk(g[V], s[Max(U)])
        <5> HIDE DEF g
        <5> QED BY <3>2
      <4> QED BY <4>3, <4>4, <4>5
    <3> QED BY <3>1, <3>2
  <2>5. g = rhs
    <3> DEFINE G == g
               R == rhs
    <3>1. G = [U \in SUBSET S |-> G[U]] /\ R = [U \in SUBSET S |-> R[U]]
      OBVIOUS
    <3>2. \A U \in SUBSET S : G[U] = R[U]
      BY <2>4
    <3> HIDE DEF G, R
    <3>3. G = R
      BY <3>1, <3>2
    <3> QED BY <3>3 DEF G, R
  <2>6. Walks(g, s, S)
    BY <2>5 DEF Walks
  <2> QED BY <2>6
<1>2. CASE bad = {}
  <2>1. T \notin bad
    BY <1>2
  <2> QED BY <2>1
<1> QED BY <1>1, <1>2

\* The walk over an empty journal.
LEMMA WalkEmpty == Walked(<<>>) = NothingWalked
<1>1. Positions({}) /\ {} \in SUBSET {} /\ DOMAIN <<>> = {}
  BY FS_EmptySet DEF Positions
<1>2. Walks(Walker(<<>>, {}), <<>>, {})
  BY <1>1, WalksExists DEF Walker
<1>3. Walker(<<>>, {})[{}] = NothingWalked
  BY <1>1, <1>2, WalksAt
<1> QED BY <1>1, <1>3, WalkIsWalker

\* One entry more is one step more.
LEMMA WalkAppend ==
    ASSUME NEW E, NEW s \in Seq(E), NEW e \in E
    PROVE  Walked(Append(s, e)) = Walk(Walked(s), e)
<1> DEFINE n == Len(s)
           t == Append(s, e)
           D == 1..n
           T == 1..(n + 1)
           g == Walker(t, T)
           h == [S \in SUBSET D |-> g[S]]
           k == Walker(s, D)
<1>1. /\ n \in Nat /\ DOMAIN s = D /\ DOMAIN t = T
      /\ D \in SUBSET T /\ T \in SUBSET T /\ D \in SUBSET D /\ T # {} /\ n + 1 \in T
      /\ T \ {n + 1} = D /\ T \subseteq Nat /\ D \subseteq Nat
      /\ t[n + 1] = e /\ \A i \in D : s[i] = t[i]
  OBVIOUS
<1>2. Positions(T) /\ Positions(D)
  <2> HIDE DEF n
  <2>1. IsFiniteSet(T) /\ IsFiniteSet(D)
    BY <1>1, FS_Interval
  <2> QED BY <1>1, <2>1 DEF Positions
<1>3. Walks(g, t, T) /\ Walks(k, s, D)
  <2> HIDE DEF t, T, D, n
  <2> QED BY <1>1, <1>2, WalksExists DEF Walker
<1> HIDE DEF g, k, t, D, T
<1>4. Max(T) = n + 1
  <2>1. Max(T) \in T /\ \A i \in T : Max(T) >= i
    BY <1>1, <1>2, LastIsMember
  <2> QED BY <1>1, <2>1 DEF T
<1>5. g[T] = Walk(g[D], e)
  BY <1>1, <1>3, <1>4, WalksAt
<1>6. Walks(h, s, D)
  <2>1. /\ Positions(T) /\ Walks(g, t, T) /\ D \in SUBSET T
        /\ \A i \in D : s[i] = t[i]
    BY <1>1, <1>2, <1>3
  <2>2. Walks([S \in SUBSET D |-> g[S]], s, D)
    BY ONLY <2>1, WalksOnSubset, SMTT(60)
  <2> QED BY <2>2
<1>7. h[D] = g[D]
  BY <1>1
<1> HIDE DEF h
<1>8. \A S \in SUBSET D : h[S] = k[S]
  <2>1. Positions(D) /\ Walks(h, s, D) /\ Walks(k, s, D)
    BY <1>2, <1>3, <1>6
  <2> QED BY ONLY <2>1, WalksUnique, SMTT(30)
<1>9. g[D] = k[D]
  BY <1>1, <1>7, <1>8
<1>10. Walked(s) = k[D] /\ Walked(t) = g[T]
  BY <1>1, WalkIsWalker DEF k, g
<1> QED BY <1>5, <1>9, <1>10 DEF t

-----------------------------------------------------------------------------
(* The inductive invariant.  A journal alone is sound: what its entries    *)
(* count is at most the number its walk has reached, which no charged      *)
(* entry is above.  That number, and the counters of memory and store, are *)
(* then compared with the chain, with what the tick has read of it, and    *)
(* with the charge in progress.                                            *)

SweepState ==
    [phase : {"down", "rest", "visit", "submit", "charged", "persist"},
     snap : UNION {[D -> MandateState \cup {Unreadable}] : D \in SUBSET Mandate},
     cache : Int, cur : Mandate, seq : Int, lag : {0, 1}]

KeeperTypes ==
    /\ TypeOK
    /\ sweep \in SweepState
    /\ journal \in [Mandate -> Seq(JournalEntry)]
    /\ storeOk \in BOOLEAN

ChargedEntries(j) == {i \in DOMAIN j : j[i].kind = "charged"}
Told(j) == Cardinality(ChargedEntries(j)) + Walked(j).observed
Reach(j) == Walked(j).accounted

Sound(j) ==
    /\ Told(j) \in Nat /\ Reach(j) \in Nat /\ Told(j) <= Reach(j)
    /\ Walked(j) \in [accounted : Nat, observed : Nat]
    /\ \A i \in ChargedEntries(j) : j[i].seq <= Reach(j)
    /\ \A i, k \in ChargedEntries(j) : j[i].seq = j[k].seq => i = k

\* No journal, counter or row is ahead of the chain,
Follows(m) ==
    /\ Sound(journal[m]) /\ Reach(journal[m]) <= chain[m].seq
    /\ tracks[m].count <= chain[m].seq /\ saved[m].count <= chain[m].seq

\* nor of what the tick has read and not visited yet,
Read(m) == m \in DOMAIN sweep.snap /\ sweep.snap[m] # Unreadable
Seen(m) ==
    Read(m) =>
        LET n == sweep.snap[m].seq IN
        /\ Reach(journal[m]) <= n /\ n <= chain[m].seq
        /\ tracks[m].count <= n /\ saved[m].count <= n

\* and the charge in progress is one beyond the journal.
Charging ==
    /\ sweep.phase \in {"submit", "charged", "persist"} => sweep.cur \notin DOMAIN sweep.snap
    /\ sweep.phase \in {"submit", "charged"} =>
        /\ sweep.seq \in 1..Budget /\ Reach(journal[sweep.cur]) < sweep.seq
        /\ sweep.seq <= chain[sweep.cur].seq + (IF sweep.phase = "submit" THEN 1 ELSE 0)

\* A journal kept from the first charge on has no gap, but for the charge in
\* progress.
InCharge(m, phases) == sweep.phase \in phases /\ sweep.cur = m
Complete(m) ==
    base[m] = 0 /\ storeOk =>
        LET n == Told(journal[m]) IN
        /\ Reach(journal[m]) <= n /\ saved[m].count <= n
        /\ tracks[m].count <= n + (IF InCharge(m, {"charged"}) THEN 1 ELSE 0)
        /\ InCharge(m, {"submit", "charged"}) => sweep.seq <= n + 1

JournalInv ==
    /\ KeeperTypes /\ Charging
    /\ \A m \in Mandate : Follows(m) /\ Seen(m) /\ Complete(m)

\* Unless somebody has moved the chain during the tick, what the tick has read
\* holds of the chain, whose dates only come nearer, the account has what the
\* tick thinks it has, and a charge in progress can be made.
Stands(m) ==
    Read(m) =>
        LET s == sweep.snap[m] IN
        /\ chain[m].status = s.status /\ chain[m].expired = s.expired
        /\ chain[m].seq = s.seq /\ chain[m].wait <= s.wait /\ chain[m].trial <= s.trial

RaceInv ==
    /\ sweep.phase = "submit" => sweep.cache >= Price
    /\ ~raced => /\ sweep.cache <= bal
                 /\ \A m \in Mandate : Stands(m)
                 /\ sweep.phase = "submit" => Chargeable(sweep.cur)

KeeperInv == JournalInv /\ RaceInv

-----------------------------------------------------------------------------
(* Lemmas about journals.                                                  *)

\* An empty journal is sound and tells of nothing.
LEMMA EmptyJournal == Sound(<<>>) /\ Told(<<>>) = 0 /\ Reach(<<>>) = 0
<1>1. Walked(<<>>) = [accounted |-> 0, observed |-> 0]
  BY WalkEmpty DEF NothingWalked
<1>2. ChargedEntries(<<>>) = {} /\ Cardinality(ChargedEntries(<<>>)) = 0
  <2>1. ChargedEntries(<<>>) = {}
    BY DEF ChargedEntries
  <2> QED BY <2>1, FS_EmptySet, Zenon
<1>3. Told(<<>>) = 0 /\ Reach(<<>>) = 0
  <2> PICK w, c : w = Walked(<<>>) /\ c = Cardinality(ChargedEntries(<<>>))
    OBVIOUS
  <2>1. w.observed = 0 /\ w.accounted = 0 /\ c = 0
    BY <1>1, <1>2
  <2>2. Told(<<>>) = c + w.observed /\ Reach(<<>>) = w.accounted
    BY DEF Told, Reach
  <2> QED BY <2>1, <2>2
<1> QED BY <1>1, <1>2, <1>3 DEF Sound

\* What one entry more does to the charged entries and to the walk.
LEMMA OneEntryMore ==
    ASSUME NEW j \in Seq(JournalEntry), NEW e \in JournalEntry
    PROVE  LET k == Append(j, e) IN
           /\ k \in Seq(JournalEntry)
           /\ ChargedEntries(k) = ChargedEntries(j)
                 \cup (IF e.kind = "charged" THEN {Len(j) + 1} ELSE {})
           /\ Cardinality(ChargedEntries(j)) \in Nat
           /\ Cardinality(ChargedEntries(k)) = Cardinality(ChargedEntries(j))
                 + (IF e.kind = "charged" THEN 1 ELSE 0)
           /\ \A i \in ChargedEntries(j) : k[i] = j[i] /\ i # Len(j) + 1
           /\ k[Len(j) + 1] = e
           /\ Walked(k) = Walk(Walked(j), e)
<1> DEFINE k == Append(j, e)
           C == ChargedEntries(j)
           n == Len(j) + 1
<1>1. /\ k \in Seq(JournalEntry) /\ DOMAIN j = 1..Len(j) /\ Len(j) \in Nat
      /\ DOMAIN k = DOMAIN j \cup {n} /\ k[n] = e /\ n \notin DOMAIN j
      /\ \A i \in DOMAIN j : k[i] = j[i]
  OBVIOUS
<1>2. C \subseteq DOMAIN j /\ n \notin C
  BY <1>1 DEF ChargedEntries
<1>3. ChargedEntries(k) = C \cup (IF e.kind = "charged" THEN {n} ELSE {})
  <2> HIDE DEF k, n
  <2> QED BY <1>1 DEF ChargedEntries
<1>4. IsFiniteSet(C)
  <2>1. IsFiniteSet(1..Len(j))
    BY <1>1, FS_Interval
  <2> QED BY <1>1, <1>2, <2>1, FS_Subset
<1>5. /\ Cardinality(C) \in Nat
      /\ Cardinality(ChargedEntries(k)) = Cardinality(C) + (IF e.kind = "charged" THEN 1 ELSE 0)
  <2> HIDE DEF k, n, C
  <2>1. Cardinality(C) \in Nat
    BY <1>4, FS_CardinalityType
  <2>2. CASE e.kind = "charged"
    <3>1. Cardinality(C \cup {n}) = Cardinality(C) + 1
      BY <1>2, <1>4, FS_AddElement
    <3> QED BY <1>3, <2>1, <2>2, <3>1
  <2>3. CASE e.kind # "charged"
    <3>1. ChargedEntries(k) = C
      BY <1>3, <2>3
    <3> QED BY <2>1, <2>3, <3>1
  <2> QED BY <2>1, <2>2, <2>3
<1>6. Walked(k) = Walk(Walked(j), e)
  BY WalkAppend
<1> HIDE DEF k, n, C
<1>7. \A i \in C : k[i] = j[i] /\ i # n
  BY <1>1, <1>2
<1> QED BY <1>1, <1>3, <1>5, <1>6, <1>7 DEF k, n, C

\* A charge beyond what the journal has reached: one more is told of.
LEMMA ChargeEntry ==
    ASSUME NEW j \in Seq(JournalEntry), Sound(j), NEW n \in 1..Budget, Reach(j) < n
    PROVE  LET k == Append(j, [kind |-> "charged", seq |-> n]) IN
           /\ k \in Seq(JournalEntry) /\ Sound(k)
           /\ Reach(k) = n /\ Told(k) = Told(j) + 1
<1> DEFINE e == [kind |-> "charged", seq |-> n]
           k == Append(j, e)
<1>0. Budget \in Nat
  BY KeeperAssumption DEF KeeperAssumption
<1>1. e \in JournalEntry /\ e.kind = "charged" /\ e.seq = n /\ n \in Nat
  BY <1>0 DEF JournalEntry
<1> PICK w : w = Walked(j)
  OBVIOUS
<1>2. w \in [accounted : Nat, observed : Nat] /\ w.accounted < n
  BY DEF Sound, Reach
<1> HIDE DEF e
<1>3. Walk(w, e) = [accounted |-> n, observed |-> w.observed]
  BY <1>1, <1>2 DEF Walk
<1>4. /\ k \in Seq(JournalEntry) /\ Walked(k) = Walk(w, e)
      /\ ChargedEntries(k) = ChargedEntries(j) \cup {Len(j) + 1}
      /\ Cardinality(ChargedEntries(j)) \in Nat
      /\ Cardinality(ChargedEntries(k)) = Cardinality(ChargedEntries(j)) + 1
      /\ \A i \in ChargedEntries(j) : k[i] = j[i] /\ i # Len(j) + 1
      /\ k[Len(j) + 1] = e
  BY <1>1, OneEntryMore
<1> HIDE DEF k
<1>5. Reach(k) = n /\ Told(k) = Told(j) + 1
  BY <1>2, <1>3, <1>4 DEF Reach, Told
<1>6. \A i \in ChargedEntries(j) : k[i].seq < n /\ k[i] = j[i] /\ i # Len(j) + 1
  <2> SUFFICES ASSUME NEW i \in ChargedEntries(j) PROVE k[i].seq < n
    BY <1>4
  <2>1. j[i] \in JournalEntry
    BY DEF ChargedEntries
  <2>2. j[i].seq \in Nat
    BY <1>0, <2>1 DEF JournalEntry
  <2>3. j[i].seq <= Reach(j) /\ Reach(j) \in Nat
    BY DEF Sound
  <2> QED BY <1>1, <1>4, <2>2, <2>3
<1>7. Sound(k)
  <2>1. Told(k) \in Nat /\ Reach(k) \in Nat /\ Told(k) <= Reach(k)
    BY <1>1, <1>5 DEF Sound
  <2>2. Walked(k) \in [accounted : Nat, observed : Nat]
    BY <1>1, <1>2, <1>3, <1>4
  <2>3. \A i \in ChargedEntries(k) : k[i].seq <= Reach(k)
    <3>1. \A i \in ChargedEntries(j) : k[i].seq <= n
      <4> SUFFICES ASSUME NEW i \in ChargedEntries(j) PROVE k[i].seq <= n
        OBVIOUS
      <4>1. j[i] \in JournalEntry /\ k[i] = j[i]
        BY <1>4 DEF ChargedEntries
      <4>2. k[i].seq \in Nat
        BY <1>0, <4>1 DEF JournalEntry
      <4> QED BY <1>1, <1>6, <4>2
    <3> QED BY <1>1, <1>4, <1>5, <3>1
  <2>4. ASSUME NEW i \in ChargedEntries(k), NEW h \in ChargedEntries(k), k[i].seq = k[h].seq
        PROVE  i = h
    <3>1. CASE i \in ChargedEntries(j) /\ h \in ChargedEntries(j)
      BY <1>4, <2>4, <3>1 DEF Sound
    <3>2. \A x \in ChargedEntries(j) : k[x].seq # n
      <4> SUFFICES ASSUME NEW x \in ChargedEntries(j), k[x].seq = n PROVE FALSE
        OBVIOUS
      <4> QED BY <1>1, <1>6
    <3> QED BY <1>1, <1>4, <2>4, <3>1, <3>2
  <2> QED BY <2>1, <2>2, <2>3, <2>4 DEF Sound
<1> QED BY <1>4, <1>5, <1>7 DEF k, e

\* A jump to a number the journal has not reached fills the gap; another one
\* changes nothing.
LEMMA ObservedEntry ==
    ASSUME NEW j \in Seq(JournalEntry), Sound(j), NEW n \in 1..Budget
    PROVE  LET k == Append(j, [kind |-> "observed", seq |-> n]) IN
           /\ k \in Seq(JournalEntry) /\ Sound(k)
           /\ IF n > Reach(j) THEN Reach(k) = n /\ Told(k) = Told(j) + n - Reach(j)
                              ELSE Reach(k) = Reach(j) /\ Told(k) = Told(j)
<1> DEFINE e == [kind |-> "observed", seq |-> n]
           k == Append(j, e)
<1>0. Budget \in Nat
  BY KeeperAssumption DEF KeeperAssumption
<1>1. e \in JournalEntry /\ e.kind # "charged" /\ e.seq = n /\ n \in Nat
  BY <1>0 DEF JournalEntry
<1> PICK w : w = Walked(j)
  OBVIOUS
<1>2. w \in [accounted : Nat, observed : Nat] /\ w.accounted = Reach(j)
  BY DEF Sound, Reach
<1> HIDE DEF e
<1>3. Walk(w, e) = IF n > w.accounted
                   THEN [accounted |-> n, observed |-> w.observed + n - w.accounted] ELSE w
  <2>1. e.kind = "observed"
    BY DEF e
  <2> QED BY <1>1, <1>2, <2>1 DEF Walk
<1>4. /\ k \in Seq(JournalEntry) /\ Walked(k) = Walk(w, e)
      /\ ChargedEntries(k) = ChargedEntries(j)
      /\ Cardinality(ChargedEntries(j)) \in Nat
      /\ \A i \in ChargedEntries(j) : k[i] = j[i]
  <2>1. /\ k \in Seq(JournalEntry) /\ Walked(k) = Walk(w, e)
        /\ Cardinality(ChargedEntries(j)) \in Nat
        /\ \A i \in ChargedEntries(j) : k[i] = j[i] /\ i # Len(j) + 1
        /\ ChargedEntries(k) = ChargedEntries(j)
              \cup (IF e.kind = "charged" THEN {Len(j) + 1} ELSE {})
    BY <1>1, OneEntryMore
  <2> QED BY <1>1, <2>1
<1> HIDE DEF k
<1>5. /\ Walked(k) \in [accounted : Nat, observed : Nat]
      /\ IF n > Reach(j) THEN Reach(k) = n /\ Told(k) = Told(j) + n - Reach(j)
                         ELSE Reach(k) = Reach(j) /\ Told(k) = Told(j)
  BY <1>1, <1>2, <1>3, <1>4 DEF Reach, Told
<1>6. Sound(k)
  <2>1. Told(k) \in Nat /\ Reach(k) \in Nat /\ Told(k) <= Reach(k) /\ Reach(j) <= Reach(k)
    BY <1>1, <1>5 DEF Sound
  <2>2. \A i \in ChargedEntries(k) : k[i].seq <= Reach(k)
    <3> SUFFICES ASSUME NEW i \in ChargedEntries(k) PROVE k[i].seq <= Reach(k)
      OBVIOUS
    <3>1. j[i] \in JournalEntry /\ k[i] = j[i]
      BY <1>4 DEF ChargedEntries
    <3>2. k[i].seq \in Nat /\ k[i].seq <= Reach(j) /\ Reach(j) \in Nat
      BY <1>0, <1>4, <3>1 DEF JournalEntry, Sound
    <3> QED BY <2>1, <3>2
  <2>3. \A i, h \in ChargedEntries(k) : k[i].seq = k[h].seq => i = h
    BY <1>4 DEF Sound
  <2> QED BY <1>5, <2>1, <2>2, <2>3 DEF Sound
<1> QED BY <1>4, <1>5, <1>6 DEF k, e

-----------------------------------------------------------------------------
(* Lemmas about tracks: which counter each part of a visit leaves.         *)

LEMMA Constants ==
    /\ Budget \in Nat /\ Budget > 0 /\ Price \in Nat /\ Price > 0
    /\ Grace \in Nat /\ Grace > 0 /\ Interval \in Nat /\ Interval > 0 /\ Funds \in Nat
    /\ (CHOOSE m \in Mandate : TRUE) \in Mandate
BY KeeperAssumption DEF KeeperAssumption

\* A track that enters a state stays one, with its counter.
LEMMA Entering ==
    ASSUME KeeperTypes, NEW t \in MandateTrack, NEW state \in Lifecycle
    PROVE  Enter(t, state) \in MandateTrack /\ Enter(t, state).count = t.count
<1>1. sweep.lag \in 0..Grace + 1
  BY Constants DEF KeeperTypes, SweepState
<1> QED BY <1>1 DEF Enter, MandateTrack

LEMMA Synchronising ==
    ASSUME KeeperTypes, NEW t \in MandateTrack, NEW s \in MandateState
    PROVE  /\ Synced(t, s) \in MandateTrack
           /\ Synced(t, s).count = IF t.count = NoCount \/ s.seq > t.count THEN s.seq ELSE t.count
<1> PICK u : u = IF Jumped(t, s) /\ t.state = "past_due" THEN Enter(t, "active") ELSE t
  OBVIOUS
<1>1. u \in MandateTrack /\ u.count = t.count
  BY Entering DEF Lifecycle
<1>2. t.count \in -1..Budget /\ s.seq \in 0..Budget
  BY DEF MandateTrack, MandateState, NoCount
<1>3. Synced(t, s) = [u EXCEPT !.count = IF t.count = NoCount \/ Jumped(t, s) THEN s.seq ELSE u.count]
  BY <1>1 DEF Synced
<1>4. t.count = NoCount \/ Jumped(t, s) <=> t.count = NoCount \/ s.seq > t.count
  BY DEF Jumped
<1> PICK n : n = IF t.count = NoCount \/ s.seq > t.count THEN s.seq ELSE t.count
  OBVIOUS
<1>5. Synced(t, s) = [u EXCEPT !.count = n] /\ n \in NoCount..Budget
  BY <1>1, <1>2, <1>3, <1>4, Constants DEF NoCount
<1> QED BY <1>1, <1>5 DEF MandateTrack

LEMMA Following ==
    ASSUME KeeperTypes, NEW t \in MandateTrack, NEW s \in MandateState
    PROVE  Followed(t, s) \in MandateTrack /\ Followed(t, s).count = t.count
<1>1. Followed(t, s) \in {t, Enter(t, "revoked"), Enter(t, "paused"), Enter(t, "expired"),
                          Enter(t, "active")}
  BY DEF Followed
<1>2. {"revoked", "paused", "expired", "active"} \subseteq Lifecycle
  BY DEF Lifecycle
<1> QED BY <1>1, <1>2, Entering

LEMMA Dunning ==
    ASSUME KeeperTypes, NEW t \in MandateTrack
    PROVE  Dunned(t) \in MandateTrack /\ Dunned(t).count = t.count
<1>1. Dunned(t) \in {t, Enter(t, "past_due"), Enter(t, "lapsed")}
  BY DEF Dunned
<1>2. {"past_due", "lapsed"} \subseteq Lifecycle
  BY DEF Lifecycle
<1> QED BY <1>1, <1>2, Entering

\* What a visit has to work with, and what it makes of the track.
LEMMA VisitReads ==
    ASSUME KeeperTypes, NEW m \in Mandate, Visiting(m)
    PROVE  /\ Read(m) /\ sweep.snap[m] \in MandateState /\ tracks[m] \in MandateTrack
           /\ sweep.phase = "visit"
           /\ Current(m) \in MandateTrack
           /\ Synced(tracks[m], sweep.snap[m]) \in MandateTrack
           /\ Current(m).count = Synced(tracks[m], sweep.snap[m]).count
           /\ Current(m).count = IF tracks[m].count = NoCount \/ sweep.snap[m].seq > tracks[m].count
                                 THEN sweep.snap[m].seq ELSE tracks[m].count
<1> PICK t, s : t = tracks[m] /\ s = sweep.snap[m]
  OBVIOUS
<1>1. Read(m) /\ s \in MandateState /\ t \in MandateTrack /\ sweep.phase = "visit"
  BY DEF Visiting, ToVisit, KeeperTypes, TypeOK, Read
<1>2. /\ Synced(t, s) \in MandateTrack
      /\ Synced(t, s).count = IF t.count = NoCount \/ s.seq > t.count THEN s.seq ELSE t.count
  BY <1>1, Synchronising
<1>3. Current(m) \in MandateTrack /\ Current(m).count = Synced(t, s).count
  BY <1>1, <1>2, Following DEF Current
<1> QED BY <1>1, <1>2, <1>3

\* The counters of a track, whether there is one or not.
LEMMA Counters ==
    ASSUME KeeperTypes, NEW m \in Mandate
    PROVE  /\ tracks[m].count \in NoCount..Budget /\ saved[m].count \in NoCount..Budget
           /\ chain[m].seq \in 0..Budget /\ chain[m] \in MandateState
           /\ base[m] \in NoCount..Budget /\ journal[m] \in Seq(JournalEntry)
           /\ Read(m) => sweep.snap[m] \in MandateState /\ sweep.snap[m].seq \in 0..Budget
<1>1. \A t \in MandateTrack \cup {Untracked} : t.count \in NoCount..Budget
  BY Constants DEF MandateTrack, Untracked, NoCount
<1> QED BY <1>1 DEF KeeperTypes, TypeOK, MandateState, Read

-----------------------------------------------------------------------------
(* Lemmas about the chain.                                                 *)

LEMMA ChargeMoves ==
    ASSUME KeeperTypes, NEW m \in Mandate, Chargeable(m), Charged(m)
    PROVE  /\ chain' \in [Mandate -> MandateState] /\ bal' \in Nat
           /\ chain'[m].seq = chain[m].seq + 1
           /\ \A n \in Mandate : n # m => chain'[n] = chain[n]
           /\ bal >= Price /\ bal' = bal - Price
<1> PICK c : c = chain[m]
  OBVIOUS
<1>1. chain \in [Mandate -> MandateState] /\ c \in MandateState /\ c.seq < Budget
      /\ bal \in Nat /\ bal >= Price
  BY DEF KeeperTypes, TypeOK, Chargeable
<1> DEFINE d == [c EXCEPT !.seq = @ + 1, !.wait = Interval]
<1>2. d \in MandateState /\ d.seq = c.seq + 1
  <2>1. c.seq \in 0..Budget
    BY <1>1 DEF MandateState
  <2>2. c.seq + 1 \in 0..Budget /\ Interval \in 0..Interval
    BY <1>1, <2>1, Constants
  <2>3. d = [c EXCEPT !.seq = c.seq + 1, !.wait = Interval]
    OBVIOUS
  <2> HIDE DEF d
  <2> QED BY <1>1, <2>2, <2>3 DEF MandateState
<1>3. chain' = [chain EXCEPT ![m] = d]
  BY <1>1 DEF Charged, MandateState
<1> HIDE DEF d
<1>4. bal' = bal - Price /\ bal' \in Nat
  BY <1>1, Constants DEF Charged
<1> QED BY <1>1, <1>2, <1>3, <1>4

\* A mandate whose status changes keeps the rest, and so do the others.
LEMMA StatusMoves ==
    ASSUME KeeperTypes, NEW m \in Mandate, NEW s \in {"active", "paused", "revoked"},
           \/ chain' = [chain EXCEPT ![m] = [chain[m] EXCEPT !.status = s]]
           \/ chain' = [chain EXCEPT ![m] = [chain[m] EXCEPT !.status = s, !.wait = Interval]]
           \/ chain' = [chain EXCEPT ![m].expired = TRUE]
    PROVE  /\ chain' \in [Mandate -> MandateState]
           /\ \A n \in Mandate : chain'[n].seq = chain[n].seq
<1> PICK c : c = chain[m]
  OBVIOUS
<1>1. chain \in [Mandate -> MandateState] /\ c \in MandateState
  BY DEF KeeperTypes, TypeOK
<1>2. \E d \in MandateState : d.seq = c.seq /\ chain' = [chain EXCEPT ![m] = d]
  <2>1. CASE chain' = [chain EXCEPT ![m] = [chain[m] EXCEPT !.status = s]]
    <3> DEFINE d == [c EXCEPT !.status = s]
    <3>1. d \in MandateState /\ d.seq = c.seq
      BY <1>1 DEF MandateState
    <3>2. chain' = [chain EXCEPT ![m] = d]
      BY <2>1
    <3> QED BY <3>1, <3>2
  <2>3. CASE chain' = [chain EXCEPT ![m] = [chain[m] EXCEPT !.status = s, !.wait = Interval]]
    <3> DEFINE d == [c EXCEPT !.status = s, !.wait = Interval]
    <3>0. Interval \in 0..Interval
      BY Constants
    <3>1. d \in MandateState /\ d.seq = c.seq
      BY <1>1, <3>0 DEF MandateState
    <3>2. chain' = [chain EXCEPT ![m] = d]
      BY <2>3
    <3> QED BY <3>1, <3>2
  <2>2. CASE chain' = [chain EXCEPT ![m].expired = TRUE]
    <3> DEFINE d == [c EXCEPT !.expired = TRUE]
    <3>1. d \in MandateState /\ d.seq = c.seq
      BY <1>1 DEF MandateState
    <3>2. chain' = [chain EXCEPT ![m] = d]
      BY <2>2
    <3> QED BY <3>1, <3>2
  <2> QED BY <2>1, <2>2, <2>3
<1> QED BY <1>1, <1>2

\* Time brings dates nearer and changes nothing else.
LEMMA TimeMoves ==
    ASSUME KeeperTypes, Elapse
    PROVE  /\ chain' \in [Mandate -> MandateState]
           /\ \A n \in Mandate :
                /\ chain'[n].seq = chain[n].seq /\ chain'[n].status = chain[n].status
                /\ chain'[n].expired = chain[n].expired
                /\ chain'[n].wait <= chain[n].wait /\ chain'[n].trial <= chain[n].trial
                /\ chain'[n].wait \in Nat /\ chain'[n].trial \in Nat
<1> SUFFICES ASSUME NEW n \in Mandate
             PROVE  /\ chain'[n] \in MandateState
                    /\ chain'[n].seq = chain[n].seq /\ chain'[n].status = chain[n].status
                    /\ chain'[n].expired = chain[n].expired
                    /\ chain'[n].wait <= chain[n].wait /\ chain'[n].trial <= chain[n].trial
                    /\ chain'[n].wait \in Nat /\ chain'[n].trial \in Nat
  BY DEF Elapse
<1> PICK c : c = chain[n]
  OBVIOUS
<1>1. c \in MandateState /\ c.wait \in 0..Interval /\ c.trial \in 0..Interval
  BY DEF KeeperTypes, TypeOK, MandateState
<1>2. \A k \in 0..Interval : Down(k) \in 0..Interval /\ Down(k) <= k
  BY Constants DEF Down
<1> DEFINE d == [c EXCEPT !.wait = Down(c.wait), !.trial = Down(c.trial)]
<1>3. /\ d \in MandateState /\ d.seq = c.seq /\ d.status = c.status /\ d.expired = c.expired
      /\ d.wait = Down(c.wait) /\ d.trial = Down(c.trial)
  BY <1>1, <1>2 DEF MandateState
<1>4. chain'[n] = d
  BY DEF Elapse
<1> HIDE DEF d
<1> QED BY <1>1, <1>2, <1>3, <1>4, Constants

\* Everything grows older, and keeps its counter.
LEMMA Ageing ==
    ASSUME NEW t \in MandateTrack \cup {Untracked}
    PROVE  Older(t) \in MandateTrack \cup {Untracked} /\ Older(t).count = t.count
<1>1. CASE t # Untracked /\ t.since <= Grace
  <2>1. t \in MandateTrack /\ t.since + 1 \in 0..Grace + 1
    BY <1>1, Constants DEF MandateTrack
  <2>2. Older(t) = [t EXCEPT !.since = t.since + 1]
    BY <1>1 DEF Older
  <2> QED BY <2>1, <2>2 DEF MandateTrack
<1>2. CASE ~(t # Untracked /\ t.since <= Grace)
  BY <1>2 DEF Older
<1> QED BY <1>1, <1>2

-----------------------------------------------------------------------------
(* Lemmas about the tick in progress.                                      *)

LEMMA Resting ==
    /\ Rest \in SweepState /\ Rest.phase = "rest" /\ DOMAIN Rest.snap = {}
    /\ Rest.cache = Unread /\ Rest.cur \in Mandate
    /\ [Rest EXCEPT !.phase = "down"] \in SweepState
    /\ [Rest EXCEPT !.phase = "down"].phase = "down"
    /\ [Rest EXCEPT !.phase = "down"].snap = Rest.snap
    /\ [Rest EXCEPT !.phase = "down"].cache = Unread
<1> DEFINE c == CHOOSE m \in Mandate : TRUE
           s == [m \in {} |-> Unreadable]
<1>1. c \in Mandate
  BY Constants
<1>2. s \in [{} -> MandateState \cup {Unreadable}] /\ {} \in SUBSET Mandate /\ DOMAIN s = {}
  OBVIOUS
<1>3. s \in UNION {[D -> MandateState \cup {Unreadable}] : D \in SUBSET Mandate}
  BY <1>2
<1>4. Rest = [phase |-> "rest", snap |-> s, cache |-> -1, cur |-> c, seq |-> 0, lag |-> 0]
  BY DEF Rest, Unread
<1> HIDE DEF c, s
<1>5. Rest \in SweepState
  BY <1>1, <1>3, <1>4 DEF SweepState
<1> QED BY <1>1, <1>2, <1>4, <1>5 DEF SweepState, Unread

\* A batch and what is left of it are in the types.
LEMMA Batches ==
    ASSUME NEW D \in SUBSET Mandate, NEW f \in [D -> MandateState \cup {Unreadable}]
    PROVE  f \in UNION {[E -> MandateState \cup {Unreadable}] : E \in SUBSET Mandate}
OBVIOUS

LEMMA Snaps ==
    ASSUME KeeperTypes
    PROVE  /\ sweep.snap \in UNION {[D -> MandateState \cup {Unreadable}] : D \in SUBSET Mandate}
           /\ DOMAIN sweep.snap \subseteq Mandate
           /\ sweep.snap \in [DOMAIN sweep.snap -> MandateState \cup {Unreadable}]
<1>1. sweep.snap \in UNION {[D -> MandateState \cup {Unreadable}] : D \in SUBSET Mandate}
  BY DEF KeeperTypes, SweepState
<1>2. PICK D \in SUBSET Mandate : sweep.snap \in [D -> MandateState \cup {Unreadable}]
  BY <1>1
<1> QED BY <1>1, <1>2

LEMMA VisitedOnce ==
    ASSUME KeeperTypes, NEW m \in Mandate
    PROVE  /\ Visited(m) \in UNION {[D -> MandateState \cup {Unreadable}] : D \in SUBSET Mandate}
           /\ DOMAIN Visited(m) = DOMAIN sweep.snap \ {m}
           /\ \A n \in DOMAIN Visited(m) : Visited(m)[n] = sweep.snap[n]
<1> PICK f : f = sweep.snap
  OBVIOUS
<1>1. f \in [DOMAIN f -> MandateState \cup {Unreadable}] /\ DOMAIN f \subseteq Mandate
  BY Snaps
<1> DEFINE g == [x \in DOMAIN f \ {m} |-> f[x]]
<1>2. Visited(m) = g
  <2>1. {x \in DOMAIN f : x # m} = DOMAIN f \ {m}
    OBVIOUS
  <2>2. Visited(m) = Restrict(f, {x \in DOMAIN f : x # m})
    BY DEF Visited, RestrictDomain
  <2> QED BY <2>1, <2>2 DEF Restrict
<1>3. DOMAIN f \ {m} \in SUBSET Mandate /\ g \in [DOMAIN f \ {m} -> MandateState \cup {Unreadable}]
  BY <1>1
<1>4. g \in UNION {[D -> MandateState \cup {Unreadable}] : D \in SUBSET Mandate}
  BY <1>3, Batches
<1> QED BY <1>2, <1>3, <1>4

\* The types of a state, from those of its parts.
LEMMA TypeParts ==
    ASSUME chain' \in [Mandate -> MandateState], late' \subseteq Mandate, bal' \in Nat,
           tracks' \in [Mandate -> MandateTrack \cup {Untracked}],
           saved' \in [Mandate -> MandateTrack \cup {Untracked}],
           sweep' \in SweepState, journal' \in [Mandate -> Seq(JournalEntry)],
           base' \in [Mandate -> NoCount..Budget], raced' \in BOOLEAN, storeOk' \in BOOLEAN
    PROVE  KeeperTypes'
<1>1. /\ sweep'.phase \in {"down", "rest", "visit", "submit", "charged", "persist"}
      /\ sweep'.cur \in Mandate
      /\ sweep'.snap \in UNION {[D -> MandateState \cup {Unreadable}] : D \in SUBSET Mandate}
  BY DEF SweepState
<1>2. PICK D \in SUBSET Mandate : sweep'.snap \in [D -> MandateState \cup {Unreadable}]
  BY <1>1
<1> QED BY <1>1, <1>2 DEF KeeperTypes, TypeOK

\* The types, as the steps need them.
LEMMA Types ==
    ASSUME KeeperTypes
    PROVE  /\ chain \in [Mandate -> MandateState] /\ late \subseteq Mandate /\ bal \in Nat
           /\ tracks \in [Mandate -> MandateTrack \cup {Untracked}]
           /\ saved \in [Mandate -> MandateTrack \cup {Untracked}]
           /\ sweep \in SweepState /\ journal \in [Mandate -> Seq(JournalEntry)]
           /\ base \in [Mandate -> NoCount..Budget] /\ raced \in BOOLEAN /\ storeOk \in BOOLEAN
BY DEF KeeperTypes, TypeOK

SweepStays ==
    /\ sweep'.phase = sweep.phase /\ sweep'.snap = sweep.snap
    /\ sweep'.cur = sweep.cur /\ sweep'.seq = sweep.seq
SweepEnds ==
    /\ sweep'.phase \in {"down", "rest", "visit"}
    /\ DOMAIN sweep'.snap \subseteq DOMAIN sweep.snap
    /\ \A m \in DOMAIN sweep'.snap : sweep'.snap[m] = sweep.snap[m]
    /\ sweep.phase = "charged" => ~storeOk' \/ tracks'[sweep.cur].count = NoCount

\* The journal's invariant is about the chain's numbers growing and the
\* counters not growing: whoever else acts, saves, restarts or gives up keeps it.
LEMMA NobodyCounts ==
    ASSUME JournalInv, KeeperTypes', UNCHANGED <<journal, base>>, storeOk' => storeOk,
           \A m \in Mandate :
               /\ chain'[m].seq >= chain[m].seq
               /\ tracks'[m].count \in {NoCount, tracks[m].count, saved[m].count}
               /\ \/ saved'[m].count = saved[m].count
                  \/ saved'[m].count = tracks[m].count /\ sweep.phase # "charged",
           SweepStays \/ SweepEnds
    PROVE  JournalInv'
<1>1. KeeperTypes /\ Charging /\ \A m \in Mandate : Follows(m) /\ Seen(m) /\ Complete(m)
  BY DEF JournalInv
<1>2. sweep.cur \in Mandate
  BY <1>1 DEF KeeperTypes, SweepState
<1>3. Charging'
  <2>1. CASE SweepStays
    <3>1. CASE sweep.phase \in {"submit", "charged"}
      <4> PICK p, q, c, r, b : p = chain[sweep.cur].seq /\ q = chain'[sweep.cur].seq
                         /\ c = sweep.seq /\ r = Reach(journal[sweep.cur])
                         /\ b = (IF sweep.phase = "submit" THEN 1 ELSE 0)
        OBVIOUS
      <4>1. p \in 0..Budget /\ q \in 0..Budget /\ q >= p /\ b \in {0, 1}
        <5>1. chain'[sweep.cur] \in MandateState
          BY <1>2 DEF KeeperTypes, TypeOK
        <5> QED BY <1>1, <1>2, <5>1, Counters DEF MandateState
      <4>2. c \in 1..Budget /\ r < c /\ c <= p + b
        BY <1>1, <3>1 DEF Charging
      <4>3. c <= q + b
        BY <4>1, <4>2, Constants
      <4> QED BY <1>1, <2>1, <3>1, <4>2, <4>3 DEF Charging, SweepStays
    <3>2. CASE sweep.phase \notin {"submit", "charged"}
      BY <1>1, <2>1, <3>2 DEF Charging, SweepStays
    <3> QED BY <3>1, <3>2
  <2>2. CASE SweepEnds
    BY <2>2 DEF Charging, SweepEnds
  <2> QED BY <2>1, <2>2
<1>4. ASSUME NEW m \in Mandate PROVE Follows(m)' /\ Seen(m)' /\ Complete(m)'
  <2> PICK c, d, t, u, v, w, r, n :
          /\ c = chain[m].seq /\ d = chain'[m].seq /\ t = tracks[m].count
          /\ u = tracks'[m].count /\ v = saved[m].count /\ w = saved'[m].count
          /\ r = Reach(journal[m]) /\ n = Told(journal[m])
    OBVIOUS
  <2>1. /\ c \in Nat /\ d \in Int /\ t \in Int /\ u \in Int /\ v \in Int /\ w \in Int
        /\ r \in Nat /\ n \in Nat /\ d >= c /\ t <= c /\ v <= c /\ r <= c
        /\ u \in {-1, t, v} /\ w \in {v, t} /\ Sound(journal[m])
    <3>1. chain'[m] \in MandateState /\ d \in 0..Budget
      BY DEF KeeperTypes, TypeOK, MandateState
    <3>2. c \in 0..Budget /\ t \in -1..Budget /\ v \in -1..Budget
      BY <1>1, Counters DEF NoCount
    <3>3. Follows(m)
      BY <1>1
    <3>4. r \in Nat /\ n \in Nat /\ r <= c /\ t <= c /\ v <= c /\ Sound(journal[m])
      BY <3>3 DEF Follows, Sound
    <3>5. u \in {-1, t, v} /\ w \in {v, t} /\ d >= c
      BY DEF NoCount
    <3> QED BY <3>1, <3>2, <3>4, <3>5, Constants
  <2>2. Follows(m)'
    BY <2>1 DEF Follows
  <2>3. Seen(m)'
    <3> SUFFICES ASSUME Read(m)' PROVE Seen(m)'
      BY DEF Seen
    <3>1. Read(m) /\ sweep'.snap[m] = sweep.snap[m]
      BY DEF Read, SweepStays, SweepEnds
    <3> PICK s : s = sweep.snap[m].seq
      OBVIOUS
    <3>2. r <= s /\ s <= c /\ t <= s /\ v <= s
      BY <1>1, <3>1 DEF Seen
    <3>3. s \in 0..Budget
      BY <1>1, <3>1, Counters
    <3>4. r <= s /\ s <= d /\ u <= s /\ w <= s
      BY <2>1, <3>2, <3>3, Constants
    <3> QED BY <3>1, <3>4 DEF Seen
  <2>4. Complete(m)'
    <3> SUFFICES ASSUME base[m] = 0, storeOk' PROVE Complete(m)'
      BY DEF Complete
    <3> PICK x, q : x = (IF InCharge(m, {"charged"}) THEN 1 ELSE 0) /\ q = sweep.seq
      OBVIOUS
    <3>1. r <= n /\ v <= n /\ t <= n + x /\ x \in {0, 1}
          /\ (InCharge(m, {"submit", "charged"}) => q <= n + 1)
      BY <1>1 DEF Complete
    <3>2. CASE SweepStays
      <4>1. w <= n
        <5>1. CASE sweep.phase = "charged"
          BY <2>1, <3>1, <5>1
        <5>2. CASE sweep.phase # "charged"
          BY <2>1, <3>1, <5>2 DEF InCharge
        <5> QED BY <5>1, <5>2
      <4>2. u <= n + x
        BY <2>1, <3>1
      <4>3. /\ InCharge(m, {"charged"})' <=> InCharge(m, {"charged"})
            /\ InCharge(m, {"submit", "charged"})' <=> InCharge(m, {"submit", "charged"})
            /\ sweep'.seq = q
        BY <3>2 DEF InCharge, SweepStays
      <4> QED BY <3>1, <4>1, <4>2, <4>3 DEF Complete
    <3>3. CASE SweepEnds
      <4>1. ~InCharge(m, {"charged"})' /\ ~InCharge(m, {"submit", "charged"})'
        BY <3>3 DEF InCharge, SweepEnds
      <4>2. CASE InCharge(m, {"charged"})
        <5>1. u = -1 /\ w = v
          BY <3>3, <4>2 DEF SweepEnds, InCharge, NoCount
        <5> QED BY <2>1, <3>1, <4>1, <5>1 DEF Complete
      <4>3. CASE ~InCharge(m, {"charged"})
        <5>1. u <= n /\ w <= n
          BY <2>1, <3>1, <4>3
        <5> QED BY <2>1, <3>1, <4>1, <5>1 DEF Complete
      <4> QED BY <4>2, <4>3
    <3> QED BY <3>2, <3>3
  <2> QED BY <2>2, <2>3, <2>4
<1> QED BY <1>3, <1>4 DEF JournalInv

CountsStay ==
    \A m \in Mandate :
        /\ chain'[m].seq >= chain[m].seq
        /\ tracks'[m].count \in {NoCount, tracks[m].count, saved[m].count}
        /\ \/ saved'[m].count = saved[m].count
           \/ saved'[m].count = tracks[m].count /\ sweep.phase # "charged"
ChainStands ==
    raced' = FALSE =>
        /\ raced = FALSE /\ bal' >= bal
        /\ \A m \in Mandate :
            /\ chain'[m].seq = chain[m].seq /\ chain'[m].status = chain[m].status
            /\ chain'[m].expired = chain[m].expired
            /\ chain'[m].wait <= chain[m].wait /\ chain'[m].trial <= chain[m].trial
Quiet ==
    /\ KeeperTypes' /\ UNCHANGED <<journal, base>> /\ (storeOk' => storeOk)
    /\ CountsStay /\ ChainStands
    /\ \/ SweepStays /\ sweep'.cache = sweep.cache
       \/ SweepEnds /\ sweep'.cache \in {sweep.cache, Unread}

\* Steps that count nothing keep the invariant, unless they change under the
\* tick what it has read, which is then a race.
LEMMA QuietStep ==
    ASSUME KeeperInv, Quiet
    PROVE  KeeperInv'
<1>1. JournalInv /\ KeeperTypes /\ RaceInv
  BY DEF KeeperInv, JournalInv
<1>2. JournalInv'
  BY <1>1, NobodyCounts DEF Quiet, CountsStay
<1>3. /\ sweep'.phase = "submit" =>
          sweep.phase = "submit" /\ sweep'.cur = sweep.cur /\ sweep'.cache = sweep.cache
      /\ sweep'.cache \in {sweep.cache, Unread}
      /\ \A m \in Mandate : Read(m)' => Read(m) /\ sweep'.snap[m] = sweep.snap[m]
  BY DEF Quiet, SweepStays, SweepEnds, Read
<1>4. sweep'.phase = "submit" => sweep'.cache >= Price
  BY <1>1, <1>3 DEF RaceInv
<1>5. ASSUME ~raced'
      PROVE  /\ sweep'.cache <= bal' /\ \A m \in Mandate : Stands(m)'
             /\ sweep'.phase = "submit" => Chargeable(sweep.cur)'
  <2>0. raced' = FALSE
    BY <1>5 DEF Quiet, KeeperTypes, TypeOK
  <2>1. /\ raced = FALSE /\ bal' >= bal /\ bal \in Nat /\ bal' \in Nat
        /\ sweep.cache \in Int /\ sweep.cache <= bal
        /\ sweep.cur \in Mandate
    BY <1>1, <2>0 DEF Quiet, ChainStands, RaceInv, KeeperTypes, TypeOK, SweepState
  <2>2. sweep'.cache <= bal'
    <3> PICK a, b, x, y : a = bal /\ b = bal' /\ x = sweep.cache /\ y = sweep'.cache
      OBVIOUS
    <3>1. a \in Nat /\ b \in Nat /\ b >= a /\ x \in Int /\ x <= a /\ y \in {x, -1}
      BY <1>3, <2>1 DEF Unread
    <3>2. y <= b
      BY <3>1
    <3> QED BY <3>2
  <2>3. ASSUME NEW m \in Mandate
        PROVE  /\ chain'[m].seq = chain[m].seq /\ chain'[m].status = chain[m].status
               /\ chain'[m].expired = chain[m].expired
               /\ chain'[m].wait <= chain[m].wait /\ chain'[m].trial <= chain[m].trial
               /\ chain'[m].wait \in Nat /\ chain[m].wait \in Nat
               /\ chain'[m].trial \in Nat /\ chain[m].trial \in Nat
    <3>1. chain[m] \in MandateState /\ chain'[m] \in MandateState
      BY <1>1 DEF Quiet, KeeperTypes, TypeOK
    <3>2. \A c \in MandateState : c.wait \in Nat /\ c.trial \in Nat
      BY Constants DEF MandateState
    <3> QED BY <2>0, <3>1, <3>2 DEF Quiet, ChainStands
  <2>4. ASSUME NEW m \in Mandate PROVE Stands(m)'
    <3> SUFFICES ASSUME Read(m)' PROVE Stands(m)'
      BY DEF Stands
    <3>1. Read(m) /\ sweep'.snap[m] = sweep.snap[m] /\ Stands(m)
      BY <1>1, <1>3, <2>1 DEF RaceInv
    <3> PICK s : s = sweep.snap[m]
      OBVIOUS
    <3>2. s \in MandateState
      BY <1>1, <3>1, Counters
    <3>3. s.wait \in Nat /\ s.trial \in Nat
      BY <3>2, Constants DEF MandateState
    <3>4. chain'[m].wait <= s.wait /\ chain'[m].trial <= s.trial
      <4> PICK a, b, c, d : a = chain[m].wait /\ b = chain'[m].wait
                            /\ c = chain[m].trial /\ d = chain'[m].trial
        OBVIOUS
      <4>1. a \in Nat /\ b \in Nat /\ c \in Nat /\ d \in Nat /\ b <= a /\ d <= c
        BY <2>3
      <4>2. a <= s.wait /\ c <= s.trial
        BY <3>1 DEF Stands
      <4>3. b <= s.wait /\ d <= s.trial
        BY <3>3, <4>1, <4>2
      <4> QED BY <4>3
    <3> QED BY <2>3, <3>1, <3>4 DEF Stands
  <2>5. ASSUME sweep'.phase = "submit" PROVE Chargeable(sweep.cur)'
    <3> PICK m, a, b : m = sweep.cur /\ a = bal /\ b = bal'
      OBVIOUS
    <3>1. Chargeable(m) /\ m \in Mandate /\ sweep'.cur = m
      BY <1>1, <1>3, <2>1, <2>5 DEF RaceInv
    <3>2. chain'[m].wait = 0 /\ chain'[m].trial = 0
      <4> PICK c, d : c = chain'[m].wait /\ d = chain'[m].trial
        OBVIOUS
      <4>1. c \in Nat /\ d \in Nat /\ c <= 0 /\ d <= 0
        BY <2>3, <3>1 DEF Chargeable
      <4>2. c = 0 /\ d = 0
        BY <4>1
      <4> QED BY <4>2
    <3>3. a \in Nat /\ b \in Nat /\ b >= a /\ a >= Price
      BY <2>1, <3>1 DEF Chargeable
    <3>4. b >= Price
      BY <3>3, Constants
    <3> QED BY <2>3, <3>1, <3>2, <3>4 DEF Chargeable
  <2> QED BY <2>2, <2>4, <2>5
<1>6. sweep'.phase = "submit" => sweep'.cur = sweep.cur
  BY <1>3
<1> QED BY <1>2, <1>4, <1>5, <1>6 DEF KeeperInv, RaceInv, Chargeable

-----------------------------------------------------------------------------
(* The steps that count nothing, first those of everybody but the keeper.  *)

LEMMA Unmoved ==
    ASSUME KeeperTypes
    PROVE  /\ UNCHANGED <<chain, raced, bal>> => ChainStands
           /\ UNCHANGED <<chain, tracks, saved>> => CountsStay
           /\ UNCHANGED sweep => SweepStays /\ sweep'.cache = sweep.cache
<1>1. ASSUME NEW m \in Mandate
      PROVE  chain[m].seq >= chain[m].seq /\ chain[m].wait <= chain[m].wait
             /\ chain[m].trial <= chain[m].trial /\ bal <= bal
  <2>1. chain[m] \in MandateState /\ bal \in Nat
    BY DEF KeeperTypes, TypeOK
  <2>2. chain[m].seq \in Nat /\ chain[m].wait \in Nat /\ chain[m].trial \in Nat
    BY <2>1, Constants DEF MandateState
  <2> QED BY <2>1, <2>2
<1>2. bal >= bal
  <2>1. bal \in Nat
    BY DEF KeeperTypes, TypeOK
  <2> QED BY <2>1
<1> QED BY <1>1, <1>2 DEF ChainStands, CountsStay, SweepStays

\* When only the chain moves, it is a race, unless it stands.
LEMMA ChainMoves ==
    ASSUME KeeperInv, chain' \in [Mandate -> MandateState], bal' \in Nat, late' \subseteq Mandate,
           \A m \in Mandate : chain'[m].seq >= chain[m].seq,
           raced' = TRUE \/ (raced' = raced /\ ChainStands),
           UNCHANGED <<tracks, sweep, store, base, storeOk>>
    PROVE  KeeperInv'
<1>1. KeeperTypes
  BY DEF KeeperInv, JournalInv
<1>2. KeeperTypes'
  <2>1. raced' \in BOOLEAN
    BY <1>1, Types
  <2> QED BY <1>1, <2>1, Types, TypeParts DEF store
<1>3. CountsStay
  BY DEF CountsStay, store
<1>4. ChainStands
  BY DEF ChainStands
<1>5. Quiet
  BY <1>1, <1>2, <1>3, <1>4, Unmoved DEF Quiet, store
<1> QED BY <1>5, QuietStep

LEMMA SeqsStay ==
    ASSUME KeeperTypes, \A m \in Mandate : chain'[m].seq = chain[m].seq
    PROVE  \A m \in Mandate : chain'[m].seq >= chain[m].seq
<1> SUFFICES ASSUME NEW m \in Mandate PROVE chain'[m].seq >= chain[m].seq
  OBVIOUS
<1>1. chain[m].seq \in 0..Budget
  BY Counters
<1> QED BY <1>1, Constants

LEMMA ChargeGrows ==
    ASSUME KeeperTypes, NEW m \in Mandate, Chargeable(m), Charged(m)
    PROVE  \A n \in Mandate : chain'[n].seq >= chain[n].seq
<1> SUFFICES ASSUME NEW n \in Mandate PROVE chain'[n].seq >= chain[n].seq
  OBVIOUS
<1>1. chain[n].seq \in 0..Budget
  BY Counters
<1>2. chain'[n].seq = chain[n].seq \/ chain'[n].seq = chain[n].seq + 1
  BY ChargeMoves
<1> QED BY <1>1, <1>2, Constants

LEMMA OthersMove ==
    ASSUME KeeperInv, NEW m \in Mandate,
           \/ AnyoneCharges(m) \/ LateLanding(m) \/ Pause(m) \/ Resume(m) \/ Revoke(m)
           \/ Expire(m) \/ Withdraw \/ TopUp
    PROVE  KeeperInv'
<1>1. KeeperTypes /\ chain \in [Mandate -> MandateState] /\ bal \in Nat /\ late \subseteq Mandate
  BY Types DEF KeeperInv, JournalInv
<1>2. CASE AnyoneCharges(m)
  BY <1>1, <1>2, ChargeMoves, ChargeGrows, ChainMoves DEF AnyoneCharges, Upset, store
<1>3. CASE LateLanding(m)
  <2>0. late' \subseteq Mandate
    BY <1>1, <1>3 DEF LateLanding
  <2>1. CASE Chargeable(m) /\ Charged(m) /\ raced' = TRUE
    BY <1>1, <1>3, <2>0, <2>1, ChargeMoves, ChargeGrows, ChainMoves
       DEF LateLanding, counters, store
  <2>2. CASE UNCHANGED <<chain, bal, raced>>
    <3>1. ChainStands
      BY <1>1, <2>2, Unmoved
    <3>2. \A n \in Mandate : chain'[n].seq >= chain[n].seq
      BY <1>1, <2>2, SeqsStay
    <3> QED BY <1>1, <1>3, <2>0, <2>2, <3>1, <3>2, ChainMoves DEF LateLanding, counters, store
  <2> QED BY <1>3, <2>1, <2>2 DEF LateLanding
<1>4. CASE Pause(m) \/ Resume(m) \/ Revoke(m) \/ Expire(m)
  <2>1. /\ UNCHANGED <<late, bal, tracks, sweep, store, base, storeOk>> /\ raced' = TRUE
        /\ \E s \in {"active", "paused", "revoked"} :
              \/ chain' = [chain EXCEPT ![m] = [chain[m] EXCEPT !.status = s]]
              \/ chain' = [chain EXCEPT ![m] = [chain[m] EXCEPT !.status = s, !.wait = Interval]]
              \/ chain' = [chain EXCEPT ![m].expired = TRUE]
    BY <1>4 DEF Pause, Resume, Revoke, Expire, Moves, Upset, store
  <2>2. chain' \in [Mandate -> MandateState] /\ \A n \in Mandate : chain'[n].seq = chain[n].seq
    BY <1>1, <2>1, StatusMoves
  <2>3. \A n \in Mandate : chain'[n].seq >= chain[n].seq
    BY <1>1, <2>2, SeqsStay
  <2> QED BY <1>1, <2>1, <2>2, <2>3, ChainMoves DEF store
<1>5. CASE Withdraw \/ TopUp
  <2>1. bal' \in Nat /\ \A n \in Mandate : chain'[n].seq >= chain[n].seq
    <3>1. \A n \in Mandate : chain'[n].seq = chain[n].seq
      BY <1>5 DEF Withdraw, TopUp
    <3>2. bal' \in Nat
      BY <1>1, <1>5, Constants DEF Withdraw, TopUp
    <3> QED BY <1>1, <3>1, <3>2, SeqsStay
  <2>2. raced' = TRUE \/ (raced' = raced /\ ChainStands)
    <3>1. CASE Withdraw
      BY <3>1 DEF Withdraw
    <3>2. CASE TopUp
      <4>1. bal' >= bal /\ UNCHANGED <<chain, raced>>
        BY <1>1, <3>2, Constants DEF TopUp
      <4>2. \A n \in Mandate : chain[n].wait <= chain[n].wait /\ chain[n].trial <= chain[n].trial
        <5> SUFFICES ASSUME NEW n \in Mandate
                     PROVE  chain[n].wait <= chain[n].wait /\ chain[n].trial <= chain[n].trial
          OBVIOUS
        <5>1. chain[n].wait \in 0..Interval /\ chain[n].trial \in 0..Interval
          BY <1>1 DEF MandateState
        <5> QED BY <5>1, Constants
      <4>3. ChainStands
        BY <4>1, <4>2 DEF ChainStands
      <4> QED BY <4>1, <4>3
    <3> QED BY <1>5, <3>1, <3>2
  <2> QED BY <1>1, <1>5, <2>1, <2>2, ChainMoves DEF Withdraw, TopUp, Upset, store
<1> QED BY <1>2, <1>3, <1>4, <1>5

LEMMA ElapseStep ==
    ASSUME KeeperInv, Elapse
    PROVE  KeeperInv'
<1>1. KeeperTypes
  BY DEF KeeperInv, JournalInv
<1>2. /\ tracks' \in [Mandate -> MandateTrack \cup {Untracked}]
      /\ saved' \in [Mandate -> MandateTrack \cup {Untracked}]
      /\ \A m \in Mandate : tracks'[m].count = tracks[m].count /\ saved'[m].count = saved[m].count
  <2>1. \A m \in Mandate : tracks[m] \in MandateTrack \cup {Untracked}
                           /\ saved[m] \in MandateTrack \cup {Untracked}
    BY <1>1, Types
  <2>2. tracks' = [m \in Mandate |-> Older(tracks[m])] /\ saved' = [m \in Mandate |-> Older(saved[m])]
    BY DEF Elapse
  <2> QED BY <2>1, <2>2, Ageing
<1>3. sweep' \in SweepState /\ SweepStays /\ sweep'.cache = sweep.cache
  <2> PICK k : k = IF sweep.phase \in {"down", "rest"} THEN 0 ELSE 1
    OBVIOUS
  <2>1. sweep \in SweepState /\ k \in {0, 1} /\ sweep' = [sweep EXCEPT !.lag = k]
    BY <1>1, Types DEF Elapse
  <2> QED BY <2>1 DEF SweepState, SweepStays
<1>4. KeeperTypes'
  BY <1>1, <1>2, <1>3, Types, TimeMoves, TypeParts DEF Elapse, counters
<1>5. CountsStay
  <2>1. \A m \in Mandate : chain'[m].seq >= chain[m].seq
    BY <1>1, TimeMoves, SeqsStay
  <2> QED BY <1>2, <2>1 DEF CountsStay
<1>6. ChainStands
  <2>1. bal' >= bal /\ raced' = raced
    <3>1. bal \in Nat
      BY <1>1, Types
    <3>2. bal' = bal /\ raced' = raced
      BY DEF Elapse
    <3> QED BY <3>1, <3>2
  <2> QED BY <1>1, <2>1, TimeMoves DEF ChainStands
<1>7. Quiet
  BY <1>3, <1>4, <1>5, <1>6 DEF Quiet, Elapse, counters
<1> QED BY <1>7, QuietStep

-----------------------------------------------------------------------------
(* The keeper's own steps that count nothing.                              *)

\* What all of them leave alone.
KeeperOnly == UNCHANGED <<journal, base>> /\ (storeOk' => storeOk)

LEMMA KeeperMoves ==
    ASSUME KeeperInv, KeeperOnly, storeOk' \in BOOLEAN,
           UNCHANGED <<chain, late, bal, raced>>,
           tracks' \in [Mandate -> MandateTrack \cup {Untracked}],
           saved' \in [Mandate -> MandateTrack \cup {Untracked}],
           sweep' \in SweepState,
           \/ SweepStays /\ sweep'.cache = sweep.cache
           \/ SweepEnds /\ sweep'.cache \in {sweep.cache, Unread},
           \A m \in Mandate :
               /\ tracks'[m].count \in {NoCount, tracks[m].count, saved[m].count}
               /\ \/ saved'[m].count = saved[m].count
                  \/ saved'[m].count = tracks[m].count /\ sweep.phase # "charged"
    PROVE  KeeperInv'
<1>1. KeeperTypes
  BY DEF KeeperInv, JournalInv
<1>2. KeeperTypes'
  BY <1>1, Types, TypeParts DEF KeeperOnly
<1>3. CountsStay
  <2>1. \A m \in Mandate : chain'[m].seq >= chain[m].seq
    BY <1>1, SeqsStay
  <2> QED BY <2>1 DEF CountsStay
<1>4. Quiet
  BY <1>1, <1>2, <1>3, Unmoved DEF Quiet, KeeperOnly
<1> QED BY <1>4, QuietStep

\* The counters of the tracks that are watched or not.
LEMMA NewTracks ==
    /\ NewTrack \in MandateTrack /\ NewTrack.count = NoCount /\ Untracked.count = NoCount
    /\ NewTrack # Untracked
BY Constants DEF NewTrack, MandateTrack, Untracked, Lifecycle, NoCount

\* What a save writes.
LEMMA Saving ==
    ASSUME KeeperTypes, Persisted(tracks)
    PROVE  /\ saved' \in [Mandate -> MandateTrack \cup {Untracked}]
           /\ \A m \in Mandate : saved'[m].count \in {saved[m].count, tracks[m].count}
BY Types DEF Persisted

LEMMA NoSave ==
    ASSUME KeeperTypes, saved' = saved
    PROVE  saved' \in [Mandate -> MandateTrack \cup {Untracked}]
BY Types

LEMMA SweepOver ==
    ASSUME KeeperTypes, sweep' = Rest \/ Ended, sweep.phase # "charged" \/ ~storeOk'
               \/ tracks'[sweep.cur].count = NoCount
    PROVE  /\ sweep' \in SweepState /\ SweepEnds /\ sweep'.cache = Unread
           /\ DOMAIN sweep'.snap = {} /\ sweep'.phase \in {"down", "rest"}
<1>1. sweep' \in SweepState /\ sweep'.phase \in {"down", "rest"} /\ DOMAIN sweep'.snap = {}
      /\ sweep'.cache = Unread
  BY Resting DEF Ended
<1> QED BY <1>1 DEF SweepEnds

LEMMA StartStops ==
    ASSUME KeeperInv, Start \/ Stop \/ Crash
    PROVE  KeeperInv'
<1>1. KeeperTypes /\ storeOk \in BOOLEAN /\ sweep.cur \in Mandate
  BY Types DEF KeeperInv, JournalInv, SweepState
<1>2. tracks \in [Mandate -> MandateTrack \cup {Untracked}]
      /\ saved \in [Mandate -> MandateTrack \cup {Untracked}]
  BY <1>1, Types
<1>3. CASE Start
  <2>1. sweep.phase = "down" /\ sweep' = Rest /\ UNCHANGED <<chain, late, bal, saved, raced>>
        /\ KeeperOnly /\ storeOk' = storeOk
    BY <1>3 DEF Start, Up, KeeperOnly, store, counters
  <2>2. sweep' \in SweepState /\ SweepEnds /\ sweep'.cache = Unread
    BY <1>1, <2>1, SweepOver
  <2>3. /\ tracks' \in [Mandate -> MandateTrack \cup {Untracked}]
        /\ \A m \in Mandate : tracks'[m].count \in {NoCount, saved[m].count}
    <3>1. tracks' = [m \in Mandate |-> IF saved[m] = Untracked THEN NewTrack ELSE saved[m]]
      BY <1>3 DEF Start
    <3> QED BY <1>2, <3>1, NewTracks
  <2> QED BY <1>1, <1>2, <2>1, <2>2, <2>3, KeeperMoves
<1>4. CASE Stop
  <2>1. sweep.phase = "rest" /\ Ended /\ UNCHANGED <<chain, late, bal, raced>>
        /\ KeeperOnly /\ storeOk' = storeOk /\ Persisted(tracks)
        /\ tracks' = [m \in Mandate |-> Untracked]
    BY <1>4 DEF Stop, Upset, KeeperOnly
  <2>2. sweep' \in SweepState /\ SweepEnds /\ sweep'.cache = Unread
    BY <1>1, <2>1, SweepOver
  <2>3. /\ tracks' \in [Mandate -> MandateTrack \cup {Untracked}]
        /\ \A m \in Mandate : tracks'[m].count = NoCount
    BY <2>1, NewTracks
  <2>4. /\ saved' \in [Mandate -> MandateTrack \cup {Untracked}]
        /\ \A m \in Mandate : saved'[m].count \in {saved[m].count, tracks[m].count}
    BY <1>1, <2>1, Saving
  <2> QED BY <1>1, <2>1, <2>2, <2>3, <2>4, KeeperMoves
<1>5. CASE Crash
  <2>1. Ended /\ UNCHANGED <<chain, late, bal, raced, saved>>
        /\ KeeperOnly /\ storeOk' = storeOk
        /\ tracks' = [m \in Mandate |-> Untracked]
    BY <1>5 DEF Crash, Upset, KeeperOnly, store
  <2>2. /\ tracks' \in [Mandate -> MandateTrack \cup {Untracked}]
        /\ \A m \in Mandate : tracks'[m].count = NoCount
    BY <2>1, NewTracks
  <2>3. sweep' \in SweepState /\ SweepEnds /\ sweep'.cache = Unread
    BY <1>1, <2>1, <2>2, SweepOver
  <2> QED BY <1>1, <1>2, <2>1, <2>2, <2>3, KeeperMoves
<1> QED BY <1>3, <1>4, <1>5

LEMMA WatchMoves ==
    ASSUME KeeperInv, NEW m \in Mandate, Watch(m) \/ Discover(m) \/ Unwatch(m)
    PROVE  KeeperInv'
<1>1. KeeperTypes /\ storeOk \in BOOLEAN /\ sweep \in SweepState
      /\ tracks \in [Mandate -> MandateTrack \cup {Untracked}]
      /\ saved \in [Mandate -> MandateTrack \cup {Untracked}]
  BY Types DEF KeeperInv, JournalInv
<1>2. \E t \in {NewTrack, Untracked} : tracks' = [tracks EXCEPT ![m] = t]
  BY DEF Watch, Discover, Unwatch
<1>3. /\ tracks' \in [Mandate -> MandateTrack \cup {Untracked}]
      /\ \A n \in Mandate : tracks'[n].count \in {NoCount, tracks[n].count}
  BY <1>1, <1>2, NewTracks
<1>4. KeeperOnly /\ storeOk' = storeOk /\ UNCHANGED <<chain, late, bal, raced, saved, sweep>>
  BY DEF Watch, Discover, Unwatch, Upset, KeeperOnly, store, counters
<1>5. SweepStays /\ sweep'.cache = sweep.cache
  BY <1>1, <1>4, Unmoved
<1> QED BY <1>1, <1>3, <1>4, <1>5, KeeperMoves

LEMMA EndedSweep ==
    ASSUME NEW w \in SweepState, NEW p \in {"visit", "rest", "down"}, NEW c \in Mandate,
           NEW z \in Int
    PROVE  [w EXCEPT !.phase = p, !.cur = c, !.seq = z] \in SweepState
BY DEF SweepState

\* The steps of a tick that end it, or go on with the next mandate.
LEMMA GoingOn ==
    ASSUME KeeperTypes, sweep.phase # "charged" \/ ~storeOk',
           \/ CatchOrGoOn
           \/ \E m \in Mandate : sweep' = [sweep EXCEPT !.snap = Visited(m)] /\ sweep.phase = "visit"
    PROVE  sweep' \in SweepState /\ SweepEnds /\ sweep'.cache = sweep.cache
<1>1. sweep \in SweepState /\ Rest.cur \in Mandate
  BY Types, Resting
<1>2. CASE CatchOrGoOn
  <2> PICK c, z : c = Rest.cur /\ z = 0
    OBVIOUS
  <2>0. sweep' = [sweep EXCEPT !.phase = "visit", !.cur = c, !.seq = z] /\ c \in Mandate /\ z \in Int
    BY <1>1, <1>2 DEF CatchOrGoOn
  <2>1. sweep' \in SweepState
    BY <1>1, <2>0, EndedSweep
  <2>1a. sweep'.phase = "visit" /\ sweep'.snap = sweep.snap /\ sweep'.cache = sweep.cache
    BY <1>1, <2>0 DEF SweepState
  <2> QED BY <2>1, <2>1a DEF SweepEnds
<1>3. ASSUME NEW m \in Mandate, sweep' = [sweep EXCEPT !.snap = Visited(m)], sweep.phase = "visit"
      PROVE  sweep' \in SweepState /\ SweepEnds /\ sweep'.cache = sweep.cache
  <2> PICK f : f = Visited(m)
    OBVIOUS
  <2>1. /\ f \in UNION {[D -> MandateState \cup {Unreadable}] : D \in SUBSET Mandate}
        /\ DOMAIN f = DOMAIN sweep.snap \ {m}
        /\ \A n \in DOMAIN f : f[n] = sweep.snap[n]
    BY VisitedOnce
  <2>2. sweep' = [sweep EXCEPT !.snap = f]
    BY <1>3
  <2>3. sweep' \in SweepState /\ sweep'.snap = f /\ sweep'.phase = "visit" /\ sweep'.cache = sweep.cache
    BY <1>1, <1>3, <2>1, <2>2 DEF SweepState
  <2> QED BY <2>1, <2>3, <1>3 DEF SweepEnds
<1> QED BY <1>2, <1>3

LEMMA SameTracks ==
    ASSUME KeeperTypes, tracks' = tracks
    PROVE  /\ tracks' \in [Mandate -> MandateTrack \cup {Untracked}]
           /\ \A m \in Mandate : tracks'[m].count = tracks[m].count
BY Types

LEMMA EitherBoolean ==
    ASSUME NEW a \in BOOLEAN, NEW b, b = a \/ b = FALSE
    PROVE  b \in BOOLEAN /\ (b => a)
<1>1. CASE b = a
  BY <1>1, Zenon
<1>2. CASE b = FALSE
  BY <1>2, Zenon
<1> QED BY <1>1, <1>2

LEMMA SkipSteps ==
    ASSUME KeeperInv, NEW m \in Mandate,
           VisitUnreadable(m) \/ VisitUnwatched(m) \/ ChargeAborts(m) \/ RecordThrows \/ EndSweep
    PROVE  KeeperInv'
<1>1. KeeperTypes /\ storeOk \in BOOLEAN
      /\ saved \in [Mandate -> MandateTrack \cup {Untracked}]
  BY Types DEF KeeperInv, JournalInv
<1>2. /\ KeeperOnly /\ UNCHANGED <<chain, late, bal, raced, tracks>> /\ storeOk' \in BOOLEAN
      /\ saved' = saved \/ (Persisted(tracks) /\ sweep.phase = "visit")
      /\ sweep.phase # "charged" \/ ~storeOk'
  <2>1. CASE VisitUnreadable(m) \/ VisitUnwatched(m)
    BY <1>1, <2>1 DEF VisitUnreadable, VisitUnwatched, KeeperOnly, store, counters, ToVisit
  <2>2. CASE ChargeAborts(m)
    <3>1. UNCHANGED <<chain, late, bal, raced, tracks, saved, journal, base>> /\ sweep.phase = "submit"
      BY <2>2 DEF ChargeAborts, store, Submitting
    <3>2. storeOk' = storeOk \/ storeOk' = FALSE
      BY <2>2 DEF ChargeAborts, counters, StoreFails, CatchThrows
    <3>3. storeOk' \in BOOLEAN /\ (storeOk' => storeOk)
      BY <1>1, <3>2, EitherBoolean
    <3>4. sweep.phase # "charged"
      BY <3>1
    <3> QED BY <3>1, <3>3, <3>4, Zenon DEF KeeperOnly
  <2>3. CASE RecordThrows
    BY <1>1, <2>3 DEF RecordThrows, KeeperOnly, store, StoreFails, CatchThrows
  <2>4. CASE EndSweep
    <3>1. /\ UNCHANGED <<chain, late, bal, raced, tracks, journal, base>> /\ sweep.phase = "visit"
          /\ saved' = saved \/ Persisted(tracks)
      BY <2>4 DEF EndSweep
    <3>2. storeOk' = storeOk \/ storeOk' = FALSE
      BY <2>4 DEF EndSweep, counters, StoreFails
    <3>3. storeOk' \in BOOLEAN /\ (storeOk' => storeOk)
      BY <1>1, <3>2, EitherBoolean
    <3>4. sweep.phase # "charged"
      BY <3>1
    <3> QED BY <3>1, <3>3, <3>4, Zenon DEF KeeperOnly
  <2> QED BY <2>1, <2>2, <2>3, <2>4
<1>3. /\ saved' \in [Mandate -> MandateTrack \cup {Untracked}]
      /\ \A n \in Mandate :
           \/ saved'[n].count = saved[n].count
           \/ saved'[n].count = tracks[n].count /\ sweep.phase # "charged"
  BY <1>1, <1>2, Saving
<1>4. /\ sweep' \in SweepState /\ SweepEnds /\ sweep'.cache \in {sweep.cache, Unread}
  <2>1. \/ sweep' = Rest
        \/ CatchOrGoOn
        \/ sweep' = [sweep EXCEPT !.snap = Visited(m)] /\ sweep.phase = "visit"
    BY DEF VisitUnreadable, VisitUnwatched, ChargeAborts, RecordThrows, EndSweep, CatchThrows, ToVisit
  <2> QED BY <1>1, <1>2, <2>1, SweepOver, GoingOn
<1> QED BY <1>1, <1>2, <1>3, <1>4, SameTracks, KeeperMoves

LEMMA PersistStep ==
    ASSUME KeeperInv, NEW m \in Mandate, PersistCharge(m)
    PROVE  KeeperInv'
<1>1. KeeperTypes /\ storeOk \in BOOLEAN
      /\ tracks \in [Mandate -> MandateTrack \cup {Untracked}]
  BY Types DEF KeeperInv, JournalInv
<1>2. /\ sweep.phase = "persist" /\ Persisted(tracks) /\ CatchOrGoOn
      /\ KeeperOnly /\ storeOk' = storeOk /\ UNCHANGED <<chain, late, bal, raced>>
  BY DEF PersistCharge, KeeperOnly, counters
<1>3. /\ saved' \in [Mandate -> MandateTrack \cup {Untracked}]
      /\ \A n \in Mandate : saved'[n].count \in {saved[n].count, tracks[n].count}
  BY <1>1, <1>2, Saving
<1>4. sweep' \in SweepState /\ SweepEnds /\ sweep'.cache = sweep.cache
  BY <1>1, <1>2, GoingOn
<1>5. /\ tracks' \in [Mandate -> MandateTrack \cup {Untracked}]
      /\ \A n \in Mandate : tracks'[n].count = tracks[n].count
  <2>1. CASE tracks[m].state = "past_due"
    <3> PICK e : e = Enter(tracks[m], "active")
      OBVIOUS
    <3>1. tracks[m] \in MandateTrack
      BY <1>1, <2>1 DEF Untracked
    <3>2. e \in MandateTrack /\ e.count = tracks[m].count
      BY <1>1, <3>1, Entering DEF Lifecycle
    <3>3. tracks' = [tracks EXCEPT ![m] = e]
      BY <2>1 DEF PersistCharge
    <3> QED BY <1>1, <3>2, <3>3
  <2>2. CASE tracks[m].state # "past_due"
    BY <1>1, <2>2 DEF PersistCharge
  <2> QED BY <2>1, <2>2
<1> QED BY <1>1, <1>2, <1>3, <1>4, <1>5, KeeperMoves

\* A call that fails: the chain has moved behind the tick's back, or has not.
LEMMA LostStep ==
    ASSUME KeeperInv, NEW m \in Mandate, ChargeLost(m)
    PROVE  KeeperInv'
<1>1. KeeperTypes /\ storeOk \in BOOLEAN /\ late \subseteq Mandate
      /\ bal \in Nat /\ chain \in [Mandate -> MandateState] /\ raced \in BOOLEAN
  BY Types DEF KeeperInv, JournalInv
<1>2. sweep.phase = "submit" /\ UNCHANGED <<tracks, saved, journal, base>>
  BY DEF ChargeLost, Submitting, store
<1>3. storeOk' \in BOOLEAN /\ (storeOk' => storeOk)
  <2>1. storeOk' = storeOk \/ storeOk' = FALSE
    BY DEF ChargeLost, Upset, CatchThrows, StoreFails
  <2> QED BY <1>1, <2>1, EitherBoolean
<1>4. sweep' \in SweepState /\ SweepEnds /\ sweep'.cache \in {sweep.cache, Unread}
  <2>1. sweep' = Rest \/ CatchOrGoOn
    BY DEF ChargeLost, CatchThrows
  <2> QED BY <1>1, <1>2, <2>1, SweepOver, GoingOn
<1>5. /\ chain' \in [Mandate -> MandateState] /\ bal' \in Nat /\ late' \subseteq Mandate
      /\ raced' \in BOOLEAN /\ ChainStands
      /\ \A n \in Mandate : chain'[n].seq >= chain[n].seq
  <2>1. CASE Chargeable(m) /\ Charged(m) /\ raced' = TRUE /\ late' = late
    BY <1>1, <2>1, ChargeMoves, ChargeGrows DEF ChainStands
  <2>2. CASE late' \in {late, late \cup {m}} /\ UNCHANGED <<chain, bal, raced>>
    <3>1. ChainStands /\ \A n \in Mandate : chain'[n].seq >= chain[n].seq
      BY <1>1, <2>2, Unmoved, SeqsStay
    <3> QED BY <1>1, <2>2, <3>1
  <2> QED BY <2>1, <2>2 DEF ChargeLost
<1>6. KeeperTypes'
  BY <1>1, <1>2, <1>3, <1>4, <1>5, Types, TypeParts
<1>7. CountsStay
  BY <1>2, <1>5 DEF CountsStay
<1>8. Quiet
  BY <1>2, <1>3, <1>4, <1>5, <1>6, <1>7, Zenon DEF Quiet
<1> QED BY <1>8, QuietStep

-----------------------------------------------------------------------------
(* The batch is read: it is the chain.                                     *)

LEMMA BatchStep ==
    ASSUME KeeperInv, BatchRead
    PROVE  KeeperInv'
<1>1. KeeperTypes /\ JournalInv /\ chain \in [Mandate -> MandateState] /\ bal \in Nat
  BY Types DEF KeeperInv, JournalInv
<1>2. PICK missing \in SUBSET Watching :
          sweep' = [Rest EXCEPT !.phase = "visit",
                      !.snap = [m \in Watching |-> IF m \in missing THEN Unreadable ELSE chain[m]]]
  BY DEF BatchRead
<1>3. /\ sweep.phase = "rest" /\ raced' = FALSE
      /\ UNCHANGED <<chain, late, bal, tracks, saved, journal, base>>
  BY DEF BatchRead, store
<1>4. storeOk' = storeOk
  BY DEF BatchRead, Upset, counters
<1> DEFINE f == [m \in Watching |-> IF m \in missing THEN Unreadable ELSE chain[m]]
<1>5. Watching \in SUBSET Mandate /\ f \in [Watching -> MandateState \cup {Unreadable}]
      /\ DOMAIN f = Watching
      /\ \A m \in Watching : f[m] = Unreadable \/ f[m] = chain[m]
  BY <1>1 DEF Watching
<1>6. f \in UNION {[E -> MandateState \cup {Unreadable}] : E \in SUBSET Mandate}
  BY <1>5, Batches
<1>7. sweep' = [Rest EXCEPT !.phase = "visit", !.snap = f]
  BY <1>2
<1> HIDE DEF f
<1>8. sweep' \in SweepState /\ sweep'.phase = "visit" /\ sweep'.snap = f /\ sweep'.cache = Unread
  BY <1>6, <1>7, Resting DEF SweepState
<1>9. KeeperTypes'
  BY <1>1, <1>3, <1>4, <1>8, Types, TypeParts
<1>10. ASSUME NEW m \in Mandate PROVE Follows(m)' /\ Seen(m)' /\ Complete(m)'
  <2>1. Follows(m) /\ Complete(m) /\ ~InCharge(m, {"charged"}) /\ ~InCharge(m, {"submit", "charged"})
    BY <1>1, <1>3 DEF JournalInv, InCharge
  <2>2. Follows(m)'
    BY <1>3, <2>1 DEF Follows
  <2>3. Seen(m)'
    <3> SUFFICES ASSUME Read(m)' PROVE Seen(m)'
      BY DEF Seen
    <3>1. sweep'.snap[m] = chain[m]
      BY <1>5, <1>8 DEF Read
    <3>2. chain[m].seq <= chain[m].seq
      <4>1. chain[m].seq \in 0..Budget
        BY <1>1, Counters
      <4> QED BY <4>1, Constants
    <3> QED BY <1>3, <2>1, <3>1, <3>2 DEF Seen, Follows
  <2>4. Complete(m)'
    <3>1. ~InCharge(m, {"charged"})' /\ ~InCharge(m, {"submit", "charged"})'
      BY <1>8 DEF InCharge
    <3> QED BY <1>3, <1>4, <2>1, <3>1 DEF Complete
  <2> QED BY <2>2, <2>3, <2>4
<1>11. JournalInv'
  BY <1>8, <1>9, <1>10 DEF JournalInv, Charging
<1>12. RaceInv'
  <2>1. ASSUME NEW m \in Mandate PROVE Stands(m)'
    <3> SUFFICES ASSUME Read(m)' PROVE Stands(m)'
      BY DEF Stands
    <3>1. sweep'.snap[m] = chain[m] /\ chain'[m] = chain[m]
      BY <1>3, <1>5, <1>8 DEF Read
    <3>2. chain[m].wait \in Nat /\ chain[m].trial \in Nat
      BY <1>1, Constants DEF MandateState
    <3>3. chain[m].wait <= chain[m].wait /\ chain[m].trial <= chain[m].trial
      BY <3>2
    <3> QED BY <3>1, <3>3 DEF Stands
  <2>2. sweep'.cache <= bal'
    <3>1. sweep'.cache = -1 /\ bal' \in Nat
      BY <1>1, <1>3, <1>8 DEF Unread
    <3> QED BY <3>1
  <2> QED BY <1>8, <2>1, <2>2 DEF RaceInv
<1> QED BY <1>11, <1>12 DEF KeeperInv

-----------------------------------------------------------------------------
(* A visit.  What it leaves of its mandate: the journal, the baseline and  *)
(* the counter say what the batch said.                                    *)

Accounted(m) ==
    LET n == sweep.snap[m].seq
        k == journal'[m]
    IN
    /\ journal' \in [Mandate -> Seq(JournalEntry)] /\ base' \in [Mandate -> NoCount..Budget]
    /\ \A o \in Mandate \ {m} : journal'[o] = journal[o] /\ base'[o] = base[o]
    /\ UNCHANGED <<chain, late, bal, saved, raced>>
    /\ Sound(k) /\ Reach(k) <= n
    /\ base'[m] = 0 /\ storeOk' => n <= Told(k) /\ saved[m].count <= Told(k)

\* What the tick has read of the mandate it visits.
LEMMA VisitSeen ==
    ASSUME JournalInv, NEW m \in Mandate, Visiting(m)
    PROVE  /\ sweep.snap[m].seq \in 0..Budget /\ sweep.snap[m].seq <= chain[m].seq
           /\ tracks[m].count \in NoCount..Budget /\ tracks[m].count <= sweep.snap[m].seq
           /\ saved[m].count \in NoCount..Budget /\ saved[m].count <= sweep.snap[m].seq
           /\ Sound(journal[m]) /\ Reach(journal[m]) <= sweep.snap[m].seq
           /\ sweep.phase = "visit" /\ KeeperTypes /\ Read(m)
           /\ Current(m) \in MandateTrack /\ Current(m).count = sweep.snap[m].seq
           /\ Synced(tracks[m], sweep.snap[m]) \in MandateTrack
           /\ Synced(tracks[m], sweep.snap[m]).count = sweep.snap[m].seq
           /\ base[m] = 0 /\ storeOk =>
                /\ Reach(journal[m]) <= Told(journal[m])
                /\ saved[m].count <= Told(journal[m]) /\ tracks[m].count <= Told(journal[m])
<1>1. KeeperTypes /\ Follows(m) /\ Seen(m) /\ Complete(m)
  BY DEF JournalInv
<1>2. /\ Read(m) /\ sweep.phase = "visit"
      /\ Current(m) \in MandateTrack /\ Synced(tracks[m], sweep.snap[m]) \in MandateTrack
      /\ Current(m).count = Synced(tracks[m], sweep.snap[m]).count
      /\ Current(m).count = IF tracks[m].count = NoCount \/ sweep.snap[m].seq > tracks[m].count
                            THEN sweep.snap[m].seq ELSE tracks[m].count
  BY <1>1, VisitReads
<1> PICK n, t : n = sweep.snap[m].seq /\ t = tracks[m].count
  OBVIOUS
<1>3. n \in 0..Budget /\ t \in NoCount..Budget /\ saved[m].count \in NoCount..Budget
  BY <1>1, <1>2, Counters
<1>4. n <= chain[m].seq /\ t <= n /\ saved[m].count <= n /\ Reach(journal[m]) <= n
  BY <1>1, <1>2 DEF Seen
<1>5. Current(m).count = n
  <2>1. Current(m).count = IF t = NoCount \/ n > t THEN n ELSE t
    BY <1>2
  <2>2. t <= n /\ n \in Int /\ t \in Int
    BY <1>3, <1>4 DEF NoCount
  <2> QED BY <2>1, <2>2
<1>6. ~InCharge(m, {"charged"})
  BY <1>2 DEF InCharge
<1>7. ASSUME base[m] = 0, storeOk
      PROVE  /\ Reach(journal[m]) <= Told(journal[m])
             /\ saved[m].count <= Told(journal[m]) /\ t <= Told(journal[m])
  <2> PICK x : x = Told(journal[m])
    OBVIOUS
  <2>1. Reach(journal[m]) <= x /\ saved[m].count <= x /\ t <= x + 0
    BY <1>1, <1>6, <1>7 DEF Complete
  <2>2. x \in Nat /\ t \in Int
    BY <1>1, <1>3 DEF Follows, Sound, NoCount
  <2> QED BY <2>1, <2>2
<1> QED BY <1>1, <1>2, <1>3, <1>4, <1>5, <1>7 DEF Follows

LEMMA SyncAccounts ==
    ASSUME JournalInv, NEW m \in Mandate, Visiting(m), Sync(m), storeOk' => storeOk
    PROVE  Accounted(m)
<1> PICK n, t, j, k, b :
        n = sweep.snap[m].seq /\ t = tracks[m].count /\ j = journal[m] /\ k = journal'[m]
        /\ b = base[m]
  OBVIOUS
<1>1. /\ KeeperTypes /\ n \in 0..Budget /\ t \in NoCount..Budget /\ t <= n
      /\ saved[m].count \in NoCount..Budget /\ saved[m].count <= n
      /\ Sound(j) /\ Reach(j) <= n
      /\ b = 0 /\ storeOk => Reach(j) <= Told(j) /\ saved[m].count <= Told(j) /\ t <= Told(j)
  BY VisitSeen
<1>2. /\ journal \in [Mandate -> Seq(JournalEntry)] /\ base \in [Mandate -> NoCount..Budget]
      /\ j \in Seq(JournalEntry)
  BY <1>1, Types
<1>3. UNCHANGED <<chain, late, bal, saved, raced>>
  BY DEF Sync
<1>4. /\ base' = IF t = NoCount THEN [base EXCEPT ![m] = n] ELSE base
      /\ base' \in [Mandate -> NoCount..Budget]
      /\ \A o \in Mandate \ {m} : base'[o] = base[o]
      /\ base'[m] = IF t = NoCount THEN n ELSE b
  <2>1. base' = IF t = NoCount THEN [base EXCEPT ![m] = n] ELSE base
    BY DEF Sync
  <2>2. n \in NoCount..Budget
    BY <1>1, Constants DEF NoCount
  <2> QED BY <1>2, <2>1, <2>2
<1>5. CASE t # NoCount /\ n > t
  <2>1. n \in 1..Budget /\ Jumped(tracks[m], sweep.snap[m])
    BY <1>1, <1>5, Constants DEF Jumped, NoCount
  <2> DEFINE e == [kind |-> "observed", seq |-> n]
             h == Append(j, e)
  <2>2. /\ h \in Seq(JournalEntry) /\ Sound(h)
        /\ IF n > Reach(j) THEN Reach(h) = n /\ Told(h) = Told(j) + n - Reach(j)
                           ELSE Reach(h) = Reach(j) /\ Told(h) = Told(j)
    BY ONLY <1>1, <1>2, <2>1, ObservedEntry
  <2>3. journal' = [journal EXCEPT ![m] = h]
    BY <2>1 DEF Sync, AppendJournal
  <2> HIDE DEF h
  <2>4. k = h /\ journal' \in [Mandate -> Seq(JournalEntry)]
        /\ \A o \in Mandate \ {m} : journal'[o] = journal[o]
    BY <1>2, <2>2, <2>3
  <2> PICK r, x, s, p, y : r = Reach(j) /\ x = Told(j) /\ s = saved[m].count
                           /\ p = Reach(h) /\ y = Told(h)
    OBVIOUS
  <2>5. /\ r \in Nat /\ x \in Nat /\ x <= r /\ r <= n /\ n \in Nat /\ s \in Int /\ s <= n
        /\ IF n > r THEN p = n /\ y = x + n - r ELSE p = r /\ y = x
    BY <1>1, <2>2, Constants, SMTT(30) DEF Sound, NoCount
  <2>6. p <= n
    BY <2>5
  <2>7. base'[m] = 0 /\ storeOk' => n <= y /\ s <= y
    <3> SUFFICES ASSUME base'[m] = 0, storeOk' PROVE n <= y /\ s <= y
      OBVIOUS
    <3>1. r <= x /\ s <= x
      BY <1>1, <1>4, <1>5
    <3> QED BY <2>5, <3>1
  <2> QED BY <1>3, <1>4, <2>2, <2>4, <2>6, <2>7 DEF Accounted
<1>6. CASE ~(t # NoCount /\ n > t)
  <2>1. journal' = journal /\ k = j
    <3>1. ~Jumped(tracks[m], sweep.snap[m])
      BY <1>6 DEF Jumped
    <3> QED BY <3>1 DEF Sync
  <2>2. base'[m] = 0 /\ storeOk' => n <= Told(j) /\ saved[m].count <= Told(j)
    <3> PICK x, s : x = Told(j) /\ s = saved[m].count
      OBVIOUS
    <3>0. x \in Nat /\ s \in Int /\ s <= n /\ n \in Nat /\ t \in Int /\ t <= n
      BY <1>1, Constants DEF Sound, NoCount
    <3>1. CASE t = NoCount
      BY <1>4, <3>0, <3>1
    <3>2. CASE t # NoCount
      <4>1. base'[m] = b /\ n = t
        BY <1>4, <1>6, <3>0, <3>2
      <4> QED BY <1>1, <4>1
    <3> QED BY <3>1, <3>2
  <2> QED BY <1>1, <1>2, <1>3, <1>4, <2>1, <2>2 DEF Accounted
<1> QED BY <1>5, <1>6

\* What a visit does to the tick.
VisitEnds(m) ==
    /\ sweep' \in SweepState
    /\ DOMAIN sweep'.snap \subseteq DOMAIN sweep.snap \ {m}
    /\ \A o \in DOMAIN sweep'.snap : sweep'.snap[o] = sweep.snap[o]
    /\ sweep'.cache \in {sweep.cache, Unread, CachedBalance}
    /\ \/ sweep'.phase \in {"rest", "visit"}
       \/ /\ sweep'.phase = "submit" /\ sweep'.cur = m /\ sweep'.seq = sweep.snap[m].seq + 1
          /\ sweep.snap[m].seq < Budget
          /\ sweep'.cache = CachedBalance /\ Due(sweep.snap[m]) /\ CachedBalance >= Price

LEMMA VisitKeepsJournal ==
    ASSUME JournalInv, NEW m \in Mandate, Visiting(m), Accounted(m), VisitEnds(m),
           storeOk' \in BOOLEAN, storeOk' => storeOk,
           NEW t \in MandateTrack, t.count = sweep.snap[m].seq,
           tracks' = [tracks EXCEPT ![m] = t]
    PROVE  JournalInv'
<1> PICK n : n = sweep.snap[m].seq
  OBVIOUS
<1>1. /\ KeeperTypes /\ n \in 0..Budget /\ n <= chain[m].seq /\ saved[m].count <= n
      /\ sweep.phase = "visit" /\ Read(m) /\ saved[m].count \in NoCount..Budget
  BY VisitSeen
<1>2. /\ tracks' \in [Mandate -> MandateTrack \cup {Untracked}]
      /\ tracks'[m].count = n /\ \A o \in Mandate \ {m} : tracks'[o] = tracks[o]
  BY <1>1, Types
<1>3. KeeperTypes'
  BY <1>1, <1>2, Types, TypeParts DEF Accounted, VisitEnds
<1>4. \A o \in Mandate : Follows(o) /\ Seen(o) /\ Complete(o)
  BY DEF JournalInv
<1> PICK k : k = journal'[m]
  OBVIOUS
<1>5. /\ Sound(k) /\ Reach(k) <= n /\ Reach(k) \in Nat /\ Told(k) \in Nat
      /\ base'[m] = 0 /\ storeOk' => n <= Told(k) /\ saved[m].count <= Told(k)
      /\ UNCHANGED <<chain, saved>>
  BY DEF Accounted, Sound
<1>6. chain[m].seq \in 0..Budget /\ n \in Nat
  BY <1>1, Counters, Constants
<1>7. Charging'
  <2>1. CASE sweep'.phase = "submit"
    <3>1. /\ sweep'.cur = m /\ sweep'.seq = n + 1 /\ n < Budget
          /\ m \notin DOMAIN sweep'.snap
      BY <2>1 DEF VisitEnds
    <3> PICK r, c : r = Reach(k) /\ c = chain[m].seq
      OBVIOUS
    <3>2. n + 1 \in 1..Budget /\ r < n + 1 /\ n + 1 <= c + 1
      <4>1. r \in Nat /\ r <= n /\ c \in Nat /\ n <= c /\ n \in Nat /\ n < Budget
        BY <1>1, <1>5, <1>6, <3>1, Constants
      <4> QED BY <4>1, Constants
    <3> QED BY <1>5, <2>1, <3>1, <3>2 DEF Charging
  <2>2. CASE sweep'.phase # "submit"
    BY <2>2 DEF Charging, VisitEnds
  <2> QED BY <2>1, <2>2
<1>8. ASSUME NEW o \in Mandate, o # m PROVE Follows(o)' /\ Seen(o)' /\ Complete(o)'
  <2>1. journal'[o] = journal[o] /\ base'[o] = base[o] /\ tracks'[o] = tracks[o]
        /\ UNCHANGED <<chain, saved>>
    BY <1>2, <1>8 DEF Accounted
  <2>2. Follows(o)'
    BY <1>4, <2>1 DEF Follows
  <2>3. Seen(o)'
    <3>1. Read(o)' => Read(o) /\ sweep'.snap[o] = sweep.snap[o]
      BY DEF Read, VisitEnds
    <3> QED BY <1>4, <2>1, <3>1 DEF Seen
  <2>4. Complete(o)'
    <3>1. ~InCharge(o, {"charged"})' /\ ~InCharge(o, {"submit", "charged"})'
      BY <1>8 DEF InCharge, VisitEnds
    <3>2. ~InCharge(o, {"charged"})
      BY <1>1 DEF InCharge
    <3>3. Complete(o)
      BY <1>4
    <3> QED BY <2>1, <3>1, <3>2, <3>3 DEF Complete
  <2> QED BY <2>2, <2>3, <2>4
<1>9. Follows(m)' /\ Seen(m)' /\ Complete(m)'
  <2>1. Follows(m)'
    <3> PICK r, c, s : r = Reach(k) /\ c = chain[m].seq /\ s = saved[m].count
      OBVIOUS
    <3>1. r \in Nat /\ r <= n /\ c \in Nat /\ n <= c /\ n \in Nat /\ s \in Int /\ s <= n
      BY <1>1, <1>5, <1>6, Constants DEF NoCount
    <3>2. r <= c /\ s <= c
      BY <3>1
    <3> QED BY <1>1, <1>2, <1>5, <3>2 DEF Follows
  <2>2. Seen(m)'
    BY DEF Seen, Read, VisitEnds
  <2>3. Complete(m)'
    <3> SUFFICES ASSUME base'[m] = 0, storeOk' PROVE Complete(m)'
      BY DEF Complete
    <3> PICK x, r : x = Told(k) /\ r = Reach(k)
      OBVIOUS
    <3>1. x \in Nat /\ n \in Nat /\ r \in Nat /\ r <= n /\ n <= x /\ saved[m].count <= x
      BY <1>5, <1>6
    <3>2. ~InCharge(m, {"charged"})'
      BY DEF InCharge, VisitEnds
    <3>3. InCharge(m, {"submit", "charged"})' => sweep'.seq = n + 1
      BY DEF InCharge, VisitEnds
    <3>4. r <= x /\ n <= x + 0 /\ n + 1 <= x + 1
      BY <3>1
    <3> QED BY <1>2, <1>5, <3>1, <3>2, <3>3, <3>4 DEF Complete
  <2> QED BY <2>1, <2>2, <2>3
<1> QED BY <1>3, <1>7, <1>8, <1>9 DEF JournalInv

\* A charge is submitted of a mandate the batch shows to be due, and if nobody
\* has moved the chain since, it still is.
LEMMA VisitRaces ==
    ASSUME KeeperInv, NEW m \in Mandate, Visiting(m), UNCHANGED <<chain, bal, raced>>,
           VisitEnds(m)
    PROVE  RaceInv'
<1>1. JournalInv /\ KeeperTypes /\ RaceInv /\ sweep.phase = "visit" /\ Read(m) /\ bal \in Nat
      /\ sweep.snap[m] \in MandateState /\ chain[m] \in MandateState /\ sweep.cache \in Int
      /\ raced \in BOOLEAN
  <2>1. JournalInv /\ KeeperTypes /\ RaceInv
    BY DEF KeeperInv, JournalInv
  <2>2. sweep.cache \in Int
    BY <2>1, Types DEF SweepState
  <2> QED BY <2>1, <2>2, Types, VisitSeen, VisitReads
<1>2. sweep'.phase = "submit" => sweep'.cache >= Price
  BY DEF VisitEnds
<1>3. ASSUME ~raced' PROVE sweep'.cache <= bal'
  <2> PICK a, c, d : a = bal /\ c = sweep.cache /\ d = sweep'.cache
    OBVIOUS
  <2>1. a \in Nat /\ c \in Int /\ c <= a /\ (d = c \/ d = -1 \/ d = a)
    BY <1>1, <1>3 DEF RaceInv, VisitEnds, CachedBalance, Unread
  <2>2. d <= a
    BY <2>1
  <2> QED BY <2>2
<1>4. ASSUME ~raced', NEW o \in Mandate PROVE Stands(o)'
  <2>1. Stands(o) /\ (Read(o)' => Read(o) /\ sweep'.snap[o] = sweep.snap[o])
    BY <1>1, <1>4 DEF RaceInv, Read, VisitEnds
  <2> QED BY <2>1 DEF Stands
<1>5. ASSUME ~raced', sweep'.phase = "submit" PROVE Chargeable(m)'
  <2> PICK s, c : s = sweep.snap[m] /\ c = chain[m]
    OBVIOUS
  <2>1. /\ Due(s) /\ CachedBalance >= Price /\ s.seq < Budget
    BY <1>5 DEF VisitEnds
  <2>2. /\ c.status = s.status /\ c.expired = s.expired /\ c.seq = s.seq
        /\ c.wait <= s.wait /\ c.trial <= s.trial
    BY <1>1, <1>5 DEF RaceInv, Stands
  <2>3. c.wait \in Nat /\ c.trial \in Nat
    BY <1>1, Constants DEF MandateState
  <2>4. c.wait = 0 /\ c.trial = 0
    <3>1. s.wait = 0 /\ s.trial = 0
      BY <2>1 DEF Due, EarliestReached
    <3> QED BY <2>2, <2>3, <3>1
  <2>5. bal >= Price
    <3> PICK a, d, x : a = bal /\ d = sweep.cache /\ x = CachedBalance
      OBVIOUS
    <3>1. a \in Nat /\ d \in Int /\ d <= a /\ (x = d \/ x = a) /\ x >= Price
      BY <1>1, <1>5, <2>1 DEF RaceInv, CachedBalance
    <3>2. a >= Price
      BY <3>1, Constants
    <3> QED BY <3>2
  <2> QED BY <2>1, <2>2, <2>4, <2>5 DEF Chargeable, Due, Billable
<1> QED BY <1>2, <1>3, <1>4, <1>5 DEF RaceInv, VisitEnds, Chargeable

LEMMA EndedVisit ==
    ASSUME KeeperTypes, NEW m \in Mandate, sweep.phase = "visit"
    PROVE  /\ sweep' = Rest => VisitEnds(m)
           /\ sweep' = [sweep EXCEPT !.snap = Visited(m)] => VisitEnds(m)
           /\ sweep' = [sweep EXCEPT !.snap = Visited(m), !.cache = CachedBalance] => VisitEnds(m)
<1>1. sweep \in SweepState /\ CachedBalance \in Int
  <2>1. sweep \in SweepState /\ bal \in Int /\ sweep.cache \in Int
    BY Types DEF SweepState
  <2> QED BY <2>1 DEF CachedBalance
<1> PICK f, d : f = Visited(m) /\ d = CachedBalance
  OBVIOUS
<1>2. /\ f \in UNION {[D -> MandateState \cup {Unreadable}] : D \in SUBSET Mandate}
      /\ DOMAIN f = DOMAIN sweep.snap \ {m}
      /\ \A n \in DOMAIN f : f[n] = sweep.snap[n]
  BY VisitedOnce
<1>3. CASE sweep' = Rest
  BY <1>1, <1>3, Resting DEF VisitEnds
<1>4. CASE sweep' = [sweep EXCEPT !.snap = f]
  <2>1. sweep' \in SweepState /\ sweep'.snap = f /\ sweep'.phase = "visit" /\ sweep'.cache = sweep.cache
    BY <1>1, <1>2, <1>4 DEF SweepState
  <2> QED BY <1>2, <2>1 DEF VisitEnds
<1>5. CASE sweep' = [sweep EXCEPT !.snap = f, !.cache = d]
  <2>1. sweep' \in SweepState /\ sweep'.snap = f /\ sweep'.phase = "visit" /\ sweep'.cache = d
    BY <1>1, <1>2, <1>5 DEF SweepState
  <2> QED BY <1>2, <2>1 DEF VisitEnds
<1> QED BY <1>3, <1>4, <1>5

LEMMA SubmittedVisit ==
    ASSUME JournalInv, NEW m \in Mandate, VisitDue(m)
    PROVE  VisitEnds(m)
<1>1. /\ Visiting(m) /\ Due(sweep.snap[m]) /\ ~Short(m)
      /\ sweep' = [sweep EXCEPT !.phase = "submit", !.snap = Visited(m), !.cur = m,
                              !.cache = CachedBalance, !.seq = Current(m).count + 1]
  BY DEF VisitDue
<1>2. KeeperTypes /\ Current(m).count = sweep.snap[m].seq /\ sweep.snap[m].seq \in 0..Budget
  BY <1>1, VisitSeen
<1>3. sweep \in SweepState /\ CachedBalance \in Int
  <2>1. sweep \in SweepState /\ bal \in Int /\ sweep.cache \in Int
    BY <1>2, Types DEF SweepState
  <2> QED BY <2>1 DEF CachedBalance
<1> PICK f, d, n, p : f = Visited(m) /\ d = CachedBalance /\ n = sweep.snap[m].seq + 1 /\ p = "submit"
  OBVIOUS
<1>4. /\ f \in UNION {[D -> MandateState \cup {Unreadable}] : D \in SUBSET Mandate}
      /\ DOMAIN f = DOMAIN sweep.snap \ {m}
      /\ \A o \in DOMAIN f : f[o] = sweep.snap[o]
  BY <1>2, VisitedOnce
<1>5. n \in Int /\ sweep' = [sweep EXCEPT !.phase = p, !.snap = f, !.cur = m, !.cache = d, !.seq = n]
  BY <1>1, <1>2
<1>6. /\ sweep'.snap = f /\ sweep'.phase = "submit" /\ sweep'.cache = d
      /\ sweep'.cur = m /\ sweep'.seq = n
  BY <1>3, <1>5 DEF SweepState
<1>7. sweep' \in SweepState
  BY <1>3, <1>4, <1>5 DEF SweepState
<1>8. sweep.snap[m].seq < Budget /\ CachedBalance >= Price
  <2>1. sweep.snap[m].seq < Budget
    BY <1>1 DEF Due, WithinBudget
  <2>2. ~(CachedBalance < Price)
    BY <1>1 DEF Short
  <2> QED BY <1>3, <2>1, <2>2, Constants
<1> QED BY <1>1, <1>4, <1>6, <1>7, <1>8 DEF VisitEnds

\* The outcomes of a visit.
LEMMA VisitOutcomes ==
    ASSUME KeeperInv, NEW m \in Mandate, Visiting(m), Accounted(m), VisitEnds(m),
           storeOk' = storeOk \/ storeOk' = FALSE,
           NEW t \in MandateTrack, t.count = sweep.snap[m].seq,
           tracks' = [tracks EXCEPT ![m] = t]
    PROVE  KeeperInv'
<1>1. JournalInv /\ storeOk \in BOOLEAN
  BY Types DEF KeeperInv, JournalInv
<1>2. storeOk' \in BOOLEAN /\ (storeOk' => storeOk)
  BY <1>1, EitherBoolean
<1>3. UNCHANGED <<chain, bal, raced>>
  BY DEF Accounted
<1>4. JournalInv'
  BY <1>1, <1>2, VisitKeepsJournal
<1>5. RaceInv'
  BY <1>3, VisitRaces
<1> QED BY <1>4, <1>5 DEF KeeperInv

LEMMA VisitSteps ==
    ASSUME KeeperInv, NEW m \in Mandate,
           VisitNotDue(m) \/ VisitShort(m) \/ VisitDue(m) \/ AccountThrows(m)
    PROVE  KeeperInv'
<1>1. JournalInv /\ Visiting(m) /\ Sync(m) /\ storeOk' = storeOk
  BY DEF KeeperInv, VisitNotDue, VisitShort, VisitDue, AccountThrows, counters, Upset
<1>2. /\ KeeperTypes /\ sweep.phase = "visit" /\ Accounted(m)
      /\ Current(m) \in MandateTrack /\ Current(m).count = sweep.snap[m].seq
  BY <1>1, VisitSeen, SyncAccounts
<1>3. Dunned(Current(m)) \in MandateTrack /\ Dunned(Current(m)).count = sweep.snap[m].seq
  BY <1>2, Dunning
<1>4. \E t \in {Current(m), Dunned(Current(m))} : tracks' = [tracks EXCEPT ![m] = t]
  BY DEF VisitNotDue, VisitShort, VisitDue, AccountThrows
<1>5. VisitEnds(m)
  <2>1. CASE VisitDue(m)
    BY <1>1, <2>1, SubmittedVisit
  <2>2. CASE VisitNotDue(m) \/ VisitShort(m) \/ AccountThrows(m)
    BY <1>2, <2>2, EndedVisit DEF VisitNotDue, VisitShort, AccountThrows
  <2> QED BY <2>1, <2>2
<1> QED BY <1>1, <1>2, <1>3, <1>4, <1>5, VisitOutcomes

LEMMA AppendThrowsStep ==
    ASSUME KeeperInv, NEW m \in Mandate, AppendThrows(m)
    PROVE  KeeperInv'
<1>1. JournalInv /\ Visiting(m) /\ storeOk' = FALSE /\ sweep' = Rest
  BY DEF KeeperInv, AppendThrows, StoreFails
<1> PICK n : n = sweep.snap[m].seq
  OBVIOUS
<1>2. /\ KeeperTypes /\ sweep.phase = "visit"
      /\ n \in 0..Budget /\ Sound(journal[m]) /\ Reach(journal[m]) <= n
      /\ Current(m) \in MandateTrack /\ Current(m).count = n
      /\ Synced(tracks[m], sweep.snap[m]) \in MandateTrack
      /\ Synced(tracks[m], sweep.snap[m]).count = n
  BY <1>1, VisitSeen
<1>3. VisitEnds(m)
  BY <1>1, <1>2, EndedVisit
<1>4. CASE /\ Jumped(tracks[m], sweep.snap[m])
           /\ tracks' = [tracks EXCEPT ![m].count = sweep.snap[m].seq]
           /\ UNCHANGED <<chain, late, bal, store, base, raced>>
  <2>1. Accounted(m)
    BY <1>1, <1>2, <1>4, Types DEF Accounted, store
  <2> PICK u : u = tracks[m]
    OBVIOUS
  <2> DEFINE t == [u EXCEPT !.count = n]
  <2>2. u \in MandateTrack /\ n \in NoCount..Budget
    BY <1>1, <1>2, VisitReads, Constants DEF NoCount
  <2>3. t \in MandateTrack /\ t.count = n
    BY <2>2 DEF MandateTrack
  <2>4. tracks' = [tracks EXCEPT ![m] = t]
    BY <1>4
  <2> HIDE DEF t
  <2> QED BY <1>1, <1>3, <2>1, <2>3, <2>4, VisitOutcomes
<1>5. CASE /\ Sync(m)
           /\ \E t \in {Synced(tracks[m], sweep.snap[m]), Current(m), Dunned(Current(m))} :
                tracks' = [tracks EXCEPT ![m] = t]
  <2>1. Accounted(m)
    BY <1>1, <1>5, SyncAccounts
  <2>2. Dunned(Current(m)) \in MandateTrack /\ Dunned(Current(m)).count = n
    BY <1>2, Dunning
  <2>3. PICK t \in {Synced(tracks[m], sweep.snap[m]), Current(m), Dunned(Current(m))} :
            tracks' = [tracks EXCEPT ![m] = t]
    BY <1>5
  <2>4. t \in MandateTrack /\ t.count = n
    BY <1>2, <2>2
  <2> QED BY <1>1, <1>3, <2>1, <2>3, <2>4, VisitOutcomes
<1>6. \/ /\ Jumped(tracks[m], sweep.snap[m])
         /\ tracks' = [tracks EXCEPT ![m].count = sweep.snap[m].seq]
         /\ UNCHANGED <<chain, late, bal, store, base, raced>>
      \/ /\ Sync(m)
         /\ \E t \in {Synced(tracks[m], sweep.snap[m]), Current(m), Dunned(Current(m))} :
                tracks' = [tracks EXCEPT ![m] = t]
  BY DEF AppendThrows
<1> QED BY <1>4, <1>5, <1>6

-----------------------------------------------------------------------------
(* The charge and its entry.                                               *)

LEMMA LandsStep ==
    ASSUME KeeperInv, NEW m \in Mandate, ChargeLands(m)
    PROVE  KeeperInv'
<1>1. /\ KeeperTypes /\ Charging /\ RaceInv /\ sweep \in SweepState
      /\ tracks \in [Mandate -> MandateTrack \cup {Untracked}]
      /\ \A o \in Mandate : Follows(o) /\ Seen(o) /\ Complete(o)
  BY Types DEF KeeperInv, JournalInv
<1>2. /\ sweep.phase = "submit" /\ sweep.cur = m /\ Chargeable(m) /\ Charged(m) /\ Counted(m)
      /\ sweep' = [sweep EXCEPT !.phase = "charged", !.cache = @ - Price]
      /\ UNCHANGED <<late, saved, journal, base, raced, storeOk>>
  BY DEF ChargeLands, Submitting, store, counters
<1>3. /\ chain' \in [Mandate -> MandateState] /\ bal' \in Nat
      /\ chain'[m].seq = chain[m].seq + 1
      /\ \A n \in Mandate : n # m => chain'[n] = chain[n]
      /\ bal >= Price /\ bal' = bal - Price
  BY <1>1, <1>2, ChargeMoves
<1> PICK n, c, d, r : n = sweep.seq /\ c = chain[m].seq /\ d = sweep.cache - Price
                   /\ r = Reach(journal[m])
  OBVIOUS
<1>4. /\ n \in 1..Budget /\ r < n /\ n <= c + 1 /\ c \in 0..Budget /\ r \in Nat /\ r <= c
      /\ m \notin DOMAIN sweep.snap
  <2>1. n \in 1..Budget /\ r < n /\ n <= c + 1 /\ m \notin DOMAIN sweep.snap
    BY <1>1, <1>2 DEF Charging
  <2>2. c \in 0..Budget
    BY <1>1, Counters
  <2> QED BY <1>1, <2>1, <2>2 DEF Follows, Sound
<1>5. /\ sweep' \in SweepState /\ sweep'.phase = "charged" /\ sweep'.snap = sweep.snap
      /\ sweep'.cur = m /\ sweep'.seq = n /\ sweep'.cache = d
  <2>1. d \in Int /\ sweep' = [sweep EXCEPT !.phase = "charged", !.cache = d]
    <3>1. sweep.cache \in Int
      BY <1>1 DEF SweepState
    <3> QED BY <1>2, <3>1, Constants
  <2> QED BY <1>1, <1>2, <2>1 DEF SweepState
<1>6. /\ tracks' \in [Mandate -> MandateTrack \cup {Untracked}]
      /\ tracks'[m].count \in {n, tracks[m].count, NoCount}
      /\ tracks[m].count = NoCount \/ tracks'[m].count = n
      /\ \A o \in Mandate : o # m => tracks'[o] = tracks[o]
  <2>1. CASE tracks[m] = Untracked
    <3>1. tracks' = tracks /\ tracks[m].count = NoCount
      BY <1>2, <2>1, NewTracks DEF Counted
    <3> QED BY <1>1, <3>1
  <2>2. CASE tracks[m] # Untracked
    <3> PICK u : u = tracks[m]
      OBVIOUS
    <3> DEFINE t == [u EXCEPT !.count = n]
    <3>1. u \in MandateTrack /\ n \in NoCount..Budget
      BY <1>1, <1>4, <2>2, Constants DEF NoCount
    <3>2. t \in MandateTrack /\ t.count = n
      BY <3>1 DEF MandateTrack
    <3>3. tracks' = [tracks EXCEPT ![m] = t]
      BY <1>2, <2>2 DEF Counted
    <3> HIDE DEF t
    <3> QED BY <1>1, <3>2, <3>3
  <2> QED BY <2>1, <2>2
<1>7. KeeperTypes'
  BY <1>1, <1>2, <1>3, <1>5, <1>6, Types, TypeParts
<1>8. Charging'
  <2>1. n <= c + 1 + 0
    BY <1>4, Constants
  <2> QED BY <1>2, <1>3, <1>4, <1>5, <2>1 DEF Charging
<1>9. ASSUME NEW o \in Mandate, o # m PROVE Follows(o)' /\ Seen(o)' /\ Complete(o)'
  <2>1. /\ Follows(o) /\ Seen(o) /\ Complete(o)
        /\ tracks'[o] = tracks[o] /\ chain'[o] = chain[o]
        /\ UNCHANGED <<saved, journal, base, storeOk>> /\ sweep'.snap = sweep.snap
    BY <1>1, <1>2, <1>3, <1>5, <1>6, <1>9
  <2>2. Follows(o)'
    BY <2>1 DEF Follows
  <2>3. Seen(o)'
    BY <2>1 DEF Seen, Read
  <2>4. Complete(o)'
    <3>1. /\ ~InCharge(o, {"charged"}) /\ ~InCharge(o, {"charged"})'
          /\ ~InCharge(o, {"submit", "charged"})'
      BY <1>2, <1>5, <1>9 DEF InCharge
    <3> QED BY <2>1, <3>1 DEF Complete
  <2> QED BY <2>2, <2>3, <2>4
<1>10. Follows(m)' /\ Seen(m)' /\ Complete(m)'
  <2> PICK t, u, s, x : t = tracks[m].count /\ u = tracks'[m].count /\ s = saved[m].count
                        /\ x = Told(journal[m])
    OBVIOUS
  <2>1. /\ t \in Int /\ t <= c /\ s \in Int /\ s <= c /\ Sound(journal[m])
        /\ u \in {n, t, -1} /\ (t = -1 \/ u = n) /\ x \in Nat
    <3>1. Follows(m) /\ t \in NoCount..Budget /\ s \in NoCount..Budget
      BY <1>1, Counters
    <3> QED BY <1>6, <3>1, Constants DEF Follows, NoCount, Sound
  <2>2. Follows(m)'
    <3>1. r <= c + 1 /\ u <= c + 1 /\ s <= c + 1
      BY <1>4, <2>1, Constants
    <3> QED BY <1>2, <1>3, <2>1, <3>1 DEF Follows
  <2>3. Seen(m)'
    BY <1>4, <1>5 DEF Seen, Read
  <2>4. Complete(m)'
    <3> SUFFICES ASSUME base[m] = 0, storeOk PROVE Complete(m)'
      BY <1>2 DEF Complete
    <3>1. r <= x /\ s <= x /\ n <= x + 1
      BY <1>1, <1>2 DEF Complete, InCharge
    <3>2. u <= x + 1
      BY <1>4, <2>1, <3>1, Constants
    <3>3. InCharge(m, {"charged"})' /\ sweep'.seq = n
      BY <1>5 DEF InCharge
    <3> QED BY <1>2, <3>1, <3>2, <3>3 DEF Complete
  <2> QED BY <2>2, <2>3, <2>4
<1>11. RaceInv'
  <2>1. ASSUME ~raced' PROVE sweep'.cache <= bal'
    <3> PICK a, b : a = bal /\ b = sweep.cache
      OBVIOUS
    <3>1. a \in Nat /\ b \in Int /\ b <= a /\ bal' = a - Price /\ d = b - Price
      BY <1>1, <1>2, <1>3, <2>1, Types DEF RaceInv, SweepState
    <3>2. b - Price <= a - Price
      BY <3>1, Constants
    <3> QED BY <1>5, <3>1, <3>2
  <2>2. ASSUME ~raced', NEW o \in Mandate PROVE Stands(o)'
    <3>1. CASE o = m
      BY <1>4, <1>5, <3>1 DEF Stands, Read
    <3>2. CASE o # m
      <4>1. Stands(o) /\ chain'[o] = chain[o] /\ sweep'.snap = sweep.snap
        BY <1>1, <1>2, <1>3, <1>5, <2>2, <3>2 DEF RaceInv
      <4> QED BY <4>1 DEF Stands, Read
    <3> QED BY <3>1, <3>2
  <2> QED BY <1>5, <2>1, <2>2 DEF RaceInv
<1> QED BY <1>7, <1>8, <1>9, <1>10, <1>11 DEF KeeperInv, JournalInv

LEMMA JournalStep ==
    ASSUME KeeperInv, NEW m \in Mandate, JournalCharge(m)
    PROVE  KeeperInv'
<1>1. /\ KeeperTypes /\ Charging /\ RaceInv /\ sweep \in SweepState
      /\ journal \in [Mandate -> Seq(JournalEntry)]
      /\ \A o \in Mandate : Follows(o) /\ Seen(o) /\ Complete(o)
  BY Types DEF KeeperInv, JournalInv
<1> PICK n, c, j, p : n = sweep.seq /\ c = chain[m].seq /\ j = journal[m] /\ p = "persist"
  OBVIOUS
<1>2. /\ sweep.phase = "charged" /\ sweep.cur = m
      /\ sweep' = [sweep EXCEPT !.phase = p]
      /\ UNCHANGED <<chain, late, bal, tracks, saved, base, raced, storeOk>>
  BY DEF JournalCharge, counters
<1>3. /\ n \in 1..Budget /\ Reach(j) < n /\ n <= c /\ c \in 0..Budget
      /\ m \notin DOMAIN sweep.snap /\ j \in Seq(JournalEntry) /\ Sound(j)
  <2>1. n <= c + 0 /\ n \in 1..Budget /\ c \in 0..Budget
    BY <1>1, <1>2, Counters DEF Charging
  <2>2. n <= c
    BY <2>1, Constants
  <2> QED BY <1>1, <1>2, <2>1, <2>2 DEF Charging, Follows
<1> DEFINE k == Append(j, [kind |-> "charged", seq |-> n])
<1>4. k \in Seq(JournalEntry) /\ Sound(k) /\ Reach(k) = n /\ Told(k) = Told(j) + 1
  BY ONLY <1>3, ChargeEntry
<1>5. journal' = [journal EXCEPT ![m] = k]
  BY DEF JournalCharge, AppendJournal
<1> HIDE DEF k
<1>6. /\ journal' \in [Mandate -> Seq(JournalEntry)] /\ journal'[m] = k
      /\ \A o \in Mandate : o # m => journal'[o] = journal[o]
  BY <1>1, <1>4, <1>5
<1>7. /\ sweep' \in SweepState /\ sweep'.phase = "persist" /\ sweep'.snap = sweep.snap
      /\ sweep'.cur = m /\ sweep'.cache = sweep.cache
  BY <1>1, <1>2 DEF SweepState
<1>8. KeeperTypes'
  BY <1>1, <1>2, <1>6, <1>7, Types, TypeParts
<1>9. Charging'
  BY <1>3, <1>7 DEF Charging
<1>10. ASSUME NEW o \in Mandate, o # m PROVE Follows(o)' /\ Seen(o)' /\ Complete(o)'
  <2>1. /\ Follows(o) /\ Seen(o) /\ Complete(o) /\ journal'[o] = journal[o]
        /\ UNCHANGED <<chain, tracks, saved, base, storeOk>> /\ sweep'.snap = sweep.snap
    BY <1>1, <1>2, <1>6, <1>7, <1>10
  <2>2. Follows(o)'
    BY <2>1 DEF Follows
  <2>3. Seen(o)'
    BY <2>1 DEF Seen, Read
  <2>4. Complete(o)'
    <3>1. /\ ~InCharge(o, {"charged"}) /\ ~InCharge(o, {"charged"})'
          /\ ~InCharge(o, {"submit", "charged"})'
      BY <1>2, <1>7, <1>10 DEF InCharge
    <3> QED BY <2>1, <3>1 DEF Complete
  <2> QED BY <2>2, <2>3, <2>4
<1>11. Follows(m)' /\ Seen(m)' /\ Complete(m)'
  <2>1. Follows(m)'
    BY <1>1, <1>2, <1>3, <1>4, <1>6 DEF Follows
  <2>2. Seen(m)'
    BY <1>3, <1>7 DEF Seen, Read
  <2>3. Complete(m)'
    <3> SUFFICES ASSUME base[m] = 0, storeOk PROVE Complete(m)'
      BY <1>2 DEF Complete
    <3> PICK t, s, x : t = tracks[m].count /\ s = saved[m].count /\ x = Told(j)
      OBVIOUS
    <3>1. s <= x /\ t <= x + 1 /\ n <= x + 1
      BY <1>1, <1>2 DEF Complete, InCharge
    <3>2. s \in Int /\ t \in Int /\ x \in Nat /\ n \in Nat
      <4>1. t \in NoCount..Budget /\ s \in NoCount..Budget
        BY <1>1, Counters
      <4> QED BY <1>3, <4>1, Constants DEF Sound, NoCount
    <3>3. s <= x + 1 /\ t <= x + 1 + 0
      BY <3>1, <3>2
    <3>4. ~InCharge(m, {"charged"})' /\ ~InCharge(m, {"submit", "charged"})'
      BY <1>7 DEF InCharge
    <3> QED BY <1>2, <1>4, <1>6, <3>1, <3>3, <3>4 DEF Complete
  <2> QED BY <2>1, <2>2, <2>3
<1>12. RaceInv'
  <2>1. ASSUME ~raced', NEW o \in Mandate PROVE Stands(o)'
    <3>1. Stands(o) /\ UNCHANGED chain /\ sweep'.snap = sweep.snap
      BY <1>1, <1>2, <1>7, <2>1 DEF RaceInv
    <3> QED BY <3>1 DEF Stands, Read
  <2>2. ~raced' => sweep'.cache <= bal'
    BY <1>1, <1>2, <1>7 DEF RaceInv
  <2> QED BY <1>7, <2>1, <2>2 DEF RaceInv
<1> QED BY <1>8, <1>9, <1>10, <1>11, <1>12 DEF KeeperInv, JournalInv

-----------------------------------------------------------------------------
(* The invariant.                                                          *)

LEMMA KeeperInit == Init => KeeperInv
<1> SUFFICES ASSUME Init PROVE KeeperInv
  OBVIOUS
<1>1. PICK h \in 0..Interval, q \in 0..1 :
          chain = [m \in Mandate |-> [seq |-> q, status |-> "active", wait |-> 0,
                                      trial |-> h, expired |-> FALSE]]
  BY DEF Init
<1>2. /\ late = {} /\ bal = Funds /\ sweep = Rest /\ raced = FALSE /\ storeOk = TRUE
      /\ tracks = [m \in Mandate |-> NewTrack] /\ saved = [m \in Mandate |-> Untracked]
      /\ journal = [m \in Mandate |-> <<>>] /\ base = [m \in Mandate |-> NoCount]
  BY DEF Init
<1> DEFINE c == [seq |-> q, status |-> "active", wait |-> 0, trial |-> h, expired |-> FALSE]
<1>3. c \in MandateState /\ c.seq = q /\ q \in Nat /\ q \in 0..Budget
  <2>1. q \in 0..Budget /\ 0 \in 0..Interval /\ q \in Nat
    BY Constants
  <2> QED BY <2>1 DEF MandateState
<1>4. chain = [m \in Mandate |-> c]
  BY <1>1
<1> HIDE DEF c
<1>5. /\ <<>> \in Seq(JournalEntry) /\ NoCount \in NoCount..Budget
      /\ bal \in Nat
  BY <1>2, Constants DEF NoCount
<1>6. KeeperTypes
  <2>1. /\ chain \in [Mandate -> MandateState]
        /\ tracks \in [Mandate -> MandateTrack \cup {Untracked}]
        /\ saved \in [Mandate -> MandateTrack \cup {Untracked}]
        /\ journal \in [Mandate -> Seq(JournalEntry)]
        /\ base \in [Mandate -> NoCount..Budget]
    BY <1>2, <1>3, <1>4, <1>5, NewTracks
  <2>2. sweep \in SweepState /\ late \subseteq Mandate /\ raced \in BOOLEAN /\ storeOk \in BOOLEAN
    BY <1>2, Resting
  <2>3. /\ sweep.phase \in {"down", "rest", "visit", "submit", "charged", "persist"}
        /\ DOMAIN sweep.snap \subseteq Mandate /\ sweep.cur \in Mandate
        /\ \A m \in DOMAIN sweep.snap : sweep.snap[m] \in MandateState \cup {Unreadable}
    BY <1>2, Resting
  <2>4. TypeOK
    BY <1>5, <2>1, <2>2, <2>3 DEF TypeOK
  <2> QED BY <2>1, <2>2, <2>4 DEF KeeperTypes
<1>7. /\ sweep.phase = "rest" /\ DOMAIN sweep.snap = {} /\ sweep.cache = Unread
  BY <1>2, Resting
<1>8. ASSUME NEW m \in Mandate
      PROVE  Follows(m) /\ Seen(m) /\ Complete(m) /\ Stands(m)
  <2>1. /\ journal[m] = <<>> /\ chain[m].seq = q /\ base[m] = -1
        /\ tracks[m].count = -1 /\ saved[m].count = -1
    BY <1>2, <1>3, <1>4, NewTracks DEF NoCount
  <2>2. Follows(m)
    <3>1. 0 <= q /\ -1 <= q
      BY <1>3
    <3> QED BY <2>1, <3>1, EmptyJournal DEF Follows
  <2> QED BY <1>7, <2>1, <2>2 DEF Seen, Read, Complete, Stands
<1>9. sweep.cache <= bal
  BY <1>5, <1>7 DEF Unread
<1> QED BY <1>6, <1>7, <1>8, <1>9 DEF KeeperInv, JournalInv, Charging, RaceInv

LEMMA KeeperStep == KeeperInv /\ [Next]_vars => KeeperInv'
<1> SUFFICES ASSUME KeeperInv, [Next]_vars PROVE KeeperInv'
  OBVIOUS
<1>1. CASE Start \/ Stop \/ Crash
  BY <1>1, StartStops
<1>2. CASE BatchRead
  BY <1>2, BatchStep
<1>3. CASE Elapse
  BY <1>3, ElapseStep
<1>4. ASSUME NEW m \in Mandate, Tick(m) PROVE KeeperInv'
  BY <1>4, SkipSteps, VisitSteps, LandsStep, JournalStep, PersistStep DEF Tick
<1>5. ASSUME NEW m \in Mandate, Fault(m) PROVE KeeperInv'
  BY <1>5, OthersMove, AppendThrowsStep, VisitSteps, LostStep, SkipSteps DEF Fault
<1>6. ASSUME NEW m \in Moving, World(m) PROVE KeeperInv'
  <2>1. m \in Mandate
    BY KeeperAssumption DEF KeeperAssumption
  <2> QED BY <1>6, <2>1, OthersMove, WatchMoves DEF World
<1>7. CASE EndSweep \/ TopUp \/ Withdraw
  <2>1. PICK m : m \in Mandate
    BY Constants
  <2> QED BY <1>7, <2>1, SkipSteps, OthersMove
<1>8. CASE UNCHANGED vars
  <2>1. UNCHANGED <<chain, late, bal, tracks, sweep, saved, journal, base, raced, storeOk>>
    BY <1>8 DEF vars
  <2> QED BY <2>1 DEF KeeperInv, JournalInv, RaceInv, KeeperTypes, TypeOK, Charging, Follows, Seen,
                      Complete, Stands, Read, InCharge, Chargeable
<1> QED BY <1>1, <1>2, <1>3, <1>4, <1>5, <1>6, <1>7, <1>8 DEF Next

\* The journals, counters and rows follow the chain, and the tick what it read.
THEOREM KeeperInvariant == Spec => []KeeperInv
BY KeeperInit, KeeperStep, PTL DEF Spec

-----------------------------------------------------------------------------
(* What follows for reconcile and for the tick.                            *)

\* What reconcile counts in a journal is what the journal tells.
LEMMA ReconcileReads ==
    ASSUME KeeperTypes, NEW m \in Mandate
    PROVE  /\ JournaledCount(m) = Cardinality(ChargedEntries(journal[m]))
           /\ JournaledCount(m) \in Nat
           /\ ObservedCount(m) = Walked(journal[m]).observed
<1> PICK j : j = journal[m]
  OBVIOUS
<1>1. j \in Seq(JournalEntry)
  BY Types
<1>2. [kind |-> "charged", seq |-> 1] \in JournalEntry
  BY Constants DEF JournalEntry
<1>3. Cardinality(ChargedEntries(j)) \in Nat
  BY ONLY <1>1, <1>2, OneEntryMore
<1>4. JournaledCount(m) = Cardinality(ChargedEntries(j))
  BY DEF JournaledCount, ChargedEntries
<1> QED BY <1>3, <1>4 DEF ObservedCount, Walked

LEMMA InvIsTrue == KeeperInv => JournalIsTrue
<1> SUFFICES ASSUME KeeperInv PROVE JournalIsTrue
  OBVIOUS
<1>1. KeeperTypes /\ \A m \in Mandate : Follows(m) /\ Complete(m)
  BY DEF KeeperInv, JournalInv
<1>2. CountNeverAhead
  BY <1>1 DEF CountNeverAhead, Follows
<1>3. ASSUME NEW m \in Mandate PROVE CountDrift(m) >= 0
  <2> PICK x, y, r, c : x = JournaledCount(m) /\ y = ObservedCount(m)
                        /\ r = Reach(journal[m]) /\ c = chain[m].seq
    OBVIOUS
  <2>1. x \in Nat /\ y \in Nat /\ r \in Nat /\ x + y <= r /\ r <= c
    BY <1>1, ReconcileReads DEF Follows, Sound, Told
  <2>2. c \in Nat
    <3>1. c \in 0..Budget
      BY <1>1, Counters
    <3> QED BY <3>1, Constants
  <2>3. c - x - y >= 0
    BY <2>1, <2>2
  <2> QED BY <2>3 DEF CountDrift
<1>4. ASSUME NEW m \in Mandate, base[m] = 0, storeOk, sweep.phase \notin {"charged", "persist"}
      PROVE  JournaledCount(m) + ObservedCount(m) >= tracks[m].count
  <2> PICK x, y, t : x = JournaledCount(m) /\ y = ObservedCount(m) /\ t = tracks[m].count
    OBVIOUS
  <2>1. x \in Nat /\ y \in Nat /\ Told(journal[m]) = x + y /\ t \in Int
    <3>1. t \in NoCount..Budget
      BY <1>1, Counters
    <3> QED BY <1>1, <3>1, ReconcileReads, Constants DEF Follows, Sound, Told, NoCount
  <2>2. t <= Told(journal[m]) + 0
    BY <1>1, <1>4 DEF Complete, InCharge
  <2>3. x + y >= t
    BY <2>1, <2>2
  <2> QED BY <2>3
<1>5. ChargeSeqsAreUnique
  <2> SUFFICES ASSUME NEW m \in Mandate, NEW i \in DOMAIN journal[m], NEW h \in DOMAIN journal[m],
                      journal[m][i].kind = "charged", journal[m][h].kind = "charged",
                      journal[m][i].seq = journal[m][h].seq
               PROVE  i = h
    BY DEF ChargeSeqsAreUnique
  <2>1. Sound(journal[m])
    BY <1>1 DEF Follows
  <2> QED BY <2>1 DEF Sound, ChargedEntries
<1> QED BY <1>1, <1>2, <1>3, <1>4, <1>5
       DEF JournalIsTrue, NothingCountedTwice, CountedIsJournaled, KeeperTypes

\* The journal, the keeper's counter and the store tell the chain's story:
\* whoever charges, whatever answers are lost and wherever the keeper crashes,
\* the drift of reconcile.ts is never negative, no charge is journaled twice
\* under one number, and with a store that takes what it is given nothing
\* counted is missing from the journal.
THEOREM JournalsAreTrue == Spec => []JournalIsTrue
BY KeeperInvariant, InvIsTrue, PTL

\* The preflight of keeper.ts submits a charge the chain would refuse only if
\* somebody moved the chain, or an answer was lost, during the same tick.
THEOREM AbortsRace == Spec => []AbortsAreRaces
<1>1. KeeperInv => AbortsAreRaces
  BY DEF KeeperInv, RaceInv, AbortsAreRaces
<1> QED BY <1>1, KeeperInvariant, PTL
=============================================================================
