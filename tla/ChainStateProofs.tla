-------------------------- MODULE ChainStateProofs --------------------------
(***************************************************************************)
(* Proofs about ChainState, for any tree of blocks, any transactions and   *)
(* any number of crashes and write errors: what the databases say of each  *)
(* other and of the block files after a failure, and that the coins are    *)
(* exactly those of the chain they are said to be of.                      *)
(*                                                                         *)
(* In this order: the folds of ConnectBlock and DisconnectBlock as         *)
(* sequences of steps; what a cache shows (see ValidationProofs); what     *)
(* ConnectBlock does to the coins a view shows; that this is what Utxo     *)
(* defines; that DisconnectBlock undoes it; the invariant and the          *)
(* theorems.                                                               *)
(***************************************************************************)
EXTENDS ChainState, SequenceTheorems, WellFoundedInduction, TLAPS

-----------------------------------------------------------------------------
(* Natural numbers.                                                        *)

\* Every nonempty set of natural numbers has a least element.
LEMMA LeastNatural ==
    ASSUME NEW S \in SUBSET Nat, S # {}
    PROVE  \E n \in S : \A m \in S : n <= m
<1> DEFINE R == {ss \in Nat \X Nat : ss[1] < ss[2]}
<1>1. IsWellFoundedOn(R, Nat)
  BY NatLessThanWellFounded DEF OpToRel
<1> HIDE DEF R
<1>2. PICK n \in S : \A m \in S : ~(<<m, n>> \in R)
  BY <1>1, WFMin
<1>3. \A m \in S : ~(m < n)
  BY <1>2 DEF R
<1> QED BY <1>3

\* A set of natural numbers that holds 0 and, below n, the successor of each of its
\* members, holds all numbers up to n.
LEMMA UpTo ==
    ASSUME NEW n \in Nat, NEW P, 0 \in P, \A k \in 0 .. n - 1 : k \in P => k + 1 \in P
    PROVE  0 .. n \subseteq P
<1> DEFINE Bad == {k \in 0 .. n : k \notin P}
<1> SUFFICES ASSUME Bad # {} PROVE FALSE
  OBVIOUS
<1>1. Bad \in SUBSET Nat
  OBVIOUS
<1>2. PICK k \in Bad : \A m \in Bad : k <= m
  BY <1>1, LeastNatural
<1>3. k \in Nat /\ k # 0 /\ k <= n
  BY <1>2
<1>4. k - 1 \in 0 .. n - 1 /\ k - 1 \notin Bad
  BY <1>2, <1>3
<1>5. (k - 1) + 1 \in P
  BY <1>4, <1>3
<1> QED BY <1>2, <1>3, <1>5

-----------------------------------------------------------------------------
(* The folds over transactions and inputs: a fold is the last of a         *)
(* sequence of works in which each comes from the one before.              *)

\* The steps that are folded: k says which, and has the height if there is one.
Apply(k, work, x) ==
    CASE k[1] = "check"   -> CheckOverwrite(work, x)
      [] k[1] = "have"    -> HaveInput(work, x)
      [] k[1] = "spend"   -> Spend(work, x)
      [] k[1] = "update"  -> UpdateCoins(work, x, k[2])
      [] k[1] = "restore" -> ApplyTxInUndo(work, x)
      [] k[1] = "undo"    -> UndoTx(work, x, k[2])

\* The works one after the other.
Works(k, base, s, tr) ==
    /\ DOMAIN tr = 0 .. Len(s)
    /\ tr[0] = base
    /\ \A i \in 1 .. Len(s) : tr[i] = Apply(k, tr[i - 1], s[i])

\* What FoldLeft is defined by: a function on the sets of positions up to n.
Iterates(k, base, s, n, g) ==
    g = [u \in SUBSET (1 .. n) |->
            IF u = {} THEN base ELSE Apply(k, g[u \ {Max(u)}], s[Max(u)])]

\* The greatest of some positions.
LEMMA MaxOf ==
    ASSUME NEW n \in Nat, NEW u \in SUBSET (1 .. n), u # {}
    PROVE  Max(u) \in u /\ \A y \in u : y <= Max(u)
<1> DEFINE D == {n - x : x \in u}
<1>1. \A x \in u : x \in Nat /\ x <= n /\ n - x \in Nat
  OBVIOUS
<1>2. D \in SUBSET Nat /\ D # {}
  BY <1>1
<1>3. PICK d \in D : \A m \in D : d <= m
  BY <1>2, LeastNatural
<1>4. PICK x \in u : d = n - x
  BY <1>3
<1>5. \A y \in u : x >= y
  <2> TAKE y \in u
  <2>1. n - y \in D
    OBVIOUS
  <2>2. n - x <= n - y
    <3> HIDE DEF D
    <3> QED BY <1>3, <1>4, <2>1
  <2>3. x \in Nat /\ y \in Nat
    OBVIOUS
  <2> QED BY <2>2, <2>3
<1>6. Max(u) \in u /\ \A y \in u : Max(u) >= y
  BY <1>4, <1>5 DEF Max
<1>7. \A y \in u : y \in Nat
  BY ONLY <1>1
<1>8. PICK m : m = Max(u)
  OBVIOUS
<1>9. m \in Nat /\ \A y \in u : y \in Nat /\ m >= y
  BY ONLY <1>6, <1>7, <1>8
<1>10. \A y \in u : y <= m
  BY ONLY <1>9
<1> QED BY ONLY <1>6, <1>8, <1>10

\* The function exists.
LEMMA IteratesExists ==
    ASSUME NEW k, NEW base, NEW s, NEW n \in Nat
    PROVE  \E g : Iterates(k, base, s, n, g)
<1> DEFINE P == {m \in 0 .. n : \E g : Iterates(k, base, s, m, g)}
<1>1. 0 \in P
  <2> DEFINE g == [u \in SUBSET (1 .. 0) |-> base]
  <2>1. SUBSET (1 .. 0) = {{}}
    OBVIOUS
  <2>2. g = [u \in SUBSET (1 .. 0) |->
            IF u = {} THEN base ELSE Apply(k, g[u \ {Max(u)}], s[Max(u)])]
    BY <2>1
  <2> HIDE DEF g
  <2>3. Iterates(k, base, s, 0, g)
    BY <2>2 DEF Iterates
  <2> QED BY <2>3
<1>2. ASSUME NEW m \in 0 .. n - 1, m \in P PROVE m + 1 \in P
  <2>1. PICK g : Iterates(k, base, s, m, g)
    BY <1>2
  <2> DEFINE h == [u \in SUBSET (1 .. m + 1) |->
                      IF m + 1 \in u THEN Apply(k, g[u \ {m + 1}], s[m + 1]) ELSE g[u]]
             Val(f, u) == IF u = {} THEN base ELSE Apply(k, f[u \ {Max(u)}], s[Max(u)])
  <2>2. \A u \in SUBSET (1 .. m) : g[u] = Val(g, u)
    BY <2>1 DEF Iterates
  <2>3. \A u \in SUBSET (1 .. m) : h[u] = g[u]
    OBVIOUS
  <2>4. ASSUME NEW u \in SUBSET (1 .. m + 1) PROVE h[u] = Val(h, u)
    <3>1. CASE m + 1 \in u
      <4>1. Max(u) = m + 1
        <5>1. m + 1 \in Nat /\ u # {}
          BY <3>1
        <5>2. Max(u) \in u /\ m + 1 <= Max(u)
          BY <3>1, <5>1, MaxOf
        <5>3. Max(u) \in 1 .. m + 1
          BY <5>2
        <5> QED BY <5>2, <5>3
      <4>2. u \ {m + 1} \in SUBSET (1 .. m)
        OBVIOUS
      <4>3. h[u \ {m + 1}] = g[u \ {m + 1}]
        BY <4>2, <2>3
      <4>4. h[u] = Apply(k, g[u \ {m + 1}], s[m + 1])
        BY <3>1
      <4> HIDE DEF h
      <4> QED BY <3>1, <4>1, <4>3, <4>4
    <3>2. CASE m + 1 \notin u
      <4>1. u \in SUBSET (1 .. m)
        BY <3>2
      <4>2. h[u] = Val(g, u)
        BY <4>1, <2>2, <2>3
      <4>3. u \ {Max(u)} \in SUBSET (1 .. m)
        BY <4>1
      <4>4. h[u \ {Max(u)}] = g[u \ {Max(u)}]
        BY <4>3, <2>3
      <4> HIDE DEF h
      <4> QED BY <4>2, <4>4
    <3> QED BY <3>1, <3>2
  <2>5. h = [u \in SUBSET (1 .. m + 1) |-> Val(h, u)]
    <3> DEFINE v == [u \in SUBSET (1 .. m + 1) |-> Val(h, u)]
    <3>1. \A u \in SUBSET (1 .. m + 1) : h[u] = v[u]
      <4> HIDE DEF h
      <4> QED BY <2>4
    <3>2. DOMAIN h = SUBSET (1 .. m + 1) /\ h = [u \in DOMAIN h |-> h[u]]
      OBVIOUS
    <3>3. DOMAIN v = SUBSET (1 .. m + 1) /\ v = [u \in DOMAIN v |-> v[u]]
      OBVIOUS
    <3> HIDE DEF h, v
    <3>4. h = v
      BY <3>1, <3>2, <3>3
    <3> QED BY <3>4 DEF v
  <2> HIDE DEF h
  <2>6. Iterates(k, base, s, m + 1, h)
    BY <2>5 DEF Iterates
  <2> QED BY <2>6
<1>3. n \in P
  <2> HIDE DEF P
  <2>1. 0 .. n \subseteq P
    BY <1>1, <1>2, UpTo
  <2> QED BY <2>1
<1> QED BY <1>3

\* Its values on the first positions are the works.
LEMMA IteratesWorks ==
    ASSUME NEW k, NEW base, NEW s, Len(s) \in Nat, NEW g, Iterates(k, base, s, Len(s), g)
    PROVE  Works(k, base, s, [i \in 0 .. Len(s) |-> g[1 .. i]])
<1> DEFINE n == Len(s)
           tr == [i \in 0 .. n |-> g[1 .. i]]
<1>1. \A u \in SUBSET (1 .. n) :
        g[u] = IF u = {} THEN base ELSE Apply(k, g[u \ {Max(u)}], s[Max(u)])
  BY DEF Iterates
<1>2. tr[0] = base
  <2>1. 1 .. 0 = {}
    OBVIOUS
  <2>2. g[{}] = base
    BY <1>1
  <2> QED BY <2>1, <2>2
<1>3. ASSUME NEW i \in 1 .. n PROVE tr[i] = Apply(k, tr[i - 1], s[i])
  <2>1. 1 .. i \in SUBSET (1 .. n) /\ i \in 1 .. i /\ 1 .. i # {}
    OBVIOUS
  <2>2. Max(1 .. i) = i
    <3>1. Max(1 .. i) \in 1 .. i /\ i <= Max(1 .. i)
      BY <2>1, MaxOf
    <3> QED BY <3>1
  <2>3. (1 .. i) \ {i} = 1 .. i - 1
    OBVIOUS
  <2>4. g[1 .. i] = Apply(k, g[(1 .. i) \ {Max(1 .. i)}], s[Max(1 .. i)])
    BY <1>1, <2>1
  <2>5. g[1 .. i] = Apply(k, g[1 .. i - 1], s[i])
    BY <2>2, <2>3, <2>4
  <2> QED BY <2>5
<1>4. DOMAIN tr = 0 .. n
  OBVIOUS
<1> HIDE DEF tr
<1>5. Works(k, base, s, tr)
  BY <1>2, <1>3, <1>4 DEF Works
<1> QED BY <1>5 DEF tr

\* The inputs of a transaction are spent one after the other.
LEMMA SpendFold ==
    ASSUME NEW base, NEW s, Len(s) \in Nat, DOMAIN s = 1 .. Len(s)
    PROVE  \E tr : Works(<<"spend", 0>>, base, s, tr) /\ FoldLeft(Spend, base, s) = tr[Len(s)]
<1> DEFINE Q(g) == g = [u \in SUBSET (DOMAIN s) |->
                           IF u = {} THEN base ELSE Spend(g[u \ {Max(u)}], s[Max(u)])]
           it == CHOOSE g : Q(g)
<1>1. FoldLeft(Spend, base, s) = it[DOMAIN s]
  BY DEF FoldLeft, MapThenFoldSet
<1>2. \A w, x : Apply(<<"spend", 0>>, w, x) = Spend(w, x)
  BY DEF Apply
<1>3. \A g : Iterates(<<"spend", 0>>, base, s, Len(s), g) <=> Q(g)
  BY <1>2 DEF Iterates
<1>4. Q(it)
  <2>1. PICK g : Iterates(<<"spend", 0>>, base, s, Len(s), g)
    BY IteratesExists
  <2>2. Q(g)
    BY <1>3, <2>1
  <2> HIDE DEF Q
  <2> QED BY <2>2
<1> HIDE DEF it, Q
<1>5. Works(<<"spend", 0>>, base, s, [i \in 0 .. Len(s) |-> it[1 .. i]])
  BY <1>3, <1>4, IteratesWorks
<1> DEFINE tr == [i \in 0 .. Len(s) |-> it[1 .. i]]
<1>6. tr[Len(s)] = it[DOMAIN s]
  OBVIOUS
<1> HIDE DEF tr
<1> QED BY <1>1, <1>5, <1>6 DEF tr

\* They are looked up one after the other.
LEMMA HaveFold ==
    ASSUME NEW base, NEW s, Len(s) \in Nat, DOMAIN s = 1 .. Len(s)
    PROVE  \E tr : Works(<<"have", 0>>, base, s, tr) /\ FoldLeft(HaveInput, base, s) = tr[Len(s)]
<1> DEFINE Q(g) == g = [u \in SUBSET (DOMAIN s) |->
                           IF u = {} THEN base ELSE HaveInput(g[u \ {Max(u)}], s[Max(u)])]
           it == CHOOSE g : Q(g)
<1>1. FoldLeft(HaveInput, base, s) = it[DOMAIN s]
  BY DEF FoldLeft, MapThenFoldSet
<1>2. \A w, x : Apply(<<"have", 0>>, w, x) = HaveInput(w, x)
  BY DEF Apply
<1>3. \A g : Iterates(<<"have", 0>>, base, s, Len(s), g) <=> Q(g)
  BY <1>2 DEF Iterates
<1>4. Q(it)
  <2>1. PICK g : Iterates(<<"have", 0>>, base, s, Len(s), g)
    BY IteratesExists
  <2>2. Q(g)
    BY <1>3, <2>1
  <2> HIDE DEF Q
  <2> QED BY <2>2
<1> HIDE DEF it, Q
<1>5. Works(<<"have", 0>>, base, s, [i \in 0 .. Len(s) |-> it[1 .. i]])
  BY <1>3, <1>4, IteratesWorks
<1> DEFINE tr == [i \in 0 .. Len(s) |-> it[1 .. i]]
<1>6. tr[Len(s)] = it[DOMAIN s]
  OBVIOUS
<1> HIDE DEF tr
<1> QED BY <1>1, <1>5, <1>6 DEF tr

\* The txids of a block are looked up one after the other.
LEMMA CheckFold ==
    ASSUME NEW base, NEW s, Len(s) \in Nat, DOMAIN s = 1 .. Len(s)
    PROVE  \E tr : /\ Works(<<"check", 0>>, base, s, tr)
                   /\ FoldLeft(CheckOverwrite, base, s) = tr[Len(s)]
<1> DEFINE Q(g) == g = [u \in SUBSET (DOMAIN s) |->
                           IF u = {} THEN base ELSE CheckOverwrite(g[u \ {Max(u)}], s[Max(u)])]
           it == CHOOSE g : Q(g)
<1>1. FoldLeft(CheckOverwrite, base, s) = it[DOMAIN s]
  BY DEF FoldLeft, MapThenFoldSet
<1>2. \A w, x : Apply(<<"check", 0>>, w, x) = CheckOverwrite(w, x)
  BY DEF Apply
<1>3. \A g : Iterates(<<"check", 0>>, base, s, Len(s), g) <=> Q(g)
  BY <1>2 DEF Iterates
<1>4. Q(it)
  <2>1. PICK g : Iterates(<<"check", 0>>, base, s, Len(s), g)
    BY IteratesExists
  <2>2. Q(g)
    BY <1>3, <2>1
  <2> HIDE DEF Q
  <2> QED BY <2>2
<1> HIDE DEF it, Q
<1>5. Works(<<"check", 0>>, base, s, [i \in 0 .. Len(s) |-> it[1 .. i]])
  BY <1>3, <1>4, IteratesWorks
<1> DEFINE tr == [i \in 0 .. Len(s) |-> it[1 .. i]]
<1>6. tr[Len(s)] = it[DOMAIN s]
  OBVIOUS
<1> HIDE DEF tr
<1> QED BY <1>1, <1>5, <1>6 DEF tr

\* Inputs are restored one after the other.
LEMMA RestoreFold ==
    ASSUME NEW base, NEW s, Len(s) \in Nat, DOMAIN s = 1 .. Len(s)
    PROVE  \E tr : /\ Works(<<"restore", 0>>, base, s, tr)
                   /\ FoldLeft(ApplyTxInUndo, base, s) = tr[Len(s)]
<1> DEFINE Q(g) == g = [u \in SUBSET (DOMAIN s) |->
                           IF u = {} THEN base ELSE ApplyTxInUndo(g[u \ {Max(u)}], s[Max(u)])]
           it == CHOOSE g : Q(g)
<1>1. FoldLeft(ApplyTxInUndo, base, s) = it[DOMAIN s]
  BY DEF FoldLeft, MapThenFoldSet
<1>2. \A w, x : Apply(<<"restore", 0>>, w, x) = ApplyTxInUndo(w, x)
  BY DEF Apply
<1>3. \A g : Iterates(<<"restore", 0>>, base, s, Len(s), g) <=> Q(g)
  BY <1>2 DEF Iterates
<1>4. Q(it)
  <2>1. PICK g : Iterates(<<"restore", 0>>, base, s, Len(s), g)
    BY IteratesExists
  <2>2. Q(g)
    BY <1>3, <2>1
  <2> HIDE DEF Q
  <2> QED BY <2>2
<1> HIDE DEF it, Q
<1>5. Works(<<"restore", 0>>, base, s, [i \in 0 .. Len(s) |-> it[1 .. i]])
  BY <1>3, <1>4, IteratesWorks
<1> DEFINE tr == [i \in 0 .. Len(s) |-> it[1 .. i]]
<1>6. tr[Len(s)] = it[DOMAIN s]
  OBVIOUS
<1> HIDE DEF tr
<1> QED BY <1>1, <1>5, <1>6 DEF tr

\* The transactions of a block are applied one after the other.
LEMMA ConnectFold ==
    ASSUME NEW b, NEW base, Len(BlockTxs[b]) \in Nat, DOMAIN BlockTxs[b] = 1 .. Len(BlockTxs[b]),
           base = FoldLeft(CheckOverwrite,
                           [view |-> EmptyCache, tip |-> tip, undo |-> <<>>, ok |-> TRUE],
                           BlockTxs[b])
    PROVE  \E tr : /\ Works(<<"update", Height[b]>>, base, BlockTxs[b], tr)
                   /\ ConnectBlock(b) = tr[Len(BlockTxs[b])]
<1> DEFINE s == BlockTxs[b]
           h == Height[b]
           Q(g) == g = [u \in SUBSET (DOMAIN s) |->
                           IF u = {} THEN base ELSE UpdateCoins(g[u \ {Max(u)}], s[Max(u)], h)]
           it == CHOOSE g : Q(g)
<1>1. ConnectBlock(b) = it[DOMAIN s]
  BY DEF ConnectBlock, FoldLeft, MapThenFoldSet
<1>2. \A w, x : Apply(<<"update", h>>, w, x) = UpdateCoins(w, x, h)
  BY DEF Apply
<1>3. \A g : Iterates(<<"update", h>>, base, s, Len(s), g) <=> Q(g)
  BY <1>2 DEF Iterates
<1>4. Q(it)
  <2>1. PICK g : Iterates(<<"update", h>>, base, s, Len(s), g)
    BY IteratesExists
  <2>2. Q(g)
    BY <1>3, <2>1
  <2> HIDE DEF Q
  <2> QED BY <2>2
<1> HIDE DEF it, Q
<1>5. Works(<<"update", h>>, base, s, [i \in 0 .. Len(s) |-> it[1 .. i]])
  BY <1>3, <1>4, IteratesWorks
<1> DEFINE tr == [i \in 0 .. Len(s) |-> it[1 .. i]]
<1>6. tr[Len(s)] = it[DOMAIN s]
  OBVIOUS
<1> HIDE DEF tr
<1> QED BY <1>1, <1>5, <1>6 DEF tr

\* They are undone one after the other.
LEMMA DisconnectFold ==
    ASSUME NEW b, NEW base, Len(Reverse(BlockTxs[b])) \in Nat,
           DOMAIN Reverse(BlockTxs[b]) = 1 .. Len(Reverse(BlockTxs[b])),
           base = [view |-> EmptyCache, tip |-> tip, undo |-> undo[b][1], ok |-> TRUE]
    PROVE  \E tr : /\ Works(<<"undo", Height[b]>>, base, Reverse(BlockTxs[b]), tr)
                   /\ DisconnectBlock(b) = tr[Len(Reverse(BlockTxs[b]))]
<1> DEFINE s == Reverse(BlockTxs[b])
           h == Height[b]
           Q(g) == g = [u \in SUBSET (DOMAIN s) |->
                           IF u = {} THEN base ELSE UndoTx(g[u \ {Max(u)}], s[Max(u)], h)]
           it == CHOOSE g : Q(g)
<1>1. DisconnectBlock(b) = it[DOMAIN s]
  BY DEF DisconnectBlock, FoldLeft, MapThenFoldSet
<1>2. \A w, x : Apply(<<"undo", h>>, w, x) = UndoTx(w, x, h)
  BY DEF Apply
<1>3. \A g : Iterates(<<"undo", h>>, base, s, Len(s), g) <=> Q(g)
  BY <1>2 DEF Iterates
<1>4. Q(it)
  <2>1. PICK g : Iterates(<<"undo", h>>, base, s, Len(s), g)
    BY IteratesExists
  <2>2. Q(g)
    BY <1>3, <2>1
  <2> HIDE DEF Q
  <2> QED BY <2>2
<1> HIDE DEF it, Q
<1>5. Works(<<"undo", h>>, base, s, [i \in 0 .. Len(s) |-> it[1 .. i]])
  BY <1>3, <1>4, IteratesWorks
<1> DEFINE tr == [i \in 0 .. Len(s) |-> it[1 .. i]]
<1>6. tr[Len(s)] = it[DOMAIN s]
  OBVIOUS
<1> HIDE DEF tr
<1> QED BY <1>1, <1>5, <1>6 DEF tr

-----------------------------------------------------------------------------
(* What a cache shows of the coins below it.                               *)

\* The coins of every transaction.
CoinMaps == [Txids -> Coins]

\* A cache is a function from some of the txids to entries.
LEMMA CacheShape ==
    ASSUME NEW cache
    PROVE  cache \in Caches <=> /\ DOMAIN cache \subseteq Txids
                                /\ cache \in [DOMAIN cache -> CacheEntry]
<1>1. ASSUME cache \in Caches
      PROVE  DOMAIN cache \subseteq Txids /\ cache \in [DOMAIN cache -> CacheEntry]
  <2>1. PICK D \in SUBSET Txids : cache \in [D -> CacheEntry]
    BY <1>1 DEF Caches
  <2>2. DOMAIN cache = D
    BY <2>1
  <2> QED
    BY <2>1, <2>2
<1>2. ASSUME DOMAIN cache \subseteq Txids, cache \in [DOMAIN cache -> CacheEntry]
      PROVE  cache \in Caches
  BY <1>2 DEF Caches
<1> QED
  BY <1>1, <1>2

\* The cache without entries is a cache.
LEMMA EmptyCacheShape == EmptyCache \in Caches /\ DOMAIN EmptyCache = {}
<1>1. DOMAIN EmptyCache = {}
  BY DEF EmptyCache
<1>2. EmptyCache \in [{} -> CacheEntry]
  BY DEF EmptyCache
<1> QED
  BY <1>1, <1>2, CacheShape

\* Inserting and removing one entry.
LEMMA WithShape ==
    ASSUME NEW cache \in Caches, NEW t \in Txids, NEW entry \in CacheEntry
    PROVE  /\ With(cache, t, entry) \in Caches
           /\ DOMAIN With(cache, t, entry) = DOMAIN cache \cup {t}
           /\ With(cache, t, entry)[t] = entry
           /\ \A x \in DOMAIN cache \ {t} : With(cache, t, entry)[x] = cache[x]
<1> DEFINE W == With(cache, t, entry)
<1>1. DOMAIN W = DOMAIN cache \cup {t}
  BY DEF With
<1>2. W[t] = entry /\ \A x \in DOMAIN cache \ {t} : W[x] = cache[x]
  BY DEF With
<1>3. DOMAIN cache \subseteq Txids /\ cache \in [DOMAIN cache -> CacheEntry]
  BY CacheShape
<1>4. W \in [DOMAIN W -> CacheEntry] /\ DOMAIN W \subseteq Txids
  BY <1>3 DEF With
<1>5. W \in Caches
  BY <1>4, CacheShape
<1> QED
  BY <1>1, <1>2, <1>5

\* Removing an entry leaves a cache with the other entries.
LEMMA WithoutShape ==
    ASSUME NEW cache \in Caches, NEW t
    PROVE  /\ Without(cache, t) \in Caches
           /\ DOMAIN Without(cache, t) = DOMAIN cache \ {t}
           /\ \A x \in DOMAIN cache \ {t} : Without(cache, t)[x] = cache[x]
<1> DEFINE W == Without(cache, t)
<1>1. DOMAIN W = DOMAIN cache \ {t} /\ \A x \in DOMAIN cache \ {t} : W[x] = cache[x]
  BY DEF Without
<1>2. DOMAIN cache \subseteq Txids /\ cache \in [DOMAIN cache -> CacheEntry]
  BY CacheShape
<1>3. W \in [DOMAIN W -> CacheEntry] /\ DOMAIN W \subseteq Txids
  BY <1>2 DEF Without
<1>4. W \in Caches
  BY <1>3, CacheShape
<1> QED
  BY <1>1, <1>4

\* What is seen through a cache gives coins to every transaction.
LEMMA SeenType ==
    ASSUME NEW cache \in Caches, NEW base \in CoinMaps
    PROVE  Seen(cache, base) \in CoinMaps
BY CacheShape DEF Seen, CoinMaps, CacheEntry

\* Two caches show the same if they do so for every transaction.
LEMMA SeenEqual ==
    ASSUME NEW c1, NEW b1, NEW c2, NEW b2,
           \A t \in Txids : Seen(c1, b1)[t] = Seen(c2, b2)[t]
    PROVE  Seen(c1, b1) = Seen(c2, b2)
BY DEF Seen

-----------------------------------------------------------------------------
(* The operations on one cache.                                            *)

\* An empty cache is transparent.
LEMMA EmptyCacheSeen ==
    ASSUME NEW base \in CoinMaps
    PROVE  FlagsTrue(EmptyCache, base) /\ Seen(EmptyCache, base) = base
<1>1. FlagsTrue(EmptyCache, base)
  BY EmptyCacheShape DEF FlagsTrue
<1>2. \A t \in Txids : Seen(EmptyCache, base)[t] = base[t]
  BY EmptyCacheShape DEF Seen
<1>3. Seen(EmptyCache, base) \in CoinMaps
  BY SeenType, EmptyCacheShape
<1>4. Seen(EmptyCache, base) = base
  BY <1>2, <1>3 DEF CoinMaps
<1> QED
  BY <1>1, <1>4

\* FetchCoins changes nothing a reader sees.
LEMMA FetchedSame ==
    ASSUME NEW cache \in Caches, NEW base \in CoinMaps, NEW has, NEW t \in Txids,
           FlagsTrue(cache, base)
    PROVE  /\ Fetched(cache, base, has, t) \in Caches
           /\ FlagsTrue(Fetched(cache, base, has, t), base)
           /\ Seen(Fetched(cache, base, has, t), base) = Seen(cache, base)
<1> DEFINE entry == [coins |-> base[t], flags |-> IF base[t] = {} THEN {"FRESH"} ELSE {}]
<1>1. CASE t \in DOMAIN cache \/ t \notin has
  BY <1>1 DEF Fetched
<1>2. CASE ~(t \in DOMAIN cache \/ t \notin has)
  <2> DEFINE F == With(cache, t, entry)
  <2>1. Fetched(cache, base, has, t) = F
    BY <1>2 DEF Fetched
  <2>2. entry \in CacheEntry
    BY DEF CacheEntry, Flags, CoinMaps
  <2> HIDE DEF entry
  <2>3. F \in Caches /\ DOMAIN F = DOMAIN cache \cup {t} /\ F[t] = entry
        /\ \A x \in DOMAIN cache \ {t} : F[x] = cache[x]
    BY <2>2, WithShape
  <2> HIDE DEF F
  <2>4. FlagsTrue(F, base)
    BY <2>3 DEF FlagsTrue, entry
  <2>5. \A x \in Txids : Seen(F, base)[x] = Seen(cache, base)[x]
    BY <1>2, <2>3 DEF Seen, entry
  <2> QED
    BY <2>1, <2>3, <2>4, <2>5, SeenEqual
<1> QED
  BY <1>1, <1>2

\* The destruction of a modifier for t: t is seen to have the new coins.
LEMMA ClosedSeen ==
    ASSUME NEW cache \in Caches, NEW base \in CoinMaps, NEW t \in Txids,
           NEW c \in Coins, NEW flags \in SUBSET Flags,
           FlagsTrue(cache, base), "DIRTY" \in flags, "FRESH" \in flags => base[t] = {}
    PROVE  LET C == Closed(cache, t, [coins |-> c, flags |-> flags])
           IN  /\ C \in Caches
               /\ FlagsTrue(C, base)
               /\ Seen(C, base) = [Seen(cache, base) EXCEPT ![t] = c]
<1> DEFINE entry == [coins |-> c, flags |-> flags]
           C == Closed(cache, t, entry)
<1>1. entry \in CacheEntry
  BY DEF CacheEntry
<1>2. CASE "FRESH" \in flags /\ c = {}
  <2>1. C = Without(cache, t)
    BY <1>2 DEF Closed
  <2> HIDE DEF C
  <2>2. C \in Caches /\ DOMAIN C = DOMAIN cache \ {t}
        /\ \A x \in DOMAIN cache \ {t} : C[x] = cache[x]
    BY <2>1, WithoutShape
  <2>3. FlagsTrue(C, base)
    BY <2>2 DEF FlagsTrue
  <2>4. \A x \in Txids : Seen(C, base)[x] = [Seen(cache, base) EXCEPT ![t] = c][x]
    BY <1>2, <2>2 DEF Seen
  <2>5. Seen(C, base) = [Seen(cache, base) EXCEPT ![t] = c]
    BY <2>4 DEF Seen
  <2> QED
    BY <2>2, <2>3, <2>5 DEF C
<1>3. CASE ~("FRESH" \in flags /\ c = {})
  <2>1. C = With(cache, t, entry)
    BY <1>3 DEF Closed
  <2>2. C \in Caches /\ DOMAIN C = DOMAIN cache \cup {t} /\ C[t] = entry
        /\ \A x \in DOMAIN cache \ {t} : C[x] = cache[x]
    BY <1>1, <2>1, WithShape
  <2> HIDE DEF C
  <2>3. FlagsTrue(C, base)
    BY <2>2 DEF FlagsTrue
  <2>4. \A x \in Txids : Seen(C, base)[x] = [Seen(cache, base) EXCEPT ![t] = c][x]
    BY <2>2 DEF Seen
  <2>5. Seen(C, base) = [Seen(cache, base) EXCEPT ![t] = c]
    BY <2>4 DEF Seen
  <2> QED
    BY <2>2, <2>3, <2>5 DEF C
<1> QED
  BY <1>2, <1>3

\* ModifyCoins: the transaction is seen to have the new coins, the others theirs.
LEMMA ModifiedSeen ==
    ASSUME NEW cache \in Caches, NEW base \in CoinMaps, NEW t \in Txids,
           NEW c \in Coins, FlagsTrue(cache, base)
    PROVE  /\ Modified(cache, base, t, c) \in Caches
           /\ FlagsTrue(Modified(cache, base, t, c), base)
           /\ Seen(Modified(cache, base, t, c), base) = [Seen(cache, base) EXCEPT ![t] = c]
<1> DEFINE flags == ModifiedFlags(cache, base, t)
<1>1. flags \in SUBSET Flags /\ "DIRTY" \in flags
  BY CacheShape DEF ModifiedFlags, Flags, CacheEntry
<1>2. "FRESH" \in flags => base[t] = {}
  BY DEF ModifiedFlags, FlagsTrue
<1> HIDE DEF flags
<1> QED
  BY <1>1, <1>2, ClosedSeen DEF Modified, flags

\* ModifyNewCoins does the same if the layer below has nothing unspent.
LEMMA ModifiedNewSeen ==
    ASSUME NEW cache \in Caches, NEW base \in CoinMaps, NEW t \in Txids,
           NEW c \in Coins, FlagsTrue(cache, base), base[t] = {}
    PROVE  /\ ModifiedNew(cache, t, c) \in Caches
           /\ FlagsTrue(ModifiedNew(cache, t, c), base)
           /\ Seen(ModifiedNew(cache, t, c), base) = [Seen(cache, base) EXCEPT ![t] = c]
<1>1. {"DIRTY", "FRESH"} \in SUBSET Flags
  BY DEF Flags
<1> QED
  BY <1>1, ClosedSeen DEF ModifiedNew

\* The batch for the database makes it hold what was seen through the cache.
LEMMA CommittedSeen ==
    ASSUME NEW cache \in Caches, NEW base \in CoinMaps, FlagsTrue(cache, base)
    PROVE  Committed(base, cache) = Seen(cache, base)
<1>1. \A t \in Txids : Committed(base, cache)[t] = Seen(cache, base)[t]
  BY DEF Committed, Seen, Dirty, FlagsTrue
<1> QED
  BY <1>1 DEF Committed, Seen

\* BatchWrite into a cache makes it show what was seen through the upper one.
LEMMA WrittenSeen ==
    ASSUME NEW parent \in Caches, NEW child \in Caches, NEW base \in CoinMaps,
           FlagsTrue(parent, base), FlagsTrue(child, Seen(parent, base))
    PROVE  /\ Written(parent, child) \in Caches
           /\ FlagsTrue(Written(parent, child), base)
           /\ Seen(Written(parent, child), base) = Seen(child, Seen(parent, base))
<1> DEFINE W == Written(parent, child)
           Cr == Created(parent, child)
           Er == Erased(parent, child)
<1>1. /\ DOMAIN parent \subseteq Txids /\ parent \in [DOMAIN parent -> CacheEntry]
      /\ DOMAIN child \subseteq Txids /\ child \in [DOMAIN child -> CacheEntry]
  BY CacheShape
<1>2. DOMAIN W = (DOMAIN parent \cup Cr) \ Er
  BY DEF Written
<1>3. \A t \in DOMAIN W :
        W[t] = IF t \in Cr THEN [coins |-> child[t].coins,
                                 flags |-> {"DIRTY"} \cup (child[t].flags \cap {"FRESH"})]
               ELSE IF t \in Dirty(child)
               THEN [coins |-> child[t].coins, flags |-> parent[t].flags \cup {"DIRTY"}]
               ELSE parent[t]
  BY DEF Written
<1>4. Cr \subseteq Dirty(child) \ DOMAIN parent /\ Er \subseteq Dirty(child) \cap DOMAIN parent
      /\ Dirty(child) \subseteq DOMAIN child
  BY DEF Created, Erased, Dirty
<1>5. \A t \in DOMAIN W : W[t] \in CacheEntry
  <2> TAKE t \in DOMAIN W
  <2>1. CASE t \in Cr
    <3>1. child[t] \in CacheEntry
      BY <1>1, <1>4, <2>1
    <3> QED
      BY <1>3, <2>1, <3>1 DEF CacheEntry, Flags
  <2>2. CASE t \notin Cr /\ t \in Dirty(child)
    <3>1. child[t] \in CacheEntry /\ parent[t] \in CacheEntry
      BY <1>1, <1>2, <1>4, <2>2
    <3> QED
      BY <1>3, <2>2, <3>1 DEF CacheEntry, Flags
  <2>3. CASE t \notin Cr /\ t \notin Dirty(child)
    BY <1>1, <1>2, <1>3, <2>3
  <2> QED
    BY <2>1, <2>2, <2>3
<1>6. W \in Caches
  <2>1. W \in [DOMAIN W -> CacheEntry]
    BY <1>5 DEF Written
  <2>2. DOMAIN W \subseteq Txids
    BY <1>1, <1>2, <1>4
  <2> QED
    BY <2>1, <2>2, CacheShape
<1> HIDE DEF W, Cr, Er
<1>7. ASSUME NEW t \in DOMAIN W
      PROVE  /\ "FRESH" \in W[t].flags => base[t] = {}
             /\ "DIRTY" \notin W[t].flags => W[t].coins = base[t]
  <2>1. CASE t \in Cr
    <3>1. t \in DOMAIN child /\ t \notin DOMAIN parent /\ t \in Txids
      BY <1>1, <1>4, <2>1
    <3>2. Seen(parent, base)[t] = base[t]
      BY <3>1 DEF Seen
    <3> QED
      BY <1>3, <2>1, <3>1, <3>2 DEF FlagsTrue
  <2>2. CASE t \notin Cr
    <3>1. t \in DOMAIN parent
      BY <1>2, <2>2
    <3> QED
      BY <1>3, <2>2, <3>1 DEF FlagsTrue
  <2> QED
    BY <2>1, <2>2
<1>8. ASSUME NEW t \in Txids
      PROVE  Seen(W, base)[t] = Seen(child, Seen(parent, base))[t]
  <2>1. CASE t \in Cr
    <3>1. t \in DOMAIN W /\ t \in DOMAIN child
      BY <1>2, <1>4, <2>1
    <3> QED
      BY <1>3, <2>1, <3>1 DEF Seen
  <2>2. CASE t \in Er
    <3>1. t \notin DOMAIN W /\ t \in DOMAIN child /\ t \in DOMAIN parent
      BY <1>2, <1>4, <2>2
    <3>2. base[t] = {} /\ child[t].coins = {}
      BY <2>2, <3>1 DEF Er, Erased, FlagsTrue
    <3> QED
      BY <3>1, <3>2 DEF Seen
  <2>3. CASE t \notin Cr /\ t \notin Er /\ t \in Dirty(child)
    <3>1. CASE t \in DOMAIN parent
      <4>1. t \in DOMAIN W /\ t \in DOMAIN child
        BY <1>2, <1>4, <2>3, <3>1
      <4> QED
        BY <1>3, <2>3, <4>1 DEF Seen
    <3>2. CASE t \notin DOMAIN parent
      <4>1. t \notin DOMAIN W /\ t \in DOMAIN child
        BY <1>2, <1>4, <2>3, <3>2
      <4>2. "FRESH" \in child[t].flags /\ child[t].coins = {}
        BY <2>3, <3>2 DEF Cr, Created
      <4>3. Seen(parent, base)[t] = base[t]
        BY <3>2 DEF Seen
      <4>4. base[t] = {}
        BY <4>1, <4>2, <4>3 DEF FlagsTrue
      <4> QED
        BY <4>1, <4>2, <4>4 DEF Seen
    <3> QED
      BY <3>1, <3>2
  <2>4. CASE t \notin Dirty(child)
    <3>1. t \in DOMAIN W <=> t \in DOMAIN parent
      BY <1>2, <1>4, <2>4
    <3>2. Seen(W, base)[t] = Seen(parent, base)[t]
      BY <1>3, <1>4, <2>4, <3>1 DEF Seen
    <3>3. t \in DOMAIN child => child[t].coins = Seen(parent, base)[t]
      BY <2>4 DEF FlagsTrue, Dirty
    <3> QED
      BY <3>2, <3>3 DEF Seen
  <2> QED
    BY <2>1, <2>2, <2>3, <2>4
<1>9. FlagsTrue(W, base)
  BY <1>7 DEF FlagsTrue
<1>10. Seen(W, base) = Seen(child, Seen(parent, base))
  BY <1>8, SeenEqual
<1> QED
  BY <1>6, <1>9, <1>10 DEF W

-----------------------------------------------------------------------------
(* The work of ConnectBlock and DisconnectBlock: a view over pcoinsTip.    *)

\* The undo data of a block, and the work with its types.
Undos == Seq(Nat \X Nat)
Work == [view : Caches, tip : Caches, undo : Undos, ok : BOOLEAN]

\* The coins seen through the view.
Sees(work) == Seen(work.view, Below(work))

\* The flags of both caches tell the truth.
Sound(work) ==
    /\ work \in Work /\ coindb.coins \in CoinMaps
    /\ FlagsTrue(work.tip, coindb.coins) /\ FlagsTrue(work.view, Below(work))

\* The step from work to r leaves what pcoinsTip shows and makes the view show S.
Leads(work, r, S) ==
    Sound(r) /\ Below(r) = Below(work) /\ Sees(r) = S

\* What is seen gives coins to every transaction.
LEMMA SoundTypes ==
    ASSUME NEW work, Sound(work)
    PROVE  /\ Below(work) \in CoinMaps /\ Sees(work) \in CoinMaps
           /\ \A t : CoinsOf(work, t) = Sees(work)[t]
<1>1. work.tip \in Caches /\ work.view \in Caches
  BY DEF Sound, Work
<1>2. Below(work) \in CoinMaps
  BY <1>1, SeenType DEF Sound, Below
<1>3. Sees(work) \in CoinMaps
  BY <1>1, <1>2, SeenType DEF Sees
<1> QED BY <1>2, <1>3 DEF CoinsOf, Sees

\* Undo data and verdict do not matter to the caches.
LEMMA OtherFields ==
    ASSUME NEW work, Sound(work), NEW U \in Undos, NEW v \in BOOLEAN
    PROVE  /\ Leads(work, [work EXCEPT !.ok = v], Sees(work))
           /\ Leads(work, [work EXCEPT !.undo = U], Sees(work))
BY DEF Sound, Work, Leads, Below, Sees

\* pcoinsTip after a read.
LEMMA LookedSame ==
    ASSUME NEW work, Sound(work), NEW t \in Txids
    PROVE  /\ Looked(work, t) \in Caches /\ FlagsTrue(Looked(work, t), coindb.coins)
           /\ Seen(Looked(work, t), coindb.coins) = Below(work)
<1>1. work.tip \in Caches /\ coindb.coins \in CoinMaps /\ FlagsTrue(work.tip, coindb.coins)
  BY DEF Sound, Work
<1> QED BY <1>1, FetchedSame DEF Looked, Below

\* AccessCoins changes nothing that is seen.
LEMMA AccessSound ==
    ASSUME NEW work, Sound(work), NEW t \in Txids
    PROVE  /\ Leads(work, AccessCoins(work, t), Sees(work))
           /\ AccessCoins(work, t).undo = work.undo /\ AccessCoins(work, t).ok = work.ok
<1> DEFINE T == Looked(work, t)
           V == Fetched(work.view, Below(work), Found(work.tip, InDb(coindb.coins)), t)
<1>1. work.view \in Caches /\ FlagsTrue(work.view, Below(work)) /\ Below(work) \in CoinMaps
  BY SoundTypes DEF Sound, Work
<1>2. V \in Caches /\ FlagsTrue(V, Below(work)) /\ Seen(V, Below(work)) = Sees(work)
  BY <1>1, FetchedSame DEF Sees
<1>3. T \in Caches /\ FlagsTrue(T, coindb.coins) /\ Seen(T, coindb.coins) = Below(work)
  BY LookedSame
<1>4. AccessCoins(work, t) = [work EXCEPT !.tip = T, !.view = V]
  BY DEF AccessCoins
<1> HIDE DEF T, V
<1>5. PICK r : r = AccessCoins(work, t)
  OBVIOUS
<1>6. /\ r \in Work /\ r.tip = T /\ r.view = V /\ r.undo = work.undo /\ r.ok = work.ok
  BY <1>2, <1>3, <1>4, <1>5 DEF Sound, Work
<1>7. Below(r) = Below(work)
  BY <1>3, <1>6 DEF Below
<1>8. Leads(work, r, Sees(work))
  BY <1>2, <1>3, <1>6, <1>7 DEF Leads, Sound, Sees
<1> QED BY <1>5, <1>6, <1>8

\* ModifyCoins changes what is seen of one transaction.
LEMMA ModifySound ==
    ASSUME NEW work, Sound(work), NEW t \in Txids, NEW coins \in Coins
    PROVE  /\ Leads(work, ModifyCoins(work, t, coins), [Sees(work) EXCEPT ![t] = coins])
           /\ ModifyCoins(work, t, coins).undo = work.undo
           /\ ModifyCoins(work, t, coins).ok = work.ok
<1> DEFINE T == Looked(work, t)
           V == Modified(work.view, Below(work), t, coins)
           S == [Sees(work) EXCEPT ![t] = coins]
<1>1. work.view \in Caches /\ FlagsTrue(work.view, Below(work)) /\ Below(work) \in CoinMaps
  BY SoundTypes DEF Sound, Work
<1>2. V \in Caches /\ FlagsTrue(V, Below(work)) /\ Seen(V, Below(work)) = S
  BY <1>1, ModifiedSeen DEF Sees
<1>3. T \in Caches /\ FlagsTrue(T, coindb.coins) /\ Seen(T, coindb.coins) = Below(work)
  BY LookedSame
<1>4. ModifyCoins(work, t, coins) = [work EXCEPT !.tip = T, !.view = V]
  BY DEF ModifyCoins
<1> HIDE DEF T, V, S
<1>5. PICK r : r = ModifyCoins(work, t, coins)
  OBVIOUS
<1>6. /\ r \in Work /\ r.tip = T /\ r.view = V /\ r.undo = work.undo /\ r.ok = work.ok
  BY <1>2, <1>3, <1>4, <1>5 DEF Sound, Work
<1>7. Below(r) = Below(work)
  BY <1>3, <1>6 DEF Below
<1>8. Leads(work, r, S)
  BY <1>2, <1>3, <1>6, <1>7 DEF Leads, Sound, Sees
<1> QED BY <1>5, <1>6, <1>8 DEF S

\* The outputs of a transaction are created: BIP30 made sure that pcoinsTip has none.
LEMMA CreateSound ==
    ASSUME NEW work, Sound(work), NEW t \in Txids, NEW coins \in Coins,
           Below(work)[t] = {}
    PROVE  /\ Leads(work, Create(work, t, coins), [Sees(work) EXCEPT ![t] = coins])
           /\ Create(work, t, coins).undo = work.undo
           /\ Create(work, t, coins).ok = work.ok
<1>1. CASE Ins[t] = <<>>
  BY <1>1, ModifySound DEF Create
<1>2. CASE Ins[t] # <<>>
  <2> DEFINE V == ModifiedNew(work.view, t, coins)
             S == [Sees(work) EXCEPT ![t] = coins]
  <2>1. work.view \in Caches /\ FlagsTrue(work.view, Below(work)) /\ Below(work) \in CoinMaps
    BY SoundTypes DEF Sound, Work
  <2>2. V \in Caches /\ FlagsTrue(V, Below(work)) /\ Seen(V, Below(work)) = S
    BY <2>1, ModifiedNewSeen DEF Sees
  <2>3. Create(work, t, coins) = [work EXCEPT !.view = V]
    BY <1>2 DEF Create
  <2> HIDE DEF V, S
  <2>4. PICK r : r = Create(work, t, coins)
    OBVIOUS
  <2>5. r \in Work /\ r.tip = work.tip /\ r.view = V /\ r.undo = work.undo /\ r.ok = work.ok
    BY <2>2, <2>3, <2>4 DEF Sound, Work
  <2>6. Below(r) = Below(work)
    BY <2>5 DEF Below
  <2>7. Leads(work, r, S)
    BY <2>2, <2>5, <2>6 DEF Leads, Sound, Sees
  <2> QED BY <2>4, <2>5, <2>7 DEF S
<1> QED BY <1>1, <1>2

\* At the end the view is written into pcoinsTip.
LEMMA FlushSound ==
    ASSUME NEW work, Sound(work)
    PROVE  /\ Written(work.tip, work.view) \in Caches
           /\ FlagsTrue(Written(work.tip, work.view), coindb.coins)
           /\ Seen(Written(work.tip, work.view), coindb.coins) = Sees(work)
<1>1. /\ work.tip \in Caches /\ work.view \in Caches /\ coindb.coins \in CoinMaps
      /\ FlagsTrue(work.tip, coindb.coins) /\ FlagsTrue(work.view, Seen(work.tip, coindb.coins))
  BY DEF Sound, Work, Below
<1>2. Sees(work) = Seen(work.view, Seen(work.tip, coindb.coins))
  BY DEF Sees, Below
<1> QED BY <1>1, <1>2, WrittenSeen

\* At the beginning the view is empty.
LEMMA NewWork ==
    ASSUME NEW U \in Undos, tip \in Caches, coindb.coins \in CoinMaps,
           FlagsTrue(tip, coindb.coins)
    PROVE  LET w == [view |-> EmptyCache, tip |-> tip, undo |-> U, ok |-> TRUE]
           IN  Sound(w) /\ Below(w) = TipSeen /\ Sees(w) = TipSeen
<1> DEFINE w == [view |-> EmptyCache, tip |-> tip, undo |-> U, ok |-> TRUE]
<1>1. w \in Work /\ w.tip = tip /\ w.view = EmptyCache
  BY EmptyCacheShape DEF Work
<1> HIDE DEF w
<1>2. Below(w) = TipSeen /\ TipSeen \in CoinMaps
  BY <1>1, SeenType DEF Below, TipSeen
<1>3. FlagsTrue(EmptyCache, TipSeen) /\ Seen(EmptyCache, TipSeen) = TipSeen
  BY <1>2, EmptyCacheSeen
<1>4. Sound(w) /\ Below(w) = TipSeen /\ Sees(w) = TipSeen
  BY <1>1, <1>2, <1>3 DEF Sound, Sees
<1> QED BY <1>4 DEF w

-----------------------------------------------------------------------------
(* The rules of ConnectBlock: looking up coins.                            *)

\* The output an input spends is there.
Has(S, in) == \E o \in S[in[1]] : o[1] = in[2]

\* Only the caches differ.
Same(work, r) == Leads(work, r, Sees(work)) /\ r.undo = work.undo

\* Doing nothing is such a step.
LEMMA SameSelf ==
    ASSUME NEW work, Sound(work)
    PROVE  Same(work, work)
BY DEF Same, Leads

\* Two steps that change only the caches are one.
LEMMA SameTwice ==
    ASSUME NEW work, NEW r, NEW q, Same(work, r), Same(r, q)
    PROVE  Same(work, q)
BY DEF Same, Leads

\* The shape of the transactions.
LEMMA InsTypes ==
    ASSUME NEW t \in Txids
    PROVE  /\ Ins[t] \in Seq(Txids \X Nat) /\ Len(Ins[t]) \in Nat
           /\ DOMAIN Ins[t] = 1 .. Len(Ins[t])
           /\ \A j \in 1 .. Len(Ins[t]) :
                 /\ Ins[t][j] \in Txids \X Nat /\ Ins[t][j] = <<Ins[t][j][1], Ins[t][j][2]>>
                 /\ Ins[t][j][1] \in Txids /\ Ins[t][j][2] \in Nat
<1>1. Ins[t] \in Seq(Txids \X Nat)
  BY ChainAssumption
<1>2. Len(Ins[t]) \in Nat /\ DOMAIN Ins[t] = 1 .. Len(Ins[t])
  BY <1>1
<1>3. \A j \in 1 .. Len(Ins[t]) : Ins[t][j] \in Txids \X Nat
  BY <1>1, <1>2
<1> QED BY <1>1, <1>2, <1>3

\* The shape of the blocks.
LEMMA TxsTypes ==
    ASSUME NEW b \in Blocks
    PROVE  /\ BlockTxs[b] \in Seq(Txids) /\ Len(BlockTxs[b]) \in Nat
           /\ DOMAIN BlockTxs[b] = 1 .. Len(BlockTxs[b])
           /\ \A i \in 1 .. Len(BlockTxs[b]) : BlockTxs[b][i] \in Txids
<1>1. BlockTxs[b] \in Seq(Txids)
  BY ChainAssumption
<1> QED BY <1>1

\* One lookup.
LEMMA HaveStep ==
    ASSUME NEW work, Sound(work), NEW in \in Txids \X Nat
    PROVE  /\ Same(work, HaveInput(work, in))
           /\ HaveInput(work, in).ok => work.ok /\ Has(Sees(work), in)
<1>1. CASE ~work.ok
  BY <1>1, SameSelf DEF HaveInput
<1>2. CASE work.ok
  <2> DEFINE a == AccessCoins(work, in[1])
             v == \E o \in CoinsOf(work, in[1]) : o[1] = in[2]
  <2>1. Leads(work, a, Sees(work)) /\ a.undo = work.undo
    BY AccessSound
  <2>2. HaveInput(work, in) = [a EXCEPT !.ok = v]
    BY <1>2 DEF HaveInput
  <2>3. v \in BOOLEAN /\ (v <=> Has(Sees(work), in))
    BY SoundTypes DEF Has
  <2> HIDE DEF a, v
  <2>4. Sound(a) /\ a \in Work
    BY <2>1 DEF Leads, Sound
  <2>5. PICK r : r = [a EXCEPT !.ok = v]
    OBVIOUS
  <2>6. Leads(a, r, Sees(a)) /\ r.undo = a.undo /\ r.ok = v
    <3>1. PICK U \in Undos : TRUE
      BY <2>4 DEF Work
    <3> QED BY <2>3, <2>4, <2>5, <3>1, OtherFields DEF Work
  <2>7. Same(work, r)
    BY <2>1, <2>6 DEF Same, Leads
  <2> QED BY <1>2, <2>2, <2>3, <2>5, <2>6, <2>7
<1>3. work.ok \in BOOLEAN
  BY DEF Sound, Work
<1> QED BY <1>1, <1>2, <1>3

\* One lookup for BIP30.
LEMMA CheckStep ==
    ASSUME NEW work, Sound(work), NEW t \in Txids
    PROVE  /\ Same(work, CheckOverwrite(work, t))
           /\ CheckOverwrite(work, t).ok => work.ok /\ Sees(work)[t] = {}
<1>1. CASE ~work.ok
  BY <1>1, SameSelf DEF CheckOverwrite
<1>2. CASE work.ok
  <2> DEFINE a == AccessCoins(work, t)
             v == CoinsOf(work, t) = {}
  <2>1. Leads(work, a, Sees(work)) /\ a.undo = work.undo
    BY AccessSound
  <2>2. CheckOverwrite(work, t) = [a EXCEPT !.ok = v]
    BY <1>2 DEF CheckOverwrite
  <2>3. v \in BOOLEAN /\ (v <=> Sees(work)[t] = {})
    BY SoundTypes
  <2> HIDE DEF a, v
  <2>4. Sound(a) /\ a \in Work
    BY <2>1 DEF Leads, Sound
  <2>5. PICK r : r = [a EXCEPT !.ok = v]
    OBVIOUS
  <2>6. Leads(a, r, Sees(a)) /\ r.undo = a.undo /\ r.ok = v
    <3>1. PICK U \in Undos : TRUE
      BY <2>4 DEF Work
    <3> QED BY <2>3, <2>4, <2>5, <3>1, OtherFields DEF Work
  <2>7. Same(work, r)
    BY <2>1, <2>6 DEF Same, Leads
  <2> QED BY <1>2, <2>2, <2>3, <2>5, <2>6, <2>7
<1>3. work.ok \in BOOLEAN
  BY DEF Sound, Work
<1> QED BY <1>1, <1>2, <1>3

\* HaveInputs of a transaction.
LEMMA HaveAll ==
    ASSUME NEW work, Sound(work), NEW t \in Txids
    PROVE  /\ Same(work, FoldLeft(HaveInput, work, Ins[t]))
           /\ FoldLeft(HaveInput, work, Ins[t]).ok =>
                 work.ok /\ \A j \in 1 .. Len(Ins[t]) : Has(Sees(work), Ins[t][j])
<1> DEFINE s == Ins[t]
           n == Len(Ins[t])
<1>1. n \in Nat /\ DOMAIN s = 1 .. n /\ \A j \in 1 .. n : s[j] \in Txids \X Nat
  BY InsTypes
<1>2. PICK tr : Works(<<"have", 0>>, work, s, tr) /\ FoldLeft(HaveInput, work, s) = tr[n]
  BY <1>1, HaveFold
<1>3. tr[0] = work /\ \A i \in 1 .. n : tr[i] = HaveInput(tr[i - 1], s[i])
  BY <1>2 DEF Works, Apply
<1> HIDE DEF s, n
<1> DEFINE P == {i \in 0 .. n : /\ Same(work, tr[i])
                                /\ tr[i].ok => work.ok /\ \A j \in 1 .. i : Has(Sees(work), s[j])}
<1>4. 0 \in P
  BY <1>1, <1>3, SameSelf
<1>5. ASSUME NEW i \in 0 .. n - 1, i \in P PROVE i + 1 \in P
  <2>1. i + 1 \in 1 .. n /\ (i + 1) - 1 = i /\ i + 1 \in 0 .. n
    BY <1>1
  <2>2. tr[i + 1] = HaveInput(tr[i], s[i + 1]) /\ s[i + 1] \in Txids \X Nat
    BY <1>1, <1>3, <2>1
  <2>3. Same(work, tr[i]) /\ Sound(tr[i]) /\ Sees(tr[i]) = Sees(work)
    BY <1>5 DEF Same, Leads
  <2>4. Same(tr[i], tr[i + 1]) /\ (tr[i + 1].ok => tr[i].ok /\ Has(Sees(work), s[i + 1]))
    BY <2>2, <2>3, HaveStep
  <2>5. Same(work, tr[i + 1])
    BY <2>3, <2>4, SameTwice
  <2>6. ASSUME tr[i + 1].ok PROVE work.ok /\ \A j \in 1 .. i + 1 : Has(Sees(work), s[j])
    <3>1. work.ok /\ \A j \in 1 .. i : Has(Sees(work), s[j])
      BY <1>5, <2>4, <2>6
    <3>2. \A j \in 1 .. i + 1 : j \in 1 .. i \/ j = i + 1
      BY <1>1
    <3> QED BY <2>4, <2>6, <3>1, <3>2
  <2> QED BY <2>1, <2>5, <2>6
<1>6. n \in P
  <2> HIDE DEF P
  <2>1. 0 .. n \subseteq P
    BY <1>1, <1>4, <1>5, UpTo
  <2> QED BY <1>1, <2>1
<1> QED BY <1>2, <1>6 DEF s, n

\* BIP30 for the transactions of a block.
LEMMA CheckAll ==
    ASSUME NEW work, Sound(work), NEW b \in Blocks
    PROVE  /\ Same(work, FoldLeft(CheckOverwrite, work, BlockTxs[b]))
           /\ FoldLeft(CheckOverwrite, work, BlockTxs[b]).ok =>
                 work.ok /\ \A i \in 1 .. Len(BlockTxs[b]) : Sees(work)[BlockTxs[b][i]] = {}
<1> DEFINE s == BlockTxs[b]
           n == Len(BlockTxs[b])
<1>1. n \in Nat /\ DOMAIN s = 1 .. n /\ \A j \in 1 .. n : s[j] \in Txids
  BY TxsTypes
<1>2. PICK tr : Works(<<"check", 0>>, work, s, tr) /\ FoldLeft(CheckOverwrite, work, s) = tr[n]
  BY <1>1, CheckFold
<1>3. tr[0] = work /\ \A i \in 1 .. n : tr[i] = CheckOverwrite(tr[i - 1], s[i])
  BY <1>2 DEF Works, Apply
<1> HIDE DEF s, n
<1> DEFINE P == {i \in 0 .. n : /\ Same(work, tr[i])
                                /\ tr[i].ok => work.ok /\ \A j \in 1 .. i : Sees(work)[s[j]] = {}}
<1>4. 0 \in P
  BY <1>1, <1>3, SameSelf
<1>5. ASSUME NEW i \in 0 .. n - 1, i \in P PROVE i + 1 \in P
  <2>1. i + 1 \in 1 .. n /\ (i + 1) - 1 = i /\ i + 1 \in 0 .. n
    BY <1>1
  <2>2. tr[i + 1] = CheckOverwrite(tr[i], s[i + 1]) /\ s[i + 1] \in Txids
    BY <1>1, <1>3, <2>1
  <2>3. Same(work, tr[i]) /\ Sound(tr[i]) /\ Sees(tr[i]) = Sees(work)
    BY <1>5 DEF Same, Leads
  <2>4. Same(tr[i], tr[i + 1]) /\ (tr[i + 1].ok => tr[i].ok /\ Sees(work)[s[i + 1]] = {})
    BY <2>2, <2>3, CheckStep
  <2>5. Same(work, tr[i + 1])
    BY <2>3, <2>4, SameTwice
  <2>6. ASSUME tr[i + 1].ok PROVE work.ok /\ \A j \in 1 .. i + 1 : Sees(work)[s[j]] = {}
    <3>1. work.ok /\ \A j \in 1 .. i : Sees(work)[s[j]] = {}
      BY <1>5, <2>4, <2>6
    <3>2. \A j \in 1 .. i + 1 : j \in 1 .. i \/ j = i + 1
      BY <1>1
    <3> QED BY <2>4, <2>6, <3>1, <3>2
  <2> QED BY <2>1, <2>5, <2>6
<1>6. n \in P
  <2> HIDE DEF P
  <2>1. 0 .. n \subseteq P
    BY <1>1, <1>4, <1>5, UpTo
  <2> QED BY <1>1, <2>1
<1> QED BY <1>2, <1>6 DEF s, n

-----------------------------------------------------------------------------
(* Spending and creating: what a block does to the coins and which undo    *)
(* data it leaves, without the caches.                                     *)

\* All outputs of a transaction are of the same, positive height.
Uniform(S) ==
    \A x \in Txids : \A o, p \in S[x] : o[2] = p[2] /\ o[2] \in Nat \ {0}

\* The coins without the output that in spends.
Minus(S, in) == [S EXCEPT ![in[1]] = {o \in S[in[1]] : o[1] # in[2]}]

\* An input is spent: coins and undo data before and after.
SpendStep(S, U, in, S2, U2) ==
    /\ S2 = Minus(S, in)
    /\ \E o \in S[in[1]] : /\ o[1] = in[2]
                           /\ U2 = Append(U, <<in[2], UndoHeight(S2[in[1]], o[2])>>)

\* The inputs of t are spent: coins X[j] and undo data V[j] after the first j.
Spends(t, S, U, X, V) ==
    /\ X[0] = S /\ V[0] = U
    /\ \A j \in 1 .. Len(Ins[t]) : SpendStep(X[j - 1], V[j - 1], Ins[t][j], X[j], V[j])
    /\ \A j \in 0 .. Len(Ins[t]) : X[j] \in CoinMaps /\ Uniform(X[j]) /\ V[j] \in Undos

\* Coins are pairs.
LEMMA CoinPairs ==
    ASSUME NEW S \in CoinMaps, NEW x \in Txids, NEW o \in S[x]
    PROVE  o \in Outs /\ o = <<o[1], o[2]>>
BY DEF CoinMaps, Coins, Outs

\* What is left after an input is spent.
LEMMA MinusTypes ==
    ASSUME NEW S \in CoinMaps, Uniform(S), NEW in \in Txids \X Nat
    PROVE  /\ Minus(S, in) \in CoinMaps /\ Uniform(Minus(S, in))
           /\ \A x \in Txids : Minus(S, in)[x] = {o \in S[x] : <<x, o[1]>> # in}
<1>1. S \in [Txids -> Coins] /\ in[1] \in Txids /\ in = <<in[1], in[2]>>
  BY DEF CoinMaps
<1>2. {o \in S[in[1]] : o[1] # in[2]} \in Coins
  BY <1>1 DEF Coins
<1>3. Minus(S, in) \in CoinMaps
  BY <1>1, <1>2 DEF Minus, CoinMaps
<1>4. ASSUME NEW x \in Txids PROVE Minus(S, in)[x] = {o \in S[x] : <<x, o[1]>> # in}
  <2>1. CASE x = in[1]
    <3>1. Minus(S, in)[x] = {o \in S[x] : o[1] # in[2]}
      BY <1>1, <2>1 DEF Minus
    <3>2. \A o : <<x, o[1]>> = in <=> o[1] = in[2]
      BY <1>1, <2>1
    <3> QED BY <3>1, <3>2
  <2>2. CASE x # in[1]
    <3>1. Minus(S, in)[x] = S[x]
      BY <1>1, <2>2 DEF Minus
    <3>2. \A o : <<x, o[1]>> # in
      BY <1>1, <2>2
    <3> QED BY <3>1, <3>2
  <2> QED BY <2>1, <2>2
<1>5. Uniform(Minus(S, in))
  BY <1>4 DEF Uniform
<1> QED BY <1>3, <1>4, <1>5

\* Spend, seen through the caches.
LEMMA SpendSound ==
    ASSUME NEW work, Sound(work), Uniform(Sees(work)), NEW in \in Txids \X Nat,
           Has(Sees(work), in)
    PROVE  LET r == Spend(work, in)
           IN  /\ Sound(r) /\ Below(r) = Below(work) /\ r.ok = work.ok
               /\ SpendStep(Sees(work), work.undo, in, Sees(r), r.undo)
<1> DEFINE S == Sees(work)
           here == CoinsOf(work, in[1])
           coin == CHOOSE o \in here : o[1] = in[2]
           left == here \ {coin}
           U == Append(work.undo, <<in[2], UndoHeight(left, coin[2])>>)
           m == ModifyCoins(work, in[1], left)
<1>1. S \in CoinMaps /\ here = S[in[1]] /\ in[1] \in Txids /\ in[2] \in Nat
  BY SoundTypes
<1>2. coin \in S[in[1]] /\ coin[1] = in[2]
  BY <1>1 DEF Has
<1>3. left = {o \in S[in[1]] : o[1] # in[2]}
  <2> HIDE DEF coin
  <2>1. ASSUME NEW o \in S[in[1]], o[1] = in[2] PROVE o = coin
    <3>1. o = <<o[1], o[2]>> /\ coin = <<coin[1], coin[2]>>
      BY <1>1, <1>2, CoinPairs
    <3>2. o[2] = coin[2]
      BY <1>1, <1>2 DEF Uniform
    <3> QED BY <1>2, <2>1, <3>1, <3>2
  <2> QED BY <1>1, <1>2, <2>1
<1>4. coin[2] \in Nat
  BY <1>1, <1>2 DEF Uniform
<1>5. Spend(work, in) = [m EXCEPT !.undo = Append(@, <<in[2], UndoHeight(left, coin[2])>>)]
  BY DEF Spend
<1> HIDE DEF coin
<1>6. left \in Coins
  BY <1>1 DEF CoinMaps, Coins
<1>7. [S EXCEPT ![in[1]] = left] = Minus(S, in)
  BY <1>3 DEF Minus
<1> HIDE DEF left, here, S
<1>8. Leads(work, m, Minus(S, in)) /\ m.undo = work.undo /\ m.ok = work.ok
  BY <1>1, <1>6, <1>7, ModifySound DEF S
<1> HIDE DEF m
<1>9. Sound(m) /\ m \in Work /\ m.ok \in BOOLEAN
  BY <1>8 DEF Leads, Sound, Work
<1>10. U \in Undos
  <2>1. UndoHeight(left, coin[2]) \in Nat
    BY <1>4 DEF UndoHeight
  <2>2. work.undo \in Undos
    BY DEF Sound, Work
  <2> QED BY <1>1, <2>1, <2>2 DEF Undos
<1>11. Spend(work, in) = [m EXCEPT !.undo = U]
  BY <1>5, <1>8, <1>9 DEF Work
<1> HIDE DEF U
<1>12. PICK r : r = Spend(work, in)
  OBVIOUS
<1>13. Leads(m, r, Sees(m)) /\ r.undo = U /\ r.ok = m.ok
  BY <1>9, <1>10, <1>11, <1>12, OtherFields DEF Work
<1>14. Sound(r) /\ Below(r) = Below(work) /\ r.ok = work.ok /\ Sees(r) = Minus(S, in)
  BY <1>8, <1>13 DEF Leads
<1>15. Minus(S, in)[in[1]] = left
  BY <1>1, <1>7 DEF CoinMaps
<1>16. SpendStep(S, work.undo, in, Sees(r), r.undo)
  BY <1>2, <1>13, <1>14, <1>15 DEF SpendStep, U
<1> QED BY <1>12, <1>14, <1>16 DEF S

\* All inputs of t are spent on the way from work to r.
Spent(work, t, r) ==
    /\ Sound(r) /\ Below(r) = Below(work) /\ r.ok = work.ok
    /\ \E X, V : /\ Spends(t, Sees(work), work.undo, X, V)
                 /\ X[Len(Ins[t])] = Sees(r) /\ V[Len(Ins[t])] = r.undo
    /\ \A x \in Txids : Sees(r)[x] =
          {o \in Sees(work)[x] : \A j \in 1 .. Len(Ins[t]) : <<x, o[1]>> # Ins[t][j]}

\* Spend for all inputs of a transaction.
LEMMA SpendAll ==
    ASSUME NEW work, Sound(work), Uniform(Sees(work)), NEW t \in Txids,
           \A j \in 1 .. Len(Ins[t]) : Has(Sees(work), Ins[t][j])
    PROVE  Spent(work, t, FoldLeft(Spend, work, Ins[t]))
<1> DEFINE s == Ins[t]
           n == Len(Ins[t])
           S == Sees(work)
<1>1. n \in Nat /\ DOMAIN s = 1 .. n /\ \A j \in 1 .. n : s[j] \in Txids \X Nat
  BY InsTypes
<1>2. PICK tr : Works(<<"spend", 0>>, work, s, tr) /\ FoldLeft(Spend, work, s) = tr[n]
  BY <1>1, SpendFold
<1>3. tr[0] = work /\ \A i \in 1 .. n : tr[i] = Spend(tr[i - 1], s[i])
  BY <1>2 DEF Works, Apply
<1>4. S \in CoinMaps /\ work.undo \in Undos
  BY SoundTypes DEF Sound, Work
<1>5. \A i, j \in 1 .. n : s[i] = s[j] => i = j
  <2>1. \A i, j \in DOMAIN Ins[t] : Ins[t][i] = Ins[t][j] => i = j
    BY ChainAssumption
  <2> QED BY <1>1, <2>1
<1>6. \A j \in 1 .. n : Has(S, s[j])
  OBVIOUS
<1>7. Uniform(S)
  OBVIOUS
<1> HIDE DEF s, n, S
<1> DEFINE Left(x, i) == {o \in S[x] : \A j \in 1 .. i : <<x, o[1]>> # s[j]}
           Fine(i) == /\ Sound(tr[i]) /\ Below(tr[i]) = Below(work) /\ tr[i].ok = work.ok
                      /\ Uniform(Sees(tr[i]))
                      /\ \A x \in Txids : Sees(tr[i])[x] = Left(x, i)
           P == {i \in 0 .. n : /\ Fine(i)
                                /\ i > 0 => SpendStep(Sees(tr[i - 1]), tr[i - 1].undo, s[i],
                                                      Sees(tr[i]), tr[i].undo)}
<1>8. 0 \in P
  <2>1. \A x \in Txids : Left(x, 0) = S[x]
    OBVIOUS
  <2> QED BY <1>1, <1>3, <1>7, <2>1 DEF S
<1>9. ASSUME NEW i \in 0 .. n - 1, i \in P PROVE i + 1 \in P
  <2>1. i + 1 \in 1 .. n /\ (i + 1) - 1 = i /\ i + 1 \in 0 .. n /\ i + 1 > 0
    BY <1>1
  <2>2. PICK in : in = s[i + 1]
    OBVIOUS
  <2>3. in \in Txids \X Nat /\ in[1] \in Txids /\ in = <<in[1], in[2]>>
    BY <1>1, <2>1, <2>2
  <2>4. Fine(i)
    BY <1>9
  <2>5. PICK w : w = tr[i]
    OBVIOUS
  <2>6. PICK r : r = tr[i + 1]
    OBVIOUS
  <2>7. r = Spend(w, in)
    BY <1>3, <2>1, <2>2, <2>5, <2>6
  <2>8. Has(Sees(w), in)
    <3>1. PICK o \in S[in[1]] : o[1] = in[2]
      BY <1>6, <2>1, <2>2 DEF Has
    <3>2. <<in[1], o[1]>> = in
      BY <2>3, <3>1
    <3>3. \A j \in 1 .. i : s[j] # in
      BY <1>1, <1>5, <2>1, <2>2
    <3>4. o \in Left(in[1], i)
      BY <3>1, <3>2, <3>3
    <3>5. o \in Sees(w)[in[1]]
      BY <2>3, <2>4, <2>5, <3>4
    <3> QED BY <3>1, <3>5 DEF Has
  <2>9. /\ Sound(r) /\ Below(r) = Below(w) /\ r.ok = w.ok
        /\ SpendStep(Sees(w), w.undo, in, Sees(r), r.undo)
    BY <2>3, <2>4, <2>5, <2>7, <2>8, SpendSound
  <2>10. Sees(r) = Minus(Sees(w), in) /\ Sees(w) \in CoinMaps /\ Uniform(Sees(w))
    BY <2>4, <2>5, <2>9, SoundTypes DEF SpendStep
  <2>11. Uniform(Sees(r)) /\ \A x \in Txids : Sees(r)[x] = {o \in Sees(w)[x] : <<x, o[1]>> # in}
    BY <2>3, <2>10, MinusTypes
  <2>12. ASSUME NEW x \in Txids PROVE Sees(r)[x] = Left(x, i + 1)
    <3>1. Sees(w)[x] = Left(x, i)
      BY <2>4, <2>5
    <3>2. \A j \in 1 .. i + 1 : j \in 1 .. i \/ j = i + 1
      BY <1>1
    <3>3. \A j \in 1 .. i : j \in 1 .. i + 1
      BY <1>1
    <3>4. i + 1 \in 1 .. i + 1
      BY <1>1
    <3>5. \A o : (\A j \in 1 .. i + 1 : <<x, o[1]>> # s[j]) <=>
                 (\A j \in 1 .. i : <<x, o[1]>> # s[j]) /\ <<x, o[1]>> # in
      BY ONLY <2>2, <3>2, <3>3, <3>4
    <3>6. Sees(r)[x] = {o \in Left(x, i) : <<x, o[1]>> # in}
      BY <2>11, <3>1
    <3> QED BY ONLY <3>5, <3>6
  <2>13. Fine(i + 1)
    BY <2>4, <2>5, <2>6, <2>9, <2>11, <2>12
  <2> QED BY <2>1, <2>2, <2>5, <2>6, <2>9, <2>13
<1>10. 0 .. n \subseteq P
  <2> HIDE DEF P
  <2> QED BY <1>1, <1>8, <1>9, UpTo
<1> DEFINE X == [i \in 0 .. n |-> Sees(tr[i])]
           V == [i \in 0 .. n |-> tr[i].undo]
<1>11. Spends(t, S, work.undo, X, V)
  <2>1. X[0] = S /\ V[0] = work.undo
    BY <1>1, <1>3 DEF S
  <2>2. ASSUME NEW j \in 1 .. n PROVE SpendStep(X[j - 1], V[j - 1], s[j], X[j], V[j])
    <3>1. j \in P /\ j > 0 /\ j \in 0 .. n /\ j - 1 \in 0 .. n
      <4>1. j > 0 /\ j \in 0 .. n /\ j - 1 \in 0 .. n
        BY <1>1
      <4> HIDE DEF P
      <4> QED BY <1>10, <4>1
    <3> QED BY <3>1
  <2>3. ASSUME NEW j \in 0 .. n PROVE X[j] \in CoinMaps /\ Uniform(X[j]) /\ V[j] \in Undos
    <3>1. Sound(tr[j]) /\ Uniform(Sees(tr[j]))
      BY <1>10
    <3>2. Sees(tr[j]) \in CoinMaps /\ tr[j].undo \in Undos
      BY <3>1, SoundTypes DEF Sound, Work
    <3> QED BY <3>1, <3>2
  <2> HIDE DEF X, V
  <2> QED BY <2>1, <2>2, <2>3 DEF Spends, s, n
<1>12. X[n] = Sees(tr[n]) /\ V[n] = tr[n].undo /\ n \in P
  <2>1. n \in 0 .. n
    BY <1>1
  <2>2. X[n] = Sees(tr[n]) /\ V[n] = tr[n].undo
    BY <2>1
  <2> HIDE DEF P
  <2> QED BY <1>10, <2>1, <2>2
<1>13. Fine(n)
  BY <1>12
<1> HIDE DEF X, V, P
<1>14. Spent(work, t, tr[n])
  BY <1>11, <1>12, <1>13 DEF s, n, S, Spent
<1> QED BY <1>2, <1>14 DEF s

\* A transaction is applied: coins and undo data before and after.
TxStep(t, h, S, U, S2, U2) ==
    \E X, V : /\ Spends(t, S, U, X, V)
              /\ V[Len(Ins[t])] = U2 /\ X[Len(Ins[t])][t] = {}
              /\ S2 = [X[Len(Ins[t])] EXCEPT ![t] = OutIdx[t] \X {h}]

\* UpdateCoins first looks up the inputs.
LEMMA UpdateChecked ==
    ASSUME NEW work, Sound(work), NEW t \in Txids, NEW h
    PROVE  \/ Same(work, UpdateCoins(work, t, h)) /\ ~UpdateCoins(work, t, h).ok
           \/ /\ FoldLeft(HaveInput, work, Ins[t]).ok /\ work.ok
              /\ \A j \in 1 .. Len(Ins[t]) : Has(Sees(work), Ins[t][j])
<1> DEFINE checked == FoldLeft(HaveInput, work, Ins[t])
<1>1. Same(work, checked) /\ (checked.ok =>
             work.ok /\ \A j \in 1 .. Len(Ins[t]) : Has(Sees(work), Ins[t][j]))
  BY HaveAll
<1>2. ~checked.ok => UpdateCoins(work, t, h) = checked
  BY DEF UpdateCoins
<1> HIDE DEF checked
<1> QED BY <1>1, <1>2 DEF checked

\* The outputs of a transaction of a block.
LEMMA NewOutputs ==
    ASSUME NEW t \in Txids, NEW b \in Blocks
    PROVE  OutIdx[t] \X {Height[b]} \in Coins
<1>1. OutIdx[t] \subseteq UNION {OutIdx[x] : x \in Txids}
  OBVIOUS
<1>2. Height[b] \in {Height[c] : c \in Blocks}
  OBVIOUS
<1> QED BY <1>1, <1>2 DEF Coins, Outs

\* Only the first block is of height 0.
LEMMA HeightPositive ==
    ASSUME NEW b \in Blocks \ {Genesis}
    PROVE  Height[b] \in Nat \ {0} /\ Height[Parent[b]] \in Nat /\ Parent[b] \in Blocks
           /\ Height[b] = Height[Parent[b]] + 1
<1>1. Parent[b] \in Blocks /\ Height[b] = Height[Parent[b]] + 1 /\ Height \in [Blocks -> Nat]
  BY ChainAssumption
<1> QED BY <1>1

\* Then it spends them and creates the outputs.
Updated(work, t, b, r) ==
    /\ Sound(r) /\ Below(r) = Below(work) /\ r.ok
    /\ TxStep(t, Height[b], Sees(work), work.undo, Sees(r), r.undo)
    /\ Uniform(Sees(r))
    /\ \A x \in Txids : Sees(r)[x] =
          IF x = t THEN OutIdx[t] \X {Height[b]}
          ELSE {o \in Sees(work)[x] : \A j \in 1 .. Len(Ins[t]) : <<x, o[1]>> # Ins[t][j]}

\* UpdateCoins of a transaction whose inputs are there and whose outputs are not.
LEMMA UpdateTx ==
    ASSUME NEW work, Sound(work), Uniform(Sees(work)), NEW t \in Txids,
           NEW b \in Blocks \ {Genesis}, FoldLeft(HaveInput, work, Ins[t]).ok,
           Below(work)[t] = {}, Sees(work)[t] = {}
    PROVE  Updated(work, t, b, UpdateCoins(work, t, Height[b]))
<1> DEFINE c == FoldLeft(HaveInput, work, Ins[t])
           f == FoldLeft(Spend, c, Ins[t])
           new == OutIdx[t] \X {Height[b]}
<1>1. Same(work, c) /\ \A j \in 1 .. Len(Ins[t]) : Has(Sees(work), Ins[t][j])
  BY HaveAll
<1>2. UpdateCoins(work, t, Height[b]) = Create(f, t, new)
  BY DEF UpdateCoins
<1>3. c.ok
  OBVIOUS
<1> HIDE DEF c
<1>4. Sound(c) /\ Sees(c) = Sees(work) /\ Below(c) = Below(work) /\ c.undo = work.undo
  BY <1>1 DEF Same, Leads
<1>5. /\ Sound(f) /\ Below(f) = Below(work) /\ f.ok = c.ok
      /\ \E X, V : /\ Spends(t, Sees(work), work.undo, X, V)
                   /\ X[Len(Ins[t])] = Sees(f) /\ V[Len(Ins[t])] = f.undo
      /\ \A x \in Txids : Sees(f)[x] =
            {o \in Sees(work)[x] : \A j \in 1 .. Len(Ins[t]) : <<x, o[1]>> # Ins[t][j]}
  <2>1. Uniform(Sees(c)) /\ \A j \in 1 .. Len(Ins[t]) : Has(Sees(c), Ins[t][j])
    BY <1>1, <1>4
  <2>2. Spent(c, t, f)
    BY <1>4, <2>1, SpendAll
  <2> HIDE DEF f
  <2> QED BY <1>4, <2>2 DEF Spent
<1> HIDE DEF f
<1>6. new \in Coins
  BY NewOutputs
<1> HIDE DEF new
<1>7. PICK r : r = UpdateCoins(work, t, Height[b])
  OBVIOUS
<1>8. Leads(f, r, [Sees(f) EXCEPT ![t] = new]) /\ r.undo = f.undo /\ r.ok = f.ok
  BY <1>2, <1>5, <1>6, <1>7, CreateSound
<1>9. Sound(r) /\ Below(r) = Below(work) /\ r.ok /\ Sees(r) = [Sees(f) EXCEPT ![t] = new]
  BY <1>3, <1>5, <1>8 DEF Leads
<1>10. Sees(f)[t] = {} /\ Sees(f) \in CoinMaps
  BY <1>5, SoundTypes
<1>11. TxStep(t, Height[b], Sees(work), work.undo, Sees(r), r.undo)
  BY <1>5, <1>8, <1>9, <1>10 DEF TxStep, new
<1>12. ASSUME NEW x \in Txids
       PROVE  Sees(r)[x] = IF x = t THEN new
                           ELSE {o \in Sees(work)[x] :
                                    \A j \in 1 .. Len(Ins[t]) : <<x, o[1]>> # Ins[t][j]}
  BY <1>5, <1>9, <1>10 DEF CoinMaps
<1>13. Uniform(Sees(r))
  <2>1. \A o \in new : o[2] = Height[b] /\ o[2] \in Nat \ {0}
    BY HeightPositive DEF new
  <2>2. ASSUME NEW x \in Txids, NEW o \in Sees(r)[x], NEW p \in Sees(r)[x]
        PROVE  o[2] = p[2] /\ o[2] \in Nat \ {0}
    <3>1. CASE x = t
      BY <1>12, <2>1, <2>2, <3>1
    <3>2. CASE x # t
      <4>1. o \in Sees(work)[x] /\ p \in Sees(work)[x]
        BY <1>12, <2>2, <3>2
      <4> QED BY <4>1 DEF Uniform
    <3> QED BY <3>1, <3>2
  <2> QED BY <2>2 DEF Uniform
<1>14. Updated(work, t, b, r)
  BY <1>9, <1>11, <1>12, <1>13 DEF new, Updated
<1> QED BY <1>7, <1>14

-----------------------------------------------------------------------------
(* The transactions of a block.                                            *)

\* x is one of the first i transactions of b; one of them spends output m of x.
MadeBy(b, i, x) == \E k \in 1 .. i : BlockTxs[b][k] = x
SpentBy(b, i, x, m) ==
    \E k \in 1 .. i : \E j \in 1 .. Len(Ins[BlockTxs[b][k]]) : Ins[BlockTxs[b][k]][j] = <<x, m>>

\* The coins after the first i transactions of b, if they were S0 before.
Partial(b, i, S0, S) ==
    \A x \in Txids : S[x] = IF MadeBy(b, i, x)
                            THEN {o \in OutIdx[x] \X {Height[b]} : ~SpentBy(b, i, x, o[1])}
                            ELSE {o \in S0[x] : ~SpentBy(b, i, x, o[1])}

\* What comes later in the block is not spent yet.
Later(b, i) ==
    \A x \in Txids : MadeBy(b, Len(BlockTxs[b]), x) /\ ~MadeBy(b, i, x)
                        => \A m \in Nat : ~SpentBy(b, i, x, m)

\* The block takes the coins from S to S2 and leaves the undo data U.
BlockRun(b, S, U, S2) ==
    \E Y, W :
       /\ Y[0] = S /\ W[0] = <<>>
       /\ \A i \in 1 .. Len(BlockTxs[b]) :
             TxStep(BlockTxs[b][i], Height[b], Y[i - 1], W[i - 1], Y[i], W[i])
       /\ \A i \in 0 .. Len(BlockTxs[b]) : Y[i] \in CoinMaps /\ Uniform(Y[i]) /\ W[i] \in Undos
       /\ Y[Len(BlockTxs[b])] = S2 /\ W[Len(BlockTxs[b])] = U

\* One more transaction.
LEMMA MadeNext ==
    ASSUME NEW b, NEW i \in Nat, NEW x
    PROVE  MadeBy(b, i + 1, x) <=> MadeBy(b, i, x) \/ BlockTxs[b][i + 1] = x
<1>1. \A k \in 1 .. i + 1 : k \in 1 .. i \/ k = i + 1
  OBVIOUS
<1>2. i + 1 \in 1 .. i + 1 /\ \A k \in 1 .. i : k \in 1 .. i + 1
  OBVIOUS
<1> QED BY <1>1, <1>2 DEF MadeBy

\* No output that was spent in the block is there.
LEMMA SpentIsGone ==
    ASSUME NEW b, NEW i, NEW S0, NEW S, Partial(b, i, S0, S), NEW x \in Txids, NEW m,
           SpentBy(b, i, x, m)
    PROVE  ~Has(S, <<x, m>>)
<1> SUFFICES ASSUME NEW o \in S[x], o[1] = m PROVE FALSE
  BY DEF Has
<1>1. CASE MadeBy(b, i, x)
  BY <1>1 DEF Partial
<1>2. CASE ~MadeBy(b, i, x)
  BY <1>2 DEF Partial
<1> QED BY <1>1, <1>2

\* Transaction t, the next of b after the first i, takes the coins from S to S2.
NextTx(b, i, S0, S, S2, t) ==
    /\ i \in Nat /\ i < Len(BlockTxs[b])
    /\ S0 \in CoinMaps /\ S \in CoinMaps /\ S2 \in CoinMaps
    /\ Partial(b, i, S0, S) /\ Later(b, i)
    /\ t \in Txids /\ t = BlockTxs[b][i + 1] /\ ~MadeBy(b, i, t) /\ S[t] = {}
    /\ \A j \in 1 .. Len(Ins[t]) : Has(S, Ins[t][j])
    /\ \A x \in Txids : MadeBy(b, Len(BlockTxs[b]), x) => S0[x] = {}
    /\ \A x \in Txids : S2[x] =
          IF x = t THEN OutIdx[t] \X {Height[b]}
          ELSE {o \in S[x] : \A j \in 1 .. Len(Ins[t]) : <<x, o[1]>> # Ins[t][j]}

\* The coins after one more transaction.
LEMMA PartialNext ==
    ASSUME NEW b \in Blocks \ {Genesis}, NEW i, NEW S0, NEW S, NEW S2, NEW t,
           NextTx(b, i, S0, S, S2, t)
    PROVE  Partial(b, i + 1, S0, S2) /\ Later(b, i + 1)
<1> USE DEF NextTx
<1> DEFINE In(x, m) == \E j \in 1 .. Len(Ins[t]) : Ins[t][j] = <<x, m>>
<1>1. \A x : MadeBy(b, i + 1, x) <=> MadeBy(b, i, x) \/ x = t
  BY MadeNext
<1>2. ASSUME NEW x, NEW m PROVE SpentBy(b, i + 1, x, m) <=> SpentBy(b, i, x, m) \/ In(x, m)
  <2>1. SpentBy(b, i + 1, x, m) <=>
           \/ SpentBy(b, i, x, m)
           \/ \E j \in 1 .. Len(Ins[BlockTxs[b][i + 1]]) : Ins[BlockTxs[b][i + 1]][j] = <<x, m>>
    <3> HIDE DEF In
    <3>1. i \in Nat
      OBVIOUS
    <3>2. \A k \in 1 .. i + 1 : k \in 1 .. i \/ k = i + 1
      BY ONLY <3>1
    <3>3. i + 1 \in 1 .. i + 1 /\ \A k \in 1 .. i : k \in 1 .. i + 1
      BY ONLY <3>1
    <3> QED BY ONLY <3>2, <3>3 DEF SpentBy
  <2>2. BlockTxs[b][i + 1] = t
    OBVIOUS
  <2> QED BY ONLY <2>1, <2>2
<1>3. MadeBy(b, Len(BlockTxs[b]), t)
  <2>1. Len(BlockTxs[b]) \in Nat
    BY TxsTypes
  <2>2. i + 1 \in 1 .. Len(BlockTxs[b])
    BY <2>1
  <2> QED BY <2>2 DEF MadeBy
<1>4. \A x \in Txids : MadeBy(b, Len(BlockTxs[b]), x) /\ ~MadeBy(b, i, x) => S[x] = {}
  BY DEF Partial
<1>5. \A x \in Txids, m \in Nat : In(x, m) => Has(S, <<x, m>>)
  OBVIOUS
<1>6. \A x \in Txids, m \in Nat : Has(S, <<x, m>>) => S[x] # {}
  BY DEF Has
<1>7. \A m : ~In(t, m)
  <2>1. ASSUME NEW m, In(t, m) PROVE FALSE
    <3>1. PICK j \in 1 .. Len(Ins[t]) : Ins[t][j] = <<t, m>>
      BY <2>1
    <3>2. m \in Nat
      BY <3>1, InsTypes
    <3> HIDE DEF In
    <3> QED BY <1>5, <1>6, <2>1, <3>2
  <2> QED BY <2>1
<1>8. \A m : ~SpentBy(b, i, t, m)
  <2>1. ASSUME NEW m, SpentBy(b, i, t, m) PROVE FALSE
    <3>1. PICK k \in 1 .. i : \E j \in 1 .. Len(Ins[BlockTxs[b][k]]) :
                                 Ins[BlockTxs[b][k]][j] = <<t, m>>
      BY <2>1 DEF SpentBy
    <3>2. Len(BlockTxs[b]) \in Nat /\ k \in 1 .. Len(BlockTxs[b])
      BY TxsTypes
    <3>3. BlockTxs[b][k] \in Txids
      BY <3>2, TxsTypes
    <3>4. m \in Nat
      BY <3>1, <3>3, InsTypes
    <3> QED BY <1>3, <2>1, <3>4 DEF Later
  <2> QED BY <2>1
<1>9. ASSUME NEW x \in Txids, NEW o
      PROVE  (\A j \in 1 .. Len(Ins[t]) : <<x, o[1]>> # Ins[t][j]) <=> ~In(x, o[1])
  OBVIOUS
<1> HIDE DEF In
<1>10. ASSUME NEW x \in Txids
       PROVE  S2[x] = IF MadeBy(b, i + 1, x)
                      THEN {o \in OutIdx[x] \X {Height[b]} : ~SpentBy(b, i + 1, x, o[1])}
                      ELSE {o \in S0[x] : ~SpentBy(b, i + 1, x, o[1])}
  <2>1. CASE x = t
    <3>1. \A m : ~SpentBy(b, i + 1, t, m)
      BY <1>2, <1>7, <1>8
    <3> QED BY <1>1, <2>1, <3>1
  <2>2. CASE x # t
    <3>1. S2[x] = {o \in S[x] : ~In(x, o[1])}
      <4>1. S2[x] = {o \in S[x] : \A j \in 1 .. Len(Ins[t]) : <<x, o[1]>> # Ins[t][j]}
        BY <2>2
      <4>2. \A o : (\A j \in 1 .. Len(Ins[t]) : <<x, o[1]>> # Ins[t][j]) <=> ~In(x, o[1])
        BY <1>9
      <4> QED BY ONLY <4>1, <4>2
    <3>2. MadeBy(b, i + 1, x) <=> MadeBy(b, i, x)
      BY <1>1, <2>2
    <3>3. S[x] = IF MadeBy(b, i, x)
                 THEN {o \in OutIdx[x] \X {Height[b]} : ~SpentBy(b, i, x, o[1])}
                 ELSE {o \in S0[x] : ~SpentBy(b, i, x, o[1])}
      BY DEF Partial
    <3>4. CASE MadeBy(b, i, x)
      BY <1>2, <3>1, <3>2, <3>3, <3>4
    <3>5. CASE ~MadeBy(b, i, x)
      BY <1>2, <3>1, <3>2, <3>3, <3>5
    <3> QED BY <3>4, <3>5
  <2> QED BY <2>1, <2>2
<1>11. ASSUME NEW x \in Txids, MadeBy(b, Len(BlockTxs[b]), x), ~MadeBy(b, i + 1, x), NEW m \in Nat
       PROVE  ~SpentBy(b, i + 1, x, m)
  <2>1. ~MadeBy(b, i, x)
    BY <1>1, <1>11
  <2>2. ~SpentBy(b, i, x, m)
    BY <1>11, <2>1 DEF Later
  <2>3. ~In(x, m)
    BY <1>4, <1>5, <1>6, <1>11, <2>1
  <2> QED BY <1>2, <2>2, <2>3
<1> QED BY <1>10, <1>11 DEF Partial, Later

\* The transactions of b are applied to the coins S0, none of which they overwrite if
\* all is well so far.
Applies(b, work, S0, r) ==
    /\ Sound(work) /\ Below(work) = S0 /\ Sees(work) = S0 /\ Uniform(S0) /\ work.undo = <<>>
    /\ work.ok => \A i \in 1 .. Len(BlockTxs[b]) : S0[BlockTxs[b][i]] = {}
    /\ \E tr : Works(<<"update", Height[b]>>, work, BlockTxs[b], tr) /\ r = tr[Len(BlockTxs[b])]

\* What comes of it.
LEMMA ConnectWorks ==
    ASSUME NEW b \in Blocks \ {Genesis}, NEW work, NEW S0, NEW r, Applies(b, work, S0, r)
    PROVE  /\ Sound(r) /\ Below(r) = S0
           /\ r.ok => /\ BlockRun(b, S0, r.undo, Sees(r))
                      /\ Partial(b, Len(BlockTxs[b]), S0, Sees(r)) /\ Uniform(Sees(r))
                      /\ \A x \in Txids : MadeBy(b, Len(BlockTxs[b]), x) => S0[x] = {}
<1> DEFINE s == BlockTxs[b]
           n == Len(BlockTxs[b])
<1>1. PICK tr : Works(<<"update", Height[b]>>, work, BlockTxs[b], tr) /\ r = tr[Len(BlockTxs[b])]
  BY DEF Applies
<1> USE DEF Applies
<1>2. n \in Nat /\ DOMAIN s = 1 .. n /\ \A j \in 1 .. n : s[j] \in Txids
  BY TxsTypes
<1>3. r = tr[n]
  BY <1>1
<1>4. tr[0] = work /\ \A i \in 1 .. n : tr[i] = UpdateCoins(tr[i - 1], s[i], Height[b])
  BY <1>1 DEF Works, Apply
<1>5. S0 \in CoinMaps
  BY SoundTypes
<1>6. \A i \in 1 .. n : Ins[s[i]] = <<>> <=> i = 1
  <2>1. \A i \in DOMAIN BlockTxs[b] : Ins[BlockTxs[b][i]] = <<>> <=> i = 1
    BY ChainAssumption
  <2> QED BY <1>2, <2>1
<1>7. work.ok => \A x \in Txids : MadeBy(b, n, x) => S0[x] = {}
  BY DEF MadeBy
<1>8. Uniform(S0) /\ Sound(work) /\ Sees(work) = S0 /\ Below(work) = S0 /\ work.undo = <<>>
  OBVIOUS
<1> HIDE DEF Applies
<1> DEFINE Fine(i) == /\ work.ok /\ Uniform(Sees(tr[i])) /\ Partial(b, i, S0, Sees(tr[i]))
                      /\ Later(b, i)
                      /\ i > 0 => TxStep(s[i], Height[b], Sees(tr[i - 1]), tr[i - 1].undo,
                                         Sees(tr[i]), tr[i].undo)
                      /\ i > 0 => tr[i - 1].ok
           P == {i \in 0 .. n : Sound(tr[i]) /\ Below(tr[i]) = S0 /\ (tr[i].ok => Fine(i))}
<1>9. 0 \in P
  <2>1. \A x, m : ~MadeBy(b, 0, x) /\ ~SpentBy(b, 0, x, m)
    BY DEF MadeBy, SpentBy
  <2>2. Partial(b, 0, S0, S0) /\ Later(b, 0)
    BY <2>1 DEF Partial, Later
  <2> QED BY <1>2, <1>4, <1>8, <2>2
<1> HIDE DEF s, n
<1>10. ASSUME NEW i \in 0 .. n - 1, i \in P PROVE i + 1 \in P
  <2>1. i + 1 \in 1 .. n /\ (i + 1) - 1 = i /\ i + 1 \in 0 .. n /\ i + 1 > 0 /\ i \in Nat /\ i < n
    BY <1>2
  <2>2. PICK t : t = s[i + 1]
    OBVIOUS
  <2>3. PICK w : w = tr[i]
    OBVIOUS
  <2>4. PICK q : q = tr[i + 1]
    OBVIOUS
  <2>5. t \in Txids /\ q = UpdateCoins(w, t, Height[b]) /\ Sound(w) /\ Below(w) = S0
    BY <1>2, <1>4, <1>10, <2>1, <2>2, <2>3, <2>4
  <2>6. CASE Same(w, q) /\ ~q.ok
    BY <2>1, <2>4, <2>5, <2>6 DEF Same, Leads
  <2>7. CASE /\ FoldLeft(HaveInput, w, Ins[t]).ok /\ w.ok
             /\ \A j \in 1 .. Len(Ins[t]) : Has(Sees(w), Ins[t][j])
    <3>1. Fine(i)
      BY <1>10, <2>3, <2>7
    <3>2. ~MadeBy(b, i, t)
      <4> SUFFICES ASSUME NEW k \in 1 .. i, s[k] = t PROVE FALSE
        BY DEF MadeBy, s
      <4>1. i + 1 # 1 /\ Ins[t] # <<>>
        BY <1>2, <1>6, <2>1, <2>2
      <4>2. Len(Ins[t]) \in Nat /\ Len(Ins[t]) # 0
        BY <2>5, <4>1, InsTypes
      <4>3. 1 \in 1 .. Len(Ins[t])
        BY <4>2
      <4>4. PICK in : in = Ins[t][1]
        OBVIOUS
      <4>5. in = <<in[1], in[2]>> /\ in[1] \in Txids /\ Has(Sees(w), in)
        BY <2>5, <2>7, <4>3, <4>4, InsTypes
      <4>6. SpentBy(b, i, in[1], in[2])
        BY <4>3, <4>4, <4>5 DEF SpentBy, s
      <4>7. ~Has(Sees(w), <<in[1], in[2]>>)
        BY <2>3, <3>1, <4>5, <4>6, SpentIsGone
      <4> QED BY <4>5, <4>7
    <3>3. MadeBy(b, n, t)
      BY <2>1, <2>2 DEF MadeBy, s
    <3>4. S0[t] = {} /\ Sees(w)[t] = {}
      <4>1. S0[t] = {}
        BY <1>7, <2>5, <3>1, <3>3 DEF n
      <4> QED BY <2>3, <2>5, <3>1, <3>2, <4>1 DEF Partial
    <3>5. Updated(w, t, b, q)
      BY <2>3, <2>5, <2>7, <3>1, <3>4, UpdateTx
    <3>6. Sound(q) /\ Below(q) = S0 /\ Sees(q) \in CoinMaps /\ Sees(w) \in CoinMaps
      BY <2>5, <3>5, SoundTypes DEF Updated
    <3>7. Partial(b, i + 1, S0, Sees(q)) /\ Later(b, i + 1)
      <4>1. \A x \in Txids : MadeBy(b, Len(BlockTxs[b]), x) => S0[x] = {}
        BY <1>7, <3>1 DEF n
      <4>2. \A x \in Txids : Sees(q)[x] =
              IF x = t THEN OutIdx[t] \X {Height[b]}
              ELSE {o \in Sees(w)[x] : \A j \in 1 .. Len(Ins[t]) : <<x, o[1]>> # Ins[t][j]}
        BY <3>5 DEF Updated
      <4>3. t = BlockTxs[b][i + 1] /\ i < Len(BlockTxs[b]) /\ i \in Nat
        BY <2>1, <2>2 DEF s, n
      <4>4. Partial(b, i, S0, Sees(w)) /\ Later(b, i)
        BY <2>3, <3>1
      <4>5. \A j \in 1 .. Len(Ins[t]) : Has(Sees(w), Ins[t][j])
        BY <2>7
      <4>6. NextTx(b, i, S0, Sees(w), Sees(q), t)
        BY ONLY <1>5, <2>5, <3>2, <3>4, <3>6, <4>1, <4>2, <4>3, <4>4, <4>5 DEF NextTx
      <4>7. b \in Blocks \ {Genesis}
        OBVIOUS
      <4> QED BY ONLY <4>6, <4>7, PartialNext
    <3>8. Fine(i + 1)
      BY <2>1, <2>2, <2>3, <2>4, <2>7, <3>1, <3>5, <3>7 DEF Updated
    <3> QED BY <2>1, <2>4, <3>6, <3>8
  <2> QED BY <2>5, <2>6, <2>7, UpdateChecked
<1>11. 0 .. n \subseteq P
  <2> HIDE DEF P
  <2> QED BY <1>2, <1>9, <1>10, UpTo
<1>12. n \in 0 .. n
  BY <1>2
<1>13. Sound(r) /\ Below(r) = S0 /\ (r.ok => Fine(n))
  <2>1. n \in P
    <3> HIDE DEF P
    <3> QED BY <1>11, <1>12
  <2> QED BY <1>3, <2>1
<1>14. ASSUME r.ok PROVE \A i \in 0 .. n : tr[n - i].ok
  <2> DEFINE Q == {i \in 0 .. n : tr[n - i].ok}
  <2>1. 0 \in Q
    BY <1>2, <1>3, <1>14
  <2>2. ASSUME NEW i \in 0 .. n - 1, i \in Q PROVE i + 1 \in Q
    <3>1. n - i \in 0 .. n /\ n - i > 0 /\ (n - i) - 1 = n - (i + 1) /\ i + 1 \in 0 .. n
      BY <1>2
    <3>2. Fine(n - i)
      BY <1>11, <2>2, <3>1
    <3> QED BY <3>1, <3>2
  <2>3. 0 .. n \subseteq Q
    <3> HIDE DEF Q
    <3> QED BY <1>2, <2>1, <2>2, UpTo
  <2> QED BY <2>3
<1>15. ASSUME r.ok, NEW i \in 0 .. n PROVE Sound(tr[i]) /\ Fine(i)
  <2>1. n - i \in 0 .. n /\ n - (n - i) = i
    BY <1>2
  <2>2. tr[i].ok
    BY <1>14, <1>15, <2>1
  <2> QED BY <1>11, <2>2
<1>16. ASSUME r.ok PROVE BlockRun(b, S0, r.undo, Sees(r))
  <2> DEFINE Y == [i \in 0 .. n |-> Sees(tr[i])]
             W == [i \in 0 .. n |-> tr[i].undo]
  <2>1. Y[0] = S0 /\ W[0] = <<>>
    BY <1>2, <1>4, <1>8
  <2>2. ASSUME NEW i \in 1 .. n
        PROVE  TxStep(s[i], Height[b], Y[i - 1], W[i - 1], Y[i], W[i])
    <3>1. i \in 0 .. n /\ i - 1 \in 0 .. n /\ i > 0
      BY <1>2
    <3>2. Fine(i)
      BY <1>15, <1>16, <3>1
    <3> QED BY <3>1, <3>2
  <2>3. ASSUME NEW i \in 0 .. n PROVE Y[i] \in CoinMaps /\ Uniform(Y[i]) /\ W[i] \in Undos
    <3>1. Sound(tr[i]) /\ Uniform(Sees(tr[i]))
      BY <1>15, <1>16
    <3>2. Sees(tr[i]) \in CoinMaps /\ tr[i].undo \in Undos
      BY <3>1, SoundTypes DEF Sound, Work
    <3> QED BY <3>1, <3>2
  <2>4. Y[n] = Sees(r) /\ W[n] = r.undo
    BY <1>3, <1>12
  <2> HIDE DEF Y, W
  <2> QED BY <2>1, <2>2, <2>3, <2>4 DEF BlockRun, s, n
<1> QED BY <1>3, <1>7, <1>13, <1>16 DEF n

\* What ConnectBlock(b) leaves in its view over pcoinsTip.
Connected(b, r) ==
    /\ Sound(r) /\ Below(r) = TipSeen
    /\ r.ok => /\ BlockRun(b, TipSeen, r.undo, Sees(r))
               /\ Partial(b, Len(BlockTxs[b]), TipSeen, Sees(r))

\* ConnectBlock applies the transactions of b to what pcoinsTip shows.
LEMMA ConnectSound ==
    ASSUME NEW b \in Blocks \ {Genesis}, tip \in Caches, coindb.coins \in CoinMaps,
           FlagsTrue(tip, coindb.coins), Uniform(TipSeen)
    PROVE  Connected(b, ConnectBlock(b))
<1> DEFINE w == [view |-> EmptyCache, tip |-> tip, undo |-> <<>>, ok |-> TRUE]
           c == FoldLeft(CheckOverwrite, w, BlockTxs[b])
<1>1. Len(BlockTxs[b]) \in Nat /\ DOMAIN BlockTxs[b] = 1 .. Len(BlockTxs[b])
  BY TxsTypes
<1>2. <<>> \in Undos
  BY DEF Undos
<1>3. Sound(w) /\ Below(w) = TipSeen /\ Sees(w) = TipSeen
  BY <1>2, NewWork
<1>4. w.undo = <<>>
  OBVIOUS
<1>5. \E tr : /\ Works(<<"update", Height[b]>>, c, BlockTxs[b], tr)
              /\ ConnectBlock(b) = tr[Len(BlockTxs[b])]
  BY ONLY <1>1, ConnectFold
<1> HIDE DEF w
<1>6. /\ Same(w, c)
      /\ c.ok => \A i \in 1 .. Len(BlockTxs[b]) : Sees(w)[BlockTxs[b][i]] = {}
  BY <1>3, CheckAll
<1> HIDE DEF c
<1>7. PICK r : r = ConnectBlock(b)
  OBVIOUS
<1>8. \E tr : Works(<<"update", Height[b]>>, c, BlockTxs[b], tr) /\ r = tr[Len(BlockTxs[b])]
  BY ONLY <1>5, <1>7
<1>9. Sound(c) /\ Below(c) = TipSeen /\ Sees(c) = TipSeen /\ c.undo = <<>>
  BY ONLY <1>3, <1>4, <1>6 DEF Same, Leads
<1>10. c.ok => \A i \in 1 .. Len(BlockTxs[b]) : TipSeen[BlockTxs[b][i]] = {}
  BY ONLY <1>3, <1>6
<1>11. b \in Blocks \ {Genesis} /\ Uniform(TipSeen)
  OBVIOUS
<1>12. PICK S0 : S0 = TipSeen
  OBVIOUS
<1>13. /\ Sound(r) /\ Below(r) = S0
       /\ r.ok => /\ BlockRun(b, S0, r.undo, Sees(r))
                  /\ Partial(b, Len(BlockTxs[b]), S0, Sees(r))
  <2>1. Applies(b, c, S0, r)
    BY ONLY <1>8, <1>9, <1>10, <1>11, <1>12 DEF Applies
  <2> QED BY ONLY <1>11, <2>1, ConnectWorks
<1>14. Connected(b, r)
  BY ONLY <1>12, <1>13 DEF Connected
<1> QED BY ONLY <1>7, <1>14

-----------------------------------------------------------------------------
(* The tree of blocks.                                                     *)

\* A chain is made of blocks, and its last one is the highest.
Climbs(b) ==
    /\ Anc[b] \subseteq Blocks /\ b \in Anc[b]
    /\ \A y \in Anc[b] : Height[y] <= Height[b] /\ (Height[y] = Height[b] => y = b)

\* Every chain is so.
LEMMA ChainClimbs ==
    ASSUME NEW b \in Blocks
    PROVE  Climbs(b)
<1> DEFINE Bad == {c \in Blocks : ~Climbs(c)}
<1> SUFFICES ASSUME Bad # {} PROVE FALSE
  OBVIOUS
<1>1. Height \in [Blocks -> Nat] /\ Genesis \in Blocks
  BY ChainAssumption
<1>2. PICK c \in Bad : \A d \in Bad : Height[c] <= Height[d]
  <2> DEFINE H == {Height[d] : d \in Bad}
  <2>1. H \in SUBSET Nat /\ H # {}
    BY <1>1
  <2> HIDE DEF H
  <2>2. PICK n \in H : \A m \in H : n <= m
    BY <2>1, LeastNatural
  <2> QED BY <2>2 DEF H
<1>3. c # Genesis
  <2>1. Anc[Genesis] = {Genesis}
    BY ChainAssumption
  <2>2. Climbs(Genesis)
    BY <1>1, <2>1 DEF Climbs
  <2> QED BY <2>2
<1>4. /\ Parent[c] \in Blocks /\ Height[c] = Height[Parent[c]] + 1
      /\ Anc[c] = {c} \cup Anc[Parent[c]]
  BY <1>3, ChainAssumption
<1>5. Height[Parent[c]] \in Nat /\ Height[c] \in Nat
  BY <1>1, <1>4
<1>6. Climbs(Parent[c])
  BY <1>2, <1>4, <1>5
<1>7. \A y \in Anc[Parent[c]] : y \in Blocks /\ Height[y] \in Nat /\ Height[y] < Height[c]
  BY <1>1, <1>4, <1>5, <1>6 DEF Climbs
<1>8. Climbs(c)
  BY <1>4, <1>5, <1>7 DEF Climbs
<1> QED BY <1>8

\* One block more.
LEMMA ChainNext ==
    ASSUME NEW b \in Blocks \ {Genesis}
    PROVE  /\ Parent[b] \in Blocks /\ Anc[b] = {b} \cup Anc[Parent[b]]
           /\ \A y \in Anc[Parent[b]] : Height[y] < Height[b]
<1>1. /\ Parent[b] \in Blocks /\ Height[b] = Height[Parent[b]] + 1 /\ Height \in [Blocks -> Nat]
      /\ Anc[b] = {b} \cup Anc[Parent[b]]
  BY ChainAssumption
<1>2. Climbs(Parent[b])
  BY <1>1, ChainClimbs
<1>3. \A y \in Anc[Parent[b]] : Height[y] < Height[b]
  BY <1>1, <1>2 DEF Climbs
<1> QED BY <1>1, <1>3

-----------------------------------------------------------------------------
(* Utxo, block by block.                                                   *)

\* The blocks of the chain to b that have transaction x, and whether one of height h
\* or more spends output m of it.
Bys(b, x) == {y \in Anc[b] : MadeBy(y, Len(BlockTxs[y]), x)}
Gone(b, h, x, m) == \E y \in Anc[b] : Height[y] >= h /\ SpentBy(y, Len(BlockTxs[y]), x, m)

\* They are the ones Utxo speaks of.
LEMMA TxsOf ==
    ASSUME NEW y \in Blocks, NEW x
    PROVE  x \in Range(BlockTxs[y]) <=> MadeBy(y, Len(BlockTxs[y]), x)
<1>1. DOMAIN BlockTxs[y] = 1 .. Len(BlockTxs[y])
  BY TxsTypes
<1> QED BY <1>1 DEF Range, MadeBy

\* And so are the spent outputs.
LEMMA SpentOf ==
    ASSUME NEW y \in Blocks, NEW x, NEW m
    PROVE  (\E u \in Range(BlockTxs[y]) : <<x, m>> \in Range(Ins[u]))
              <=> SpentBy(y, Len(BlockTxs[y]), x, m)
<1>1. DOMAIN BlockTxs[y] = 1 .. Len(BlockTxs[y]) /\
      \A i \in 1 .. Len(BlockTxs[y]) : BlockTxs[y][i] \in Txids
  BY TxsTypes
<1>2. \A u \in Txids : DOMAIN Ins[u] = 1 .. Len(Ins[u])
  BY InsTypes
<1>3. \A u \in Txids : <<x, m>> \in Range(Ins[u]) <=>
                       \E j \in 1 .. Len(Ins[u]) : Ins[u][j] = <<x, m>>
  BY <1>2 DEF Range
<1>4. \A u : u \in Range(BlockTxs[y]) <=> \E k \in 1 .. Len(BlockTxs[y]) : BlockTxs[y][k] = u
  BY <1>1 DEF Range
<1>5. (\E u \in Range(BlockTxs[y]) : <<x, m>> \in Range(Ins[u])) <=>
      \E k \in 1 .. Len(BlockTxs[y]) : <<x, m>> \in Range(Ins[BlockTxs[y][k]])
  BY ONLY <1>4, Zenon
<1> QED BY ONLY <1>1, <1>3, <1>5 DEF SpentBy

\* Some block of them is the highest.
LEMMA HighestBy ==
    ASSUME NEW b \in Blocks, NEW x, Bys(b, x) # {}
    PROVE  \E f \in Bys(b, x) : \A y \in Bys(b, x) : Height[y] <= Height[f]
<1>1. Climbs(b) /\ Height \in [Blocks -> Nat]
  BY ChainClimbs, ChainAssumption
<1>2. \A y \in Bys(b, x) : Height[y] \in Nat /\ Height[y] <= Height[b]
  BY <1>1 DEF Climbs, Bys
<1>3. Height[b] \in Nat
  BY <1>1
<1> DEFINE H == {Height[b] - Height[y] : y \in Bys(b, x)}
<1>4. H \in SUBSET Nat /\ H # {}
  BY <1>2, <1>3
<1> HIDE DEF H
<1>5. PICK n \in H : \A m \in H : n <= m
  BY <1>4, LeastNatural
<1>6. PICK f \in Bys(b, x) : n = Height[b] - Height[f]
  BY <1>5 DEF H
<1>7. ASSUME NEW y \in Bys(b, x) PROVE Height[y] <= Height[f]
  <2>1. Height[b] - Height[y] \in H
    BY DEF H
  <2>2. Height[b] - Height[f] <= Height[b] - Height[y]
    BY <1>5, <1>6, <2>1
  <2> QED BY <1>2, <1>3, <1>6, <2>2
<1> QED BY <1>7

\* What Utxo holds of a transaction.
LEMMA UtxoNone ==
    ASSUME NEW b \in Blocks, NEW x \in Txids, Bys(b, x) = {}
    PROVE  Utxo[b][x] = {}
<1>1. \A y \in Anc[b] : x \in Range(BlockTxs[y]) <=> MadeBy(y, Len(BlockTxs[y]), x)
  BY TxsOf, ChainClimbs DEF Climbs
<1>2. {y \in Anc[b] : x \in Range(BlockTxs[y])} = {}
  BY <1>1 DEF Bys
<1> QED BY <1>2 DEF Utxo

\* If the last block that has x is f: its outputs less what was spent since.
LEMMA UtxoOf ==
    ASSUME NEW b \in Blocks, NEW x \in Txids, NEW f \in Bys(b, x),
           \A y \in Bys(b, x) : Height[y] <= Height[f]
    PROVE  Utxo[b][x] = {o \in OutIdx[x] \X {Height[f]} : ~Gone(b, Height[f], x, o[1])}
<1> DEFINE By == {y \in Anc[b] : x \in Range(BlockTxs[y])}
           From == CHOOSE z \in By : \A y \in By : Height[y] <= Height[z]
           Out == {n \in OutIdx[x] : \E y \in Anc[b] :
                            /\ Height[y] >= Height[From]
                            /\ \E u \in Range(BlockTxs[y]) : <<x, n>> \in Range(Ins[u])}
<1>1. Anc[b] \subseteq Blocks /\ Height \in [Blocks -> Nat]
  BY ChainClimbs, ChainAssumption DEF Climbs
<1>2. \A y \in Anc[b] : x \in Range(BlockTxs[y]) <=> MadeBy(y, Len(BlockTxs[y]), x)
  BY <1>1, TxsOf
<1>3. By = Bys(b, x)
  BY <1>2 DEF Bys
<1>4. Utxo[b][x] = IF By = {} THEN {} ELSE (OutIdx[x] \ Out) \X {Height[From]}
  BY DEF Utxo
<1> HIDE DEF By
<1>5. From \in By /\ \A y \in By : Height[y] <= Height[From]
  BY <1>3
<1> HIDE DEF From
<1>6. Height[From] = Height[f]
  <2>1. From \in Blocks /\ f \in Blocks /\ Height[From] <= Height[f] /\ Height[f] <= Height[From]
    BY <1>1, <1>3, <1>5 DEF Bys
  <2>2. Height[From] \in Nat /\ Height[f] \in Nat
    BY <1>1, <2>1
  <2> QED BY <2>1, <2>2
<1>7. \A n \in OutIdx[x] : n \in Out <=> Gone(b, Height[f], x, n)
  <2>1. \A n : \A y \in Anc[b] : (\E u \in Range(BlockTxs[y]) : <<x, n>> \in Range(Ins[u]))
                                  <=> SpentBy(y, Len(BlockTxs[y]), x, n)
    BY <1>1, SpentOf
  <2>2. ASSUME NEW n \in OutIdx[x] PROVE n \in Out <=> Gone(b, Height[f], x, n)
    <3>1. n \in Out <=> \E y \in Anc[b] :
                            /\ Height[y] >= Height[f]
                            /\ \E u \in Range(BlockTxs[y]) : <<x, n>> \in Range(Ins[u])
      BY <1>6
    <3> HIDE DEF Out
    <3> QED BY ONLY <2>1, <3>1 DEF Gone
  <2> HIDE DEF Out
  <2> QED BY <2>2
<1> HIDE DEF Out
<1>8. Utxo[b][x] = (OutIdx[x] \ Out) \X {Height[f]}
  BY <1>3, <1>4, <1>6
<1> QED BY <1>7, <1>8

\* It gives coins to every transaction, of one height each.
LEMMA UtxoTypes ==
    ASSUME NEW b \in Blocks
    PROVE  Utxo[b] \in CoinMaps /\ Uniform(Utxo[b])
<1>1. Utxo[b] = [x \in Txids |-> Utxo[b][x]]
  BY DEF Utxo
<1>2. ASSUME NEW x \in Txids
      PROVE  /\ Utxo[b][x] \in Coins
             /\ \A o, p \in Utxo[b][x] : o[2] = p[2] /\ o[2] \in Nat \ {0}
  <2>1. CASE Bys(b, x) = {}
    BY <2>1, UtxoNone DEF Coins
  <2>2. CASE Bys(b, x) # {}
    <3>1. PICK f \in Bys(b, x) : \A y \in Bys(b, x) : Height[y] <= Height[f]
      BY <2>2, HighestBy
    <3>2. Utxo[b][x] \subseteq OutIdx[x] \X {Height[f]}
      BY <3>1, UtxoOf
    <3>3. f \in Blocks /\ f # Genesis
      <4>1. f \in Blocks /\ MadeBy(f, Len(BlockTxs[f]), x)
        BY ChainClimbs DEF Climbs, Bys
      <4>2. BlockTxs[Genesis] = <<>>
        BY ChainAssumption
      <4>3. f # Genesis
        BY <4>1, <4>2 DEF MadeBy
      <4> QED BY <4>1, <4>3
    <3>4. Height[f] \in Nat \ {0} /\ OutIdx[x] \X {Height[f]} \in Coins
      BY <3>3, HeightPositive, NewOutputs
    <3> QED BY <3>2, <3>4 DEF Coins
  <2> QED BY <2>1, <2>2
<1>3. \A x \in Txids : Utxo[b][x] \in Coins
  BY <1>2
<1>4. Utxo[b] \in CoinMaps
  BY ONLY <1>1, <1>3 DEF CoinMaps
<1> QED BY <1>2, <1>4 DEF Uniform

\* Before the first block there are none.
LEMMA UtxoGenesis == Utxo[Genesis] = [x \in Txids |-> {}]
<1>1. Genesis \in Blocks /\ Anc[Genesis] = {Genesis} /\ BlockTxs[Genesis] = <<>>
  BY ChainAssumption
<1>2. \A x : Bys(Genesis, x) = {}
  BY <1>1 DEF Bys, MadeBy
<1>3. \A x \in Txids : Utxo[Genesis][x] = {}
  BY <1>1, <1>2, UtxoNone
<1>4. Utxo[Genesis] = [x \in Txids |-> Utxo[Genesis][x]]
  BY <1>1 DEF Utxo
<1> QED BY <1>3, <1>4

\* The transactions of b make of the coins of its parent's chain those of its own.
LEMMA UtxoNext ==
    ASSUME NEW b \in Blocks \ {Genesis}, NEW S \in CoinMaps,
           Partial(b, Len(BlockTxs[b]), Utxo[Parent[b]], S)
    PROVE  S = Utxo[b]
<1> DEFINE n == Len(BlockTxs[b])
           p == Parent[b]
<1>1. p \in Blocks /\ Anc[b] = {b} \cup Anc[p] /\ \A y \in Anc[p] : Height[y] < Height[b]
  BY ChainNext
<1>2. Height \in [Blocks -> Nat] /\ Climbs(b) /\ Climbs(p)
  BY <1>1, ChainClimbs, ChainAssumption
<1>3. \A y \in Anc[b] : Height[y] \in Nat /\ Height[y] <= Height[b]
  BY <1>2 DEF Climbs
<1>4. Height[b] \in Nat
  BY <1>2
<1>5. ASSUME NEW x \in Txids PROVE S[x] = Utxo[b][x]
  <2>1. CASE MadeBy(b, n, x)
    <3>1. b \in Bys(b, x) /\ \A y \in Bys(b, x) : Height[y] <= Height[b]
      BY <1>1, <1>3, <2>1 DEF Bys
    <3>2. Utxo[b][x] = {o \in OutIdx[x] \X {Height[b]} : ~Gone(b, Height[b], x, o[1])}
      BY <3>1, UtxoOf
    <3>3. \A m : Gone(b, Height[b], x, m) <=> SpentBy(b, n, x, m)
      <4>1. \A y \in Anc[b] : Height[y] >= Height[b] <=> y = b
        BY <1>1, <1>3, <1>4
      <4>2. b \in Anc[b]
        BY <1>1
      <4> QED BY <4>1, <4>2 DEF Gone
    <3>4. S[x] = {o \in OutIdx[x] \X {Height[b]} : ~SpentBy(b, n, x, o[1])}
      BY <2>1 DEF Partial
    <3> HIDE DEF n
    <3> QED BY ONLY <3>2, <3>3, <3>4
  <2>2. CASE ~MadeBy(b, n, x)
    <3>1. Bys(b, x) = Bys(p, x)
      BY <1>1, <2>2 DEF Bys
    <3>2. S[x] = {o \in Utxo[p][x] : ~SpentBy(b, n, x, o[1])}
      BY <2>2 DEF Partial
    <3>3. CASE Bys(b, x) = {}
      <4>1. Utxo[b][x] = {} /\ Utxo[p][x] = {}
        BY <1>1, <3>1, <3>3, UtxoNone
      <4> QED BY <3>2, <4>1
    <3>4. CASE Bys(b, x) # {}
      <4>1. PICK f \in Bys(b, x) : \A y \in Bys(b, x) : Height[y] <= Height[f]
        BY <3>4, HighestBy
      <4>2. Utxo[b][x] = {o \in OutIdx[x] \X {Height[f]} : ~Gone(b, Height[f], x, o[1])}
        BY <4>1, UtxoOf
      <4>3. Utxo[p][x] = {o \in OutIdx[x] \X {Height[f]} : ~Gone(p, Height[f], x, o[1])}
        BY <1>1, <3>1, <4>1, UtxoOf
      <4>4. Height[b] >= Height[f]
        BY <1>3, <1>4, <4>1 DEF Bys
      <4>5. \A m : Gone(b, Height[f], x, m) <=> Gone(p, Height[f], x, m) \/ SpentBy(b, n, x, m)
        BY <1>1, <4>4 DEF Gone
      <4> HIDE DEF n, p
      <4> QED BY ONLY <3>2, <4>2, <4>3, <4>5
    <3> QED BY <3>3, <3>4
  <2> QED BY <2>1, <2>2
<1>6. Utxo[b] \in CoinMaps
  BY UtxoTypes
<1> QED BY <1>5, <1>6 DEF CoinMaps

-----------------------------------------------------------------------------
(* DisconnectBlock is the inverse of ConnectBlock.                         *)

\* The view shows S over the coins B, the undo data left is U, and all is well.
Holds(work, B, S, U) ==
    Sound(work) /\ Below(work) = B /\ Sees(work) = S /\ work.undo = U /\ work.ok

\* The last undo entry.
LEMMA LastUndo ==
    ASSUME NEW U \in Undos, NEW e \in Nat \X Nat
    PROVE  Last(Append(U, e)) = e /\ Front(Append(U, e)) = U
BY DEF Undos, Last, Front

\* An input is put back as it was spent.
SpentInput(S, U, in, S2, U2) ==
    /\ SpendStep(S, U, in, S2, U2) /\ S \in CoinMaps /\ Uniform(S) /\ U \in Undos
    /\ in \in Txids \X Nat

\* ApplyTxInUndo puts it back.
LEMMA RestoreStep ==
    ASSUME NEW work, NEW B, NEW S, NEW U, NEW S2, NEW U2, NEW in,
           SpentInput(S, U, in, S2, U2), Holds(work, B, S2, U2)
    PROVE  Holds(ApplyTxInUndo(work, in), B, S, U)
<1> DEFINE x == in[1]
           here == CoinsOf(work, x)
           u == Last(work.undo)
           kept == IF u[2] # 0 THEN {} ELSE here
           h == IF u[2] # 0 THEN u[2] ELSE (CHOOSE o \in here : TRUE)[2]
           m == ModifyCoins(work, x, kept \cup {<<u[1], h>>})
<1>1. /\ in = <<in[1], in[2]>> /\ x \in Txids /\ in[2] \in Nat
      /\ S \in CoinMaps /\ Uniform(S) /\ U \in Undos
  BY DEF SpentInput
<1>2. PICK o \in S[x] : /\ o[1] = in[2]
                        /\ U2 = Append(U, <<in[2], UndoHeight(S2[x], o[2])>>)
  BY DEF SpentInput, SpendStep
<1>3. S2 = [S EXCEPT ![x] = {q \in S[x] : q[1] # in[2]}]
  BY DEF SpentInput, SpendStep, Minus
<1>4. here = S2[x] /\ S2[x] = {q \in S[x] : q[1] # in[2]}
  <2>1. here = S2[x]
    BY SoundTypes DEF Holds
  <2> QED BY <1>1, <1>3, <2>1 DEF CoinMaps
<1>5. /\ \A q \in S[x] : q[2] = o[2] /\ q = <<q[1], q[2]>>
      /\ o[2] \in Nat \ {0}
  <2>1. \A q \in S[x] : q[2] = o[2] /\ o[2] \in Nat \ {0}
    BY <1>1 DEF Uniform
  <2>2. \A q \in S[x] : q = <<q[1], q[2]>>
    BY <1>1, CoinPairs
  <2> QED BY <2>1, <2>2
<1>6. u = <<in[2], UndoHeight(here, o[2])>> /\ Front(work.undo) = U
  <2>1. <<in[2], UndoHeight(here, o[2])>> \in Nat \X Nat
    BY <1>1, <1>5 DEF UndoHeight
  <2>2. work.undo = Append(U, <<in[2], UndoHeight(here, o[2])>>)
    BY <1>2, <1>4 DEF Holds
  <2> HIDE DEF here
  <2> QED BY <1>1, <2>1, <2>2, LastUndo
<1>7. \A q \in here : q \in S[x] /\ q[1] # in[2]
  BY <1>4
<1>8. (u[2] # 0 <=> here = {}) /\ u[1] = in[2]
  BY <1>5, <1>6 DEF UndoHeight
<1>9. h = o[2]
  <2>1. CASE here = {}
    BY <1>5, <1>6, <2>1 DEF UndoHeight
  <2>2. CASE here # {}
    <3>1. (CHOOSE q \in here : TRUE) \in here
      BY <2>2
    <3> HIDE DEF here
    <3> QED BY <1>5, <1>7, <1>8, <2>2, <3>1
  <2> QED BY <2>1, <2>2
<1>10. kept \cup {<<u[1], h>>} = S[x]
  <2>1. kept = here
    BY <1>8
  <2>2. <<u[1], h>> = o
    BY <1>2, <1>5, <1>8, <1>9
  <2>3. \A q \in S[x] : q \in here \/ q = o
    BY <1>2, <1>4, <1>5
  <2> HIDE DEF kept, here, h, u
  <2> QED BY <1>7, <2>1, <2>2, <2>3
<1>11. ApplyTxInUndo(work, in) = [m EXCEPT !.undo = Front(@)]
  <2>1. ~(~work.ok \/ (u[2] # 0) # (here = {}) \/ \E q \in here : q[1] = in[2])
    BY <1>7, <1>8 DEF Holds
  <2>2. ApplyTxInUndo(work, in) =
          IF ~work.ok \/ (u[2] # 0) # (here = {}) \/ \E q \in here : q[1] = in[2]
          THEN [work EXCEPT !.ok = FALSE]
          ELSE [m EXCEPT !.undo = Front(@)]
    BY DEF ApplyTxInUndo
  <2> HIDE DEF m, here, u
  <2> QED BY <2>1, <2>2
<1>12. m = ModifyCoins(work, x, S[x])
  BY <1>10
<1> HIDE DEF m, h, kept, u, here
<1>13. S[x] \in Coins
  BY <1>1 DEF CoinMaps
<1>14. Leads(work, m, [Sees(work) EXCEPT ![x] = S[x]]) /\ m.undo = work.undo /\ m.ok = work.ok
  BY <1>1, <1>12, <1>13, ModifySound DEF Holds
<1>15. [Sees(work) EXCEPT ![x] = S[x]] = S
  BY <1>1, <1>3 DEF Holds, CoinMaps
<1>16. Sound(m) /\ Below(m) = B /\ Sees(m) = S /\ m.ok /\ m.undo = work.undo
  BY <1>14, <1>15 DEF Leads, Holds
<1>17. Leads(m, [m EXCEPT !.undo = U], S)
  BY <1>1, <1>16, OtherFields
<1>18. ApplyTxInUndo(work, in) = [m EXCEPT !.undo = U] /\ m \in Work
  BY <1>6, <1>11, <1>16 DEF Sound
<1> QED BY <1>16, <1>17, <1>18 DEF Leads, Holds, Work

\* A sequence, reversed.
LEMMA Reversed ==
    ASSUME NEW s, Len(s) \in Nat
    PROVE  /\ Len(Reverse(s)) = Len(s) /\ DOMAIN Reverse(s) = 1 .. Len(s)
           /\ \A i \in 1 .. Len(s) : Reverse(s)[i] = s[(Len(s) - i) + 1]
<1>1. DOMAIN Reverse(s) = 1 .. Len(s)
  BY DEF Reverse
<1>2. Reverse(s) \in Seq({s[i] : i \in 1 .. Len(s)})
  <2> DEFINE T == {s[i] : i \in 1 .. Len(s)}
  <2>1. \A i \in 1 .. Len(s) : (Len(s) - i) + 1 \in 1 .. Len(s)
    OBVIOUS
  <2>2. \A i \in 1 .. Len(s) : s[(Len(s) - i) + 1] \in T
    BY <2>1
  <2> HIDE DEF T
  <2>3. Reverse(s) \in [1 .. Len(s) -> T]
    BY <2>2 DEF Reverse
  <2>4. Reverse(s) \in Seq(T)
    BY <2>3
  <2> QED BY <2>4 DEF T
<1>3. Len(Reverse(s)) = Len(s)
  BY <1>1, <1>2
<1> QED BY <1>1, <1>3 DEF Reverse

\* All inputs of t are put back, the last one first.
LEMMA RestoreAll ==
    ASSUME NEW work, NEW B, NEW S, NEW U, NEW X, NEW V, NEW t \in Txids,
           Spends(t, S, U, X, V), Holds(work, B, X[Len(Ins[t])], V[Len(Ins[t])])
    PROVE  Holds(FoldLeft(ApplyTxInUndo, work, Reverse(Ins[t])), B, S, U)
<1> DEFINE s == Ins[t]
           n == Len(Ins[t])
           z == Reverse(Ins[t])
<1>1. n \in Nat /\ \A j \in 1 .. n : s[j] \in Txids \X Nat
  BY InsTypes
<1>2. Len(z) = n /\ DOMAIN z = 1 .. n /\ \A i \in 1 .. n : z[i] = s[(n - i) + 1]
  BY <1>1, Reversed
<1> HIDE DEF z
<1>3. PICK tr : /\ Works(<<"restore", 0>>, work, z, tr)
                /\ FoldLeft(ApplyTxInUndo, work, z) = tr[Len(z)]
  BY <1>1, <1>2, RestoreFold
<1>4. PICK r : r = FoldLeft(ApplyTxInUndo, work, z)
  OBVIOUS
<1>5. r = tr[n]
  BY <1>2, <1>3, <1>4
<1>6. tr[0] = work /\ \A i \in 1 .. n : tr[i] = ApplyTxInUndo(tr[i - 1], z[i])
  BY <1>2, <1>3 DEF Works, Apply
<1> DEFINE P == {i \in 0 .. n : Holds(tr[i], B, X[n - i], V[n - i])}
<1>7. 0 \in P
  BY ONLY <1>1, <1>6, Holds(work, B, X[n], V[n])
<1>8. ASSUME NEW i \in 0 .. n - 1, i \in P PROVE i + 1 \in P
  <2>1. /\ i + 1 \in 1 .. n /\ (i + 1) - 1 = i /\ i + 1 \in 0 .. n
        /\ (n - (i + 1)) + 1 = n - i /\ n - i \in 1 .. n /\ n - (i + 1) = (n - i) - 1
        /\ (n - i) - 1 \in 0 .. n
    <3>1. n \in Nat /\ i \in 0 .. n - 1
      BY <1>1
    <3> HIDE DEF n
    <3> QED BY ONLY <3>1
  <2>2. PICK k : k = n - i
    OBVIOUS
  <2>3. PICK in : in = s[k]
    OBVIOUS
  <2>4. tr[i + 1] = ApplyTxInUndo(tr[i], in)
    <3>1. tr[i + 1] = ApplyTxInUndo(tr[(i + 1) - 1], z[i + 1])
      BY <1>6, <2>1
    <3>2. z[i + 1] = s[k]
      BY <1>2, <2>1, <2>2
    <3> QED BY <2>1, <2>3, <3>1, <3>2
  <2>5. SpentInput(X[k - 1], V[k - 1], in, X[k], V[k])
    <3>1. SpendStep(X[k - 1], V[k - 1], in, X[k], V[k])
      BY <2>1, <2>2, <2>3 DEF Spends
    <3>2. X[k - 1] \in CoinMaps /\ Uniform(X[k - 1]) /\ V[k - 1] \in Undos
      BY <2>1, <2>2 DEF Spends
    <3>3. in \in Txids \X Nat
      BY <1>1, <2>1, <2>2, <2>3
    <3> QED BY <3>1, <3>2, <3>3 DEF SpentInput
  <2>6. Holds(tr[i], B, X[k], V[k])
    BY <1>8, <2>2
  <2>7. Holds(ApplyTxInUndo(tr[i], in), B, X[k - 1], V[k - 1])
    BY ONLY <2>5, <2>6, RestoreStep
  <2> QED BY <2>1, <2>2, <2>4, <2>7
<1>9. 0 .. n \subseteq P
  <2> HIDE DEF P, n
  <2> QED BY <1>1, <1>7, <1>8, UpTo
<1>10. Holds(tr[n], B, X[n - n], V[n - n])
  <2>1. n \in 0 .. n
    BY <1>1
  <2> QED BY <1>9, <2>1
<1>11. n - n = 0
  BY <1>1
<1>12. X[0] = S /\ V[0] = U
  BY DEF Spends
<1>13. Holds(r, B, S, U)
  BY ONLY <1>5, <1>10, <1>11, <1>12
<1> QED BY ONLY <1>4, <1>13 DEF z

\* A transaction is undone as it was applied.
AppliedTx(t, h, S, U, S2, U2) ==
    TxStep(t, h, S, U, S2, U2) /\ t \in Txids /\ S2 \in CoinMaps

\* UndoTx undoes it.
LEMMA UndoTxStep ==
    ASSUME NEW work, NEW B, NEW S, NEW U, NEW S2, NEW U2, NEW t, NEW h,
           AppliedTx(t, h, S, U, S2, U2), Holds(work, B, S2, U2)
    PROVE  Holds(UndoTx(work, t, h), B, S, U)
<1> DEFINE n == Len(Ins[t])
<1>1. PICK X, V : /\ Spends(t, S, U, X, V) /\ V[n] = U2 /\ X[n][t] = {}
                  /\ S2 = [X[n] EXCEPT ![t] = OutIdx[t] \X {h}]
  BY DEF AppliedTx, TxStep
<1>2. t \in Txids
  BY DEF AppliedTx
<1>3. n \in Nat /\ X[n] \in CoinMaps
  <2>1. n \in Nat
    BY <1>2, InsTypes
  <2>2. n \in 0 .. n
    BY <2>1
  <2> QED BY <1>1, <2>1, <2>2 DEF Spends
<1> DEFINE m == ModifyCoins(work, t, {})
           a == [m EXCEPT !.ok = @ /\ CoinsOf(work, t) = OutIdx[t] \X {h}]
<1>4. UndoTx(work, t, h) = FoldLeft(ApplyTxInUndo, a, Reverse(Ins[t]))
  BY DEF UndoTx
<1>5. CoinsOf(work, t) = OutIdx[t] \X {h}
  <2>1. CoinsOf(work, t) = S2[t]
    BY SoundTypes DEF Holds
  <2> QED BY <1>1, <1>2, <1>3, <2>1 DEF CoinMaps
<1>6. Leads(work, m, [S2 EXCEPT ![t] = {}]) /\ m.undo = U2 /\ m.ok = TRUE
  <2>1. {} \in Coins /\ Sound(work) /\ Sees(work) = S2 /\ work.undo = U2 /\ work.ok = TRUE
    BY DEF Coins, Holds, Sound, Work
  <2> HIDE DEF m
  <2> QED BY <1>2, <2>1, ModifySound DEF m
<1>7. [S2 EXCEPT ![t] = {}] = X[n]
  <2>1. \A x \in Txids : [S2 EXCEPT ![t] = {}][x] = X[n][x]
    BY <1>1, <1>3, <1>2 DEF CoinMaps
  <2>2. DOMAIN [S2 EXCEPT ![t] = {}] = Txids /\ DOMAIN X[n] = Txids
    BY <1>3 DEF AppliedTx, CoinMaps
  <2> QED BY <1>1, <1>2, <1>3 DEF CoinMaps
<1> HIDE DEF m
<1>8. a = m
  BY <1>5, <1>6 DEF Leads, Sound, Work
<1>9. Holds(a, B, X[n], V[n])
  BY <1>1, <1>6, <1>7, <1>8 DEF Holds, Leads
<1> HIDE DEF a
<1>10. Holds(FoldLeft(ApplyTxInUndo, a, Reverse(Ins[t])), B, S, U)
  BY ONLY <1>1, <1>2, <1>9, RestoreAll
<1> QED BY ONLY <1>4, <1>10

\* The transactions of a block are undone, the last one first.
LEMMA DisconnectSound ==
    ASSUME NEW b \in Blocks, tip \in Caches, coindb.coins \in CoinMaps,
           FlagsTrue(tip, coindb.coins),
           NEW S, NEW U \in Undos, undo[b] = <<U>>, BlockRun(b, S, U, TipSeen)
    PROVE  Holds(DisconnectBlock(b), TipSeen, S, <<>>)
<1> DEFINE s == BlockTxs[b]
           n == Len(BlockTxs[b])
           z == Reverse(BlockTxs[b])
           h == Height[b]
<1>1. n \in Nat /\ \A j \in 1 .. n : s[j] \in Txids
  BY TxsTypes
<1>2. Len(z) = n /\ DOMAIN z = 1 .. n /\ \A i \in 1 .. n : z[i] = s[(n - i) + 1]
  BY <1>1, Reversed
<1>3. PICK work : work = [view |-> EmptyCache, tip |-> tip, undo |-> undo[b][1], ok |-> TRUE]
  OBVIOUS
<1>4. Holds(work, TipSeen, TipSeen, U)
  <2>1. undo[b][1] = U
    OBVIOUS
  <2>2. work = [view |-> EmptyCache, tip |-> tip, undo |-> U, ok |-> TRUE]
    BY <1>3, <2>1
  <2>3. Sound(work) /\ Below(work) = TipSeen /\ Sees(work) = TipSeen
    BY <2>2, NewWork
  <2> QED BY <2>2, <2>3 DEF Holds
<1>5. PICK r : r = DisconnectBlock(b)
  OBVIOUS
<1>6. \E tr : Works(<<"undo", h>>, work, z, tr) /\ DisconnectBlock(b) = tr[Len(z)]
  BY ONLY <1>1, <1>2, <1>3, DisconnectFold
<1>7. PICK tr : Works(<<"undo", h>>, work, z, tr) /\ r = tr[n]
  BY ONLY <1>2, <1>5, <1>6
<1>8. tr[0] = work /\ \A i \in 1 .. n : tr[i] = UndoTx(tr[i - 1], z[i], h)
  BY <1>2, <1>7 DEF Works, Apply
<1> HIDE DEF z
<1>9. PICK Y, W :
       /\ Y[0] = S /\ W[0] = <<>>
       /\ \A i \in 1 .. n : TxStep(s[i], h, Y[i - 1], W[i - 1], Y[i], W[i])
       /\ \A i \in 0 .. n : Y[i] \in CoinMaps /\ Uniform(Y[i]) /\ W[i] \in Undos
       /\ Y[n] = TipSeen /\ W[n] = U
  BY DEF BlockRun
<1> HIDE DEF n, s, h
<1> DEFINE P == {i \in 0 .. n : Holds(tr[i], TipSeen, Y[n - i], W[n - i])}
<1>10. 0 \in P
  BY ONLY <1>1, <1>4, <1>8, <1>9
<1>11. ASSUME NEW i \in 0 .. n - 1, i \in P PROVE i + 1 \in P
  <2>1. /\ i + 1 \in 1 .. n /\ (i + 1) - 1 = i /\ i + 1 \in 0 .. n
        /\ (n - (i + 1)) + 1 = n - i /\ n - i \in 1 .. n /\ n - (i + 1) = (n - i) - 1
        /\ n - i \in 0 .. n
    BY <1>1
  <2>2. PICK k : k = n - i
    OBVIOUS
  <2>3. PICK t : t = s[k]
    OBVIOUS
  <2>4. tr[i + 1] = UndoTx(tr[i], t, h)
    <3>1. tr[i + 1] = UndoTx(tr[(i + 1) - 1], z[i + 1], h)
      BY <1>8, <2>1
    <3>2. z[i + 1] = s[k]
      BY <1>2, <2>1, <2>2
    <3> QED BY <2>1, <2>3, <3>1, <3>2
  <2>5. AppliedTx(t, h, Y[k - 1], W[k - 1], Y[k], W[k])
    <3>1. TxStep(t, h, Y[k - 1], W[k - 1], Y[k], W[k]) /\ Y[k] \in CoinMaps
      BY <1>9, <2>1, <2>2, <2>3
    <3>2. t \in Txids
      BY <1>1, <2>1, <2>2, <2>3
    <3> QED BY <3>1, <3>2 DEF AppliedTx
  <2>6. Holds(tr[i], TipSeen, Y[k], W[k])
    BY <1>11, <2>2
  <2>7. Holds(UndoTx(tr[i], t, h), TipSeen, Y[k - 1], W[k - 1])
    BY ONLY <2>5, <2>6, UndoTxStep
  <2> QED BY <2>1, <2>2, <2>4, <2>7
<1>12. 0 .. n \subseteq P
  <2> HIDE DEF P
  <2> QED BY <1>1, <1>10, <1>11, UpTo
<1>13. Holds(tr[n], TipSeen, Y[n - n], W[n - n])
  <2>1. n \in 0 .. n
    BY <1>1
  <2> QED BY <1>12, <2>1
<1>14. n - n = 0
  BY <1>1
<1> QED BY ONLY <1>5, <1>7, <1>9, <1>13, <1>14

\* A set of blocks that holds the parents of its blocks.
HoldsParents(S) == S \subseteq Blocks /\ \A b \in S \ {Genesis} : Parent[b] \in S

\* Such a set holds the whole chain of each of its blocks.
LEMMA ClosedHoldsChains ==
    ASSUME NEW S, HoldsParents(S), NEW b \in S
    PROVE  Anc[b] \subseteq S
<1> DEFINE Bad == {c \in S : ~(Anc[c] \subseteq S)}
<1> SUFFICES ASSUME Bad # {} PROVE FALSE
  OBVIOUS
<1>1. PICK c \in Bad : \A d \in Bad : Height[c] <= Height[d]
  <2> DEFINE H == {Height[d] : d \in Bad}
  <2>1. H \in SUBSET Nat /\ H # {}
    BY ChainAssumption DEF HoldsParents
  <2> HIDE DEF H
  <2>2. PICK n \in H : \A m \in H : n <= m
    BY <2>1, LeastNatural
  <2> QED BY <2>2 DEF H
<1>2. c # Genesis
  BY <1>1, ChainAssumption
<1>3. Parent[c] \in S /\ Height[c] = Height[Parent[c]] + 1 /\ Anc[c] = {c} \cup Anc[Parent[c]]
  BY <1>1, <1>2, ChainAssumption DEF HoldsParents
<1>4. Height[Parent[c]] \in Nat /\ Height[c] \in Nat
  BY <1>1, <1>3, ChainAssumption DEF HoldsParents
<1>5. Parent[c] \notin Bad
  BY <1>1, <1>3, <1>4
<1> QED BY <1>1, <1>3, <1>5

-----------------------------------------------------------------------------
(* The inductive invariant.                                                *)

\* What is known of a block where: nothing is marked in the index, or committed, that
\* is not there, and with a block its parents are known.
Known ==
    /\ HoldsParents(stored) /\ HoldsParents(index.data)
    /\ written \subseteq stored /\ index.data \subseteq synced.data
    /\ synced.data \subseteq written
    /\ DOMAIN file = Blocks /\ DOMAIN index.file = Blocks
    /\ active \in stored /\ tipBest \in stored
    /\ coindb \in oldDbs /\ \A d \in oldDbs : d.best \in index.data

\* As long as no write has failed: what is not in the index is going to be, what is not
\* committed is in the last file.
InOrder ==
    /\ stored \subseteq written
    /\ stored \subseteq index.data \cup dirty
    /\ \A b \in written \ synced.data : file[b] = lastFile

\* How far FlushStateToDisk has come.
Stage ==
    /\ pc = "index" => written \subseteq synced.data
    /\ pc = "coins" => stored \subseteq index.data

\* The invariant: after a failed write only what is on disk counts.
Inv == Known /\ (~broken => InOrder /\ Stage)

\* It holds at the start.
LEMMA InitInv == Init => Inv
<1> SUFFICES ASSUME Init PROVE Inv
  OBVIOUS
<1>1. Known
  BY ChainAssumption DEF Init, Known, HoldsParents
<1>2. InOrder /\ Stage
  BY ChainAssumption DEF Init, InOrder, Stage
<1> QED BY <1>1, <1>2 DEF Inv

\* A block is stored; when that starts a new file the last one is committed first.
LEMMA AcceptStep ==
    ASSUME ~Transient, Inv, NEW b \in Blocks \ {Genesis}, AcceptBlock(b)
    PROVE  Inv'
<1> USE DEF coinVars, flowVars, faultVars
<1>1. PICK n : /\ file' = [file EXCEPT ![b] = n] /\ lastFile' = n
               /\ synced' = IF n = lastFile THEN synced ELSE FlushBlockFile(lastFile)
  BY DEF AcceptBlock
<1>2. /\ synced.data \subseteq synced'.data /\ synced'.data \subseteq written
      /\ n # lastFile => {c \in written : file[c] = lastFile} \subseteq synced'.data
  BY <1>1 DEF FlushBlockFile, Inv, Known
<1>3. /\ stored' = stored \cup {b} /\ dirty' = dirty \cup {b} /\ Parent[b] \in stored
      /\ written \subseteq written' /\ written' \subseteq written \cup {b}
      /\ pc = "idle" /\ pc' = pc /\ index' = index
      /\ ~broken' => ~broken /\ written' = written \cup {b}
  BY DEF AcceptBlock, WriteWorks, WriteFails
<1>4. Known'
  BY <1>1, <1>2, <1>3 DEF AcceptBlock, Inv, Known, HoldsParents
<1>5. ASSUME ~broken' PROVE InOrder'
  <2>1. InOrder /\ written' = written \cup {b}
    BY <1>3, <1>5 DEF Inv
  <2>2. \A c \in written' \ synced'.data : file'[c] = lastFile'
    BY <1>1, <1>2, <1>3, <2>1 DEF InOrder, Inv, Known, HoldsParents
  <2> QED BY <1>3, <2>1, <2>2 DEF InOrder
<1>6. Stage'
  BY <1>3 DEF Stage
<1> QED BY <1>4, <1>5, <1>6 DEF Inv

\* Connecting and disconnecting blocks: nothing is stored or written but undo data.
LEMMA ConnectSteps ==
    ASSUME Inv,
           \/ \E b \in Blocks \ {Genesis} :
                 ConnectTip(b) \/ ConnectTipInvalid(b) \/ ConnectTipAborts(b)
           \/ DisconnectTip
    PROVE  Inv'
<1> USE DEF coinVars, flowVars, faultVars, blockVars, diskVars
<1> DEFINE Kept == UNCHANGED <<active, coindb, oldDbs, stored, written, file, lastFile, index,
                              synced>>
           More == dirty \subseteq dirty' /\ tipBest' \in stored
           Flow == (~broken' => ~broken) /\ pc' \in {"idle", "decide"}
<1>1. ASSUME NEW b \in Blocks \ {Genesis}, ConnectTip(b) PROVE Kept /\ More /\ Flow
  <2>1. Kept /\ Flow /\ b \in written /\ tipBest' = b
    BY <1>1 DEF ConnectTip
  <2>2. dirty \subseteq dirty'
    BY <1>1 DEF ConnectTip
  <2> QED BY <2>1, <2>2 DEF Inv, Known
<1>2. ASSUME NEW b \in Blocks \ {Genesis}, ConnectTipInvalid(b) \/ ConnectTipAborts(b)
      PROVE  Kept /\ More /\ Flow
  BY <1>2 DEF ConnectTipInvalid, ConnectTipAborts, WriteFails, Inv, Known
<1>3. ASSUME DisconnectTip PROVE Kept /\ More /\ Flow
  BY <1>3 DEF DisconnectTip, Inv, Known, HoldsParents
<1>4. Kept /\ More /\ Flow
  BY <1>1, <1>2, <1>3
<1>5. Known'
  BY <1>4 DEF Inv, Known, HoldsParents
<1>6. ~broken' => InOrder' /\ Stage'
  BY <1>4 DEF Inv, InOrder, Stage
<1> QED BY <1>5, <1>6 DEF Inv

\* FlushStateToDisk begins, or is not needed.
LEMMA BeginSteps ==
    ASSUME Inv, SkipFlush \/ CacheCritical \/ FlushPeriodic \/ Shutdown
    PROVE  Inv'
<1> USE DEF coinVars, flowVars, faultVars, blockVars, diskVars
<1>1. /\ UNCHANGED <<tipBest, coindb, oldDbs, stored, written, file, lastFile, dirty, index,
                     synced, broken>>
      /\ active' \in {active, tipBest}
      /\ pc' \in {"idle", "down", "files"}
  BY DEF SkipFlush, CacheCritical, FlushPeriodic, Shutdown, Finish
<1>2. Known'
  BY <1>1 DEF Inv, Known, HoldsParents
<1>3. ~broken' => InOrder' /\ Stage'
  BY <1>1 DEF Inv, InOrder, Stage
<1> QED BY <1>2, <1>3 DEF Inv

\* Nothing but pc changes when there is no space on the disk.
LEMMA SpaceStep ==
    ASSUME Inv, OutOfDiskSpace
    PROVE  Inv'
<1> USE DEF coinVars, blockVars, diskVars
<1>1. /\ UNCHANGED <<active, tipBest, coindb, oldDbs, stored, written, file, lastFile, dirty,
                     index, synced, broken>>
      /\ pc' \in {"idle", "down", "aborted"}
  BY DEF OutOfDiskSpace
<1>2. Known'
  BY <1>1 DEF Inv, Known, HoldsParents
<1>3. ~broken' => InOrder' /\ Stage'
  BY <1>1 DEF Inv, InOrder, Stage
<1> QED BY <1>2, <1>3 DEF Inv

\* With the last file committed all the block data is.
LEMMA FilesStep ==
    ASSUME Inv, FlushFiles
    PROVE  Inv'
<1> USE DEF coinVars, flowVars, faultVars, blockVars, diskVars
<1>1. /\ UNCHANGED <<active, tipBest, coindb, oldDbs, stored, written, file, lastFile, dirty,
                     index, broken>>
      /\ synced'.data = synced.data \cup {b \in written : file[b] = lastFile}
      /\ pc' = "index"
  BY DEF FlushFiles, FlushBlockFile
<1>2. Known'
  BY <1>1 DEF Inv, Known, HoldsParents
<1>3. ~broken' => InOrder' /\ Stage'
  BY <1>1 DEF Inv, InOrder, Stage
<1> QED BY <1>2, <1>3 DEF Inv

\* The index is written when no write has failed: its blocks are committed, and all the
\* stored ones are in it.
LEMMA IndexStep ==
    ASSUME ~Transient, Inv, FlushIndex
    PROVE  Inv'
<1> USE DEF coinVars, flowVars, faultVars, blockVars, diskVars
<1>1. UNCHANGED <<tipBest, coindb, oldDbs, stored, written, file, lastFile, synced>>
  BY DEF FlushIndex
<1>2. active' \in {active, tipBest}
  BY DEF FlushIndex, Finish, Fail
<1>3. CASE broken'
  <2>1. index' = index
    BY <1>3 DEF FlushIndex, WriteWorks
  <2>2. Known'
    BY <1>1, <1>2, <2>1 DEF Inv, Known, HoldsParents
  <2> QED BY <1>3, <2>2 DEF Inv
<1>4. CASE ~broken'
  <2>1. ~broken /\ index' = IndexBatch /\ pc = "index" /\ pc' \in {"coins", "down", "idle"}
    BY <1>4 DEF FlushIndex, WriteWorks, Finish, Fail, WriteFails
  <2>2. /\ InOrder /\ written \subseteq synced.data /\ stored \subseteq index.data \cup dirty
        /\ Known
    BY <2>1 DEF Inv, Stage, InOrder
  <2>3. index'.data = index.data \cup (dirty \cap stored) /\ DOMAIN index'.file = Blocks
    BY <2>1 DEF IndexBatch
  <2>4. index'.data = stored
    BY <2>2, <2>3 DEF Known, InOrder
  <2>5. Known'
    BY <1>1, <1>2, <2>2, <2>3, <2>4 DEF InOrder, Known, HoldsParents
  <2>6. InOrder' /\ Stage'
    BY <1>1, <2>1, <2>2, <2>4 DEF InOrder, Stage
  <2> QED BY <2>5, <2>6 DEF Inv
<1> QED BY <1>3, <1>4

\* The coins are written when the index holds the tip.
LEMMA CoinsStep ==
    ASSUME ~Transient, Inv, FlushCoins
    PROVE  Inv'
<1> USE DEF coinVars, flowVars, faultVars, blockVars, diskVars
<1>1. UNCHANGED <<tipBest, stored, written, file, lastFile, dirty, index, synced>>
  BY DEF FlushCoins
<1>2. active' \in {active, tipBest}
  BY DEF FlushCoins, Finish, Fail
<1>3. CASE broken'
  <2>1. coindb' = coindb /\ oldDbs' = oldDbs
    BY <1>3 DEF FlushCoins, WriteWorks
  <2>2. Known'
    BY <1>1, <1>2, <2>1 DEF Inv, Known, HoldsParents
  <2> QED BY <1>3, <2>2 DEF Inv
<1>4. CASE ~broken'
  <2>1. /\ ~broken /\ coindb' = CoinBatch /\ oldDbs' = oldDbs \cup {CoinBatch}
        /\ pc = "coins" /\ pc' \in {"down", "idle"}
    BY <1>4 DEF FlushCoins, WriteWorks, Finish, Fail, WriteFails
  <2>2. CoinBatch.best = tipBest /\ tipBest \in index.data
    BY <2>1 DEF CoinBatch, Inv, Stage, Known
  <2>3. Known'
    <3> HIDE DEF CoinBatch
    <3> QED BY <1>1, <1>2, <2>1, <2>2 DEF Inv, Known, HoldsParents
  <2>4. InOrder' /\ Stage'
    BY <1>1, <2>1 DEF Inv, InOrder, Stage
  <2> QED BY <2>3, <2>4 DEF Inv
<1> QED BY <1>3, <1>4

\* The process starts again with the blocks of the index: all of them are in the files,
\* and a failure loses none of them.
LEMMA StartSteps ==
    ASSUME Inv, Crash \/ Restart
    PROVE  Inv'
<1>1. index.data \subseteq synced.data /\ synced.data \subseteq written
  BY DEF Inv, Known
<1>2. written' = index.data /\ synced'.data = index.data
  <2>1. CASE Restart
    BY <1>1, <2>1 DEF Restart
  <2>2. CASE Crash
    BY <1>1, <2>2 DEF Crash
  <2> QED BY <2>1, <2>2
<1>3. PICK d \in oldDbs : \E u : LoadBlockIndexDB(d, u)
  BY DEF Crash, Restart, Inv, Known
<1>4. /\ stored' = index.data /\ file' = index.file /\ index' = index
      /\ active' = d.best /\ tipBest' = d.best /\ d.best \in index.data
      /\ coindb' = d /\ oldDbs' = {d} /\ pc' = "idle"
  BY <1>3 DEF LoadBlockIndexDB
<1>5. Known'
  BY <1>2, <1>4 DEF Inv, Known, HoldsParents
<1>6. InOrder' /\ Stage'
  BY <1>2, <1>4 DEF InOrder, Stage
<1> QED BY <1>5, <1>6 DEF Inv

\* Every step keeps the invariant, when a write that has failed is not followed by one
\* that works.
LEMMA StepInv ==
    ASSUME ~Transient, Inv, [Next]_vars
    PROVE  Inv'
<1>1. CASE Next
  BY <1>1, AcceptStep, ConnectSteps, BeginSteps, SpaceStep, FilesStep, IndexStep, CoinsStep, StartSteps
     DEF Next
<1>2. CASE UNCHANGED vars
  <2> USE <1>2 DEF vars, coinVars, flowVars, faultVars, blockVars, diskVars
  <2>1. Known'
    BY DEF Inv, Known, HoldsParents
  <2>2. ~broken' => InOrder' /\ Stage'
    BY DEF Inv, InOrder, Stage
  <2> QED BY <2>1, <2>2 DEF Inv
<1> QED BY <1>1, <1>2

-----------------------------------------------------------------------------
(* The inductive invariant for coins and undo data.                        *)

\* What is left of the bounds.
Budget == [blocks : SUBSET Blocks, crashes : Nat, errors : Nat, files : Nat]

\* The types, with the file numbers: no block is in a file after the last one.
Typed ==
    /\ TypeOK /\ tip \in Caches
    /\ budget \in Budget
    /\ index.last \in Nat /\ index.last <= lastFile
    /\ \A b \in Blocks : file[b] <= lastFile
    /\ index.file \in [Blocks -> Nat] /\ \A b \in Blocks : index.file[b] <= index.last

\* The coins are those of the block they are said to be of, in memory as long as a
\* failed FlushCoins has not emptied the cache (after which only Shutdown flushes again).
Flushing(p) == p \in {"files", "index", "coins"}
CoinsRight ==
    /\ FlagsTrue(tip, coindb.coins)
    /\ DiskCoinsExact
    /\ (pc \in {"idle", "decide"} \/ ~broken \/ (~closing /\ Flushing(pc)))
            => TipSeen = Utxo[tipBest]
    /\ pc = "idle" => active = tipBest

\* The chain of the tip was read from the files and has undo data, in the index as well
\* for what the coin database may go back to.
ChainsUndone ==
    /\ Anc[tipBest] \subseteq written /\ Anc[tipBest] \ {Genesis} \subseteq undone
    /\ index.undo \subseteq undone
    /\ \A d \in oldDbs : Anc[d.best] \ {Genesis} \subseteq index.undo
    /\ ~broken => undone \subseteq index.undo \cup dirty
    /\ ~broken /\ pc = "coins" => undone \subseteq index.undo

\* With one block file, undo data that is marked is there, and committed before the
\* mark is.
UndoInFile ==
    /\ lastFile = 0 => \A b \in undone : undo[b] # NoUndo
    /\ index.last = 0 => /\ index.undo \subseteq synced.undo
                         /\ \A b \in index.undo : undo[b] # NoUndo
    /\ lastFile = 0 /\ pc = "index" => undone \subseteq synced.undo

\* Undo data is what the block left when it was connected.
UndoOf(b, v) ==
    b # Genesis /\ \E U \in Undos : v = <<U>> /\ BlockRun(b, Utxo[Parent[b]], U, Utxo[b])
\* It is so for every block that has undo data.
UndoRight == \A b \in Blocks : undo[b] # NoUndo => UndoOf(b, undo[b])

\* The invariant.
FullInv == Inv /\ Typed /\ CoinsRight /\ ChainsUndone /\ UndoInFile /\ UndoRight

\* The cache of pcoinsTip and the coins below it.
LEMMA TipTypes ==
    ASSUME Typed
    PROVE  tip \in Caches /\ coindb.coins \in CoinMaps
BY DEF Typed, TypeOK, CoinDb, CoinMaps

\* A write error is counted.
LEMMA FaultTypes ==
    ASSUME budget \in Budget, broken \in BOOLEAN, WriteFails \/ UNCHANGED <<broken, budget>>
    PROVE  budget' \in Budget /\ budget'.files = budget.files /\ broken' \in BOOLEAN
<1>1. CASE WriteFails
  <2>1. broken' = TRUE
    BY <1>1 DEF WriteFails
  <2>2. budget' = budget \/ (budget.errors > 0 /\ budget' = [budget EXCEPT !.errors = @ - 1])
    BY <1>1 DEF WriteFails
  <2>3. budget' \in Budget /\ budget'.files = budget.files
    BY <2>2 DEF Budget
  <2> QED BY <2>1, <2>3
<1>2. CASE UNCHANGED <<broken, budget>>
  BY <1>2
<1> QED BY <1>1, <1>2

\* It holds at the start.
LEMMA InitFullInv == Init => FullInv
<1> SUFFICES ASSUME Init PROVE FullInv
  OBVIOUS
<1>1. /\ Genesis \in Blocks /\ Height \in [Blocks -> Nat] /\ Anc[Genesis] = {Genesis}
      /\ Budgets \subseteq [blocks : SUBSET Blocks, crashes : Nat, errors : Nat, files : Nat]
  BY ChainAssumption
<1>2. Inv
  BY InitInv
<1>3. TypeOK
  <2>1. tip \in Caches /\ DOMAIN tip = {}
    BY EmptyCacheShape DEF Init
  <2>2. coindb \in CoinDb
    BY <1>1 DEF Init, CoinDb, Coins
  <2>3. budget \in [blocks : SUBSET Blocks, crashes : Nat, errors : Nat, files : Nat]
    BY <1>1 DEF Init
  <2>4. /\ active \in Blocks /\ tipBest \in Blocks /\ oldDbs = {coindb}
        /\ stored = {Genesis} /\ written = {Genesis} /\ undone = {} /\ dirty = {}
        /\ file = [b \in Blocks |-> 0] /\ lastFile = 0 /\ DOMAIN undo = Blocks
        /\ index.data = {Genesis} /\ index.undo = {}
    BY <1>1 DEF Init
  <2>5. synced \in Durable
    BY <1>1 DEF Init, Durable
  <2>6. pc \in Locations /\ full \in BOOLEAN /\ closing \in BOOLEAN /\ broken \in BOOLEAN
    BY DEF Init, Locations
  <2>7. budget.crashes \in Nat /\ budget.errors \in Nat /\ budget.files \in Nat
    BY <2>3
  <2>8. file \in [Blocks -> 0..budget.files] /\ lastFile \in 0..budget.files
    BY <2>4, <2>7
  <2> QED BY <1>1, <2>1, <2>2, <2>4, <2>5, <2>6, <2>7, <2>8 DEF TypeOK
<1>4. Typed
  BY <1>1, <1>3, EmptyCacheShape DEF Init, Typed, Budget
<1>5. CoinsRight
  <2>1. FlagsTrue(tip, coindb.coins)
    BY EmptyCacheShape DEF Init, FlagsTrue
  <2>2. coindb.coins = Utxo[Genesis] /\ coindb.best = Genesis /\ tipBest = Genesis
    BY UtxoGenesis DEF Init
  <2>3. DiskCoinsExact
    BY <2>2 DEF Init, DiskCoinsExact
  <2>4. TipSeen = Utxo[tipBest]
    <3>1. coindb.coins \in CoinMaps
      BY <1>4, TipTypes
    <3>2. Seen(EmptyCache, coindb.coins) = coindb.coins
      BY <3>1, EmptyCacheSeen
    <3> QED BY <2>2, <3>2 DEF TipSeen, Init
  <2> QED BY <2>1, <2>3, <2>4 DEF CoinsRight, Init
<1>6. ChainsUndone
  BY <1>1 DEF Init, ChainsUndone
<1>7. UndoInFile /\ UndoRight
  BY DEF Init, UndoInFile, UndoRight, NoUndo
<1> QED BY <1>2, <1>4, <1>5, <1>6, <1>7 DEF FullInv

\* A block is stored.
LEMMA AcceptFull ==
    ASSUME ~Transient, FullInv, NEW b \in Blocks \ {Genesis}, AcceptBlock(b)
    PROVE  FullInv'
<1> USE DEF coinVars, flowVars, faultVars
<1>1. PICK n \in {lastFile, lastFile + 1} :
         /\ n <= budget.files
         /\ file' = [file EXCEPT ![b] = n] /\ lastFile' = n
         /\ synced' = IF n = lastFile THEN synced ELSE FlushBlockFile(lastFile)
  BY DEF AcceptBlock
<1>2. /\ stored' = stored \cup {b} /\ dirty' = dirty \cup {b}
      /\ written \subseteq written' /\ written' \subseteq written \cup {b}
      /\ pc = "idle" /\ (~broken' => ~broken)
      /\ UNCHANGED <<active, tip, tipBest, coindb, oldDbs, undone, undo, index, pc, full, closing>>
  BY DEF AcceptBlock, WriteWorks, WriteFails
<1>3. /\ TypeOK /\ Typed /\ CoinsRight /\ ChainsUndone /\ UndoInFile /\ UndoRight /\ Inv
      /\ lastFile \in Nat
  BY DEF FullInv, Typed, TypeOK
<1>4. Inv'
  BY <1>3, AcceptStep
<1>5. /\ budget' \in Budget
      /\ budget'.files = budget.files /\ broken' \in BOOLEAN
  <2>1. budget \in Budget
    BY <1>3 DEF Typed
  <2>2. broken \in BOOLEAN
    BY <1>3 DEF TypeOK
  <2>3. WriteFails \/ UNCHANGED <<broken, budget>>
    BY DEF AcceptBlock
  <2> QED BY ONLY <2>1, <2>2, <2>3, FaultTypes
<1>6. synced' \in Durable /\ synced.undo \subseteq synced'.undo
  BY <1>1, <1>3 DEF FlushBlockFile, TypeOK, Durable
<1>7. lastFile' \in Nat /\ lastFile <= lastFile' /\ lastFile' <= budget.files
  BY <1>1, <1>3
<1>8. /\ \A c \in Blocks : file'[c] \in Nat /\ file'[c] <= lastFile'
      /\ file' \in [Blocks -> 0 .. budget'.files] /\ lastFile' \in 0 .. budget'.files
  <2>1. DOMAIN file' = Blocks /\ \A c \in Blocks : file'[c] = IF c = b THEN n ELSE file[c]
    BY <1>1, <1>3 DEF TypeOK
  <2>2. \A c \in Blocks : file[c] \in Nat /\ file[c] <= lastFile
    BY <1>3 DEF TypeOK, Typed
  <2>3. budget.files \in Nat
    BY <1>3 DEF Typed, Budget
  <2>4. \A c \in Blocks : file'[c] \in Nat /\ file'[c] <= lastFile'
    BY <1>1, <1>3, <1>7, <2>1, <2>2
  <2>5. \A c \in Blocks : file'[c] \in 0 .. budget'.files
    BY <1>5, <1>7, <2>3, <2>4
  <2>6. file' = [c \in Blocks |-> file'[c]]
    BY <1>1, <2>1, <1>3 DEF TypeOK
  <2> QED BY <1>5, <1>7, <2>3, <2>4, <2>5, <2>6
<1>9. TypeOK'
  BY <1>2, <1>3, <1>5, <1>6, <1>8 DEF TypeOK, Budget
<1>10. Typed'
  BY <1>2, <1>3, <1>5, <1>7, <1>8, <1>9 DEF Typed
<1>11. CoinsRight'
  BY <1>2, <1>3 DEF CoinsRight, TipSeen, DiskCoinsExact
<1>12. ChainsUndone'
  BY <1>2, <1>3 DEF ChainsUndone
<1>13. UndoInFile'
  BY <1>2, <1>3, <1>6, <1>7 DEF UndoInFile
<1>14. UndoRight'
  BY <1>2, <1>3 DEF UndoRight
<1> QED BY <1>4, <1>10, <1>11, <1>12, <1>13, <1>14 DEF FullInv

\* The parts of the invariant for a step that changes neither files nor databases nor
\* what is known of the blocks, but the coins in memory.
LEMMA TipTypesNext ==
    ASSUME Typed, tip' \in Caches, tipBest' \in Blocks, active' \in Blocks,
           pc' \in Locations, full' \in BOOLEAN, closing' \in BOOLEAN, broken' \in BOOLEAN,
           budget' \in Budget, budget'.files = budget.files,
           undone' \subseteq stored, dirty' \subseteq Blocks, DOMAIN undo' = Blocks,
           UNCHANGED <<coindb, oldDbs, stored, written, file, lastFile, index, synced>>
    PROVE  Typed'
<1>1. DOMAIN tip' \subseteq Txids /\ \A t \in DOMAIN tip' : tip'[t] \in CacheEntry
  BY CacheShape
<1>2. budget'.crashes \in Nat /\ budget'.errors \in Nat
  BY DEF Budget
<1>3. TypeOK'
  BY <1>1, <1>2 DEF Typed, TypeOK
<1> QED BY <1>3 DEF Typed

\* ConnectBlock is run on the coins of the active chain.
LEMMA ConnectRuns ==
    ASSUME FullInv, pc = "idle", NEW b \in Blocks \ {Genesis}, Parent[b] = active
    PROVE  Connected(b, ConnectBlock(b)) /\ TipSeen = Utxo[Parent[b]] /\ tipBest = Parent[b]
<1>1. Typed /\ CoinsRight
  BY DEF FullInv
<1>2. TipSeen = Utxo[Parent[b]] /\ tipBest = Parent[b] /\ Parent[b] \in Blocks
  BY <1>1 DEF CoinsRight, Typed, TypeOK
<1>3. Uniform(TipSeen)
  BY <1>2, UtxoTypes
<1>4. tip \in Caches /\ coindb.coins \in CoinMaps /\ FlagsTrue(tip, coindb.coins)
  BY <1>1, TipTypes DEF CoinsRight
<1>5. Connected(b, ConnectBlock(b))
  BY <1>3, <1>4, ConnectSound
<1> QED BY <1>2, <1>5

\* A block is connected.
LEMMA ConnectFull ==
    ASSUME FullInv, NEW b \in Blocks \ {Genesis}, ConnectTip(b)
    PROVE  FullInv'
<1> USE DEF faultVars
<1>1. Inv'
  BY ConnectSteps DEF FullInv
<1>2. PICK r : r = ConnectBlock(b)
  OBVIOUS
<1>3. /\ pc = "idle" /\ b \in written /\ Parent[b] = active /\ r.ok
      /\ tip' = Written(r.tip, r.view)
      /\ \/ b \in undone /\ UNCHANGED <<undo, undone, dirty>>
         \/ /\ undo' = [undo EXCEPT ![b] = <<r.undo>>]
            /\ undone' = undone \cup {b} /\ dirty' = dirty \cup {b}
      /\ tipBest' = b /\ pc' = "decide"
      /\ UNCHANGED <<active, coindb, oldDbs, stored, written, file, lastFile, index, synced,
                     full, closing, broken, budget>>
  BY <1>2 DEF ConnectTip
<1>4. Connected(b, r) /\ TipSeen = Utxo[Parent[b]] /\ tipBest = Parent[b]
  BY <1>2, <1>3, ConnectRuns
<1>5. /\ Inv /\ Typed /\ TypeOK /\ CoinsRight /\ ChainsUndone /\ UndoInFile /\ UndoRight
  BY DEF FullInv, Typed
<1>6. /\ Sound(r) /\ Sees(r) = Utxo[b] /\ r.undo \in Undos
      /\ BlockRun(b, Utxo[Parent[b]], r.undo, Utxo[b])
  <2>1. Sound(r) /\ BlockRun(b, TipSeen, r.undo, Sees(r))
        /\ Partial(b, Len(BlockTxs[b]), TipSeen, Sees(r))
    BY <1>3, <1>4 DEF Connected
  <2>2. Sees(r) \in CoinMaps
    BY <2>1, SoundTypes
  <2>3. Sees(r) = Utxo[b]
    BY <1>4, <2>1, <2>2, UtxoNext
  <2>4. r.undo \in Undos
    BY <2>1 DEF Sound, Work
  <2> QED BY <1>4, <2>1, <2>3, <2>4
<1>7. tip' \in Caches /\ FlagsTrue(tip', coindb.coins) /\ Seen(tip', coindb.coins) = Utxo[b]
  BY <1>3, <1>6, FlushSound
<1>8. CoinsRight'
  <2>1. TipSeen' = Utxo[tipBest']
    BY <1>3, <1>7 DEF TipSeen
  <2>2. DiskCoinsExact'
    BY <1>3, <1>5 DEF CoinsRight, DiskCoinsExact
  <2>3. FlagsTrue(tip', coindb'.coins)
    BY <1>3, <1>7
  <2> QED BY <1>3, <2>1, <2>2, <2>3 DEF CoinsRight
<1>9. undone' = undone \cup {b} /\ dirty \subseteq dirty' /\ dirty' \subseteq dirty \cup {b}
      /\ (b \notin undone => b \in dirty')
  BY <1>3
<1>10. /\ DOMAIN undo' = Blocks
       /\ \A c \in Blocks \ {b} : undo'[c] = undo[c]
       /\ \/ undo'[b] = undo[b] /\ b \in undone
          \/ undo'[b] = <<r.undo>>
  BY <1>3, <1>5 DEF TypeOK
<1>11. Typed'
  <2>1. /\ stored \subseteq Blocks /\ written \subseteq stored /\ undone \subseteq stored
        /\ dirty \subseteq Blocks /\ active \in Blocks /\ broken \in BOOLEAN
        /\ full \in BOOLEAN /\ closing \in BOOLEAN /\ budget \in Budget
    BY <1>5 DEF Typed, TypeOK
  <2>2. undone' \subseteq stored /\ dirty' \subseteq Blocks
    BY <1>3, <1>9, <2>1
  <2>3. pc' \in Locations
    BY <1>3 DEF Locations
  <2> QED BY <1>3, <1>5, <1>7, <1>10, <2>1, <2>2, <2>3, TipTypesNext
<1>12. ChainsUndone'
  <2>1. Anc[b] = {b} \cup Anc[Parent[b]]
    BY ChainNext
  <2>2. Anc[tipBest'] \subseteq written' /\ Anc[tipBest'] \ {Genesis} \subseteq undone'
    BY <1>3, <1>4, <1>5, <1>9, <2>1 DEF ChainsUndone
  <2> QED BY <1>3, <1>5, <1>9, <2>2 DEF ChainsUndone
<1>13. UndoInFile'
  <2>1. <<r.undo>> # NoUndo
    BY DEF NoUndo
  <2>2. undone \subseteq Blocks /\ index.undo \subseteq Blocks
    BY <1>5 DEF TypeOK
  <2>3. \A c \in Blocks : undo[c] # NoUndo => undo'[c] # NoUndo
    BY <1>10, <2>1
  <2>4. lastFile' = 0 => \A c \in undone' : undo'[c] # NoUndo
    BY <1>3, <1>5, <1>9, <1>10, <2>1, <2>2, <2>3 DEF UndoInFile
  <2> QED BY <1>3, <1>5, <2>2, <2>3, <2>4 DEF UndoInFile
<1>14. UndoRight'
  <2>1. UndoOf(b, <<r.undo>>)
    BY <1>6 DEF UndoOf
  <2>2. ASSUME NEW c \in Blocks, undo'[c] # NoUndo PROVE UndoOf(c, undo'[c])
    BY <1>5, <1>10, <2>1, <2>2 DEF UndoRight
  <2> QED BY <2>2 DEF UndoRight
<1> QED BY <1>1, <1>8, <1>11, <1>12, <1>13, <1>14 DEF FullInv

\* A block is rejected, or its undo data cannot be written: pcoinsTip keeps what was
\* read and shows what it did.
LEMMA RejectFull ==
    ASSUME FullInv, NEW b \in Blocks \ {Genesis}, ConnectTipInvalid(b) \/ ConnectTipAborts(b)
    PROVE  FullInv'
<1> USE DEF blockVars, diskVars, flowVars, faultVars
<1>1. Inv'
  BY ConnectSteps DEF FullInv
<1>2. PICK r : r = ConnectBlock(b)
  OBVIOUS
<1>3. /\ pc = "idle" /\ Parent[b] = active /\ tip' = r.tip
      /\ WriteFails \/ UNCHANGED <<broken, budget>>
      /\ UNCHANGED <<active, tipBest, coindb, oldDbs, stored, written, undone, file, lastFile,
                     undo, dirty, index, synced, pc, full, closing>>
  BY <1>2 DEF ConnectTipInvalid, ConnectTipAborts
<1>4. Connected(b, r)
  BY <1>2, <1>3, ConnectRuns
<1>5. /\ Inv /\ Typed /\ TypeOK /\ CoinsRight /\ ChainsUndone /\ UndoInFile /\ UndoRight
  BY DEF FullInv, Typed
<1>6. tip' \in Caches /\ FlagsTrue(tip', coindb.coins) /\ Seen(tip', coindb.coins) = TipSeen
  BY <1>3, <1>4 DEF Connected, Sound, Work, Below
<1>7. ~broken' => ~broken
  BY <1>3 DEF WriteFails
<1>8. CoinsRight'
  <2>1. TipSeen' = TipSeen
    BY <1>3, <1>6 DEF TipSeen
  <2>2. DiskCoinsExact'
    BY <1>3, <1>5 DEF CoinsRight, DiskCoinsExact
  <2>3. FlagsTrue(tip', coindb'.coins)
    BY <1>3, <1>6
  <2> QED BY <1>3, <1>5, <2>1, <2>2, <2>3 DEF CoinsRight
<1>9. Typed'
  <2>1. budget' \in Budget /\ budget'.files = budget.files /\ broken' \in BOOLEAN
    <3>1. budget \in Budget /\ broken \in BOOLEAN
      BY <1>5 DEF Typed, TypeOK
    <3> QED BY <1>3, <3>1, FaultTypes
  <2>2. /\ undone \subseteq stored /\ dirty \subseteq Blocks /\ DOMAIN undo = Blocks
        /\ active \in Blocks /\ tipBest \in Blocks
        /\ full \in BOOLEAN /\ closing \in BOOLEAN /\ pc \in Locations
    BY <1>5 DEF Typed, TypeOK
  <2> QED BY <1>3, <1>5, <1>6, <2>1, <2>2, TipTypesNext
<1>10. ChainsUndone'
  BY <1>3, <1>5, <1>7 DEF ChainsUndone
<1>11. UndoInFile' /\ UndoRight'
  BY <1>3, <1>5 DEF UndoInFile, UndoRight
<1> QED BY <1>1, <1>8, <1>9, <1>10, <1>11 DEF FullInv

\* The undo data of the tip brings back the coins of its parent.
LEMMA DisconnectRuns ==
    ASSUME FullInv, pc = "idle", active # Genesis, undo[active] # NoUndo
    PROVE  Holds(DisconnectBlock(active), TipSeen, Utxo[Parent[active]], <<>>)
<1>1. Typed /\ CoinsRight /\ UndoRight
  BY DEF FullInv
<1>2. active \in Blocks /\ TipSeen = Utxo[active]
  BY <1>1 DEF CoinsRight, Typed, TypeOK
<1>3. PICK U \in Undos : /\ undo[active] = <<U>>
                         /\ BlockRun(active, Utxo[Parent[active]], U, Utxo[active])
  BY <1>1, <1>2 DEF UndoRight, UndoOf
<1>4. tip \in Caches /\ coindb.coins \in CoinMaps /\ FlagsTrue(tip, coindb.coins)
  BY <1>1, TipTypes DEF CoinsRight
<1>5. BlockRun(active, Utxo[Parent[active]], U, TipSeen)
  BY <1>2, <1>3
<1>6. undo[active] = <<U>>
  BY <1>3
<1> QED BY ONLY <1>2, <1>4, <1>5, <1>6, U \in Undos, DisconnectSound

\* The tip is disconnected.
LEMMA DisconnectFull ==
    ASSUME FullInv, DisconnectTip
    PROVE  FullInv'
<1> USE DEF blockVars, diskVars, faultVars
<1>1. Inv'
  BY ConnectSteps DEF FullInv
<1>2. PICK r : r = DisconnectBlock(active)
  OBVIOUS
<1>3. /\ pc = "idle" /\ active # Genesis /\ undo[active] # NoUndo
      /\ tip' = Written(r.tip, r.view) /\ tipBest' = Parent[active] /\ pc' = "decide"
      /\ UNCHANGED <<active, coindb, oldDbs, stored, written, undone, file, lastFile,
                     undo, dirty, index, synced, full, closing, broken, budget>>
  BY <1>2 DEF DisconnectTip
<1>4. Sound(r) /\ Sees(r) = Utxo[Parent[active]]
  BY <1>2, <1>3, DisconnectRuns DEF Holds
<1>5. /\ Inv /\ Typed /\ TypeOK /\ CoinsRight /\ ChainsUndone /\ UndoInFile /\ UndoRight
  BY DEF FullInv, Typed
<1>6. /\ tip' \in Caches /\ FlagsTrue(tip', coindb.coins)
      /\ Seen(tip', coindb.coins) = Utxo[Parent[active]]
  BY <1>3, <1>4, FlushSound
<1>7. CoinsRight'
  <2>1. TipSeen' = Utxo[tipBest']
    BY <1>3, <1>6 DEF TipSeen
  <2>2. DiskCoinsExact'
    BY <1>3, <1>5 DEF CoinsRight, DiskCoinsExact
  <2>3. FlagsTrue(tip', coindb'.coins)
    BY <1>3, <1>6
  <2> QED BY <1>3, <2>1, <2>2, <2>3 DEF CoinsRight
<1>8. active \in Blocks \ {Genesis} /\ active = tipBest
  BY <1>3, <1>5 DEF TypeOK, CoinsRight
<1>9. Parent[active] \in Blocks /\ Anc[active] = {active} \cup Anc[Parent[active]]
  BY <1>8, ChainNext
<1>10. Typed'
  <2>1. /\ undone \subseteq stored /\ dirty \subseteq Blocks /\ DOMAIN undo = Blocks
        /\ active \in Blocks /\ broken \in BOOLEAN /\ budget \in Budget
        /\ full \in BOOLEAN /\ closing \in BOOLEAN
    BY <1>5 DEF Typed, TypeOK
  <2>2. pc' \in Locations
    BY <1>3 DEF Locations
  <2> QED BY <1>3, <1>5, <1>6, <1>9, <2>1, <2>2, TipTypesNext
<1>11. ChainsUndone'
  BY <1>3, <1>5, <1>8, <1>9 DEF ChainsUndone
<1>12. UndoInFile' /\ UndoRight'
  BY <1>3, <1>5 DEF UndoInFile, UndoRight
<1> QED BY <1>1, <1>7, <1>10, <1>11, <1>12 DEF FullInv

\* FlushStateToDisk begins, or is not needed.
LEMMA BeginFull ==
    ASSUME FullInv, SkipFlush \/ CacheCritical \/ FlushPeriodic \/ Shutdown
    PROVE  FullInv'
<1> USE DEF coinVars, blockVars, diskVars, faultVars
<1>1. Inv'
  BY BeginSteps DEF FullInv
<1>2. /\ Inv /\ Typed /\ TypeOK /\ CoinsRight /\ ChainsUndone /\ UndoInFile /\ UndoRight
  BY DEF FullInv, Typed
<1>3. /\ UNCHANGED <<tip, tipBest, coindb, oldDbs, stored, written, undone, file, lastFile,
                     undo, dirty, index, synced, broken, budget>>
      /\ \/ pc = "decide" /\ active' = tipBest /\ pc' \in {"idle", "down"}
         \/ active' = active /\ pc' = "files"
  BY DEF SkipFlush, CacheCritical, FlushPeriodic, Shutdown, Finish
<1>4. full' \in BOOLEAN /\ closing' \in BOOLEAN
  BY <1>2 DEF SkipFlush, CacheCritical, FlushPeriodic, Shutdown, Finish, TypeOK
<1>5. Typed'
  <2>1. /\ undone \subseteq stored /\ dirty \subseteq Blocks /\ DOMAIN undo = Blocks
        /\ tipBest \in Blocks /\ active \in Blocks /\ broken \in BOOLEAN /\ budget \in Budget
        /\ tip \in Caches
    BY <1>2 DEF Typed, TypeOK
  <2>2. pc' \in Locations /\ active' \in Blocks
    BY <1>3, <2>1 DEF Locations
  <2> QED BY <1>2, <1>3, <1>4, <2>1, <2>2, TipTypesNext
<1>6. CoinsRight'
  <2>1. TipSeen' = TipSeen /\ DiskCoinsExact'
    BY <1>2, <1>3 DEF TipSeen, CoinsRight, DiskCoinsExact
  <2>2. FlagsTrue(tip', coindb'.coins)
    BY <1>2, <1>3 DEF CoinsRight
  <2>3. pc' \in {"idle", "decide"} => pc = "decide" /\ active' = tipBest
    BY <1>3
  <2>4. ~closing' /\ Flushing(pc') => pc \in {"idle", "decide"}
    BY DEF SkipFlush, CacheCritical, FlushPeriodic, Shutdown, Finish, Flushing
  <2> QED BY <1>2, <1>3, <2>1, <2>2, <2>3, <2>4 DEF CoinsRight
<1>7. ChainsUndone'
  BY <1>2, <1>3 DEF ChainsUndone
<1>8. UndoInFile' /\ UndoRight'
  BY <1>2, <1>3 DEF UndoInFile, UndoRight
<1> QED BY <1>1, <1>5, <1>6, <1>7, <1>8 DEF FullInv

\* There is no space on the disk: pcoinsTip is as it was.
LEMMA SpaceFull ==
    ASSUME FullInv, OutOfDiskSpace
    PROVE  FullInv'
<1> USE DEF coinVars, blockVars, diskVars
<1>1. Inv'
  BY SpaceStep DEF FullInv
<1>2. /\ Inv /\ Typed /\ TypeOK /\ CoinsRight /\ ChainsUndone /\ UndoInFile /\ UndoRight
  BY DEF FullInv, Typed
<1>3. /\ UNCHANGED <<active, tip, tipBest, coindb, oldDbs, stored, written, undone, file,
                     lastFile, undo, dirty, index, synced, full, closing, broken>>
      /\ Flushing(pc) /\ pc' \in {"idle", "down", "aborted"}
      /\ pc' = "idle" => ~closing /\ active = tipBest
      /\ budget.errors > 0 /\ budget' = [budget EXCEPT !.errors = @ - 1]
  BY DEF OutOfDiskSpace, Flushing
<1>4. Typed'
  <2>1. /\ undone \subseteq stored /\ dirty \subseteq Blocks /\ DOMAIN undo = Blocks
        /\ tipBest \in Blocks /\ active \in Blocks /\ broken \in BOOLEAN /\ budget \in Budget
        /\ full \in BOOLEAN /\ closing \in BOOLEAN /\ tip \in Caches
    BY <1>2 DEF Typed, TypeOK
  <2>2. budget' \in Budget /\ budget'.files = budget.files
    BY <1>3, <2>1 DEF Budget
  <2>3. pc' \in Locations
    BY <1>3 DEF Locations
  <2> QED BY <1>2, <1>3, <2>1, <2>2, <2>3, TipTypesNext
<1>5. CoinsRight'
  <2>1. TipSeen' = TipSeen /\ DiskCoinsExact'
    BY <1>2, <1>3 DEF TipSeen, CoinsRight, DiskCoinsExact
  <2>2. FlagsTrue(tip', coindb'.coins)
    BY <1>2, <1>3 DEF CoinsRight
  <2>3. ~Flushing(pc') /\ pc' # "decide"
    BY <1>3 DEF Flushing
  <2> QED BY <1>2, <1>3, <2>1, <2>2, <2>3 DEF CoinsRight
<1>6. ChainsUndone'
  BY <1>2, <1>3 DEF ChainsUndone
<1>7. UndoInFile' /\ UndoRight'
  BY <1>2, <1>3 DEF UndoInFile, UndoRight
<1> QED BY <1>1, <1>4, <1>5, <1>6, <1>7 DEF FullInv

\* The last block file is committed: with one file, all undo data.
LEMMA FilesFull ==
    ASSUME FullInv, FlushFiles
    PROVE  FullInv'
<1> USE DEF coinVars, blockVars, faultVars
<1>1. Inv'
  BY FilesStep DEF FullInv
<1>2. /\ Inv /\ Typed /\ TypeOK /\ CoinsRight /\ ChainsUndone /\ UndoInFile /\ UndoRight
  BY DEF FullInv, Typed
<1>3. /\ UNCHANGED <<active, tip, tipBest, coindb, oldDbs, stored, written, undone, file,
                     lastFile, undo, dirty, index, full, closing, broken, budget>>
      /\ synced' = FlushBlockFile(lastFile) /\ pc' = "index"
  BY DEF FlushFiles
<1>4. /\ synced' \in Durable /\ synced.undo \subseteq synced'.undo
      /\ {b \in stored : file[b] = lastFile /\ undo[b] # NoUndo} \subseteq synced'.undo
  BY <1>2, <1>3 DEF FlushBlockFile, TypeOK, Durable
<1>5. TypeOK' /\ Typed'
  <2>1. TypeOK'
    BY <1>2, <1>3, <1>4 DEF TypeOK, Locations
  <2> QED BY <1>2, <1>3, <2>1 DEF Typed
<1>6. CoinsRight'
  <2>1. TipSeen' = TipSeen /\ DiskCoinsExact'
    BY <1>2, <1>3 DEF TipSeen, CoinsRight, DiskCoinsExact
  <2>2. FlagsTrue(tip', coindb'.coins)
    BY <1>2, <1>3 DEF CoinsRight
  <2>3. Flushing(pc) /\ pc' \notin {"idle", "decide"}
    BY <1>3 DEF FlushFiles, Flushing
  <2> QED BY <1>2, <1>3, <2>1, <2>2, <2>3 DEF CoinsRight
<1>7. ChainsUndone'
  BY <1>2, <1>3 DEF ChainsUndone
<1>8. ASSUME lastFile = 0 PROVE undone \subseteq synced'.undo
  <2>1. \A b \in Blocks : file[b] \in Nat /\ file[b] <= 0
    BY <1>2, <1>8 DEF TypeOK, Typed
  <2>2. \A b \in Blocks : file[b] = lastFile
    BY <1>8, <2>1
  <2>3. undone \subseteq stored /\ stored \subseteq Blocks /\ \A b \in undone : undo[b] # NoUndo
    BY <1>2, <1>8 DEF TypeOK, UndoInFile
  <2> QED BY <1>4, <2>2, <2>3
<1>9. UndoInFile'
  BY <1>2, <1>3, <1>4, <1>8 DEF UndoInFile
<1>10. UndoRight'
  BY <1>2, <1>3 DEF UndoRight
<1> QED BY <1>1, <1>5, <1>6, <1>7, <1>9, <1>10 DEF FullInv

\* The index is written, or the write fails.
LEMMA IndexFull ==
    ASSUME ~Transient, FullInv, FlushIndex
    PROVE  FullInv'
<1> USE DEF coinVars, blockVars, faultVars
<1>1. Inv'
  BY IndexStep DEF FullInv
<1>2. /\ Inv /\ Typed /\ TypeOK /\ CoinsRight /\ ChainsUndone /\ UndoInFile /\ UndoRight
  BY DEF FullInv, Typed
<1>3. /\ UNCHANGED <<tip, tipBest, coindb, oldDbs, stored, written, undone, file, lastFile, undo,
                     synced>>
      /\ pc = "index" /\ dirty' = {}
  BY DEF FlushIndex
<1>4. \/ /\ ~broken /\ index' = IndexBatch /\ UNCHANGED <<broken, budget>>
         /\ \/ pc' = "coins" /\ active' = active
            \/ pc' \in {"idle", "down"} /\ active' = tipBest
      \/ /\ WriteFails /\ index' = index /\ pc' \in {"down", "aborted"} /\ active' = active
  BY DEF FlushIndex, Fail, Finish, WriteWorks
<1>5. full' \in BOOLEAN /\ closing' \in BOOLEAN
  BY <1>2 DEF FlushIndex, Fail, Finish, TypeOK
<1>6. budget' \in Budget /\ budget'.files = budget.files /\ broken' \in BOOLEAN
  <2>1. budget \in Budget /\ broken \in BOOLEAN
    BY <1>2 DEF Typed, TypeOK
  <2> QED BY <1>4, <2>1, FaultTypes
<1>7. index' = IndexBatch =>
         /\ index'.data = index.data \cup (dirty \cap stored)
         /\ index'.undo = index.undo \cup (dirty \cap undone)
         /\ index'.last = lastFile
         /\ index'.file = [b \in Blocks |-> IF b \in dirty THEN file[b] ELSE index.file[b]]
  BY DEF IndexBatch
<1>8. /\ index'.data \subseteq Blocks /\ index'.undo \subseteq index'.data
      /\ index.undo \subseteq index'.undo /\ index'.undo \subseteq undone
  <2>1. CASE index' = index
    BY <1>2, <2>1 DEF TypeOK, ChainsUndone
  <2>2. CASE index' = IndexBatch
    BY <1>2, <1>7, <2>2 DEF TypeOK, ChainsUndone
  <2> QED BY <1>4, <2>1, <2>2
<1>9. TypeOK'
  <2>1. pc' \in Locations /\ active' \in Blocks
    BY <1>2, <1>4 DEF Locations, TypeOK
  <2>2. budget'.crashes \in Nat /\ budget'.errors \in Nat
    BY <1>6 DEF Budget
  <2> QED BY <1>2, <1>3, <1>5, <1>6, <1>8, <2>1, <2>2 DEF TypeOK
<1>10. Typed'
  <2>1. CASE index' = index
    BY <1>2, <1>3, <1>6, <1>9, <2>1 DEF Typed
  <2>2. CASE index' = IndexBatch
    <3>1. lastFile \in Nat /\ \A b \in Blocks : file[b] \in Nat /\ file[b] <= lastFile
      BY <1>2 DEF TypeOK, Typed
    <3>2. \A b \in Blocks : index.file[b] \in Nat /\ index.file[b] <= lastFile
      <4>1. index.last \in Nat /\ index.last <= lastFile
        BY <1>2 DEF Typed
      <4>2. \A b \in Blocks : index.file[b] \in Nat /\ index.file[b] <= index.last
        BY <1>2 DEF Typed
      <4> QED BY ONLY <3>1, <4>1, <4>2
    <3>3. /\ index'.last \in Nat /\ index'.last <= lastFile'
          /\ \A b \in Blocks : index'.file[b] \in Nat /\ index'.file[b] <= index'.last
          /\ DOMAIN index'.file = Blocks
      BY <1>3, <1>7, <2>2, <3>1, <3>2
    <3>4. index'.file \in [Blocks -> Nat]
      BY <1>7, <2>2, <3>3
    <3> QED BY <1>2, <1>3, <1>6, <1>9, <3>3, <3>4 DEF Typed
  <2> QED BY <1>4, <2>1, <2>2
<1>11. CoinsRight'
  <2>1. TipSeen' = TipSeen /\ DiskCoinsExact'
    BY <1>2, <1>3 DEF TipSeen, CoinsRight, DiskCoinsExact
  <2>2. FlagsTrue(tip', coindb'.coins)
    BY <1>2, <1>3 DEF CoinsRight
  <2>3. /\ pc' \in {"idle", "decide"} \/ ~broken' \/ Flushing(pc') => ~broken
        /\ pc' = "idle" => active' = tipBest
    BY <1>4 DEF WriteFails, Flushing
  <2> QED BY <1>2, <1>3, <2>1, <2>2, <2>3 DEF CoinsRight
<1>12. ChainsUndone'
  <2>1. ~broken' => ~broken /\ undone \subseteq index'.undo
    <3>1. ~broken' => ~broken /\ index' = IndexBatch
      BY <1>4 DEF WriteFails
    <3> QED BY <1>2, <1>7, <3>1 DEF ChainsUndone
  <2> QED BY <1>2, <1>3, <1>8, <2>1 DEF ChainsUndone
<1>13. UndoInFile'
  <2>1. pc' # "index"
    BY <1>4
  <2>2. ASSUME index'.last = 0
        PROVE  index'.undo \subseteq synced.undo /\ \A b \in index'.undo : undo[b] # NoUndo
    <3>1. CASE index' = index
      BY <1>2, <2>2, <3>1 DEF UndoInFile
    <3>2. CASE index' = IndexBatch
      <4>1. lastFile = 0
        BY <1>7, <2>2, <3>2
      <4>2. undone \subseteq synced.undo /\ \A b \in undone : undo[b] # NoUndo
        BY <1>2, <1>3, <4>1 DEF UndoInFile
      <4> QED BY <1>8, <4>2
    <3> QED BY <1>4, <3>1, <3>2
  <2> QED BY <1>2, <1>3, <2>1, <2>2 DEF UndoInFile
<1>14. UndoRight'
  BY <1>2, <1>3 DEF UndoRight
<1> QED BY <1>1, <1>10, <1>11, <1>12, <1>13, <1>14 DEF FullInv

\* The coins are written, or the write fails and the cache is empty.
LEMMA CoinsFull ==
    ASSUME ~Transient, FullInv, FlushCoins
    PROVE  FullInv'
<1> USE DEF blockVars, diskVars, faultVars
<1>1. Inv'
  BY CoinsStep DEF FullInv
<1>2. /\ Inv /\ Typed /\ TypeOK /\ CoinsRight /\ ChainsUndone /\ UndoInFile /\ UndoRight
  BY DEF FullInv, Typed
<1>3. /\ UNCHANGED <<tipBest, stored, written, undone, file, lastFile, undo, dirty, index,
                     synced>>
      /\ pc = "coins" /\ tip' = EmptyCache
  BY DEF FlushCoins
<1>4. \/ /\ ~broken /\ coindb' = CoinBatch /\ oldDbs' = oldDbs \cup {CoinBatch}
         /\ UNCHANGED <<broken, budget>>
         /\ pc' \in {"idle", "down"} /\ active' = tipBest
      \/ /\ WriteFails /\ UNCHANGED <<coindb, oldDbs>>
         /\ pc' \in {"down", "aborted"} /\ active' = active
  BY DEF FlushCoins, Fail, Finish, WriteWorks
<1>5. full' \in BOOLEAN /\ closing' \in BOOLEAN
  BY <1>2 DEF FlushCoins, Fail, Finish, TypeOK
<1>6. budget' \in Budget /\ budget'.files = budget.files /\ broken' \in BOOLEAN
  <2>1. budget \in Budget /\ broken \in BOOLEAN
    BY <1>2 DEF Typed, TypeOK
  <2> QED BY <1>4, <2>1, FaultTypes
<1>7. tip \in Caches /\ coindb.coins \in CoinMaps /\ tipBest \in Blocks
  BY <1>2, TipTypes DEF TypeOK
<1>8. CoinBatch \in CoinDb /\ CoinBatch.best = tipBest /\ CoinBatch.coins = TipSeen
  <2>1. Committed(coindb.coins, tip) = TipSeen
    BY <1>2, <1>7, CommittedSeen DEF CoinsRight, TipSeen
  <2>2. TipSeen \in CoinMaps
    BY <1>7, SeenType DEF TipSeen
  <2> QED BY <1>7, <2>1, <2>2 DEF CoinBatch, CoinDb, CoinMaps
<1> HIDE DEF CoinBatch
<1>9. TypeOK' /\ Typed'
  <2>1. pc' \in Locations /\ active' \in Blocks
    BY <1>2, <1>4 DEF Locations, TypeOK
  <2>2. budget'.crashes \in Nat /\ budget'.errors \in Nat
    BY <1>6 DEF Budget
  <2>3. tip' \in Caches /\ DOMAIN tip' = {}
    BY <1>3, EmptyCacheShape
  <2>4. coindb' \in CoinDb /\ oldDbs' \subseteq CoinDb /\ coindb' \in oldDbs'
    BY <1>2, <1>4, <1>8 DEF TypeOK
  <2>5. TypeOK'
    BY <1>2, <1>3, <1>5, <1>6, <2>1, <2>2, <2>3, <2>4 DEF TypeOK
  <2> QED BY <1>2, <1>3, <1>6, <2>3, <2>5 DEF Typed
<1>10. CoinsRight'
  <2>1. FlagsTrue(tip', coindb'.coins)
    BY <1>3, EmptyCacheShape DEF FlagsTrue
  <2>2. CASE broken'
    <3>1. coindb' = coindb /\ oldDbs' = oldDbs /\ pc' \in {"down", "aborted"}
      BY <1>4, <2>2
    <3>2. DiskCoinsExact'
      BY <1>2, <3>1 DEF CoinsRight, DiskCoinsExact
    <3> QED BY <2>1, <2>2, <3>1, <3>2 DEF CoinsRight, Flushing
  <2>3. CASE ~broken'
    <3>1. /\ ~broken /\ coindb' = CoinBatch /\ oldDbs' = oldDbs \cup {CoinBatch}
          /\ active' = tipBest
      BY <1>4, <2>3 DEF WriteFails
    <3>2. CoinBatch.coins = Utxo[tipBest]
      BY <1>2, <1>8, <3>1 DEF CoinsRight
    <3>3. DiskCoinsExact'
      BY <1>2, <1>8, <3>1, <3>2 DEF CoinsRight, DiskCoinsExact
    <3>4. TipSeen' = Utxo[tipBest']
      <4>1. CoinBatch.coins \in CoinMaps
        BY <1>8 DEF CoinDb, CoinMaps
      <4>2. Seen(EmptyCache, CoinBatch.coins) = CoinBatch.coins
        BY <4>1, EmptyCacheSeen
      <4> QED BY <1>3, <3>1, <3>2, <4>2 DEF TipSeen
    <3> QED BY <1>3, <2>1, <3>1, <3>3, <3>4 DEF CoinsRight
  <2> QED BY <2>2, <2>3
<1>11. ChainsUndone'
  <2>1. ~broken' => ~broken
    BY <1>4 DEF WriteFails
  <2>2. \A d \in oldDbs' : Anc[d.best] \ {Genesis} \subseteq index.undo
    BY <1>2, <1>3, <1>4, <1>8 DEF ChainsUndone
  <2> QED BY <1>2, <1>3, <2>1, <2>2 DEF ChainsUndone
<1>12. UndoInFile' /\ UndoRight'
  <2>1. pc' # "index"
    BY <1>4
  <2> QED BY <1>2, <1>3, <2>1 DEF UndoInFile, UndoRight
<1> QED BY <1>1, <1>9, <1>10, <1>11, <1>12 DEF FullInv

\* The process starts again with what the databases say.
LEMMA StartFull ==
    ASSUME FullInv, Crash \/ Restart
    PROVE  FullInv'
<1>1. Inv'
  BY StartSteps DEF FullInv
<1>2. /\ Inv /\ Typed /\ TypeOK /\ CoinsRight /\ ChainsUndone /\ UndoInFile /\ UndoRight
  BY DEF FullInv, Typed
<1>3. index.data \subseteq synced.data /\ synced.data \subseteq written
      /\ HoldsParents(index.data)
  BY <1>2 DEF Inv, Known
<1>4. PICK d \in oldDbs, rev \in SUBSET (index.undo \ synced.undo) :
         /\ \E u : /\ LoadBlockIndexDB(d, u)
                   /\ \A b \in Blocks : u[b] = IF b \in rev THEN NoUndo ELSE undo[b]
         /\ written' = index.data /\ synced'.data = index.data /\ synced' \in Durable
         /\ synced'.undo \subseteq index.undo
         /\ index.undo \cap synced.undo \subseteq synced'.undo
         /\ budget' \in Budget /\ budget'.files = budget.files
  <2>1. synced \in Durable /\ budget \in Budget /\ DOMAIN undo = Blocks /\ coindb \in oldDbs
        /\ index.data \subseteq Blocks /\ index.undo \subseteq index.data
    BY <1>2 DEF TypeOK, Typed
  <2>2. CASE Restart
    <3>1. /\ LoadBlockIndexDB(coindb, undo) /\ written' = written \cap index.data
          /\ synced' = [data |-> synced.data \cap index.data,
                        undo |-> synced.undo \cap index.undo]
          /\ budget' = budget
      BY <2>2 DEF Restart
    <3>2. synced' \in Durable /\ synced'.undo = synced.undo \cap index.undo
      BY <2>1, <3>1 DEF Durable
    <3>3. written' = index.data /\ synced'.data = index.data
      BY <1>3, <3>1
    <3>4. {} \in SUBSET (index.undo \ synced.undo)
      OBVIOUS
    <3> QED BY <2>1, <3>1, <3>2, <3>3, <3>4
  <2>3. CASE Crash
    <3>1. budget' \in Budget /\ budget'.files = budget.files
      <4>1. budget.crashes > 0 /\ budget' = [budget EXCEPT !.crashes = @ - 1]
        BY <2>3 DEF Crash
      <4> QED BY <2>1, <4>1 DEF Budget
    <3>2. PICK d \in oldDbs,
               data \in SUBSET ((written \cap index.data) \ synced.data),
               rev \in SUBSET (index.undo \ synced.undo) :
             /\ LoadBlockIndexDB(d, [b \in Blocks |-> IF b \in rev THEN NoUndo ELSE undo[b]])
             /\ written' = (written \cap index.data) \ data
             /\ synced' = [data |-> written', undo |-> index.undo \ rev]
      BY <2>3 DEF Crash
    <3>3. written' = index.data
      BY <1>3, <3>2
    <3>4. synced'.data = index.data /\ synced'.undo = index.undo \ rev /\ synced' \in Durable
      BY <2>1, <3>2, <3>3 DEF Durable
    <3>5. \E u : /\ LoadBlockIndexDB(d, u)
                 /\ \A b \in Blocks : u[b] = IF b \in rev THEN NoUndo ELSE undo[b]
      <4> DEFINE v == [b \in Blocks |-> IF b \in rev THEN NoUndo ELSE undo[b]]
      <4>1. \A b \in Blocks : v[b] = IF b \in rev THEN NoUndo ELSE undo[b]
        OBVIOUS
      <4>2. LoadBlockIndexDB(d, v)
        BY <3>2
      <4> HIDE DEF v
      <4> QED BY ONLY <4>1, <4>2
    <3>6. synced'.undo \subseteq index.undo /\ index.undo \cap synced.undo \subseteq synced'.undo
      BY <3>2, <3>4
    <3> QED BY <3>1, <3>3, <3>4, <3>5, <3>6
  <2> QED BY <2>2, <2>3
<1>5. PICK u : /\ LoadBlockIndexDB(d, u)
               /\ \A b \in Blocks : u[b] = IF b \in rev THEN NoUndo ELSE undo[b]
  BY <1>4
<1>6. /\ d.best \in index.data
      /\ active' = d.best /\ tip' = EmptyCache /\ tipBest' = d.best
      /\ coindb' = d /\ oldDbs' = {d} /\ stored' = index.data /\ undone' = index.undo
      /\ file' = index.file /\ lastFile' = index.last
      /\ undo' = [b \in Blocks |-> IF b \in index.undo THEN u[b] ELSE NoUndo]
      /\ dirty' = {} /\ index' = index
      /\ pc' = "idle" /\ full' = FALSE /\ closing' = FALSE /\ broken' = FALSE
  BY <1>5 DEF LoadBlockIndexDB
<1>7. TypeOK' /\ Typed'
  <2>1. tip' \in Caches /\ DOMAIN tip' = {}
    BY <1>6, EmptyCacheShape
  <2>2. oldDbs \subseteq CoinDb /\ index.data \subseteq Blocks /\ index.undo \subseteq index.data
    BY <1>2 DEF TypeOK
  <2>3. /\ file' \in [Blocks -> 0 .. budget'.files] /\ lastFile' \in 0 .. budget'.files
        /\ \A b \in Blocks : file'[b] <= lastFile'
    <3>1. /\ index.file \in [Blocks -> Nat] /\ index.last \in Nat /\ index.last <= lastFile
          /\ \A b \in Blocks : index.file[b] <= index.last
      BY <1>2 DEF Typed
    <3>2. lastFile \in Nat /\ lastFile <= budget.files /\ budget.files \in Nat
      BY <1>2 DEF Typed, TypeOK, Budget
    <3>3. \A b \in Blocks : index.file[b] \in 0 .. budget.files
      BY ONLY <3>1, <3>2
    <3>4. index.last \in 0 .. budget.files
      BY ONLY <3>1, <3>2
    <3> QED BY <1>4, <1>6, <3>1, <3>3, <3>4
  <2>4. pc' \in Locations
    BY <1>6 DEF Locations
  <2>5. budget'.crashes \in Nat /\ budget'.errors \in Nat
    BY <1>4 DEF Budget
  <2>6. TypeOK'
    BY <1>4, <1>6, <2>1, <2>2, <2>3, <2>4, <2>5 DEF TypeOK
  <2>7. index'.last \in Nat /\ index'.last <= lastFile' /\ index'.file \in [Blocks -> Nat]
        /\ \A b \in Blocks : index'.file[b] <= index'.last
    BY <1>2, <1>6 DEF Typed
  <2> QED BY <1>4, <2>1, <2>3, <2>6, <2>7 DEF Typed
<1>8. CoinsRight'
  <2>1. FlagsTrue(tip', coindb'.coins)
    BY <1>6, EmptyCacheShape DEF FlagsTrue
  <2>2. d.coins = Utxo[d.best]
    BY <1>2 DEF CoinsRight, DiskCoinsExact
  <2>3. DiskCoinsExact'
    BY <1>6, <2>2 DEF DiskCoinsExact
  <2>4. TipSeen' = Utxo[tipBest']
    <3>1. d.coins \in CoinMaps
      BY <1>2 DEF TypeOK, CoinDb, CoinMaps
    <3>2. Seen(EmptyCache, d.coins) = d.coins
      BY <3>1, EmptyCacheSeen
    <3> QED BY <1>6, <2>2, <3>2 DEF TipSeen
  <2> QED BY <1>6, <2>1, <2>3, <2>4 DEF CoinsRight
<1>9. ChainsUndone'
  <2>1. Anc[d.best] \subseteq index.data
    BY <1>3, <1>6, ClosedHoldsChains
  <2>2. Anc[d.best] \ {Genesis} \subseteq index.undo
    BY <1>2 DEF ChainsUndone
  <2> QED BY <1>4, <1>6, <2>1, <2>2 DEF ChainsUndone
<1>10. UndoInFile'
  <2> SUFFICES ASSUME index.last = 0
               PROVE  index.undo \subseteq synced'.undo /\ \A b \in index.undo : undo'[b] # NoUndo
    BY <1>6 DEF UndoInFile
  <2>1. index.undo \subseteq synced.undo /\ \A b \in index.undo : undo[b] # NoUndo
    BY <1>2 DEF UndoInFile
  <2>2. rev = {} /\ index.undo \subseteq Blocks
    BY <1>2, <1>4, <2>1 DEF TypeOK
  <2>3. \A b \in index.undo : undo'[b] = undo[b]
    BY <1>6, <1>5, <2>2
  <2> QED BY <1>4, <2>1, <2>3
<1>11. UndoRight'
  <2>1. \A b \in Blocks : undo'[b] # NoUndo => undo'[b] = undo[b]
    BY <1>6, <1>5
  <2> QED BY <1>2, <2>1 DEF UndoRight
<1> QED BY <1>1, <1>7, <1>8, <1>9, <1>10, <1>11 DEF FullInv

\* Every step keeps the invariant.
LEMMA StepFullInv ==
    ASSUME ~Transient, FullInv, [Next]_vars
    PROVE  FullInv'
<1>1. CASE Next
  BY <1>1, AcceptFull, ConnectFull, RejectFull, DisconnectFull, BeginFull, SpaceFull, FilesFull, IndexFull,
     CoinsFull, StartFull DEF Next
<1>2. CASE UNCHANGED vars
  <2> USE <1>2 DEF vars, coinVars, flowVars, faultVars, blockVars, diskVars
  <2>1. Inv'
    BY StepInv DEF FullInv
  <2>2. TypeOK' /\ Typed'
    <3>1. TypeOK'
      BY DEF FullInv, Typed, TypeOK
    <3> QED BY <3>1 DEF FullInv, Typed
  <2>3. CoinsRight'
    BY DEF FullInv, CoinsRight, DiskCoinsExact, TipSeen
  <2>4. ChainsUndone' /\ UndoInFile' /\ UndoRight'
    BY DEF FullInv, ChainsUndone, UndoInFile, UndoRight
  <2> QED BY <2>1, <2>2, <2>3, <2>4 DEF FullInv
<1> QED BY <1>1, <1>2

-----------------------------------------------------------------------------
(* The theorems.                                                           *)

\* The invariant holds in every behaviour in which write errors last.
THEOREM InvCorrect == ~Transient /\ Spec => []Inv
<1> SUFFICES ASSUME ~Transient PROVE Spec => []Inv
  OBVIOUS
<1>1. Inv /\ [Next]_vars => Inv'
  BY StepInv
<1> QED BY InitInv, <1>1, PTL DEF Spec

\* The coin database never refers to a block that the block index database does not
\* know, whatever fails and when: FlushStateToDisk writes the index first
\* (src/src/main.cpp:2205-2243), for any tree, files and number of failures.
THEOREM RecoverableCorrect == ~Transient /\ Spec => []Recoverable
<1>1. Inv => Recoverable
  <2> SUFFICES ASSUME Inv, NEW d \in oldDbs PROVE Anc[d.best] \subseteq index.data
    BY DEF Recoverable
  <2> QED BY ClosedHoldsChains DEF Inv, Known
<1> QED BY InvCorrect, <1>1, PTL

\* The block index database marks a block BLOCK_HAVE_DATA only when its data is in a blk
\* file that was committed (FlushBlockFile, src/src/main.cpp:1731), for any number of files.
THEOREM IndexedDataDurableCorrect == ~Transient /\ Spec => []IndexedDataDurable
<1>1. Inv => IndexedDataDurable
  BY DEF Inv, Known, IndexedDataDurable
<1> QED BY InvCorrect, <1>1, PTL

\* So does the invariant with coins and undo data.
THEOREM FullInvCorrect == ~Transient /\ Spec => []FullInv
<1> SUFFICES ASSUME ~Transient PROVE Spec => []FullInv
  OBVIOUS
<1>1. FullInv /\ [Next]_vars => FullInv'
  BY StepFullInv
<1> QED BY InitFullInv, <1>1, PTL DEF Spec

\* Whenever cs_main is free, what pcoinsTip shows is exactly the unspent outputs of the chain
\* that ends in chainActive.Tip(), for any tree and any transactions in it, any sequence of
\* blocks connected, rejected and disconnected, flushes, crashes and restarts
\* (ConnectTip, DisconnectTip, FlushStateToDisk, src/src/main.cpp:2162-2461).
THEOREM CoinsExactCorrect == ~Transient /\ Spec => []CoinsExact
<1>1. FullInv => CoinsExact
  BY DEF FullInv, CoinsRight, CoinsExact
<1> QED BY FullInvCorrect, <1>1, PTL

\* What a failure leaves on disk is consistent in itself: every state of the coin database
\* is the unspent outputs of the chain to its best block, and marks in the index have data
\* in the files (FlushStateToDisk, src/src/main.cpp:2162-2257).  All variables have their
\* types.
THEOREM DiskConsistentCorrect == ~Transient /\ Spec => []DiskConsistent
<1>1. FullInv => DiskConsistent
  BY DEF FullInv, Typed, CoinsRight, Inv, Known, IndexedDataDurable, DiskConsistent
<1> QED BY FullInvCorrect, <1>1, PTL

\* A node with one block file can always disconnect its tip, also after a crash: blocks and
\* undo data are there down to the first block, and DisconnectBlock finds the coins it
\* expects, since it is the inverse of ConnectBlock (src/src/main.cpp:1637-1729).
THEOREM ReversibleCorrect == ~Transient /\ Spec => []Reversible
<1>1. FullInv => Reversible
  <2> SUFFICES ASSUME FullInv, pc = "idle", lastFile = 0
               PROVE  /\ \A b \in Anc[active] \ {Genesis} :
                            b \in written \cap undone /\ undo[b] # NoUndo
                      /\ active # Genesis => DisconnectBlock(active).ok
    BY DEF Reversible
  <2>1. active = tipBest /\ active \in Blocks
    BY DEF FullInv, CoinsRight, Typed, TypeOK
  <2>2. \A b \in Anc[active] \ {Genesis} : b \in written \cap undone /\ undo[b] # NoUndo
    BY <2>1 DEF FullInv, ChainsUndone, UndoInFile
  <2>3. ASSUME active # Genesis PROVE DisconnectBlock(active).ok
    <3>1. active \in Anc[active]
      BY <2>1, ChainClimbs DEF Climbs
    <3>2. undo[active] # NoUndo
      BY <2>2, <2>3, <3>1
    <3>3. Holds(DisconnectBlock(active), TipSeen, Utxo[Parent[active]], <<>>)
      BY <2>3, <3>2, DisconnectRuns
    <3> HIDE DEF FullInv
    <3> QED BY <3>3 DEF Holds
  <2> QED BY <2>2, <2>3
<1> QED BY FullInvCorrect, <1>1, PTL

=============================================================================
