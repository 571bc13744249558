-------------------------- MODULE ValidationProofs --------------------------
(***************************************************************************)
(* Proofs about the two components ConnectBlock rests on: the coin views   *)
(* it reads and changes, and the queue that runs its script checks.        *)
(*                                                                         *)
(* CoinsCache, for any sets of transactions, outputs and blocks: the stack *)
(* of coin views implements plain copies of the set of unspent outputs.    *)
(* First, what each operation on one cache does to the set of coins seen   *)
(* through it, as long as the flags tell the truth; then that is applied   *)
(* to the two caches on top of each other.                                 *)
(*                                                                         *)
(* CheckQueue, for any number of workers, any set of checks and any batch  *)
(* size: the type invariant, the correctness of the verdict and the        *)
(* idleness of the pool after a round, all from IInv.                      *)
(***************************************************************************)
EXTENDS CoinsCache, CheckQueue, FiniteSetTheorems, TLAPS

-----------------------------------------------------------------------------
(* The coin views: what one cache holds.                                   *)

CoinMaps == [Txids -> Coins]

\* A cache is a function from some of the txids to entries.
LEMMA CacheShape ==
    ASSUME NEW cache
    PROVE  cache \in Caches <=> /\ DOMAIN cache \subseteq Txids
                                /\ cache \in [DOMAIN cache -> CacheEntry]
<1>1. ASSUME cache \in Caches
      PROVE  DOMAIN cache \subseteq Txids /\ cache \in [DOMAIN cache -> CacheEntry]
  <2>1. PICK D \in SUBSET Txids : cache \in [D -> CacheEntry]
    BY <1>1 DEF Caches
  <2>2. DOMAIN cache = D
    BY <2>1
  <2> QED
    BY <2>1, <2>2
<1>2. ASSUME DOMAIN cache \subseteq Txids, cache \in [DOMAIN cache -> CacheEntry]
      PROVE  cache \in Caches
  BY <1>2 DEF Caches
<1> QED
  BY <1>1, <1>2

\* The cache without entries is a cache.
LEMMA EmptyCacheShape == EmptyCache \in Caches /\ DOMAIN EmptyCache = {}
<1>1. DOMAIN EmptyCache = {}
  BY DEF EmptyCache
<1>2. EmptyCache \in [{} -> CacheEntry]
  BY DEF EmptyCache
<1> QED
  BY <1>1, <1>2, CacheShape

\* Inserting and removing one entry.
LEMMA WithShape ==
    ASSUME NEW cache \in Caches, NEW t \in Txids, NEW entry \in CacheEntry
    PROVE  /\ With(cache, t, entry) \in Caches
           /\ DOMAIN With(cache, t, entry) = DOMAIN cache \cup {t}
           /\ With(cache, t, entry)[t] = entry
           /\ \A x \in DOMAIN cache \ {t} : With(cache, t, entry)[x] = cache[x]
<1> DEFINE W == With(cache, t, entry)
<1>1. DOMAIN W = DOMAIN cache \cup {t}
  BY DEF With
<1>2. W[t] = entry /\ \A x \in DOMAIN cache \ {t} : W[x] = cache[x]
  BY DEF With
<1>3. DOMAIN cache \subseteq Txids /\ cache \in [DOMAIN cache -> CacheEntry]
  BY CacheShape
<1>4. W \in [DOMAIN W -> CacheEntry] /\ DOMAIN W \subseteq Txids
  BY <1>3 DEF With
<1>5. W \in Caches
  BY <1>4, CacheShape
<1> QED
  BY <1>1, <1>2, <1>5

\* Removing an entry leaves a cache with the other entries.
LEMMA WithoutShape ==
    ASSUME NEW cache \in Caches, NEW t
    PROVE  /\ Without(cache, t) \in Caches
           /\ DOMAIN Without(cache, t) = DOMAIN cache \ {t}
           /\ \A x \in DOMAIN cache \ {t} : Without(cache, t)[x] = cache[x]
<1> DEFINE W == Without(cache, t)
<1>1. DOMAIN W = DOMAIN cache \ {t} /\ \A x \in DOMAIN cache \ {t} : W[x] = cache[x]
  BY DEF Without
<1>2. DOMAIN cache \subseteq Txids /\ cache \in [DOMAIN cache -> CacheEntry]
  BY CacheShape
<1>3. W \in [DOMAIN W -> CacheEntry] /\ DOMAIN W \subseteq Txids
  BY <1>2 DEF Without
<1>4. W \in Caches
  BY <1>3, CacheShape
<1> QED
  BY <1>1, <1>4

\* What is seen through a cache gives coins to every transaction.
LEMMA SeenType ==
    ASSUME NEW cache \in Caches, NEW base \in CoinMaps
    PROVE  Seen(cache, base) \in CoinMaps
BY CacheShape DEF Seen, CoinMaps, CacheEntry

\* Two caches show the same if they do so for every transaction.
LEMMA SeenEqual ==
    ASSUME NEW c1, NEW b1, NEW c2, NEW b2,
           \A t \in Txids : Seen(c1, b1)[t] = Seen(c2, b2)[t]
    PROVE  Seen(c1, b1) = Seen(c2, b2)
BY DEF Seen

-----------------------------------------------------------------------------
(* The operations on one cache.                                            *)

\* An empty cache is transparent.
LEMMA EmptyCacheSeen ==
    ASSUME NEW base \in CoinMaps
    PROVE  FlagsTrue(EmptyCache, base) /\ Seen(EmptyCache, base) = base
<1>1. FlagsTrue(EmptyCache, base)
  BY EmptyCacheShape DEF FlagsTrue
<1>2. \A t \in Txids : Seen(EmptyCache, base)[t] = base[t]
  BY EmptyCacheShape DEF Seen
<1>3. Seen(EmptyCache, base) \in CoinMaps
  BY SeenType, EmptyCacheShape
<1>4. Seen(EmptyCache, base) = base
  BY <1>2, <1>3 DEF CoinMaps
<1> QED
  BY <1>1, <1>4

\* FetchCoins changes nothing a reader sees.
LEMMA FetchedSame ==
    ASSUME NEW cache \in Caches, NEW base \in CoinMaps, NEW has, NEW t \in Txids,
           FlagsTrue(cache, base)
    PROVE  /\ Fetched(cache, base, has, t) \in Caches
           /\ FlagsTrue(Fetched(cache, base, has, t), base)
           /\ Seen(Fetched(cache, base, has, t), base) = Seen(cache, base)
<1> DEFINE entry == [coins |-> base[t], flags |-> IF base[t] = {} THEN {"FRESH"} ELSE {}]
<1>1. CASE t \in DOMAIN cache \/ t \notin has
  BY <1>1 DEF Fetched
<1>2. CASE ~(t \in DOMAIN cache \/ t \notin has)
  <2> DEFINE F == With(cache, t, entry)
  <2>1. Fetched(cache, base, has, t) = F
    BY <1>2 DEF Fetched
  <2>2. entry \in CacheEntry
    BY DEF CacheEntry, Flags, CoinMaps
  <2> HIDE DEF entry
  <2>3. F \in Caches /\ DOMAIN F = DOMAIN cache \cup {t} /\ F[t] = entry
        /\ \A x \in DOMAIN cache \ {t} : F[x] = cache[x]
    BY <2>2, WithShape
  <2> HIDE DEF F
  <2>4. FlagsTrue(F, base)
    BY <2>3 DEF FlagsTrue, entry
  <2>5. \A x \in Txids : Seen(F, base)[x] = Seen(cache, base)[x]
    BY <1>2, <2>3 DEF Seen, entry
  <2> QED
    BY <2>1, <2>3, <2>4, <2>5, SeenEqual
<1> QED
  BY <1>1, <1>2

\* The destruction of a modifier for t: t is seen to have the new coins.
LEMMA ClosedSeen ==
    ASSUME NEW cache \in Caches, NEW base \in CoinMaps, NEW t \in Txids,
           NEW c \in Coins, NEW flags \in SUBSET Flags,
           FlagsTrue(cache, base), "DIRTY" \in flags, "FRESH" \in flags => base[t] = {}
    PROVE  LET C == Closed(cache, t, [coins |-> c, flags |-> flags])
           IN  /\ C \in Caches
               /\ FlagsTrue(C, base)
               /\ Seen(C, base) = [Seen(cache, base) EXCEPT ![t] = c]
<1> DEFINE entry == [coins |-> c, flags |-> flags]
           C == Closed(cache, t, entry)
<1>0. entry \in CacheEntry
  BY DEF CacheEntry
<1>1. CASE "FRESH" \in flags /\ c = {}
  <2>1. C = Without(cache, t)
    BY <1>1 DEF Closed
  <2> HIDE DEF C
  <2>2. C \in Caches /\ DOMAIN C = DOMAIN cache \ {t}
        /\ \A x \in DOMAIN cache \ {t} : C[x] = cache[x]
    BY <2>1, WithoutShape
  <2>3. FlagsTrue(C, base)
    BY <2>2 DEF FlagsTrue
  <2>4. \A x \in Txids : Seen(C, base)[x] = [Seen(cache, base) EXCEPT ![t] = c][x]
    BY <1>1, <2>2 DEF Seen
  <2>5. Seen(C, base) = [Seen(cache, base) EXCEPT ![t] = c]
    BY <2>4 DEF Seen
  <2> QED
    BY <2>2, <2>3, <2>5 DEF C
<1>2. CASE ~("FRESH" \in flags /\ c = {})
  <2>1. C = With(cache, t, entry)
    BY <1>2 DEF Closed
  <2>2. C \in Caches /\ DOMAIN C = DOMAIN cache \cup {t} /\ C[t] = entry
        /\ \A x \in DOMAIN cache \ {t} : C[x] = cache[x]
    BY <1>0, <2>1, WithShape
  <2> HIDE DEF C
  <2>3. FlagsTrue(C, base)
    BY <2>2 DEF FlagsTrue
  <2>4. \A x \in Txids : Seen(C, base)[x] = [Seen(cache, base) EXCEPT ![t] = c][x]
    BY <2>2 DEF Seen
  <2>5. Seen(C, base) = [Seen(cache, base) EXCEPT ![t] = c]
    BY <2>4 DEF Seen
  <2> QED
    BY <2>2, <2>3, <2>5 DEF C
<1> QED
  BY <1>1, <1>2

\* ModifyCoins: the transaction is seen to have the new coins, the others theirs.
LEMMA ModifiedSeen ==
    ASSUME NEW cache \in Caches, NEW base \in CoinMaps, NEW t \in Txids,
           NEW c \in Coins, FlagsTrue(cache, base)
    PROVE  /\ Modified(cache, base, t, c) \in Caches
           /\ FlagsTrue(Modified(cache, base, t, c), base)
           /\ Seen(Modified(cache, base, t, c), base) = [Seen(cache, base) EXCEPT ![t] = c]
<1> DEFINE flags == ModifiedFlags(cache, base, t)
<1>1. flags \in SUBSET Flags /\ "DIRTY" \in flags
  BY CacheShape DEF ModifiedFlags, Flags, CacheEntry
<1>2. "FRESH" \in flags => base[t] = {}
  BY DEF ModifiedFlags, FlagsTrue
<1> HIDE DEF flags
<1> QED
  BY <1>1, <1>2, ClosedSeen DEF Modified, flags

\* ModifyNewCoins does the same if the layer below has nothing unspent.
LEMMA ModifiedNewSeen ==
    ASSUME NEW cache \in Caches, NEW base \in CoinMaps, NEW t \in Txids,
           NEW c \in Coins, FlagsTrue(cache, base), base[t] = {}
    PROVE  /\ ModifiedNew(cache, t, c) \in Caches
           /\ FlagsTrue(ModifiedNew(cache, t, c), base)
           /\ Seen(ModifiedNew(cache, t, c), base) = [Seen(cache, base) EXCEPT ![t] = c]
<1>1. {"DIRTY", "FRESH"} \in SUBSET Flags
  BY DEF Flags
<1> QED
  BY <1>1, ClosedSeen DEF ModifiedNew

\* Uncache drops clean entries only, so it changes nothing a reader sees.
LEMMA UncachedSeen ==
    ASSUME NEW cache \in Caches, NEW base \in CoinMaps, NEW t \in Txids,
           FlagsTrue(cache, base)
    PROVE  /\ Uncached(cache, t) \in Caches
           /\ FlagsTrue(Uncached(cache, t), base)
           /\ Seen(Uncached(cache, t), base) = Seen(cache, base)
<1>1. CASE t \in DOMAIN cache /\ cache[t].flags = {}
  <2> DEFINE C == Without(cache, t)
  <2>1. C \in Caches /\ DOMAIN C = DOMAIN cache \ {t}
        /\ \A x \in DOMAIN cache \ {t} : C[x] = cache[x]
    BY WithoutShape
  <2> HIDE DEF C
  <2>2. FlagsTrue(C, base)
    BY <2>1 DEF FlagsTrue
  <2>3. cache[t].coins = base[t]
    BY <1>1 DEF FlagsTrue
  <2>4. \A x \in Txids : Seen(C, base)[x] = Seen(cache, base)[x]
    BY <1>1, <2>1, <2>3 DEF Seen
  <2> QED
    BY <1>1, <2>1, <2>2, <2>4, SeenEqual DEF Uncached, C
<1>2. CASE ~(t \in DOMAIN cache /\ cache[t].flags = {})
  BY <1>2 DEF Uncached
<1> QED
  BY <1>1, <1>2

\* The batch for the database makes it hold what was seen through the cache.
LEMMA CommittedSeen ==
    ASSUME NEW cache \in Caches, NEW base \in CoinMaps, FlagsTrue(cache, base)
    PROVE  Committed(base, cache) = Seen(cache, base)
<1>1. \A t \in Txids : Committed(base, cache)[t] = Seen(cache, base)[t]
  BY DEF Committed, Seen, Dirty, FlagsTrue
<1> QED
  BY <1>1 DEF Committed, Seen

\* BatchWrite into a cache makes it show what was seen through the upper one.
LEMMA WrittenSeen ==
    ASSUME NEW parent \in Caches, NEW child \in Caches, NEW base \in CoinMaps,
           FlagsTrue(parent, base), FlagsTrue(child, Seen(parent, base))
    PROVE  /\ Written(parent, child) \in Caches
           /\ FlagsTrue(Written(parent, child), base)
           /\ Seen(Written(parent, child), base) = Seen(child, Seen(parent, base))
<1> DEFINE W == Written(parent, child)
           Cr == Created(parent, child)
           Er == Erased(parent, child)
<1>1. /\ DOMAIN parent \subseteq Txids /\ parent \in [DOMAIN parent -> CacheEntry]
      /\ DOMAIN child \subseteq Txids /\ child \in [DOMAIN child -> CacheEntry]
  BY CacheShape
<1>2. DOMAIN W = (DOMAIN parent \cup Cr) \ Er
  BY DEF Written
<1>3. \A t \in DOMAIN W :
        W[t] = IF t \in Cr THEN [coins |-> child[t].coins,
                                 flags |-> {"DIRTY"} \cup (child[t].flags \cap {"FRESH"})]
               ELSE IF t \in Dirty(child)
               THEN [coins |-> child[t].coins, flags |-> parent[t].flags \cup {"DIRTY"}]
               ELSE parent[t]
  BY DEF Written
<1>4. Cr \subseteq Dirty(child) \ DOMAIN parent /\ Er \subseteq Dirty(child) \cap DOMAIN parent
      /\ Dirty(child) \subseteq DOMAIN child
  BY DEF Created, Erased, Dirty
<1>5. \A t \in DOMAIN W : W[t] \in CacheEntry
  <2> TAKE t \in DOMAIN W
  <2>1. CASE t \in Cr
    <3>1. child[t] \in CacheEntry
      BY <1>1, <1>4, <2>1
    <3> QED
      BY <1>3, <2>1, <3>1 DEF CacheEntry, Flags
  <2>2. CASE t \notin Cr /\ t \in Dirty(child)
    <3>1. child[t] \in CacheEntry /\ parent[t] \in CacheEntry
      BY <1>1, <1>2, <1>4, <2>2
    <3> QED
      BY <1>3, <2>2, <3>1 DEF CacheEntry, Flags
  <2>3. CASE t \notin Cr /\ t \notin Dirty(child)
    BY <1>1, <1>2, <1>3, <2>3
  <2> QED
    BY <2>1, <2>2, <2>3
<1>6. W \in Caches
  <2>1. W \in [DOMAIN W -> CacheEntry]
    BY <1>5 DEF Written
  <2>2. DOMAIN W \subseteq Txids
    BY <1>1, <1>2, <1>4
  <2> QED
    BY <2>1, <2>2, CacheShape
<1> HIDE DEF W, Cr, Er
<1>7. ASSUME NEW t \in DOMAIN W
      PROVE  /\ "FRESH" \in W[t].flags => base[t] = {}
             /\ "DIRTY" \notin W[t].flags => W[t].coins = base[t]
  <2>1. CASE t \in Cr
    <3>1. t \in DOMAIN child /\ t \notin DOMAIN parent /\ t \in Txids
      BY <1>1, <1>4, <2>1
    <3>2. Seen(parent, base)[t] = base[t]
      BY <3>1 DEF Seen
    <3> QED
      BY <1>3, <2>1, <3>1, <3>2 DEF FlagsTrue
  <2>2. CASE t \notin Cr
    <3>1. t \in DOMAIN parent
      BY <1>2, <2>2
    <3> QED
      BY <1>3, <2>2, <3>1 DEF FlagsTrue
  <2> QED
    BY <2>1, <2>2
<1>8. ASSUME NEW t \in Txids
      PROVE  Seen(W, base)[t] = Seen(child, Seen(parent, base))[t]
  <2>1. CASE t \in Cr
    <3>1. t \in DOMAIN W /\ t \in DOMAIN child
      BY <1>2, <1>4, <2>1
    <3> QED
      BY <1>3, <2>1, <3>1 DEF Seen
  <2>2. CASE t \in Er
    <3>1. t \notin DOMAIN W /\ t \in DOMAIN child /\ t \in DOMAIN parent
      BY <1>2, <1>4, <2>2
    <3>2. base[t] = {} /\ child[t].coins = {}
      BY <2>2, <3>1 DEF Er, Erased, FlagsTrue
    <3> QED
      BY <3>1, <3>2 DEF Seen
  <2>3. CASE t \notin Cr /\ t \notin Er /\ t \in Dirty(child)
    <3>1. CASE t \in DOMAIN parent
      <4>1. t \in DOMAIN W /\ t \in DOMAIN child
        BY <1>2, <1>4, <2>3, <3>1
      <4> QED
        BY <1>3, <2>3, <4>1 DEF Seen
    <3>2. CASE t \notin DOMAIN parent
      <4>1. t \notin DOMAIN W /\ t \in DOMAIN child
        BY <1>2, <1>4, <2>3, <3>2
      <4>2. "FRESH" \in child[t].flags /\ child[t].coins = {}
        BY <2>3, <3>2 DEF Cr, Created
      <4>3. Seen(parent, base)[t] = base[t]
        BY <3>2 DEF Seen
      <4>4. base[t] = {}
        BY <4>1, <4>2, <4>3 DEF FlagsTrue
      <4> QED
        BY <4>1, <4>2, <4>4 DEF Seen
    <3> QED
      BY <3>1, <3>2
  <2>4. CASE t \notin Dirty(child)
    <3>1. t \in DOMAIN W <=> t \in DOMAIN parent
      BY <1>2, <1>4, <2>4
    <3>2. Seen(W, base)[t] = Seen(parent, base)[t]
      BY <1>3, <1>4, <2>4, <3>1 DEF Seen
    <3>3. t \in DOMAIN child => child[t].coins = Seen(parent, base)[t]
      BY <2>4 DEF FlagsTrue, Dirty
    <3> QED
      BY <3>2, <3>3 DEF Seen
  <2> QED
    BY <2>1, <2>2, <2>3, <2>4
<1>9. FlagsTrue(W, base)
  BY <1>7 DEF FlagsTrue
<1>10. Seen(W, base) = Seen(child, Seen(parent, base))
  BY <1>8, SeenEqual
<1> QED
  BY <1>6, <1>9, <1>10 DEF W

-----------------------------------------------------------------------------
(* The two caches on top of each other.                                    *)

\* A view that is closed is empty; an open one knows the block it belongs to.
ViewLifetime ==
    /\ ~open => view = EmptyCache /\ viewBest = NullHash
    /\ open => viewBest \in Hashes

CoinsIInv == CoinsTypeOK /\ FlagsTruthful /\ ViewLifetime

\* What is seen through pcoinsTip gives coins to every transaction.
LEMMA SeenTypes == CoinsTypeOK => db \in CoinMaps /\ TipSeen \in CoinMaps
BY SeenType DEF CoinsTypeOK, TipSeen, CoinMaps

\* The invariant holds after the start.
LEMMA CoinsInitIInv == CoinsInit => CoinsIInv
<1> SUFFICES ASSUME CoinsInit PROVE CoinsIInv
  OBVIOUS
<1>1. CoinsTypeOK
  BY EmptyCacheShape DEF CoinsInit, CoinsTypeOK
<1>2. FlagsTruthful
  BY EmptyCacheShape DEF CoinsInit, FlagsTruthful, FlagsTrue
<1>3. ViewLifetime
  BY DEF CoinsInit, ViewLifetime
<1> QED
  BY <1>1, <1>2, <1>3 DEF CoinsIInv

\* What each step does to the coins seen through the caches: the facts both the
\* invariant and the refinement follow from.
LEMMA ReadTipEffect ==
    ASSUME CoinsIInv, NEW t \in Txids, tip' = Fetched(tip, db, InDb(db), t), UNCHANGED db
    PROVE  tip' \in Caches /\ FlagsTrue(tip', db') /\ TipSeen' = TipSeen
<1>1. tip \in Caches /\ FlagsTrue(tip, db) /\ db \in CoinMaps
  BY SeenTypes DEF CoinsIInv, CoinsTypeOK, FlagsTruthful
<1> QED
  BY <1>1, FetchedSame DEF TipSeen

\* The part of reading and modifying the view that fills pcoinsTip.
LEMMA FillTipEffect ==
    ASSUME CoinsIInv, NEW t \in Txids, UNCHANGED db,
           tip' = IF t \in DOMAIN view THEN tip ELSE Fetched(tip, db, InDb(db), t)
    PROVE  tip' \in Caches /\ FlagsTrue(tip', db') /\ TipSeen' = TipSeen
<1>1. CASE t \in DOMAIN view
  BY <1>1 DEF CoinsIInv, CoinsTypeOK, FlagsTruthful, TipSeen
<1>2. CASE t \notin DOMAIN view
  BY <1>2, ReadTipEffect
<1> QED
  BY <1>1, <1>2

\* Reading through a block's view changes nothing that is seen.
LEMMA ReadViewEffect ==
    ASSUME CoinsIInv, NEW t \in Txids, ReadView(t)
    PROVE  /\ tip' \in Caches /\ FlagsTrue(tip', db') /\ TipSeen' = TipSeen
           /\ view' \in Caches /\ FlagsTrue(view', TipSeen') /\ ViewSeen' = ViewSeen
<1>1. tip' \in Caches /\ FlagsTrue(tip', db') /\ TipSeen' = TipSeen
  BY FillTipEffect DEF ReadView
<1>2. view \in Caches /\ FlagsTrue(view, TipSeen) /\ TipSeen \in CoinMaps
  BY SeenTypes DEF CoinsIInv, CoinsTypeOK, FlagsTruthful
<1>3. view' = Fetched(view, TipSeen, Found(tip, InDb(db)), t)
  BY DEF ReadView
<1>4. view' \in Caches /\ FlagsTrue(view', TipSeen) /\ Seen(view', TipSeen) = ViewSeen
  BY <1>2, <1>3, FetchedSame DEF ViewSeen
<1> QED
  BY <1>1, <1>4 DEF ViewSeen

\* A modification of the view is seen in the view and nowhere else.
LEMMA ModifyCoinsEffect ==
    ASSUME CoinsIInv, NEW t \in Txids, NEW c \in Coins, ModifyCoins(t, c)
    PROVE  /\ tip' \in Caches /\ FlagsTrue(tip', db') /\ TipSeen' = TipSeen
           /\ view' \in Caches /\ FlagsTrue(view', TipSeen')
           /\ ViewSeen' = [ViewSeen EXCEPT ![t] = c]
<1>1. tip' \in Caches /\ FlagsTrue(tip', db') /\ TipSeen' = TipSeen
  BY FillTipEffect DEF ModifyCoins
<1>2. view \in Caches /\ FlagsTrue(view, TipSeen) /\ TipSeen \in CoinMaps
  BY SeenTypes DEF CoinsIInv, CoinsTypeOK, FlagsTruthful
<1>3. view' = Modified(view, TipSeen, t, c)
  BY DEF ModifyCoins
<1>4. /\ view' \in Caches /\ FlagsTrue(view', TipSeen)
      /\ Seen(view', TipSeen) = [ViewSeen EXCEPT ![t] = c]
  BY <1>2, <1>3, ModifiedSeen DEF ViewSeen
<1> QED
  BY <1>1, <1>4 DEF ViewSeen

\* The same for a transaction that is known to be new.
LEMMA ModifyNewCoinsEffect ==
    ASSUME CoinsIInv, NEW t \in Txids, NEW c \in Coins, ModifyNewCoins(t, c)
    PROVE  /\ TipSeen' = TipSeen /\ FlagsTrue(tip', db')
           /\ view' \in Caches /\ FlagsTrue(view', TipSeen')
           /\ ViewSeen' = [ViewSeen EXCEPT ![t] = c]
<1>1. TipSeen' = TipSeen /\ FlagsTrue(tip', db')
  BY DEF ModifyNewCoins, TipSeen, CoinsIInv, FlagsTruthful
<1>2. view \in Caches /\ FlagsTrue(view, TipSeen) /\ TipSeen \in CoinMaps
  BY SeenTypes DEF CoinsIInv, CoinsTypeOK, FlagsTruthful
<1>3. view' = ModifiedNew(view, t, c) /\ TipSeen[t] = {}
  BY DEF ModifyNewCoins, NewToChain
<1>4. /\ view' \in Caches /\ FlagsTrue(view', TipSeen)
      /\ Seen(view', TipSeen) = [ViewSeen EXCEPT ![t] = c]
  BY <1>2, <1>3, ModifiedNewSeen DEF ViewSeen
<1> QED
  BY <1>1, <1>4 DEF ViewSeen

\* Flushing the view makes pcoinsTip show what the view showed.
LEMMA FlushViewEffect ==
    ASSUME CoinsIInv, FlushView
    PROVE  /\ tip' \in Caches /\ FlagsTrue(tip', db') /\ TipSeen' = ViewSeen
           /\ view' = EmptyCache /\ FlagsTrue(view', TipSeen') /\ ViewSeen' = ViewSeen
<1>1. /\ tip \in Caches /\ FlagsTrue(tip, db) /\ db \in CoinMaps
      /\ view \in Caches /\ FlagsTrue(view, Seen(tip, db))
  BY SeenTypes DEF CoinsIInv, CoinsTypeOK, FlagsTruthful, TipSeen
<1>2. tip' = Written(tip, view) /\ db' = db /\ view' = EmptyCache
  BY DEF FlushView
<1>3. tip' \in Caches /\ FlagsTrue(tip', db') /\ TipSeen' = ViewSeen
  BY <1>1, <1>2, WrittenSeen DEF TipSeen, ViewSeen
<1>4. TipSeen' \in CoinMaps
  BY <1>1, <1>2, <1>3, SeenType DEF TipSeen
<1>5. FlagsTrue(EmptyCache, TipSeen') /\ Seen(EmptyCache, TipSeen') = TipSeen'
  BY <1>4, EmptyCacheSeen
<1> QED
  BY <1>2, <1>3, <1>5 DEF ViewSeen

\* Nothing is lost or gained when a view is opened or dropped.
LEMMA EmptyViewEffect ==
    ASSUME CoinsIInv, view' = EmptyCache, UNCHANGED <<db, tip>>
    PROVE  /\ TipSeen' = TipSeen /\ FlagsTrue(tip', db')
           /\ view' \in Caches /\ FlagsTrue(view', TipSeen') /\ ViewSeen' = TipSeen
<1>1. TipSeen' = TipSeen /\ FlagsTrue(tip', db') /\ TipSeen \in CoinMaps
  BY SeenTypes DEF TipSeen, CoinsIInv, FlagsTruthful
<1>2. /\ EmptyCache \in Caches /\ FlagsTrue(EmptyCache, TipSeen)
      /\ Seen(EmptyCache, TipSeen) = TipSeen
  BY <1>1, EmptyCacheShape, EmptyCacheSeen
<1> QED
  BY <1>1, <1>2 DEF ViewSeen

\* A closed view shows what pcoinsTip shows.
LEMMA ClosedViewSeen ==
    ASSUME CoinsIInv, ~open
    PROVE  ViewSeen = TipSeen /\ view = EmptyCache
<1>1. view = EmptyCache /\ TipSeen \in CoinMaps
  BY SeenTypes DEF CoinsIInv, ViewLifetime
<1> QED
  BY <1>1, EmptyCacheSeen DEF ViewSeen

\* Flushing pcoinsTip makes the database hold what pcoinsTip showed.
LEMMA FlushTipEffect ==
    ASSUME CoinsIInv, FlushTip
    PROVE  /\ db' = TipSeen /\ TipSeen' = TipSeen /\ ViewSeen' = ViewSeen
           /\ tip' \in Caches /\ FlagsTrue(tip', db') /\ FlagsTrue(view', TipSeen')
<1>1. tip \in Caches /\ FlagsTrue(tip, db) /\ db \in CoinMaps /\ TipSeen \in CoinMaps
  BY SeenTypes DEF CoinsIInv, CoinsTypeOK, FlagsTruthful
<1>2. db' = TipSeen
  BY <1>1, CommittedSeen DEF FlushTip, TipSeen
<1>3. tip' = EmptyCache /\ view' = view /\ ~open
  BY DEF FlushTip
<1>4. FlagsTrue(EmptyCache, TipSeen) /\ Seen(EmptyCache, TipSeen) = TipSeen
  BY <1>1, EmptyCacheSeen
<1>5. TipSeen' = TipSeen
  BY <1>2, <1>3, <1>4 DEF TipSeen
<1>6. FlagsTrue(tip', db') /\ tip' \in Caches
  BY <1>2, <1>3, <1>4, EmptyCacheShape
<1>7. FlagsTrue(view', TipSeen') /\ ViewSeen' = ViewSeen
  BY <1>3, <1>5 DEF ViewSeen, CoinsIInv, FlagsTruthful
<1> QED
  BY <1>2, <1>5, <1>6, <1>7

\* Uncache leaves what is seen through pcoinsTip alone.
LEMMA UncacheEffect ==
    ASSUME CoinsIInv, NEW t \in Txids, Uncache(t)
    PROVE  tip' \in Caches /\ FlagsTrue(tip', db') /\ TipSeen' = TipSeen
<1>1. tip \in Caches /\ FlagsTrue(tip, db) /\ db \in CoinMaps
  BY SeenTypes DEF CoinsIInv, CoinsTypeOK, FlagsTruthful
<1> QED
  BY <1>1, UncachedSeen DEF TipSeen, Uncache

\* After a restart pcoinsTip shows the database.
LEMMA RestartEffect ==
    ASSUME CoinsIInv, Restart
    PROVE  /\ db' = db /\ TipSeen' = db /\ ViewSeen' = db
           /\ tip' \in Caches /\ view' \in Caches
           /\ FlagsTrue(tip', db') /\ FlagsTrue(view', TipSeen')
<1>1. db \in CoinMaps /\ db' = db /\ tip' = EmptyCache /\ view' = EmptyCache
  BY SeenTypes DEF CoinsIInv, Restart
<1>2. /\ EmptyCache \in Caches /\ FlagsTrue(EmptyCache, db)
      /\ Seen(EmptyCache, db) = db
  BY <1>1, EmptyCacheShape, EmptyCacheSeen
<1>3. TipSeen' = db
  BY <1>1, <1>2 DEF TipSeen
<1> QED
  BY <1>1, <1>2, <1>3 DEF ViewSeen

-----------------------------------------------------------------------------
(* The theorems.                                                           *)

\* The best block pcoinsTip reports is a hash.
LEMMA BestType ==
    ASSUME CoinsTypeOK
    PROVE  TipBest \in Hashes /\ (viewBest # NullHash => ViewBest \in Hashes)
BY HashAssumption DEF CoinsTypeOK, TipBest, ViewBest

\* Every step keeps the invariant.
LEMMA CoinsNextIInv == CoinsIInv /\ [CoinsNext]_coinsVars => CoinsIInv'
<1> SUFFICES ASSUME CoinsIInv, [CoinsNext]_coinsVars PROVE CoinsIInv'
  OBVIOUS
<1> USE DEF CoinsIInv
<1>1. CASE OpenView
  <2>1. FlagsTruthful' /\ view' \in Caches
    BY <1>1, EmptyViewEffect DEF OpenView, FlagsTruthful
  <2>2. TipBest \in Hashes
    BY BestType
  <2>3. CoinsTypeOK'
    BY <1>1, <2>1, <2>2 DEF OpenView, CoinsTypeOK
  <2>4. ViewLifetime'
    BY <1>1, <2>2 DEF OpenView, ViewLifetime
  <2> QED
    BY <2>1, <2>3, <2>4
<1>2. CASE FlushView
  <2>1. tip' \in Caches /\ view' = EmptyCache /\ FlagsTruthful'
    BY <1>2, FlushViewEffect DEF FlagsTruthful
  <2>2. CoinsTypeOK'
    BY <1>2, <2>1, EmptyCacheShape DEF FlushView, CoinsTypeOK
  <2>3. ViewLifetime'
    BY <1>2 DEF FlushView, ViewLifetime
  <2> QED
    BY <2>1, <2>2, <2>3
<1>3. CASE DropView
  <2>1. FlagsTruthful' /\ view' \in Caches
    BY <1>3, EmptyViewEffect DEF DropView, FlagsTruthful
  <2>2. CoinsTypeOK' /\ ViewLifetime'
    BY <1>3, <2>1 DEF DropView, CoinsTypeOK, ViewLifetime
  <2> QED
    BY <2>1, <2>2
<1>4. CASE FlushTip
  <2>1. db' = TipSeen /\ tip' \in Caches /\ FlagsTruthful'
    BY <1>4, FlushTipEffect DEF FlagsTruthful
  <2>2. TipBest \in Hashes /\ TipSeen \in CoinMaps
    BY BestType, SeenTypes
  <2>3. CoinsTypeOK' /\ ViewLifetime'
    BY <1>4, <2>1, <2>2 DEF FlushTip, CoinsTypeOK, ViewLifetime, CoinMaps
  <2> QED
    BY <2>1, <2>3
<1>5. CASE Restart
  <2>1. db' = db /\ tip' \in Caches /\ view' \in Caches /\ FlagsTruthful'
    BY <1>5, RestartEffect DEF FlagsTruthful
  <2>2. CoinsTypeOK' /\ ViewLifetime'
    BY <1>5, <2>1 DEF Restart, CoinsTypeOK, ViewLifetime
  <2> QED
    BY <2>1, <2>2
<1>6. ASSUME NEW t \in Txids, ReadTip(t) PROVE CoinsIInv'
  <2>1. tip' \in Caches /\ FlagsTrue(tip', db') /\ TipSeen' = TipSeen
    BY <1>6, ReadTipEffect DEF ReadTip
  <2>2. FlagsTruthful'
    BY <1>6, <2>1 DEF ReadTip, FlagsTruthful
  <2>3. CoinsTypeOK' /\ ViewLifetime'
    BY <1>6, <2>1 DEF ReadTip, CoinsTypeOK, ViewLifetime
  <2> QED
    BY <2>2, <2>3
<1>7. ASSUME NEW t \in Txids, ReadView(t) PROVE CoinsIInv'
  <2>1. tip' \in Caches /\ view' \in Caches /\ FlagsTruthful'
    BY <1>7, ReadViewEffect DEF FlagsTruthful
  <2>2. CoinsTypeOK' /\ ViewLifetime'
    BY <1>7, <2>1 DEF ReadView, CoinsTypeOK, ViewLifetime
  <2> QED
    BY <2>1, <2>2
<1>8. ASSUME NEW t \in Txids, Uncache(t) PROVE CoinsIInv'
  <2>1. tip' \in Caches /\ FlagsTrue(tip', db') /\ TipSeen' = TipSeen
    BY <1>8, UncacheEffect
  <2>2. FlagsTruthful'
    BY <1>8, <2>1 DEF Uncache, FlagsTruthful
  <2>3. CoinsTypeOK' /\ ViewLifetime'
    BY <1>8, <2>1 DEF Uncache, CoinsTypeOK, ViewLifetime
  <2> QED
    BY <2>2, <2>3
<1>9. ASSUME NEW t \in Txids, NEW c \in Coins, ModifyCoins(t, c) PROVE CoinsIInv'
  <2>1. tip' \in Caches /\ view' \in Caches /\ FlagsTruthful'
    BY <1>9, ModifyCoinsEffect DEF FlagsTruthful
  <2>2. CoinsTypeOK' /\ ViewLifetime'
    BY <1>9, <2>1 DEF ModifyCoins, CoinsTypeOK, ViewLifetime
  <2> QED
    BY <2>1, <2>2
<1>10. ASSUME NEW t \in Txids, NEW c \in Coins, ModifyNewCoins(t, c) PROVE CoinsIInv'
  <2>1. view' \in Caches /\ FlagsTruthful'
    BY <1>10, ModifyNewCoinsEffect DEF FlagsTruthful
  <2>2. CoinsTypeOK' /\ ViewLifetime'
    BY <1>10, <2>1 DEF ModifyNewCoins, CoinsTypeOK, ViewLifetime
  <2> QED
    BY <2>1, <2>2
<1>11. ASSUME NEW h \in Hashes, SetBestBlock(h) PROVE CoinsIInv'
  BY <1>11 DEF SetBestBlock, CoinsTypeOK, FlagsTruthful, ViewLifetime, TipSeen
<1>12. CASE UNCHANGED coinsVars
  BY <1>12 DEF coinsVars, CoinsTypeOK, FlagsTruthful, ViewLifetime, TipSeen
<1> QED
  BY <1>1, <1>2, <1>3, <1>4, <1>5, <1>6, <1>7, <1>8, <1>9, <1>10, <1>11, <1>12 DEF CoinsNext

\* CoinsTypeOK and FlagsTruthful hold in every state, together with the fact that a
\* closed view is empty and an open one has a best block.
THEOREM CoinsInvariance == CoinsSpec => []CoinsIInv
BY CoinsInitIInv, CoinsNextIInv, PTL DEF CoinsSpec

\* Every variable of the stack of views keeps its type.
THEOREM CoinsTypeCorrect == CoinsSpec => []CoinsTypeOK
<1>1. CoinsIInv => CoinsTypeOK
  BY DEF CoinsIInv
<1> QED
  BY <1>1, CoinsInvariance, PTL

\* FRESH and DIRTY tell the truth in pcoinsTip and in a block's view, for any
\* number of transactions and outputs.
THEOREM FlagsCorrect == CoinsSpec => []FlagsTruthful
<1>1. CoinsIInv => FlagsTruthful
  BY DEF CoinsIInv
<1> QED
  BY <1>1, CoinsInvariance, PTL

\* The initial states are those of the plain copies.
LEMMA InitRefines == CoinsInit => Abstract!Init
<1> SUFFICES ASSUME CoinsInit PROVE Abstract!Init
  OBVIOUS
<1>1. db \in CoinMaps /\ tip = EmptyCache /\ view = EmptyCache /\ ~open
  BY DEF CoinsInit, CoinMaps
<1>2. TipSeen = db
  BY <1>1, EmptyCacheSeen DEF TipSeen
<1>3. ViewSeen = db
  BY <1>1, <1>2, EmptyCacheSeen DEF ViewSeen
<1>4. TipBest = dbBest /\ WorkBest = dbBest /\ dbBest \in Hashes
  BY DEF CoinsInit, TipBest, WorkBest
<1>5. open = FALSE
  BY DEF CoinsInit
<1> QED
  BY <1>1, <1>2, <1>3, <1>4, <1>5 DEF Abstract!Init, Abstract!Maps, CoinMaps, Coins

\* Every step of the caches is a step of the plain copies or changes none.
LEMMA NextRefines ==
    CoinsIInv /\ CoinsIInv' /\ [CoinsNext]_coinsVars => [Abstract!Next]_(Abstract!vars)
<1> SUFFICES ASSUME CoinsIInv, CoinsIInv', [CoinsNext]_coinsVars
             PROVE  [Abstract!Next]_(Abstract!vars)
  OBVIOUS
<1> USE DEF Abstract!vars
<1>1. CASE OpenView
  <2>1. TipSeen' = TipSeen /\ ViewSeen' = TipSeen
    BY <1>1, EmptyViewEffect DEF OpenView
  <2>2. TipBest \in Hashes
    BY BestType DEF CoinsIInv
  <2>3. TipBest' = TipBest /\ WorkBest' = TipBest
    BY <1>1, <2>2, HashAssumption DEF OpenView, TipBest, ViewBest, WorkBest
  <2>4. Abstract!Begin
    BY <1>1, <2>1, <2>3 DEF OpenView, Abstract!Begin
  <2> QED
    BY <2>4 DEF Abstract!Next
<1>2. CASE FlushView
  <2>1. TipSeen' = ViewSeen /\ ViewSeen' = ViewSeen
    BY <1>2, FlushViewEffect
  <2>2. TipBest' = WorkBest /\ WorkBest' = WorkBest
    BY <1>2, HashAssumption DEF FlushView, TipBest, ViewBest, WorkBest, CoinsIInv, ViewLifetime
  <2>3. Abstract!TakeOver
    BY <1>2, <2>1, <2>2 DEF FlushView, Abstract!TakeOver
  <2> QED
    BY <2>3 DEF Abstract!Next
<1>3. CASE DropView
  <2>1. TipSeen' = TipSeen /\ ViewSeen' = TipSeen
    BY <1>3, EmptyViewEffect DEF DropView
  <2>2. TipBest' = TipBest /\ WorkBest' = TipBest
    BY <1>3 DEF DropView, TipBest, WorkBest
  <2>3. Abstract!Forget
    BY <1>3, <2>1, <2>2 DEF DropView, Abstract!Forget
  <2> QED
    BY <2>3 DEF Abstract!Next
<1>4. CASE FlushTip
  <2>1. db' = TipSeen /\ TipSeen' = TipSeen /\ ViewSeen' = ViewSeen
    BY <1>4, FlushTipEffect
  <2>2. dbBest' = TipBest /\ TipBest' = TipBest /\ WorkBest' = WorkBest
    BY <1>4 DEF FlushTip, TipBest, WorkBest
  <2>3. Abstract!Save
    BY <1>4, <2>1, <2>2 DEF FlushTip, Abstract!Save
  <2> QED
    BY <2>3 DEF Abstract!Next
<1>5. CASE Restart
  <2>1. db' = db /\ TipSeen' = db /\ ViewSeen' = db
    BY <1>5, RestartEffect
  <2>2. dbBest' = dbBest /\ TipBest' = dbBest /\ WorkBest' = dbBest
    BY <1>5 DEF Restart, TipBest, WorkBest
  <2>3. Abstract!Crash
    BY <1>5, <2>1, <2>2 DEF Restart, Abstract!Crash
  <2> QED
    BY <2>3 DEF Abstract!Next
<1>6. ASSUME NEW t \in Txids, ReadTip(t) PROVE UNCHANGED Abstract!vars
  <2>1. TipSeen' = TipSeen
    BY <1>6, ReadTipEffect DEF ReadTip
  <2>2. ViewSeen' = ViewSeen /\ TipBest' = TipBest /\ WorkBest' = WorkBest
    BY <1>6, <2>1 DEF ReadTip, ViewSeen, TipBest, ViewBest, WorkBest
  <2> QED
    BY <1>6, <2>1, <2>2 DEF ReadTip
<1>7. ASSUME NEW t \in Txids, ReadView(t) PROVE UNCHANGED Abstract!vars
  <2>1. TipSeen' = TipSeen /\ ViewSeen' = ViewSeen
    BY <1>7, ReadViewEffect
  <2>2. TipBest' = TipBest /\ WorkBest' = WorkBest
    BY <1>7 DEF ReadView, TipBest, ViewBest, WorkBest
  <2> QED
    BY <1>7, <2>1, <2>2 DEF ReadView
<1>8. ASSUME NEW t \in Txids, Uncache(t) PROVE UNCHANGED Abstract!vars
  <2>1. TipSeen' = TipSeen
    BY <1>8, UncacheEffect
  <2>2. ViewSeen' = ViewSeen /\ TipBest' = TipBest /\ WorkBest' = WorkBest
    BY <1>8, <2>1 DEF Uncache, ViewSeen, TipBest, ViewBest, WorkBest
  <2> QED
    BY <1>8, <2>1, <2>2 DEF Uncache
<1>9. ASSUME NEW t \in Txids, NEW c \in Coins, ModifyCoins(t, c) PROVE Abstract!Change(t, c)
  <2>1. TipSeen' = TipSeen /\ ViewSeen' = [ViewSeen EXCEPT ![t] = c]
    BY <1>9, ModifyCoinsEffect
  <2>2. TipBest' = TipBest /\ WorkBest' = WorkBest
    BY <1>9 DEF ModifyCoins, TipBest, ViewBest, WorkBest
  <2> QED
    BY <1>9, <2>1, <2>2 DEF ModifyCoins, Abstract!Change
<1>10. ASSUME NEW t \in Txids, NEW c \in Coins, ModifyNewCoins(t, c)
       PROVE  Abstract!Change(t, c)
  <2>1. TipSeen' = TipSeen /\ ViewSeen' = [ViewSeen EXCEPT ![t] = c]
    BY <1>10, ModifyNewCoinsEffect
  <2>2. TipBest' = TipBest /\ WorkBest' = WorkBest
    BY <1>10 DEF ModifyNewCoins, TipBest, ViewBest, WorkBest
  <2> QED
    BY <1>10, <2>1, <2>2 DEF ModifyNewCoins, Abstract!Change
<1>11. ASSUME NEW h \in Hashes, SetBestBlock(h) PROVE Abstract!SetBest(h)
  <2>1. TipSeen' = TipSeen /\ ViewSeen' = ViewSeen
    BY <1>11 DEF SetBestBlock, TipSeen, ViewSeen
  <2>2. TipBest' = TipBest /\ WorkBest' = h
    BY <1>11, HashAssumption DEF SetBestBlock, TipBest, ViewBest, WorkBest
  <2> QED
    BY <1>11, <2>1, <2>2 DEF SetBestBlock, Abstract!SetBest
<1>12. CASE UNCHANGED coinsVars
  BY <1>12 DEF coinsVars, TipSeen, ViewSeen, TipBest, ViewBest, WorkBest
<1>13. CASE \E t \in Txids, c \in Coins : Abstract!Change(t, c)
  BY <1>13 DEF Abstract!Next, Coins
<1>14. CASE \E h \in Hashes : Abstract!SetBest(h)
  BY <1>14 DEF Abstract!Next
<1> QED
  BY <1>1, <1>2, <1>3, <1>4, <1>5, <1>6, <1>7, <1>8, <1>9, <1>10, <1>11, <1>12, <1>13, <1>14
     DEF CoinsNext

\* The stack of caches behaves as plain copies of the set of unspent outputs:
\* reads see what was written last, a flush moves exactly that and its block
\* into the view below, and a restart loses exactly what was not flushed.
THEOREM Refinement == CoinsSpec => BehavesAsMap
<1>1. CoinsSpec => Abstract!Init /\ [][Abstract!Next]_(Abstract!vars)
  BY CoinsInvariance, InitRefines, NextRefines, PTL DEF CoinsSpec
<1> QED
  BY <1>1, PTL DEF BehavesAsMap, Abstract!Spec

-----------------------------------------------------------------------------
(* The script check queue.                                                 *)

USE QueueAssumption

-----------------------------------------------------------------------------
(* Facts about the sets that are counted.                                  *)

\* The threads are finitely many.
LEMMA ThreadsFinite == IsFiniteSet(Threads)
  BY FS_AddElement DEF Threads

\* So are the threads in each place and the checks that are outstanding.
LEMMA CountsFinite ==
  ASSUME TypeOK
  PROVE  /\ IsFiniteSet(Busy) /\ Busy \subseteq Threads /\ Cardinality(Busy) \in Nat
         /\ IsFiniteSet(Asleep) /\ Asleep \subseteq Threads /\ Cardinality(Asleep) \in Nat
         /\ IsFiniteSet(Outstanding) /\ Outstanding \subseteq Checks
         /\ Cardinality(Outstanding) \in Nat
<1>1. Busy \subseteq Threads /\ Asleep \subseteq Threads
  BY DEF Busy, Asleep
<1>2. Outstanding \subseteq Checks
  BY DEF Outstanding, TypeOK
<1>3. IsFiniteSet(Busy) /\ IsFiniteSet(Asleep) /\ IsFiniteSet(Outstanding)
  BY <1>1, <1>2, ThreadsFinite, FS_Subset
<1> QED  BY <1>1, <1>2, <1>3, FS_CardinalityType

\* A batch is never empty.
LEMMA BatchSizePositive ==
  ASSUME NEW total \in Nat, NEW idle \in Nat, Cardinality(queue) \in Nat
  PROVE  BatchSize(total, idle) \in Nat \ {0}
<1>1. Cardinality(queue) \div (total + idle + 1) \in Int
  OBVIOUS
<1> QED  BY <1>1 DEF BatchSize

\* The invariant holds initially.
LEMMA InitIInv == Init => IInv
<1> SUFFICES ASSUME Init PROVE IInv
  OBVIOUS
<1> USE DEF Init
<1>1. TypeOK
  BY DEF TypeOK, Locations, Threads
<1>2. Busy = {} /\ Asleep = {} /\ Outstanding = {}
  BY DEF Busy, Asleep, Outstanding, Threads
<1>3. Cardinality({}) = 0
  BY FS_EmptySet
<1>4. pc[Master] = "out" /\ \A w \in Workers : pc[w] = "enter"
  BY DEF Threads
<1>5. BatchesApart
  BY <1>2 DEF BatchesApart
<1>6. TodoExact /\ PoolCounts /\ FailuresKnown /\ RoundOver
  BY <1>2, <1>3, <1>4 DEF TodoExact, PoolCounts, FailuresKnown, RoundOver
<1> QED  BY <1>1, <1>2, <1>4, <1>5, <1>6 DEF IInv

-----------------------------------------------------------------------------
(* What Loop does after the clean-up keeps the invariant, whatever brought *)
(* the thread there.                                                       *)

LEMMA LoopBodyKeepsIInv ==
  ASSUME IInv,
         NEW t \in Threads, NEW total \in Nat, NEW idle \in Nat,
         NEW ok \in BOOLEAN, NEW todo \in Nat, NEW locs \in [Threads -> Locations],
         pc[t] \in {"enter", "cleanup", "woken"},
         locs[t] = pc[t],
         \A x \in Threads : locs[x] = pc[x] \/ (pc[x] = "wait" /\ locs[x] = "woken"),
         total = idle + Cardinality(Busy \ {t}) + 1,
         idle >= Cardinality(Asleep \ {t}),
         todo = Cardinality(Outstanding \ vChecks[t]),
         pc[Master] = "out" => ok /\ todo = 0,
         pc[Master] # "out" => /\ ok => failing \subseteq Outstanding \ vChecks[t]
                               /\ ~ok => failing # {},
         LoopBody(t, total, idle, ok, todo, locs),
         UNCHANGED <<pending, shutdown, round, failing>>
  PROVE  IInv'
<1> USE DEF Threads
<1>0. /\ TypeOK /\ BatchesApart /\ TodoExact /\ PoolCounts /\ FailuresKnown /\ RoundOver
      /\ Outstanding \subseteq round
  BY DEF IInv
<1>f. /\ IsFiniteSet(Busy) /\ IsFiniteSet(Asleep) /\ IsFiniteSet(Outstanding)
      /\ IsFiniteSet(queue) /\ Cardinality(queue) \in Nat
  <2>1. queue \subseteq Checks
    BY <1>0 DEF TypeOK
  <2> QED  BY <1>0, <2>1, CountsFinite, FS_Subset, FS_CardinalityType
<1>c. Cardinality(Busy \ {t}) \in Nat /\ Cardinality(Asleep \ {t}) \in Nat
  BY <1>f, FS_Subset, FS_CardinalityType, Busy \ {t} \subseteq Busy, Asleep \ {t} \subseteq Asleep
<1>o. /\ IsFiniteSet(Outstanding \ vChecks[t])
      /\ todo = 0 => Outstanding \ vChecks[t] = {}
  BY <1>f, FS_Subset, FS_EmptySet, Outstanding \ vChecks[t] \subseteq Outstanding
<1>1. CASE LeaveLoop(t, total, idle, ok, todo, locs)
  <2>0. /\ t = Master /\ queue = {} /\ queue' = queue /\ todo = 0
        /\ pc' = [locs EXCEPT ![t] = "out"]
        /\ vChecks' = [vChecks EXCEPT ![t] = {}] /\ fOk' = fOk
        /\ nTotal' = total - 1 /\ nIdle' = idle /\ nTodo' = todo
        /\ fAllOk' = TRUE /\ verdict' = ok
    BY <1>1 DEF LeaveLoop
  <2>1. TypeOK'
    BY <1>0, <1>c, <2>0 DEF TypeOK, Locations
  <2>2. Busy' = Busy \ {t} /\ Asleep' = Asleep \ {t}
    BY <1>0, <2>0 DEF Busy, Asleep, TypeOK
  <2>3. Outstanding' = Outstanding \ vChecks[t]
    BY <1>0, <2>0 DEF Outstanding, BatchesApart, TypeOK
  <2>4. pc'[Master] = "out" /\ \A w \in Workers : pc'[w] \notin {"out", "adding"}
    BY <1>0, <2>0 DEF IInv, TypeOK
  <2>5. BatchesApart'
    BY <1>0, <2>0, <2>2 DEF BatchesApart, TypeOK
  <2>6. TodoExact' /\ PoolCounts'
    BY <1>c, <2>0, <2>2, <2>3 DEF TodoExact, PoolCounts
  <2>7. RoundOver'
    BY <1>o, <2>0, <2>4 DEF RoundOver
  <2> QED  BY <1>0, <2>1, <2>3, <2>4, <2>5, <2>6, <2>7 DEF IInv, FailuresKnown
<1>2. CASE Sleep(t, total, idle, ok, todo, locs)
  <2>0. /\ queue = {} /\ queue' = queue /\ ~(t = Master /\ todo = 0)
        /\ pc' = [locs EXCEPT ![t] = "wait"]
        /\ vChecks' = [vChecks EXCEPT ![t] = {}] /\ fOk' = fOk
        /\ nTotal' = total /\ nIdle' = idle + 1 /\ nTodo' = todo
        /\ fAllOk' = ok /\ verdict' = verdict
    BY <1>2 DEF Sleep
  <2>1. TypeOK'
    BY <1>0, <2>0 DEF TypeOK, Locations
  <2>2. Busy' = Busy \ {t} /\ Asleep' = (Asleep \ {t}) \cup {t}
    BY <1>0, <2>0 DEF Busy, Asleep, TypeOK
  <2>3. Outstanding' = Outstanding \ vChecks[t]
    BY <1>0, <2>0 DEF Outstanding, BatchesApart, TypeOK
  <2>4. /\ pc'[Master] # "gone" /\ (pc'[Master] = "out" <=> pc[Master] = "out")
        /\ \A w \in Workers : pc'[w] \notin {"out", "adding"}
    BY <1>0, <2>0 DEF IInv, TypeOK
  <2>5. BatchesApart'
    BY <1>0, <2>0, <2>2 DEF BatchesApart, TypeOK
  <2>6. Cardinality((Asleep \ {t}) \cup {t}) = Cardinality(Asleep \ {t}) + 1
    BY <1>f, FS_Subset, FS_AddElement, Asleep \ {t} \subseteq Asleep
  <2>7. TodoExact' /\ PoolCounts'
    BY <1>c, <2>0, <2>2, <2>3, <2>6 DEF TodoExact, PoolCounts
  <2>8. FailuresKnown'
    <3>1. \A x \in Busy' : x \in Busy /\ pc'[x] = pc[x] /\ vChecks'[x] = vChecks[x]
      BY <1>0, <2>0, <2>2 DEF Busy, TypeOK
    <3> QED  BY <1>0, <2>0, <2>3, <2>4, <3>1 DEF FailuresKnown
  <2>9. RoundOver'
    BY <1>0, <2>0, <2>4 DEF RoundOver
  <2> QED  BY <1>0, <2>1, <2>3, <2>4, <2>5, <2>7, <2>8, <2>9 DEF IInv
<1>3. CASE TakeBatch(t, total, idle, ok, todo, locs)
  <2>0. PICK batch \in SUBSET queue :
             /\ Cardinality(batch) = BatchSize(total, idle)
             /\ vChecks' = [vChecks EXCEPT ![t] = batch] /\ queue' = queue \ batch
             /\ queue # {} /\ pc' = [locs EXCEPT ![t] = "exec"]
             /\ fOk' = [fOk EXCEPT ![t] = ok]
             /\ nTotal' = total /\ nIdle' = idle /\ nTodo' = todo
             /\ fAllOk' = ok /\ verdict' = verdict
    BY <1>3 DEF TakeBatch
  <2>1. batch # {}
    BY <1>f, <2>0, BatchSizePositive, FS_EmptySet
  <2>2. TypeOK'
    BY <1>0, <2>0 DEF TypeOK, Locations
  <2>3. Busy' = (Busy \ {t}) \cup {t} /\ Asleep' = Asleep \ {t}
    BY <1>0, <2>0 DEF Busy, Asleep, TypeOK
  <2>4. Outstanding' = Outstanding \ vChecks[t]
    <3>1. \A x \in Threads : vChecks'[x] = IF x = t THEN batch ELSE vChecks[x]
      BY <1>0, <2>0 DEF TypeOK
    <3>2. vChecks[t] \cap queue = {} /\ \A x \in Threads : x # t => vChecks[x] \cap vChecks[t] = {}
      BY <1>0 DEF BatchesApart
    <3> QED  BY <2>0, <3>1, <3>2 DEF Outstanding
  <2>5. pc[Master] # "out"
    <3>1. queue \subseteq Outstanding \ vChecks[t]
      BY <1>0 DEF Outstanding, BatchesApart
    <3> QED  BY <1>o, <2>0, <3>1
  <2>6. /\ pc'[Master] \notin {"gone", "out"}
        /\ \A w \in Workers : pc'[w] \notin {"out", "adding"}
    BY <1>0, <2>0, <2>5 DEF IInv, TypeOK
  <2>7. BatchesApart'
    BY <1>0, <2>0, <2>1, <2>3 DEF BatchesApart, TypeOK
  <2>8. Cardinality((Busy \ {t}) \cup {t}) = Cardinality(Busy \ {t}) + 1
    BY <1>f, FS_Subset, FS_AddElement, Busy \ {t} \subseteq Busy
  <2>9. TodoExact' /\ PoolCounts'
    BY <1>c, <2>0, <2>3, <2>4, <2>8 DEF TodoExact, PoolCounts
  <2>10. FailuresKnown'
    <3>1. \A x \in Busy' : x # t => /\ x \in Busy /\ pc'[x] = pc[x] /\ vChecks'[x] = vChecks[x]
                                    /\ fOk'[x] = fOk[x]
      BY <1>0, <2>0, <2>3 DEF Busy, TypeOK
    <3>2. fOk'[t] = ok /\ pc'[t] = "exec"
      BY <1>0, <2>0 DEF TypeOK
    <3> QED  BY <1>0, <2>0, <2>4, <2>5, <3>1, <3>2 DEF FailuresKnown
  <2> QED  BY <1>0, <2>2, <2>4, <2>6, <2>7, <2>9, <2>10 DEF IInv, RoundOver
<1> QED  BY <1>1, <1>2, <1>3 DEF LoopBody

-----------------------------------------------------------------------------
(* Every step keeps the invariant.                                         *)

\* A thread comes to the loop for the first time.
LEMMA EnterLoopKeepsIInv ==
  ASSUME IInv, NEW t \in Threads, EnterLoop(t)
  PROVE  IInv'
<1>0. TypeOK /\ BatchesApart /\ TodoExact /\ PoolCounts /\ FailuresKnown /\ RoundOver
  BY DEF IInv
<1>1. /\ pc[t] = "enter" /\ UNCHANGED <<pending, shutdown, round, failing>>
      /\ LoopBody(t, nTotal + 1, nIdle, fAllOk, nTodo, pc)
  BY DEF EnterLoop
<1>2. Busy \ {t} = Busy /\ Asleep \ {t} = Asleep /\ vChecks[t] = {}
  BY <1>0, <1>1 DEF Busy, Asleep, BatchesApart
<1>3. /\ Cardinality(Busy) \in Nat /\ Cardinality(Outstanding) \in Nat
      /\ Outstanding \ {} = Outstanding
  BY <1>0, CountsFinite
<1>4. /\ nTotal + 1 = nIdle + Cardinality(Busy \ {t}) + 1
      /\ nIdle >= Cardinality(Asleep \ {t})
      /\ nTodo = Cardinality(Outstanding \ vChecks[t])
  BY <1>0, <1>2, <1>3 DEF TodoExact, PoolCounts, TypeOK
<1>5. /\ nTotal + 1 \in Nat /\ nIdle \in Nat /\ nTodo \in Nat /\ fAllOk \in BOOLEAN
      /\ pc \in [Threads -> Locations]
  BY <1>0 DEF TypeOK
<1>6. /\ pc[Master] = "out" => fAllOk /\ nTodo = 0
      /\ pc[Master] # "out" => /\ fAllOk => failing \subseteq Outstanding \ vChecks[t]
                               /\ ~fAllOk => failing # {}
  BY <1>0, <1>2, <1>3 DEF RoundOver, FailuresKnown
<1> QED  BY <1>1, <1>4, <1>5, <1>6, LoopBodyKeepsIInv

\* A thread has finished a batch: its verdict and its count come in.
LEMMA CleanUpKeepsIInv ==
  ASSUME IInv, NEW t \in Threads, CleanUp(t)
  PROVE  IInv'
<1>0. TypeOK /\ BatchesApart /\ TodoExact /\ PoolCounts /\ FailuresKnown /\ RoundOver
  BY DEF IInv
<1> DEFINE locs == Woken(pc, Wakes(t))
<1>1. /\ pc[t] = "cleanup" /\ UNCHANGED <<pending, shutdown, round, failing>>
      /\ LoopBody(t, nTotal, nIdle, OkAfter(t), TodoAfter(t), locs)
  BY DEF CleanUp
<1>2. t \in Busy /\ Asleep \ {t} = Asleep /\ vChecks[t] \subseteq Outstanding
  BY <1>1 DEF Busy, Asleep, Outstanding
<1>3. /\ IsFiniteSet(Busy) /\ Cardinality(Busy) \in Nat /\ Cardinality(Outstanding) \in Nat
      /\ IsFiniteSet(Outstanding) /\ IsFiniteSet(vChecks[t])
      /\ Outstanding \subseteq Checks
  BY <1>0, <1>2, CountsFinite, FS_Subset
<1>4. /\ nTotal = nIdle + Cardinality(Busy \ {t}) + 1
      /\ nIdle >= Cardinality(Asleep \ {t})
  <2>1. Cardinality(Busy \ {t}) = Cardinality(Busy) - 1
    BY <1>2, <1>3, FS_RemoveElement
  <2>2. nIdle >= Cardinality(Asleep \ {t})
    BY <1>0, <1>2 DEF PoolCounts
  <2>3. nTotal = nIdle + Cardinality(Busy) /\ nIdle \in Nat
    BY <1>0 DEF PoolCounts, TypeOK
  <2> QED  BY <1>3, <2>1, <2>2, <2>3
<1>5. TodoAfter(t) = Cardinality(Outstanding \ vChecks[t]) /\ TodoAfter(t) \in Nat
  <2>1. Cardinality(Outstanding \ vChecks[t]) = Cardinality(Outstanding) - Cardinality(vChecks[t])
    <3>1. Outstanding \cap vChecks[t] = vChecks[t]
      BY <1>2
    <3> QED  BY <1>3, <3>1, FS_Difference
  <2>2. Cardinality(Outstanding \ vChecks[t]) \in Nat
    BY <1>3, FS_Difference, FS_CardinalityType
  <2> QED  BY <1>0, <2>1, <2>2 DEF TodoAfter, TodoExact
<1>6. /\ nTotal \in Nat /\ nIdle \in Nat /\ OkAfter(t) \in BOOLEAN
  BY <1>0 DEF TypeOK, OkAfter
<1>7. /\ locs \in [Threads -> Locations] /\ locs[t] = pc[t]
      /\ \A x \in Threads : locs[x] = pc[x] \/ (pc[x] = "wait" /\ locs[x] = "woken")
  BY <1>0, <1>1 DEF TypeOK, Woken, Wakes, Locations, Threads
<1>8. pc[Master] # "out"
  <2>1. vChecks[t] # {}
    BY <1>0, <1>2 DEF BatchesApart
  <2>2. Cardinality(Outstanding) # 0
    BY <1>2, <1>3, <2>1, FS_EmptySet
  <2> QED  BY <1>0, <2>2 DEF RoundOver, TodoExact
<1>9. /\ OkAfter(t) => failing \subseteq Outstanding \ vChecks[t]
      /\ ~OkAfter(t) => failing # {}
  BY <1>0, <1>1, <1>2, <1>8 DEF FailuresKnown, OkAfter
<1> HIDE DEF locs
<1> QED  BY <1>1, <1>4, <1>5, <1>6, <1>7, <1>8, <1>9, LoopBodyKeepsIInv

\* A waiting thread has been woken and looks at the queue again.
LEMMA ResumeKeepsIInv ==
  ASSUME IInv, NEW t \in Threads, Resume(t)
  PROVE  IInv'
<1>0. TypeOK /\ BatchesApart /\ TodoExact /\ PoolCounts /\ FailuresKnown /\ RoundOver
  BY DEF IInv
<1>1. /\ pc[t] = "woken" /\ UNCHANGED <<pending, shutdown, round, failing>>
      /\ LoopBody(t, nTotal, nIdle - 1, fAllOk, nTodo, pc)
  BY DEF Resume
<1>2. Busy \ {t} = Busy /\ t \in Asleep /\ vChecks[t] = {}
  BY <1>0, <1>1 DEF Busy, Asleep, BatchesApart
<1>3. /\ IsFiniteSet(Asleep) /\ Cardinality(Asleep) \in Nat
      /\ Cardinality(Busy) \in Nat /\ Outstanding \ {} = Outstanding
      /\ IsFiniteSet(Asleep \ {t}) /\ Cardinality(Asleep \ {t}) \in Nat
  BY <1>0, CountsFinite, FS_Subset, FS_CardinalityType, Asleep \ {t} \subseteq Asleep
<1>4. Cardinality(Asleep \ {t}) = Cardinality(Asleep) - 1
  BY <1>2, <1>3, FS_RemoveElement
<1>5. /\ nTotal = (nIdle - 1) + Cardinality(Busy \ {t}) + 1
      /\ nIdle - 1 >= Cardinality(Asleep \ {t})
      /\ nTodo = Cardinality(Outstanding \ vChecks[t])
  <2>1. Cardinality(Busy \ {t}) = Cardinality(Busy)
    BY <1>2
  <2>2. Cardinality(Outstanding \ vChecks[t]) = Cardinality(Outstanding)
    BY <1>2, <1>3
  <2>3. nTotal = nIdle + Cardinality(Busy) /\ nIdle >= Cardinality(Asleep)
        /\ nTodo = Cardinality(Outstanding) /\ nIdle \in Nat /\ nTotal \in Nat
    BY <1>0 DEF TodoExact, PoolCounts, TypeOK
  <2> QED  BY <1>3, <1>4, <2>1, <2>2, <2>3
<1>6. /\ nTotal \in Nat /\ nIdle - 1 \in Nat /\ nTodo \in Nat /\ fAllOk \in BOOLEAN
      /\ pc \in [Threads -> Locations]
  BY <1>0, <1>3, <1>5 DEF TypeOK
<1>7. /\ pc[Master] = "out" => fAllOk /\ nTodo = 0
      /\ pc[Master] # "out" => /\ fAllOk => failing \subseteq Outstanding \ vChecks[t]
                               /\ ~fAllOk => failing # {}
  BY <1>0, <1>2, <1>3 DEF RoundOver, FailuresKnown
<1> QED  BY <1>1, <1>5, <1>6, <1>7, LoopBodyKeepsIInv

\* The steps that leave the counters alone.
LEMMA ExecuteKeepsIInv ==
  ASSUME IInv, NEW t \in Threads, Execute(t)
  PROVE  IInv'
<1>0. TypeOK /\ BatchesApart /\ TodoExact /\ PoolCounts /\ FailuresKnown /\ RoundOver
  BY DEF IInv
<1>1. /\ pc[t] = "exec" /\ pc' = [pc EXCEPT ![t] = "cleanup"]
      /\ fOk' = [fOk EXCEPT ![t] = fOk[t] /\ vChecks[t] \cap failing = {}]
      /\ UNCHANGED <<queue, nIdle, nTotal, fAllOk, nTodo, vChecks,
                     pending, shutdown, round, failing, verdict>>
  BY DEF Execute
<1>2. TypeOK'
  BY <1>0, <1>1 DEF TypeOK, Locations
<1>3. Busy' = Busy /\ Asleep' = Asleep /\ Outstanding' = Outstanding /\ t \in Busy
  BY <1>0, <1>1 DEF Busy, Asleep, Outstanding, TypeOK
<1>4. /\ \A x \in Threads : x # t => pc'[x] = pc[x] /\ fOk'[x] = fOk[x]
      /\ pc'[t] = "cleanup" /\ fOk'[t] = (fOk[t] /\ vChecks[t] \cap failing = {})
  BY <1>0, <1>1 DEF TypeOK
<1>5. /\ pc'[Master] # "gone" /\ (pc'[Master] = "out" <=> pc[Master] = "out")
      /\ \A w \in Workers : pc'[w] \notin {"out", "adding"}
  BY <1>1, <1>4 DEF IInv, Threads
<1>6. FailuresKnown'
  <2> SUFFICES ASSUME pc[Master] # "out" PROVE FailuresKnown'
    BY <1>5 DEF FailuresKnown
  <2>1. /\ fAllOk' => failing' \subseteq Outstanding'
        /\ ~fAllOk' => failing' # {}
    BY <1>0, <1>1, <1>3 DEF FailuresKnown
  <2>2. \A x \in Busy : ~fOk'[x] => failing # {}
    BY <1>0, <1>4, <1>3 DEF FailuresKnown, Busy
  <2>3. \A x \in Busy : pc'[x] = "cleanup" /\ fOk'[x] => vChecks[x] \cap failing = {}
    BY <1>0, <1>4 DEF FailuresKnown, Busy
  <2> QED  BY <1>1, <1>3, <2>1, <2>2, <2>3 DEF FailuresKnown
<1> QED  BY <1>0, <1>1, <1>2, <1>3, <1>5, <1>6
         DEF IInv, BatchesApart, TodoExact, PoolCounts, RoundOver

\* A wake-up without a reason, or an interruption while waiting.
LEMMA WakeKeepsIInv ==
  ASSUME IInv, NEW t \in Threads, SpuriousWakeup(t) \/ Interrupted(t)
  PROVE  IInv'
<1>0. TypeOK /\ BatchesApart /\ TodoExact /\ PoolCounts /\ FailuresKnown /\ RoundOver
  BY DEF IInv
<1> DEFINE l == pc'[t]
<1>1. /\ pc[t] \in {"wait", "woken"} /\ pc' = [pc EXCEPT ![t] = l]
      /\ l \in {"woken", "enter", "gone"} /\ (t = Master => l # "gone")
      /\ pending' \subseteq pending
      /\ UNCHANGED <<queue, nIdle, nTotal, fAllOk, nTodo, vChecks, fOk,
                     shutdown, round, failing, verdict>>
  BY <1>0 DEF SpuriousWakeup, Interrupted, TypeOK
<1> HIDE DEF l
<1>2. TypeOK'
  BY <1>0, <1>1 DEF TypeOK, Locations
<1>3. Busy' = Busy /\ Asleep' \subseteq Asleep /\ Outstanding' = Outstanding
  BY <1>0, <1>1 DEF Busy, Asleep, Outstanding, TypeOK
<1>4. \A x \in Busy : pc'[x] = pc[x]
  BY <1>0, <1>1 DEF Busy, TypeOK
<1>5. /\ pc'[Master] # "gone" /\ (pc'[Master] = "out" <=> pc[Master] = "out")
      /\ \A w \in Workers : pc'[w] \notin {"out", "adding"}
  BY <1>0, <1>1 DEF IInv, Threads, TypeOK
<1>6. PoolCounts'
  <2>1. /\ Cardinality(Asleep') <= Cardinality(Asleep)
        /\ Cardinality(Asleep') \in Nat /\ Cardinality(Asleep) \in Nat
    BY <1>0, <1>3, CountsFinite, FS_Subset, FS_CardinalityType
  <2> QED  BY <1>0, <1>1, <1>3, <2>1 DEF PoolCounts, TypeOK
<1>7. FailuresKnown'
  BY <1>0, <1>1, <1>3, <1>4, <1>5 DEF FailuresKnown
<1> QED  BY <1>0, <1>1, <1>2, <1>3, <1>5, <1>6, <1>7
         DEF IInv, BatchesApart, TodoExact, RoundOver

\* The master creates a control for a new round.
LEMMA CreateControlKeepsIInv ==
  ASSUME IInv, CreateControl
  PROVE  IInv'
<1>0. TypeOK /\ BatchesApart /\ TodoExact /\ PoolCounts /\ FailuresKnown /\ RoundOver
  BY DEF IInv
<1>1. /\ pc[Master] = "out" /\ pc' = [pc EXCEPT ![Master] = "adding"]
      /\ round' = {} /\ failing' = {}
      /\ UNCHANGED <<queue, nIdle, nTotal, fAllOk, nTodo, vChecks, fOk,
                     pending, shutdown, verdict>>
  BY DEF CreateControl
<1>2. TypeOK'
  BY <1>0, <1>1 DEF TypeOK, Locations
<1>3. Busy' = Busy /\ Asleep' = Asleep /\ Outstanding' = Outstanding
  BY <1>0, <1>1 DEF Busy, Asleep, Outstanding, TypeOK
<1>4. nTodo = 0 /\ fAllOk
  BY <1>0, <1>1 DEF RoundOver
<1>5. Outstanding = {}
  BY <1>0, <1>4, CountsFinite, FS_EmptySet DEF TodoExact
<1>6. Busy = {}
  BY <1>0, <1>5 DEF BatchesApart, Outstanding, Busy
<1>7. /\ pc'[Master] = "adding"
      /\ \A w \in Workers : pc'[w] \notin {"out", "adding"}
  BY <1>0, <1>1 DEF IInv, Threads, TypeOK
<1>8. FailuresKnown' /\ RoundOver'
  BY <1>1, <1>3, <1>4, <1>6, <1>7 DEF FailuresKnown, RoundOver
<1> QED  BY <1>0, <1>1, <1>2, <1>3, <1>5, <1>7, <1>8 DEF IInv, BatchesApart, TodoExact, PoolCounts

\* The master adds checks and wakes workers.
LEMMA AddKeepsIInv ==
  ASSUME IInv, NEW batch \in SUBSET Checks, NEW bad \in SUBSET batch, Add(batch, bad)
  PROVE  IInv'
<1>0. /\ TypeOK /\ BatchesApart /\ TodoExact /\ PoolCounts /\ FailuresKnown /\ RoundOver
      /\ Outstanding \subseteq round
  BY DEF IInv
<1>1. /\ pc[Master] = "adding" /\ batch # {} /\ batch \cap round = {}
      /\ queue' = queue \cup batch /\ nTodo' = nTodo + Cardinality(batch)
      /\ round' = round \cup batch /\ failing' = failing \cup bad
      /\ UNCHANGED <<nIdle, nTotal, fAllOk, vChecks, fOk, pending, shutdown, verdict>>
  BY DEF Add
<1>2. PICK S \in SUBSET WaitingWorkers : pc' = Woken(pc, S)
  BY DEF Add, Notified
<1>3. /\ pc' \in [Threads -> Locations]
      /\ \A x \in Threads : pc'[x] = pc[x] \/ (pc[x] = "wait" /\ pc'[x] = "woken")
  BY <1>0, <1>2 DEF Woken, WaitingWorkers, Threads, TypeOK, Locations
<1>4. IsFiniteSet(batch) /\ Cardinality(batch) \in Nat
  BY FS_Subset, FS_CardinalityType
<1>5. TypeOK'
  BY <1>0, <1>1, <1>3, <1>4 DEF TypeOK
<1>6. Busy' = Busy /\ Asleep' = Asleep /\ Outstanding' = Outstanding \cup batch
  BY <1>1, <1>3 DEF Busy, Asleep, Outstanding
<1>7. BatchesApart'
  <2>1. \A x \in Threads : vChecks[x] \cap batch = {}
    BY <1>0, <1>1 DEF Outstanding
  <2> QED  BY <1>0, <1>1, <1>6, <2>1 DEF BatchesApart
<1>8. TodoExact'
  <2>1. Outstanding \cap batch = {}
    BY <1>0, <1>1
  <2>2. Cardinality(Outstanding \cup batch) = Cardinality(Outstanding) + Cardinality(batch)
    <3>1. IsFiniteSet(Outstanding) /\ Cardinality(Outstanding) \in Nat
      BY <1>0, CountsFinite
    <3>2. Cardinality(Outstanding \cap batch) = 0
      BY <2>1, FS_EmptySet
    <3>3. Cardinality(Outstanding \cup batch) =
             Cardinality(Outstanding) + Cardinality(batch) - Cardinality(Outstanding \cap batch)
      BY <1>4, <3>1, FS_Union
    <3> QED  BY <1>4, <3>1, <3>2, <3>3
  <2> QED  BY <1>0, <1>1, <1>6, <2>2 DEF TodoExact
<1>9. /\ pc'[Master] = "adding"
      /\ \A w \in Workers : pc'[w] \notin {"out", "adding"}
  BY <1>1, <1>3 DEF IInv, Threads
<1>10. FailuresKnown'
  <2>1. \A x \in Busy : pc'[x] = pc[x]
    BY <1>3 DEF Busy
  <2>2. \A x \in Threads : vChecks[x] \cap bad = {}
    BY <1>0, <1>1 DEF Outstanding
  <2>3. Busy \subseteq Threads
    BY DEF Busy
  <2> QED  BY <1>0, <1>1, <1>6, <1>9, <2>1, <2>2, <2>3 DEF FailuresKnown
<1> QED  BY <1>0, <1>1, <1>5, <1>6, <1>7, <1>8, <1>9, <1>10 DEF IInv, PoolCounts, RoundOver

\* The master calls Wait(), or all threads are interrupted.
LEMMA MasterKeepsIInv ==
  ASSUME IInv, CallWait \/ InterruptAll
  PROVE  IInv'
<1>0. TypeOK /\ BatchesApart /\ TodoExact /\ PoolCounts /\ FailuresKnown /\ RoundOver
  BY DEF IInv
<1>1. /\ \/ pc' = pc
         \/ pc[Master] = "adding" /\ pc' = [pc EXCEPT ![Master] = "enter"]
      /\ pending' \in SUBSET Threads /\ shutdown' \in BOOLEAN
      /\ UNCHANGED <<queue, nIdle, nTotal, fAllOk, nTodo, vChecks, fOk,
                     round, failing, verdict>>
  BY <1>0 DEF CallWait, InterruptAll, TypeOK
<1>2. TypeOK'
  BY <1>0, <1>1 DEF TypeOK, Locations
<1>3. Busy' = Busy /\ Asleep' = Asleep /\ Outstanding' = Outstanding
  BY <1>0, <1>1 DEF Busy, Asleep, Outstanding, TypeOK
<1>4. \A x \in Busy : pc'[x] = pc[x]
  BY <1>0, <1>1 DEF Busy, TypeOK
<1>5. /\ pc'[Master] # "gone" /\ (pc'[Master] = "out" <=> pc[Master] = "out")
      /\ \A w \in Workers : pc'[w] \notin {"out", "adding"}
  BY <1>0, <1>1 DEF IInv, Threads, TypeOK
<1>6. FailuresKnown'
  BY <1>0, <1>1, <1>3, <1>4, <1>5 DEF FailuresKnown
<1> QED  BY <1>0, <1>1, <1>2, <1>3, <1>5, <1>6
         DEF IInv, BatchesApart, TodoExact, PoolCounts, RoundOver

-----------------------------------------------------------------------------
(* The theorems.                                                           *)

\* IInv is an invariant of the queue for all parameters.
THEOREM Invariance == Spec => []IInv
<1>1. IInv /\ [Next]_vars => IInv'
  <2> SUFFICES ASSUME IInv, [Next]_vars PROVE IInv'
    OBVIOUS
  <2>1. ASSUME NEW t \in Threads, Loop(t) \/ SpuriousWakeup(t) \/ Interrupted(t)
        PROVE  IInv'
    BY <2>1, EnterLoopKeepsIInv, ExecuteKeepsIInv, CleanUpKeepsIInv, ResumeKeepsIInv,
       WakeKeepsIInv DEF Loop
  <2>2. CASE \E batch \in SUBSET Checks : \E bad \in SUBSET batch : Add(batch, bad)
    BY <2>2, AddKeepsIInv
  <2>3. CASE UNCHANGED vars
    BY <2>3 DEF vars, IInv, TypeOK, BatchesApart, TodoExact, PoolCounts, FailuresKnown,
                RoundOver, Busy, Asleep, Outstanding
  <2> QED  BY <2>1, <2>2, <2>3, CreateControlKeepsIInv, MasterKeepsIInv DEF Next
<1> QED  BY InitIInv, <1>1, PTL DEF Spec

\* Wait() returns true exactly when all checks added to the control succeed.
THEOREM Verdicts == Spec => []VerdictCorrect
<1>1. IInv => VerdictCorrect
  BY DEF IInv, RoundOver, VerdictCorrect
<1> QED  BY Invariance, <1>1, PTL

\* The assertion of CCheckQueueControl's constructor never fails.
THEOREM Idleness == Spec => []IdleWhenCreated
<1>1. IInv => IdleWhenCreated
  <2> SUFFICES ASSUME IInv, pc[Master] = "out" PROVE IsIdle
    BY DEF IdleWhenCreated
  <2>0. TypeOK /\ BatchesApart /\ TodoExact /\ PoolCounts /\ RoundOver
    BY DEF IInv
  <2>1. nTodo = 0 /\ fAllOk
    BY <2>0 DEF RoundOver
  <2>2. Outstanding = {}
    BY <2>0, <2>1, CountsFinite, FS_EmptySet DEF TodoExact
  <2>3. Busy = {}
    BY <2>0, <2>2 DEF BatchesApart, Outstanding, Busy
  <2>4. nTotal = nIdle
    BY <2>0, <2>3, FS_EmptySet DEF PoolCounts, TypeOK
  <2> QED  BY <2>1, <2>4 DEF IsIdle
<1> QED  BY Invariance, <1>1, PTL

\* Every variable keeps its type, so the unsigned counters do not wrap, and nTodo is
\* exactly the number of checks that are queued or in a thread's hands.
THEOREM CountersCorrect == Spec => []CountersExact
<1>1. IInv => CountersExact
  BY DEF IInv, CountersExact
<1> QED  BY Invariance, <1>1, PTL

=============================================================================
