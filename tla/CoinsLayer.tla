----------------------------- MODULE CoinsLayer -----------------------------
(***************************************************************************)
(* The operations of one CCoinsViewCache (src/coins.cpp) and of the coin   *)
(* database below it (src/txdb.cpp), as functions of their contents.       *)
(*                                                                         *)
(* What the code stores for a transaction, CCoins, is reduced to the set   *)
(* of its outputs that are unspent; a CCoins without any is "pruned".      *)
(* cacheCoins is a function whose domain is the set of cached txids.  A    *)
(* view below is given by a total function from txids to unspent outputs   *)
(* and by the set of txids it has an entry for: a cache may have an entry  *)
(* for a pruned CCoins, the database has none.                             *)
(***************************************************************************)


CONSTANTS Txids, Outs

Coins == SUBSET Outs
Flags == {"DIRTY", "FRESH"}
CacheEntry == [coins : Coins, flags : SUBSET Flags]
Caches == UNION {[D -> CacheEntry] : D \in SUBSET Txids}

EmptyCache == [t \in {} |-> [coins |-> {}, flags |-> {}]]

With(cache, t, entry) ==
    [x \in DOMAIN cache \cup {t} |-> IF x = t THEN entry ELSE cache[x]]
Without(cache, t) == [x \in DOMAIN cache \ {t} |-> cache[x]]

\* What a reader of the cache on top of base sees.
Seen(cache, base) ==
    [t \in Txids |-> IF t \in DOMAIN cache THEN cache[t].coins ELSE base[t]]

\* The txids GetCoins finds an entry for: in the database and through a cache.
InDb(db) == {t \in Txids : db[t] # {}}
Found(cache, has) == DOMAIN cache \cup has

\* FetchCoins: what the base has is copied into the cache.
Fetched(cache, base, has, t) ==
    IF t \in DOMAIN cache \/ t \notin has THEN cache
    ELSE With(cache, t, [coins |-> base[t],
                         flags |-> IF base[t] = {} THEN {"FRESH"} ELSE {}])

\* The end of a modification: ~CCoinsModifier drops what nobody below knows of.
Closed(cache, t, entry) ==
    IF "FRESH" \in entry.flags /\ entry.coins = {} THEN Without(cache, t)
                                                   ELSE With(cache, t, entry)

\* The flags ModifyCoins gives the entry for t.
ModifiedFlags(cache, base, t) ==
    {"DIRTY"} \cup (IF t \in DOMAIN cache THEN cache[t].flags
                    ELSE IF base[t] = {} THEN {"FRESH"} ELSE {})

\* ModifyCoins, with c the coins when the modifier is destroyed.
Modified(cache, base, t, c) ==
    Closed(cache, t, [coins |-> c, flags |-> ModifiedFlags(cache, base, t)])

\* ModifyNewCoins.
ModifiedNew(cache, t, c) == Closed(cache, t, [coins |-> c, flags |-> {"DIRTY", "FRESH"}])

Dirty(cache) == {t \in DOMAIN cache : "DIRTY" \in cache[t].flags}

\* Mutant of Erased: entries the database still has are dropped as well.
ErasedAll(parent, child) ==
    {t \in Dirty(child) \cap DOMAIN parent : child[t].coins = {}}

\* CCoinsViewCache::BatchWrite: the dirty entries of child move into parent.
Created(parent, child) ==
    {t \in Dirty(child) \ DOMAIN parent :
        ~("FRESH" \in child[t].flags /\ child[t].coins = {})}
Erased(parent, child) ==
    {t \in Dirty(child) \cap DOMAIN parent :
        "FRESH" \in parent[t].flags /\ child[t].coins = {}}

Written(parent, child) ==
    [t \in (DOMAIN parent \cup Created(parent, child)) \ Erased(parent, child) |->
        IF t \in Created(parent, child)
        THEN [coins |-> child[t].coins,
              flags |-> {"DIRTY"} \cup (child[t].flags \cap {"FRESH"})]
        ELSE IF t \in Dirty(child)
        THEN [coins |-> child[t].coins, flags |-> parent[t].flags \cup {"DIRTY"}]
        ELSE parent[t]]

\* CCoinsViewDB::BatchWrite: one atomic batch; pruned coins are erased.
Committed(db, cache) ==
    [t \in Txids |-> IF t \in Dirty(cache) THEN cache[t].coins ELSE db[t]]

\* Uncache: an unmodified entry is dropped.
Uncached(cache, t) ==
    IF t \in DOMAIN cache /\ cache[t].flags = {} THEN Without(cache, t) ELSE cache

-----------------------------------------------------------------------------
(* When the flags of a cache on top of base tell the truth: a FRESH entry  *)
(* is one the base holds no unspent output for, and an entry that is not   *)
(* DIRTY equals what the base holds.                                       *)
FlagsTrue(cache, base) ==
    \A t \in DOMAIN cache :
        /\ "FRESH" \in cache[t].flags => base[t] = {}
        /\ "DIRTY" \notin cache[t].flags => cache[t].coins = base[t]

=============================================================================
