----------------------------- MODULE CoinsCache -----------------------------
(***************************************************************************)
(* The stack of coin views while the node runs: the coin database          *)
(* (pcoinsdbview), the cache on top of it (pcoinsTip), and the short-lived *)
(* cache ConnectTip, DisconnectTip and TestBlockValidity put on top of     *)
(* that while they apply one block.  All uses hold cs_main.                *)
(***************************************************************************)
EXTENDS CoinsLayer

CONSTANTS Hashes,      \* the hashes of blocks
          NullHash

ASSUME HashAssumption == NullHash \notin Hashes

VARIABLES
    db,        \* the coins in the database
    tip,       \* pcoinsTip->cacheCoins
    view,      \* cacheCoins of the view a block is applied to
    dbBest,    \* DB_BEST_BLOCK
    tipBest,   \* pcoinsTip->hashBlock
    viewBest,  \* hashBlock of that view
    open       \* there is such a view

coinsVars == <<db, tip, view, dbBest, tipBest, viewBest, open>>

TipSeen  == Seen(tip, db)
ViewSeen == Seen(view, TipSeen)

\* GetBestBlock, asking the view below if hashBlock is null.
TipBest  == IF tipBest = NullHash THEN dbBest ELSE tipBest
ViewBest == IF viewBest = NullHash THEN TipBest ELSE viewBest

-----------------------------------------------------------------------------

\* CCoinsViewCache view(pcoinsTip); ConnectBlock and DisconnectBlock first call
\* view.GetBestBlock(), which fills in both hashes.
OpenView ==
    /\ ~open /\ open' = TRUE
    /\ view' = EmptyCache
    /\ viewBest' = TipBest /\ tipBest' = TipBest
    /\ UNCHANGED <<db, tip, dbBest>>

\* GetCoins, AccessCoins, HaveCoins on the view, and on pcoinsTip by the
\* memory pool.
ReadTip(t) ==
    /\ tip' = Fetched(tip, db, InDb(db), t)
    /\ UNCHANGED <<db, view, dbBest, tipBest, viewBest, open>>

ReadView(t) ==
    /\ open
    /\ tip' = IF t \in DOMAIN view THEN tip ELSE Fetched(tip, db, InDb(db), t)
    /\ view' = Fetched(view, TipSeen, Found(tip, InDb(db)), t)
    /\ UNCHANGED <<db, dbBest, tipBest, viewBest, open>>

\* Spending an output (UpdateCoins), creating a coinbase's outputs, and undoing
\* either (ApplyTxInUndo, DisconnectBlock).
ModifyCoins(t, c) ==
    /\ open
    /\ tip' = IF t \in DOMAIN view THEN tip ELSE Fetched(tip, db, InDb(db), t)
    /\ view' = Modified(view, TipSeen, t, c)
    /\ UNCHANGED <<db, dbBest, tipBest, viewBest, open>>

\* The guard of ModifyNewCoins: the transaction is new to the chain, which
\* ConnectBlock makes sure of (BIP30).  Mutant: only the block is looked at.
NewToView(t) == ViewSeen[t] = {}
NewToChain(t) == TipSeen[t] = {}

\* Creating the outputs of a transaction that is not a coinbase.
ModifyNewCoins(t, c) ==
    /\ open
    /\ NewToChain(t)
    /\ view' = ModifiedNew(view, t, c)
    /\ UNCHANGED <<db, tip, dbBest, tipBest, viewBest, open>>

SetBestBlock(h) ==
    /\ open
    /\ viewBest' = h
    /\ UNCHANGED <<db, tip, view, dbBest, tipBest, open>>

\* view.Flush(), after which the view is destroyed.
FlushView ==
    /\ open /\ open' = FALSE
    /\ tip' = Written(tip, view)
    /\ tipBest' = viewBest
    /\ view' = EmptyCache /\ viewBest' = NullHash
    /\ UNCHANGED <<db, dbBest>>

\* The view is destroyed without a flush: the block was invalid, or it was only
\* tested.
DropView ==
    /\ open /\ open' = FALSE
    /\ view' = EmptyCache /\ viewBest' = NullHash
    /\ UNCHANGED <<db, tip, dbBest, tipBest>>

\* Mutant of FlushTip: a null hashBlock is written as the best block.
FlushTipNull ==
    /\ ~open
    /\ db' = Committed(db, tip)
    /\ dbBest' = tipBest
    /\ tip' = EmptyCache
    /\ UNCHANGED <<view, tipBest, viewBest, open>>

\* pcoinsTip->Flush(), when the write succeeds; a null hashBlock is not written.
FlushTip ==
    /\ ~open
    /\ db' = Committed(db, tip)
    /\ dbBest' = TipBest
    /\ tip' = EmptyCache
    /\ UNCHANGED <<view, tipBest, viewBest, open>>

\* pcoinsTip->Uncache, by the memory pool.
Uncache(t) ==
    /\ ~open
    /\ tip' = Uncached(tip, t)
    /\ UNCHANGED <<db, view, dbBest, tipBest, viewBest, open>>

\* The process ends at any point and starts again on what the database holds.
Restart ==
    /\ open' = FALSE
    /\ tip' = EmptyCache /\ view' = EmptyCache
    /\ tipBest' = NullHash /\ viewBest' = NullHash
    /\ UNCHANGED <<db, dbBest>>

CoinsInit ==
    /\ db \in [Txids -> Coins]
    /\ dbBest \in Hashes
    /\ tip = EmptyCache /\ view = EmptyCache
    /\ tipBest = NullHash /\ viewBest = NullHash
    /\ open = FALSE

CoinsNext ==
    \/ OpenView \/ FlushView \/ DropView \/ FlushTip \/ Restart
    \/ \E t \in Txids : ReadTip(t) \/ ReadView(t) \/ Uncache(t)
    \/ \E t \in Txids, c \in Coins : ModifyCoins(t, c) \/ ModifyNewCoins(t, c)
    \/ \E h \in Hashes : SetBestBlock(h)

CoinsSpec == CoinsInit /\ [][CoinsNext]_coinsVars

-----------------------------------------------------------------------------
(* Properties.                                                             *)

\* Every variable of the stack of views has its type.
CoinsTypeOK ==
    /\ db \in [Txids -> Coins]
    /\ tip \in Caches /\ view \in Caches
    /\ dbBest \in Hashes
    /\ tipBest \in Hashes \cup {NullHash} /\ viewBest \in Hashes \cup {NullHash}
    /\ open \in BOOLEAN

\* FRESH and DIRTY tell the truth in both caches: no spent output is kept out of
\* the database by a wrong FRESH, and nothing that differs from the view below
\* may be dropped without being written.
FlagsTruthful == FlagsTrue(tip, db) /\ FlagsTrue(view, TipSeen)

\* The caches behave as plain copies of the set of unspent outputs: what a
\* reader sees through them is what was last written, and a flush moves exactly
\* that, with the block it belongs to, into the view below.
WorkBest == IF open THEN ViewBest ELSE TipBest

Abstract == INSTANCE CoinsMap
                WITH disk <- db, mem <- TipSeen, work <- ViewSeen,
                     diskBest <- dbBest, memBest <- TipBest, workBest <- WorkBest,
                     active <- open

BehavesAsMap == Abstract!Spec

=============================================================================
