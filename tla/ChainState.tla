----------------------------- MODULE ChainState -----------------------------
(***************************************************************************)
(* The chain state on disk: how ConnectTip and DisconnectTip change the    *)
(* set of unspent outputs block by block, how FlushStateToDisk writes      *)
(* block files, block index and coin database in this order, and what is   *)
(* left of them after a write error, a shutdown or a power failure         *)
(* (src/main.cpp, src/txdb.cpp, src/init.cpp).                             *)
(*                                                                         *)
(* All of it happens under cs_main: only a crash can come between two      *)
(* steps.  The blocks form a fixed tree and carry transactions; which      *)
(* branch is connected when is left open (see BlockTree).  An unspent      *)
(* output is kept with the height its transaction was included at, which   *)
(* stands for all the metadata of CCoins.                                  *)
(***************************************************************************)
EXTENDS Integers, Sequences, SequencesExt

CONSTANTS
    Blocks, Genesis, Parent, Anc, Height,
    BlockTxs,     \* the txids of a block, the coinbase first
    Ins,          \* the inputs of a transaction: a sequence of <<txid, n>>
    OutIdx,       \* the numbers of the spendable outputs of a transaction
    Transient,    \* whether a write may succeed after one has failed
    Budgets       \* bounds: the blocks that exist, how often a crash and a write error
                  \* happen, and the last block file, in each of the cases considered

Txids == DOMAIN OutIdx
Outs == (UNION {OutIdx[t] : t \in Txids}) \X {Height[b] : b \in Blocks}

INSTANCE CoinsLayer

ASSUME ChainAssumption ==
    /\ Genesis \in Blocks /\ Height \in [Blocks -> Nat]
    /\ BlockTxs \in [Blocks -> Seq(Txids)] /\ Ins \in [Txids -> Seq(Txids \X Nat)]
    /\ Anc[Genesis] = {Genesis} /\ Height[Genesis] = 0 /\ BlockTxs[Genesis] = <<>>
    /\ \A b \in Blocks \ {Genesis} :
          /\ Parent[b] \in Blocks
          /\ Anc[b] = {b} \cup Anc[Parent[b]]
          /\ Height[b] = Height[Parent[b]] + 1
          \* CheckBlock: the first transaction, and no other, is a coinbase
          /\ BlockTxs[b] # <<>>
          /\ \A i \in DOMAIN BlockTxs[b] : Ins[BlockTxs[b][i]] = <<>> <=> i = 1
    \* CheckTransaction: no input is there twice
    /\ \A t \in Txids : \A i, j \in DOMAIN Ins[t] : Ins[t][i] = Ins[t][j] => i = j
    /\ Transient \in BOOLEAN
    /\ Budgets \subseteq [blocks : SUBSET Blocks, crashes : Nat, errors : Nat, files : Nat]

VARIABLES
    active,      \* chainActive.Tip()
    tip,         \* pcoinsTip->cacheCoins
    tipBest,     \* pcoinsTip->hashBlock
    coindb,      \* the coin database: coins and best block
    oldDbs,      \* the states of it that a power failure may bring back
    stored,      \* the blocks with BLOCK_HAVE_DATA
    written,     \* the blocks whose data is in a blk file
    undone,      \* the blocks with BLOCK_HAVE_UNDO
    file,        \* nFile of each stored block
    lastFile,    \* nLastBlockFile
    undo,        \* what the rev files hold for a block, NoUndo if nothing
    dirty,       \* setDirtyBlockIndex
    index,       \* the block index database
    synced,      \* the blocks whose data, and whose undo data, was committed
    pc, full,    \* how far FlushStateToDisk is, and fDoFullFlush
    closing,     \* Shutdown() is running
    broken,      \* a write has failed
    budget       \* the case, and what is left of crashes and errors

coinVars  == <<tip, tipBest, coindb, oldDbs>>
blockVars == <<stored, written, undone, file, lastFile, undo>>
diskVars  == <<dirty, index, synced>>
flowVars  == <<pc, full, closing>>
faultVars == <<broken, budget>>
vars == <<active, coinVars, blockVars, diskVars, flowVars, faultVars>>

\* "idle": cs_main is free.  "decide": a block was connected or disconnected,
\* FlushStateToDisk begins.  "files", "index", "coins": it is about to commit the
\* block files, write the index, write the coins.  "aborted": it has failed, and
\* since pcoinsTip and chainActive differ only Shutdown can follow (ConnectBlock
\* would fail an assertion, which is a crash).  "down": the process has ended.
Locations == {"idle", "decide", "files", "index", "coins", "aborted", "down"}

NoUndo == <<>>
TipSeen == Seen(tip, coindb.coins)

Init ==
    /\ active = Genesis
    /\ tip = EmptyCache /\ tipBest = Genesis
    /\ coindb = [coins |-> [t \in Txids |-> {}], best |-> Genesis]
    /\ oldDbs = {coindb}
    /\ stored = {Genesis} /\ written = {Genesis} /\ undone = {}
    /\ file = [b \in Blocks |-> 0] /\ lastFile = 0
    /\ undo = [b \in Blocks |-> NoUndo]
    /\ dirty = {}
    /\ index = [data |-> {Genesis}, undo |-> {}, last |-> 0, file |-> file]
    /\ synced = [data |-> {Genesis}, undo |-> {}]
    /\ pc = "idle" /\ full = FALSE /\ closing = FALSE
    /\ broken = FALSE /\ budget \in Budgets

-----------------------------------------------------------------------------
(* ConnectBlock on a view over pcoinsTip.  work holds the view, pcoinsTip  *)
(* (which reads fill), the undo data of the block so far, and whether no   *)
(* rule was broken.                                                        *)

Below(work) == Seen(work.tip, coindb.coins)
CoinsOf(work, t) == Seen(work.view, Below(work))[t]

\* AccessCoins and the read in ModifyCoins: the caches passed on the way keep it.
Looked(work, t) ==
    IF t \in DOMAIN work.view THEN work.tip
    ELSE Fetched(work.tip, coindb.coins, InDb(coindb.coins), t)
AccessCoins(work, t) ==
    [work EXCEPT !.tip = Looked(work, t),
                 !.view = Fetched(@, Below(work), Found(work.tip, InDb(coindb.coins)), t)]
ModifyCoins(work, t, coins) ==
    [work EXCEPT !.tip = Looked(work, t), !.view = Modified(@, Below(work), t, coins)]

\* The check of BIP30: t must not overwrite unspent outputs.
CheckOverwrite(work, t) ==
    IF ~work.ok THEN work ELSE [AccessCoins(work, t) EXCEPT !.ok = CoinsOf(work, t) = {}]

\* HaveInputs, for one input.
HaveInput(work, in) ==
    IF ~work.ok THEN work
    ELSE [AccessCoins(work, in[1]) EXCEPT
            !.ok = \E o \in CoinsOf(work, in[1]) : o[1] = in[2]]

\* What CTxInUndo keeps of the transaction of a spent output: its height, if no
\* output is left.
UndoHeight(left, h) == IF left = {} THEN h ELSE 0

\* UpdateCoins for one input.
Spend(work, in) ==
    LET here == CoinsOf(work, in[1])
        coin == CHOOSE o \in here : o[1] = in[2]
        left == here \ {coin}
    IN  [ModifyCoins(work, in[1], left) EXCEPT
            !.undo = Append(@, <<in[2], UndoHeight(left, coin[2])>>)]

\* UpdateCoins for the outputs: only a coinbase may meet coins of the same txid.
Create(work, t, coins) ==
    IF Ins[t] = <<>> THEN ModifyCoins(work, t, coins)
                     ELSE [work EXCEPT !.view = ModifiedNew(@, t, coins)]

UpdateCoins(work, t, h) ==
    LET checked == FoldLeft(HaveInput, work, Ins[t])
    IN  IF ~checked.ok THEN checked
        ELSE Create(FoldLeft(Spend, checked, Ins[t]), t, OutIdx[t] \X {h})

ConnectBlock(b) ==
    FoldLeft(LAMBDA work, t : UpdateCoins(work, t, Height[b]),
             FoldLeft(CheckOverwrite,
                      [view |-> EmptyCache, tip |-> tip, undo |-> <<>>, ok |-> TRUE],
                      BlockTxs[b]),
             BlockTxs[b])

-----------------------------------------------------------------------------
(* DisconnectBlock.  ok says whether the coins were what the block left.   *)

\* ApplyTxInUndo with the last undo entry, for the input in.
ApplyTxInUndo(work, in) ==
    LET here == CoinsOf(work, in[1])
        u    == Last(work.undo)
        kept == IF u[2] # 0 THEN {} ELSE here
        h    == IF u[2] # 0 THEN u[2] ELSE (CHOOSE o \in here : TRUE)[2]
    IN  IF ~work.ok \/ (u[2] # 0) # (here = {}) \/ \E o \in here : o[1] = in[2]
        THEN [work EXCEPT !.ok = FALSE]
        ELSE [ModifyCoins(work, in[1], kept \cup {<<u[1], h>>}) EXCEPT !.undo = Front(@)]

\* One transaction: its outputs are removed, its inputs restored backwards.
UndoTx(work, t, h) ==
    FoldLeft(ApplyTxInUndo,
             [ModifyCoins(work, t, {}) EXCEPT !.ok = @ /\ CoinsOf(work, t) = OutIdx[t] \X {h}],
             Reverse(Ins[t]))

DisconnectBlock(b) ==
    FoldLeft(LAMBDA work, t : UndoTx(work, t, Height[b]),
             [view |-> EmptyCache, tip |-> tip, undo |-> undo[b][1], ok |-> TRUE],
             Reverse(BlockTxs[b]))

-----------------------------------------------------------------------------
(* Blocks are stored, connected and disconnected.                          *)

\* FlushBlockFile commits the blk and rev file of nLastBlockFile, and nothing else.
\* Mutants: the blk file only, the rev file only.
FlushBlkFile(n) == [synced EXCEPT !.data = @ \cup {b \in written : file[b] = n}]
FlushRevFile(n) ==
    [synced EXCEPT !.undo = @ \cup {b \in stored : file[b] = n /\ undo[b] # NoUndo}]
FlushBlockFile(n) ==
    [data |-> synced.data \cup {b \in written : file[b] = n},
     undo |-> synced.undo \cup {b \in stored : file[b] = n /\ undo[b] # NoUndo}]

\* A write works, or it fails, which calls AbortNode: Shutdown is asked for, and
\* comes some time later.
WriteWorks == ~broken \/ Transient
WriteFails ==
    /\ IF broken /\ ~Transient THEN UNCHANGED budget
       ELSE budget.errors > 0 /\ budget' = [budget EXCEPT !.errors = @ - 1]
    /\ broken' = TRUE

\* AcceptBlock, for a block whose parent is stored.  FindBlockPos may go on to the
\* next file; when WriteBlockToDisk fails the block is marked as stored all the same.
AcceptBlock(b) ==
    /\ pc = "idle"
    /\ b \in budget.blocks \ stored /\ Parent[b] \in stored
    /\ \E n \in {lastFile, lastFile + 1} :
          /\ n <= budget.files
          /\ file' = [file EXCEPT ![b] = n]
          /\ lastFile' = n
          /\ synced' = IF n = lastFile THEN synced ELSE FlushBlockFile(lastFile)
    /\ \/ WriteWorks /\ written' = written \cup {b} /\ UNCHANGED faultVars
       \/ WriteFails /\ UNCHANGED written
    /\ stored' = stored \cup {b}
    /\ dirty' = dirty \cup {b}
    /\ UNCHANGED <<active, coinVars, undone, undo, index, flowVars>>

\* ConnectTip up to FlushStateToDisk.  The undo data is written unless the index
\* says that it is there.
ConnectTip(b) ==
    /\ pc = "idle"
    /\ b \in written /\ Parent[b] = active
    /\ LET work == ConnectBlock(b)
       IN  /\ work.ok
           /\ tip' = Written(work.tip, work.view)
           /\ IF b \in undone THEN UNCHANGED <<undo, undone, dirty>>
              ELSE /\ WriteWorks
                   /\ undo' = [undo EXCEPT ![b] = <<work.undo>>]
                   /\ undone' = undone \cup {b}
                   /\ dirty' = dirty \cup {b}
    /\ tipBest' = b
    /\ pc' = "decide"
    /\ UNCHANGED <<active, coindb, oldDbs, stored, written, file, lastFile, index, synced,
                   full, closing, faultVars>>

\* The block breaks a rule: the view is dropped, pcoinsTip keeps what was read.
ConnectTipInvalid(b) ==
    /\ pc = "idle"
    /\ b \in written /\ Parent[b] = active
    /\ LET work == ConnectBlock(b) IN ~work.ok /\ tip' = work.tip
    /\ UNCHANGED <<active, tipBest, coindb, oldDbs, blockVars, diskVars, flowVars, faultVars>>

\* UndoWriteToDisk fails.
ConnectTipAborts(b) ==
    /\ pc = "idle"
    /\ b \in written \ undone /\ Parent[b] = active
    /\ LET work == ConnectBlock(b) IN work.ok /\ tip' = work.tip
    /\ WriteFails
    /\ UNCHANGED <<active, tipBest, coindb, oldDbs, blockVars, diskVars, flowVars>>

\* DisconnectTip up to FlushStateToDisk; it changes nothing when the undo data
\* cannot be read.
DisconnectTip ==
    /\ pc = "idle"
    /\ active \in (written \cap undone) \ {Genesis}
    /\ undo[active] # NoUndo
    /\ LET work == DisconnectBlock(active)
       IN  work.ok /\ tip' = Written(work.tip, work.view)
    /\ tipBest' = Parent[active]
    /\ pc' = "decide"
    /\ UNCHANGED <<active, coindb, oldDbs, blockVars, diskVars, full, closing, faultVars>>

-----------------------------------------------------------------------------
(* FlushStateToDisk, in stages a power failure can come between.           *)

\* What follows the flush: UpdateTip, or the end of Shutdown.
Finish ==
    /\ active' = tipBest
    /\ pc' = IF closing THEN "down" ELSE "idle"
    /\ UNCHANGED <<full, closing>>
Fail ==
    /\ WriteFails
    /\ pc' = IF closing THEN "down" ELSE "aborted"
    /\ UNCHANGED <<active, full, closing>>

\* FLUSH_STATE_IF_NEEDED after a block: the cache is within its limit, or it is not.
SkipFlush ==
    /\ pc = "decide" /\ Finish
    /\ UNCHANGED <<coinVars, blockVars, diskVars, faultVars>>
CacheCritical ==
    /\ pc = "decide"
    /\ pc' = "files" /\ full' = TRUE
    /\ UNCHANGED <<active, coinVars, blockVars, diskVars, closing, faultVars>>

\* FLUSH_STATE_PERIODIC: the index only, or the coins as well.
FlushPeriodic ==
    /\ pc = "idle"
    /\ pc' = "files" /\ full' \in BOOLEAN
    /\ UNCHANGED <<active, coinVars, blockVars, diskVars, closing, faultVars>>

\* Shutdown(), asked for or after AbortNode: FLUSH_STATE_ALWAYS.
Shutdown ==
    /\ pc \in {"idle", "aborted"}
    /\ pc' = "files" /\ full' = TRUE /\ closing' = TRUE
    /\ UNCHANGED <<active, coinVars, blockVars, diskVars, faultVars>>

\* CheckDiskSpace says no, before the files or before the coins are written: nothing is,
\* and nothing is lost.  The node is told to stop; if pcoinsTip is where chainActive is,
\* it can go on until it does.
OutOfDiskSpace ==
    /\ pc \in {"files", "coins"}
    /\ budget.errors > 0 /\ budget' = [budget EXCEPT !.errors = @ - 1]
    /\ pc' = IF closing THEN "down" ELSE IF active = tipBest THEN "idle" ELSE "aborted"
    /\ UNCHANGED <<active, coinVars, blockVars, diskVars, full, closing, broken>>

\* FlushBlockFile.  Mutant: a full flush goes on to the coins, before the index.
FlushFilesToCoins ==
    /\ pc = "files"
    /\ synced' = FlushBlockFile(lastFile)
    /\ pc' = IF full THEN "coins" ELSE "index"
    /\ UNCHANGED <<active, coinVars, blockVars, dirty, index, full, closing, faultVars>>

FlushFiles ==
    /\ pc = "files"
    /\ synced' = FlushBlockFile(lastFile)
    /\ pc' = "index"
    /\ UNCHANGED <<active, coinVars, blockVars, dirty, index, full, closing, faultVars>>

\* Blocks::DB::WriteBatchSync.  The dirty set is emptied before the write.
\* Mutant: blocks with new undo data only.
UndoBatch ==
    [index EXCEPT !.undo = @ \cup (dirty \cap undone), !.last = lastFile,
                  !.file = [b \in Blocks |-> IF b \in dirty THEN file[b] ELSE @[b]]]
IndexBatch ==
    [data |-> index.data \cup (dirty \cap stored),
     undo |-> index.undo \cup (dirty \cap undone),
     last |-> lastFile,
     file |-> [b \in Blocks |-> IF b \in dirty THEN file[b] ELSE index.file[b]]]

FlushIndex ==
    /\ pc = "index"
    /\ dirty' = {}
    /\ \/ /\ WriteWorks
          /\ index' = IndexBatch
          /\ IF full THEN pc' = "coins" /\ UNCHANGED <<active, full, closing>> ELSE Finish
          /\ UNCHANGED faultVars
       \/ Fail /\ UNCHANGED index
    /\ UNCHANGED <<coinVars, blockVars, synced>>

\* pcoinsTip->Flush: one batch with the coins and the best block.  The batch is
\* built by emptying the cache; it is not synced.
\* Mutant: the best block is taken from chainActive.
BatchAtActive == [coins |-> Committed(coindb.coins, tip), best |-> active]
CoinBatch == [coins |-> Committed(coindb.coins, tip), best |-> tipBest]

FlushCoins ==
    /\ pc = "coins"
    /\ tip' = EmptyCache
    /\ \/ /\ WriteWorks
          /\ coindb' = CoinBatch
          /\ oldDbs' = oldDbs \cup {CoinBatch}
          /\ Finish
          /\ UNCHANGED faultVars
       \/ Fail /\ UNCHANGED <<coindb, oldDbs>>
    /\ UNCHANGED <<tipBest, blockVars, diskVars>>

-----------------------------------------------------------------------------
(* The next start of the process.                                          *)

\* LoadBlockIndexDB: memory is rebuilt from the databases, with the coin database
\* d and the undo data u.
LoadBlockIndexDB(d, u) ==
    /\ d.best \in index.data
    /\ active' = d.best
    /\ tip' = EmptyCache /\ tipBest' = d.best
    /\ coindb' = d /\ oldDbs' = {d}
    /\ stored' = index.data /\ undone' = index.undo
    /\ file' = index.file /\ lastFile' = index.last
    /\ undo' = [b \in Blocks |-> IF b \in index.undo THEN u[b] ELSE NoUndo]
    /\ dirty' = {}
    /\ pc' = "idle" /\ full' = FALSE /\ closing' = FALSE /\ broken' = FALSE
    /\ UNCHANGED index

\* After Shutdown.
Restart ==
    /\ pc = "down"
    /\ LoadBlockIndexDB(coindb, undo)
    /\ written' = written \cap index.data
    /\ synced' = [data |-> synced.data \cap index.data, undo |-> synced.undo \cap index.undo]
    /\ UNCHANGED budget

\* After a power failure: file contents and coin batches that were not synced may
\* be lost.
Crash ==
    /\ budget.crashes > 0 /\ budget' = [budget EXCEPT !.crashes = @ - 1]
    /\ \E d \in oldDbs,
         data \in SUBSET ((written \cap index.data) \ synced.data),
         rev \in SUBSET (index.undo \ synced.undo) :
          /\ LoadBlockIndexDB(d, [b \in Blocks |-> IF b \in rev THEN NoUndo ELSE undo[b]])
          /\ written' = (written \cap index.data) \ data
          /\ synced' = [data |-> written', undo |-> index.undo \ rev]

Next ==
    \/ \E b \in Blocks \ {Genesis} :
          AcceptBlock(b) \/ ConnectTip(b) \/ ConnectTipInvalid(b) \/ ConnectTipAborts(b)
    \/ DisconnectTip
    \/ SkipFlush \/ CacheCritical \/ FlushPeriodic \/ Shutdown
    \/ OutOfDiskSpace \/ FlushFiles \/ FlushIndex \/ FlushCoins
    \/ Crash \/ Restart

Spec == Init /\ [][Next]_vars

-----------------------------------------------------------------------------
(* Properties.                                                             *)

\* The unspent outputs after the chain that ends in b: what a transaction created
\* last, unless a block from then on spends it.
Utxo ==
    [b \in Blocks |->
        LET Txs(x)  == Range(BlockTxs[x])
            By(t)   == {x \in Anc[b] : t \in Txs(x)}
            From(t) == CHOOSE x \in By(t) : \A y \in By(t) : Height[y] <= Height[x]
            Spent(t) == {n \in OutIdx[t] : \E x \in Anc[b] :
                            /\ Height[x] >= Height[From(t)]
                            /\ \E u \in Txs(x) : <<t, n>> \in Range(Ins[u])}
        IN  [t \in Txids |-> IF By(t) = {} THEN {}
                             ELSE (OutIdx[t] \ Spent(t)) \X {Height[From(t)]}]]

CoinDb == [coins : [Txids -> Coins], best : Blocks]
Durable == [data : SUBSET Blocks, undo : SUBSET Blocks]

\* Every variable has its type, and only indexed flags are in use.
TypeOK ==
    /\ active \in Blocks /\ tipBest \in Blocks
    /\ DOMAIN tip \subseteq Txids /\ \A t \in DOMAIN tip : tip[t] \in CacheEntry
    /\ coindb \in CoinDb /\ oldDbs \subseteq CoinDb /\ coindb \in oldDbs
    /\ stored \subseteq Blocks /\ written \subseteq stored /\ undone \subseteq stored
    /\ file \in [Blocks -> 0..budget.files] /\ lastFile \in 0..budget.files
    /\ DOMAIN undo = Blocks
    /\ dirty \subseteq Blocks
    /\ index.data \subseteq Blocks /\ index.undo \subseteq index.data
    /\ synced \in Durable
    /\ pc \in Locations /\ full \in BOOLEAN /\ closing \in BOOLEAN /\ broken \in BOOLEAN
    /\ budget.crashes \in Nat /\ budget.errors \in Nat

\* Whenever cs_main is free, what pcoinsTip shows is exactly the unspent outputs of
\* the chain that ends in chainActive.Tip(), after any sequence of blocks connected
\* and disconnected, rejected blocks, flushes, crashes and restarts.
CoinsExact ==
    pc = "idle" => tipBest = active /\ TipSeen = Utxo[active]

\* Every state of the coin database that a failure can leave is the unspent
\* outputs of the chain that ends in its best block ("Retrieve the block hash
\* whose state this CCoinsView currently represents").
DiskCoinsExact == \A d \in oldDbs : d.coins = Utxo[d.best]

\* The coin database never refers to a block that the block index database does
\* not know: FlushStateToDisk writes the index first.
Recoverable == \A d \in oldDbs : Anc[d.best] \subseteq index.data

\* The block index database marks a block BLOCK_HAVE_DATA only when its data is in
\* a blk file that was committed.
IndexedDataDurable == index.data \subseteq synced.data

\* What a failure leaves on disk is consistent in itself: coins with their block, marks
\* in the index with data in the files.  (With the types of all variables.)
DiskConsistent == TypeOK /\ DiskCoinsExact /\ IndexedDataDurable

\* The block index database marks a block BLOCK_HAVE_UNDO only when its undo data
\* is in a rev file that was committed.
IndexedUndoDurable == index.undo \subseteq synced.undo

\* The active chain can be disconnected, also after a crash: DisconnectBlock finds
\* the blocks and their undo data and the coins it expects for the tip.  (Said of a
\* node with one block file: undo data for a block in an older file is not committed,
\* see IndexedUndoDurable.)
Reversible ==
    pc = "idle" /\ lastFile = 0 =>
        /\ \A b \in Anc[active] \ {Genesis} : b \in written \cap undone /\ undo[b] # NoUndo
        /\ active # Genesis => DisconnectBlock(active).ok

=============================================================================
