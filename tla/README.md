# Bitcoin Classic in TLA+

This directory specifies the parts of Bitcoin Classic that decide which blocks
and transactions the node holds, keeps and follows.  Each module is written from
the C++ code in `src/src/`; `PROJECT.json` (`map`) names the lines every
definition stands for.  TLC checks the modules on small instances, and TLAPS
proves the central properties of eight of them for all instances.

1. [The system](#1-the-system): components, state, operations, interactions, what is hard
2. [The modules](#2-the-modules) and how they correspond to the code
3. [The runs](#3-the-runs): what each checks, bounds, fairness
4. [The proofs](#4-the-proofs)
5. [Where the code departs from what it says](#5-where-the-code-departs-from-what-it-says)
6. [What is not modelled](#6-what-is-not-modelled)
7. [Plan](#7-plan)

## 1. The system

Bitcoin Classic is a full node: it downloads headers and blocks from its peers,
keeps all of them in a tree, follows the branch with the most work, maintains the
set of unspent outputs at the tip of this branch, and keeps the transactions that
may enter the next block.  Operators reach it by HTTP, and tools by a message
protocol of its own.

    peers --headers/inv--> Block download --blocks--> Block index and active chain
          --thin blocks--> Thin blocks -------^          |   connect / disconnect
                                ^ what is missing        v
                                |                    Chain state (coins, undo, files)
    peers --inv/tx--> Transaction relay                  |   |          |
                           v       ^ new tip             |   v          v
                      Memory pool <-- confirmed, -- -----+ Coin views  Check queue
                           ^          resurrected
    operator --HTTP server--> RPC: prioritise, invalidateblock, submitblock, stop
    tools ----Network manager--> Administration server

| component | state | operations | must hold |
|---|---|---|---|
| Block index and active chain (`main.cpp`, `chain.*`) | `indexMap` with status bits, `nChainTx`, `nSequenceId`; `setBlockIndexCandidates`; `mapBlocksUnlinked`; `chainActive` | AcceptBlockHeader, ProcessNewBlock, ActivateBestChain, InvalidateBlock, ReconsiderBlock, PruneOneBlockFile, LoadBlockIndexDB | the best stored branch becomes active, no failed block is in it, nothing that could be connected is forgotten |
| Check queue (`checkqueue.h`) | queue, `nIdle`, `nTotal`, `nTodo`, `fAllOk` | Loop, Add, Wait, the control object, interruption | the verdict is that of all checks; Wait() returns |
| Coin views (`coins.*`) | maps of entries with DIRTY and FRESH, one upon the other | fetch, modify, flush, uncache | they behave as plain copies of the set of unspent outputs |
| Chain state (`main.cpp`, `txdb.cpp`, `init.cpp`) | `pcoinsTip`, coin database, block files, undo files, block index database, `setDirtyBlockIndex` | ConnectBlock, DisconnectBlock, FlushStateToDisk, Shutdown, restart | coins fit the active chain; after a failure the disk describes a state the node can go on from |
| Block download (`main.cpp`) | `CNodeState`, `mapBlocksInFlight`, counters | INV, HEADERS and BLOCK handlers, SendMessages, FinalizeNode | requests are counted right and taken back from peers that do not answer |
| Memory pool (`txmempool.*`, `main.cpp`) | `mapTx`, `mapNextTx`, `mapLinks`, totals, lock points, `mapDeltas`, rolling fee | AcceptToMemoryPool, removeForBlock, UpdateTransactionsFromBlock, removeForReorg, Expire, TrimToSize | consistent with itself and with the chain; bounded |
| Transaction relay (`main.cpp`, `net.cpp`, `txorphancache.*`, `limitedmap.h`) | `setAskFor`, `mapAskFor`, `mapAlreadyAskedFor`, `recentRejects`, the orphans and their index | INV, AskFor, GETDATA, TX with its loop over orphans, sendrawtransaction | what is announced is asked for once at a time and settled; the index fits the orphans; no orphan that can be used is left |
| Thin blocks (`thinblock.*`, `main.cpp`) | `mapThinBlocksInFlight`, `thinBlock` and `thinBlockWaitingForTxns` of each peer, `mapThinBlockTimer`, `xpeditedBlkSent` | XTHINBLOCK, XBLOCKTX, expedited blocks, HandleBlockMessage, SendMessages | no block with the right hashes is passed on with holes; the preference for thin blocks keeps no block out |
| HTTP server (`httpserver.cpp`, `httprpc.cpp`, `rpcmining.cpp`) | the work queue, its threads, the event loop, requests | http_request_cb, Enqueue, Run, Interrupt, WaitExit, the long poll, Shutdown | each request answered once; the shutdown ends; nothing uses the queue after it is deleted |
| Network manager (`networkManager/`) | two send queues, bytes sent and acknowledged, chunk state, timers, socket | queueMessage, runMessageQueue, sentSomeBytes, receivedSomeBytes, close, reconnect, ping | one write at a time, a well-formed stream, connection made again, nothing waits for ever |
| net.cpp, address manager, scheduler, version bits, wallet, miner | see `components` in `PROJECT.json` | | see section 7 |

Most share `cs_main`: the coins, the chain, the memory pool and what peers are
asked for change only under it.  The HTTP server has threads and locks of its own,
and the network manager a strand of handlers per connection.  The hard behaviours
are of five kinds.

* **Lock released in the middle.**  ActivateBestChain gives up `cs_main` after
  every step, and network, RPC and import threads may all be inside it.
  CCheckQueue hands work to threads that only meet at a mutex and two condition
  variables; the HTTP server stops while its threads start, wait and reply.
* **Handlers that come late.**  A cancelled write or read still reports, a timer
  fires after what it watched is over, the answer to a request comes when the
  block or transaction has come another way.
* **Long sequences of legal calls.**  Blocks arrive before their parents, are
  pruned, invalidated, reconsidered; transactions come back under their own
  children; caches are filled, flushed and dropped in any order.
* **Failures between two writes.**  Block files, block index and coins are three
  separate writes; a power failure may come between any two and a write may fail.
* **Peers** that withhold, delay, repeat or damage what was requested, or leave.

`PROJECT.json` lists each of these hazards at its line, with the properties that
would notice it going wrong.

## 2. The modules

| module | models | with TLC | proofs |
|---|---|---|---|
| `BlockTree` | block index, candidates, activation | `MCBlockTree` | `BlockTreeProofs` |
| `CheckQueue` | CCheckQueue, CCheckQueueControl | `MCCheckQueue` | `ValidationProofs` |
| `CoinsLayer` | one CCoinsViewCache: operators on a map of entries | through the two below | `ValidationProofs` |
| `CoinsMap` | *abstract*: plain copies of the set of unspent outputs | refined by CoinsCache | |
| `CoinsCache` | coin database, pcoinsTip and a block's view | `MCCoinsCache` | `ValidationProofs` |
| `ChainState` | coins, undo data, files, index and their flush | `MCChainState` | `ChainStateProofs` |
| `BlockDownload` | requests to peers | `MCBlockDownload` | `BlockDownloadProofs` |
| `Mempool` | CTxMemPool and its callers | `MCMempool` | `MempoolProofs` |
| `TxRelay` | requests for transactions, orphans, recent rejects | `MCTxRelay` | `TxRelayProofs` |
| `ThinBlocks` | thin and expedited blocks | `MCThinBlocks` | `ThinBlocksProofs` |
| `HttpServer` | event thread, work queue, long poll, shutdown | itself | `HttpServerProofs` |
| `NetworkConnection` | one connection of the network manager | `MCNetworkConnection` | |

`ChainState` is built on `CoinsLayer`, so blocks are connected through the cache
with its flags and not to an idealised set.  `BlockTree`, `ChainState`, `Mempool`,
`BlockDownload`, `ThinBlocks` and `TxRelay` are views of one node: each leaves open
what another settles.  `ChainState` and `Mempool` connect any child of the tip and
disconnect the tip at any time, which includes every order `BlockTree` chooses;
`Mempool` takes the unspent outputs of a chain from its blocks, which is what
`ChainState` shows of pcoinsTip (`CoinsExact`); `BlockDownload` activates the
best chain it has, which is what `BlockTree` shows of ActivateBestChain
(`BestChainActive`).  `ThinBlocks` repeats of `BlockDownload` what it needs
(mapBlocksInFlight, the best known block of a peer) for a node that is
synchronised, and `TxRelay` takes the verdicts of AcceptToMemoryPool from the
chain and the pool as sets and leaves open what fees and limits, the subject of
`Mempool`, do to them.

In the first five the blocks that may ever exist are a fixed tree given by
constants (`Parent`, `Anc`, `Height`), and definitions followed by a variant
(`LoadedLinkedAlone` beside `LoadedLinked`) are the form a plausible mistake in
the code would give them; no specification uses the variants.

### BlockTree

A block's `CBlockIndex` is spread over sets: `index`, `haveData`, `haveUndo`,
`failedValid`, `failedChild`, `received` (nTx), `linked` (nChainTx), and the
functions `seqId` and `unlinked` (how often it is in mapBlocksUnlinked).  One
step is what happens under one hold of `cs_main`: AcceptBlockHeader;
ProcessNewBlock up to the call of ActivateBestChain; one round of that loop
(`ActivateRound`: FindMostWorkChain, ActivateBestChainStep with its disconnects
and connects and PruneBlockIndexCandidates); the loop test, which compares
pindexMostWork with the tip and may skip FindMostWorkChain next time; the RPCs;
pruning; shutdown and LoadBlockIndexDB.  `pc` and `mostWork` are per thread.
Whether ContextualCheckBlock or ConnectBlock rejects a block is fixed by
constants; a system error may come at any connect and at any disconnect.  The order
of candidates is the code's: work, sequence number, address.  invalidateblock is two
actions.  `InvalidateBlock` takes every block from the one named on off the chain;
`InvalidateFails` is DisconnectTip failing on the way (main.cpp:2700-2703), for data
or undo data that was pruned or for a system error: the block named and those from
the tip down to the one that failed are marked by then, and some of them are still
in the active chain.  `unremoved` (history) are those.  A restart needs a candidate:
LoadBlockIndexDB makes none of a failed tip, and PruneBlockIndexCandidates asserts
that there is one (2530), so after such a failure the node may be unable to start.
A block that is in mapBlocksUnlinked several times passes through the queue of
ReceivedBlockTransactions as often (`QueueEntries`) and keeps its last number; which
one that is is left open (`Numberings`).

### CheckQueue

A thread's place in Loop is `pc`: steps end where the mutex is released (the
condition waits and the checks).  `pending` holds the threads an interruption
has reached but not yet stopped.  A check is a model value, and which ones fail
is chosen when they are added (`failing`).  notify_one wakes some waiting thread;
a waiting thread may also wake without reason.

### CoinsLayer, CoinsCache, CoinsMap

An entry has coins (the unspent outputs) and flags.  `Seen(cache, base)` is what
a reader sees.  ModifyCoins with the destruction of its CCoinsModifier is one
step, since the assertion on `hasModifier` forbids any other call in between.
ModifyNewCoins is allowed where the code calls it: for a transaction of which
nothing unspent is below.  CoinsMap has no caches at all; the refinement mapping
takes `Seen` of every level for its copies.

### ChainState

ConnectBlock, UpdateCoins, ApplyTxInUndo and DisconnectBlock work on a private
view that is flushed into `tip`, or thrown away.  FlushStateToDisk is three steps
(files, index, coins), each followed by a possible crash or failure.  `oldDbs`
are the states of the coin database a power failure may bring back: WriteBatch
is without sync, so earlier batches may be lost, from the last on; the block
index is written with sync.  `synced` are the blocks whose data and undo data
were committed.  `Transient` says whether a write may succeed after another one
has failed.  `OutOfDiskSpace` is the exit of FlushStateToDisk that asks for a shutdown
before anything is written.

### BlockDownload

`dl` is what MarkBlockAsInFlight and MarkBlockAsReceived maintain.  Each message
handler is a step, and SendMessages(p, late) is one, where `late` says that the
clock has passed the deadline of a timer that is on; time itself is left out.  A
peer in `Honest` stays and answers in time, the others do anything.

### Mempool

All calls run under `cs_main`, so no two of them interleave; but each loop over
transactions is taken one iteration at a time (`pc`), which makes the states in
the middle visible and every order of sets a choice.  `tip` and `coins` differ
while a block is being connected or disconnected, as chainActive and pcoinsTip
do.  Removal with descendants, the totals of ancestors, the dirty marker and the
repair after a disconnected block follow the code's cached links, not the true
relation; the properties compare the two.  removeConflicts reads a transaction
it has erased (txmempool.cpp:553): the model lets the prioritisation be cleared
or stay.  `Usage`, which TrimToSize compares with -maxmempool, counts the entries and
mapDeltas; what is bounded is the entries, since prioritisetransaction adds to
mapDeltas without evicting anything.  A transaction prioritised by amounts that add up
to 0 is taken for one that is not in mapDeltas.

### TxRelay

Handlers are steps; the loop of the TX handler over the orphans that waited for
what was accepted is taken one orphan at a time (`job`), so that every order of
hashes is met.  `mapAskFor`, `mapAlreadyAskedFor` and the retry of two minutes are
kept in ticks of a clock; `limitedmap` forgets its least entry.  The tips to come
are a constant sequence.  `Verdict` is what AcceptToMemoryPool says of a transaction
for what it is, for the chain and for what the pool holds.  What depends on fees,
sizes and time is a choice at every call of `AcceptToMemoryPool(t, v)`: a transaction
with nothing else against it may be refused ("cheap": the decaying minimum fee, free
relay, the limits on ancestors, a fee that is prioritised later), also before its
scripts are looked at, or be the one to make room; and any entries may go with their
descendants (`Trimmed`: Expire and TrimToSize).  `evicted` and `passing` (history)
are what the limits took from the pool under this tip, and what is in recentRejects
for a reason that may pass under the same tip, see section 5.  Blocks that do not
become the tip take orphans from the cache, too (`OtherBlock`: full, thin and expedited
ones, accepted or not).  A NOTFOUND, for which this code has no handler, is left out:
an honest peer has what it announced.

### ThinBlocks

`dl` is what is requested: mapBlocksInFlight, the one slot of each peer for a thin
block, the block being put together with what is missing of it, the counter
thinBlockWaitingForTxns beside it and the preference timer.  `process` is four
alternatives: over the limit, wrong Merkle root, complete, incomplete.  What
mempool and orphan cache can supply is a choice.  XBLOCKTX counts down for every
hash that matches an empty entry, also when the transaction that came has neither
inputs nor outputs and leaves the entry null (main.cpp:4956-4965); `NullIn` says for
which entries one can come, which is none while the hashes are those of the block.  An honest peer keeps a list of
what it was asked for (`owes`) and answers from it in order, as a node of this
code does; the others send any message at any time.  `confused` (history) marks
that an expedited block took the place of a thin block whose transactions were
awaited, see section 5.

### HttpServer

Four kinds of threads: clients' requests enter with the event thread (`epc`), the
workers (`wpc`) wait for work or sit in a long poll, the main thread (`mpc`) goes
through Interrupt() and Shutdown().  A step ends where a lock is taken or released
and at each unlocked access another thread can see.  `late` (history) are the
workers that had not entered Run when WaitExit returned; only they may touch the
deleted queue (`crashed`).

### NetworkConnection

`c` is the object with its socket, `strand` the handlers that are ready, in order;
a handler is an operator from one value of `c` to the next.  Sizes are small
numbers, so that a write may stop inside a header, inside a chunk or between
two.  boost::asio and TCP are external and described at the head of the module:
what an operation on a closed socket does, and that close() ends what is under
way with an error.  When the network fails, each read and write under way ends with
connection_aborted or with another error: for connection_aborted the handlers return
at once (NetworkManager.cpp:467, 536) and leave m_sendingInProgress set, or no read
under way.  `lost` (history) records this and the other places where something ends
and nothing takes its place: the return after too much data (703-706) and
close(false) after a ping that is not followed by another (665-681).  The other side
may also send a malformed packet, a ping, or more than a message may hold; each uses
up one of `MaxFaults`.  `mixed` (history) marks that bytes of one connection were
counted with another's.  `turn` is auxiliary: it changes whenever a handler runs, so
that fairness can speak of handlers that leave everything else as it is.

## 3. The runs

States are those TLC finds distinct.  Every property of a run is violated when a
definition named under `mutants` is replaced by its variant.  Properties that
belong together are named parts of one: `CheckBlockIndex` has what the function of
this name asserts of links and unlinked blocks (of candidates: `BestChainActive`),
`PoolConsistent` is a part of CTxMemPool::check; most of them begin with the module's TypeOK, and each part
has a variant that breaks it.

| run | instance | states | shows |
|---|---|---|---|
| `block_tree` | two branches of two and three blocks, the longer with an invalid block; two threads; one invalidateblock | 52 144 | index, candidates and unlinked blocks consistent, best chain active when both threads are back, both come back |
| `block_tree_recovery` | a tree with a block that carries much work, one invalid in each way; one thread; pruning, system errors also within invalidateblock, invalidation, restart | 306 820 | the same through pruning, errors and restarts; no failed block is active but one that could not be disconnected |
| `check_queue` | master and two workers, rounds of up to three checks, batches of up to two, interruption at any time | 332 536 | verdict, idleness, counts, Wait() returns |
| `coins_cache` | two transactions of two outputs, two blocks, any database to start with | 102 386 | flags, refinement of CoinsMap |
| `chain_state` | two branches that spend the same outputs, with a spend within a block and a repeated coinbase txid, and one crash; or three blocks, one rejected, in two block files, with one lasting error or a full disk and one crash | 972 780 | coins of the active chain, index before coins, everything can be disconnected, coins on disk fit their block, data marked is data committed |
| `block_download` | two peers, a fork of depth one, two requests per peer, window of one block | 616 323 | requests, queues and counters agree, no useless request, no stalling timer without a debt |
| `block_download_live` | an honest peer and a faulty one, both preferred | 7 028 | the node gets to the best block |
| `mempool` | nine transactions (a chain of four with a diamond, a double spend, a coinbase spend, relative and absolute locks), two branches, limits that bind, two transactions to prioritise | 111 457 | links, totals, inputs, minability, bound |
| `tx_relay` | an honest peer and another, four transactions (two that conflict, a bad one that spends one of them, their parent), a new tip that takes back the parent, tables of one entry, two orphans, any refusal for fees and any eviction | 133 716 | index, bound, rejects, one request at a time, orphans resolved, announcements settled |
| `thin_blocks` | an honest peer and another, two blocks, two transactions that may be missing, three messages of the other, expedited blocks or submitblock, null transactions | 402 935 | counter fits the block, slots given back, honest peer not blamed, known blocks fetched |
| `http_server` | two workers, two requests and a long poll, a queue of two, one new block, interruption at any time | 160 782 | no use after WaitExit, one reply, shutdown ends, queued requests served |
| `network_connection` | a chunked, an urgent and any number of ping messages; one fault at any time: a failed attempt to connect, the loss or end of the connection with connection_aborted or another error for each operation, or a packet that is wrong | 250 074 | one write, well-formed stream, bytes counted right, reconnects, nothing waits for ever |

**Bounds and why they are enough.**  Every bound is a constant.  Two threads are
the least that can race; three blocks on the losing side make a reorganisation
that fails in the middle and leaves blocks above the failure.  Three checks and
batches of two give a round with a batch left over while another is executed.
Two levels of coins with two transactions meet every combination of flags on both
levels: an operation touches one transaction, and the second shows what it leaves
alone; the proofs cover the rest.  In ChainState one crash suffices because a
crash forgets all volatile state and the second would start from a state of the
same kind; the tree makes the same transaction be confirmed on both branches and
a coinbase id be repeated after all its outputs are spent.  In BlockDownload
the window is one block so that it is always full, and the fork makes a peer's best
block leave the node's chain.  In Mempool the limits are such that each of them
(ancestors, descendants, size, usage, `MaxVisit` = 0 for the dirty entries)
refuses or evicts something.  How often rare operations may happen together is
`Budgets` in BlockTree and ChainState.  In TxRelay every table has room for one
entry, so that each is full when the second peer announces; the orphan that spends
two others needs both orders of the loop, and of the two that conflict one can be
refused, and remembered as rejected, before the other is evicted.  With two peers of
which nothing is assumed and three new tips, one of which confirms the parent, the
safety properties hold as well (143 028 states); with two transactions announced, so
that one pushes the other out of mapAlreadyAskedFor, and no orphans, those on requests
(143 394 states).  In ThinBlocks two blocks are all that IsChainNearlySyncd
allows beyond the tip; two missing transactions make a partial XBLOCKTX possible,
and three foreign messages suffice to replace, fill up and outrun a thin block.
With `Upstream = {"h"}`, where the honest peer sends expedited blocks too, the same
properties hold (890 183 states).  In HttpServer two workers are needed for one
to be woken in place of the other; with a queue of two their notifications can be
pending together, and the third request finds it full.  In NetworkConnection a message
of two chunks, each a batch, an urgent one that fills a batch alone and one fault
bring every place a write can stop at together with every handler that can be late.
With two faults (`MaxFaults = 2`), such as an operation lost to connection_aborted and
a failure of the connection after it, OneWriteAtATime and StreamSound hold as well
(2 632 985 states).
Headers are small beside a chunk (1 and 10), as in the code.

**Deadlock** is not checked where the system may stop: when all blocks have
arrived and the budgets are used up (BlockTree), when all peers have left
(BlockDownload), when all blocks are there and nobody owes
anything (ThinBlocks), and when the connection is given up or the process has
crashed (NetworkConnection).  In the other modules it is.

**Fairness.**
`CheckQueue`: weak fairness of each thread's steps in Loop: the operating system
runs threads that can run and grants the mutex.  Nothing is assumed of wake-ups
without reason, of interruptions, or of the master adding checks.
`BlockTree`: weak fairness of each thread inside ActivateBestChain: it never
waits for anything but `cs_main`, which each holder releases.
`BlockDownload`: the message thread serves every peer again and again, the clock
reaches a deadline unless it is taken back, sockets of peers with fDisconnect are
closed; and a peer that is honest connects, announces its best block (again only
if the node has forgotten it) and answers
GETHEADERS and GETDATA.  EventuallySynced is stated for an honest *preferred*
peer, since the code asks only preferred peers during the initial download.
`TxRelay`: the clock, SendMessages and an honest peer's answer are strongly fair,
since the loop over orphans disables them in between for as long as it takes,
and only for that long; the peer's answer is stated as the two messages it is
(`CanAnswer`, `Answers`), which is strong fairness of TxMessage.  `ThinBlocks`: timers run out, peers to be disconnected
are, SendMessages serves the honest peer, and it gives what it owes; nothing is
assumed about announcements, so KnownIsFetched speaks of blocks whose header has
come.  `HttpServer`: weak fairness of each thread; nothing of clients, of new
blocks and of wake-ups without reason, but the long poll's timeout is an action
of its thread and happens.  `NetworkConnection`: handlers that are ready run, an
attempt to connect succeeds unless it fails, which the network does `MaxFaults`
times, and the other side reads.  Timers are strongly fair: they run for a
second or more and fire when no handler but those of incoming packets waits
(`StrandQuiet`): a guard of the two timers, which leaves out that a handler waits for
a second or more until a timer overtakes it.

## 4. The proofs

The proofs hold for every value of the constants that satisfies the named
assumptions: any number of threads, peers, blocks, transactions and failures,
where TLC has two or three.  Each module states an inductive invariant as a
conjunction of named parts, has one lemma per action, and combines them at the end.

| module | theorem | the property it states |
|---|---|---|
| `ValidationProofs` | `Verdicts`, `Idleness`, `CountersCorrect` | the verdict of Wait(), the assertion of the constructor, the counters |
| `ValidationProofs` | `FlagsCorrect`, `Refinement` | FRESH and DIRTY, CoinsCache implements CoinsMap |
| `BlockTreeProofs` | `BestChainActiveCorrect`, `CheckBlockIndexCorrect`, `FailuresRespectedCorrect`, `ActiveChainSoundCorrect`, `CandidateKeysStableCorrect` | all safety properties of the runs |
| `ChainStateProofs` | `CoinsExactCorrect`, `DiskConsistentCorrect`, `RecoverableCorrect`, `ReversibleCorrect`, `IndexedDataDurableCorrect` | all properties of the run |
| `MempoolProofs` | `ConsistentCorrect`, `InputsCorrect`, `ReadyCorrect` | all properties of the run |
| `TxRelayProofs` | `CacheCorrect`, `AskedOnceCorrect`, `RejectsCorrect`, `ResolvedCorrect` | all safety properties of the run |
| `ThinBlocksProofs` | `WaitingCorrect`, `JustifiedCorrect` | all safety properties of the run |
| `HttpServerProofs` | `OutlivesCorrect`, `AnsweredCorrect` | all safety properties of the run |
| `BlockDownloadProofs` | `RequestsExactCorrect`, `StallerOwesBlockCorrect` | all safety properties of the runs |

**ValidationProofs**, on the check queue, from `IsFiniteSet(Workers)`, a master
that is not a worker, finitely many checks and a positive batch size.  `Verdicts`
(Wait() returns the conjunction of all checks), `Idleness` (the constructor's
assertion) and `CountersCorrect` (unsigned counters do not wrap, nTodo is exact)
all follow from `IInv`.  Alone none is inductive: that fAllOk is right when nTodo
is 0 needs to know that nTodo counts exactly the checks in the queue and in
threads' hands (`TodoExact`), which needs batches to be disjoint (`BatchesApart`);
that the pool is idle needs `PoolCounts`, which says nTotal and nIdle differ by
the busy threads *even after interruptions left both too large*; and that no
failure gets lost between the end of a batch and the thread's next visit is
`FailuresKnown`.  The body of the loop, shared by three steps, is one lemma
(`LoopBodyKeepsIInv`); there is one lemma for every other action.

**ValidationProofs**, on the coin views, for any sets of transactions, outputs and
hashes (with a null hash outside them).  `FlagsCorrect`: FRESH and DIRTY are
truthful in both caches.  `Refinement`: CoinsCache implements CoinsMap.  The
invariant is CoinsTypeOK, FlagsTruthful and that a closed view is empty.  Below it is a
layer of lemmas on one cache over any base: what insertion, removal, fetching,
modification, Uncache, BatchWrite and the database's BatchWrite do to what is
*seen* and to the truth of the flags (`ClosedSeen`, `WrittenSeen` and others);
above it one lemma per action (`...Effect`) from which both the invariant and the
step simulation follow.

**TxRelayProofs**, from `TxRelayAssumption`, for any sets of peers and transactions,
finite or not.  `IndexCorrect`: m_mapOrphanTransactionsByPrev is exact; one
lemma each for adding an orphan and for erasing a set of them gives what the
handlers do.  `SizeCorrect`: the limit holds after every handler; its invariant
adds that the orphans are finitely many, and the lemma on eviction bounds what the
loop of LimitOrphanTxSize leaves.  Together they are `CacheCorrect`.  `AskedOnceCorrect`: an honest peer owes each
request once.  `HonestAskedOnce` is not inductive; `AskInv` adds that no two
entries of mapAskFor are for one transaction (`ScheduledOnce`), that what is owed
was asked and is not scheduled again (`OwedOnce`), and the domains of the tables.
One lemma per action keeps it.

For the filter, `RejectsJustified` is not inductive either: that AcceptToMemoryPool
refused a transaction once does not keep it refused.  `FilterInv` adds `Reasoned`,
the reason for which it was refused, if it is one the tip or the pool gives: it lasts
while the tip stays, because what joins the pool conflicts with nothing in it and what
makes room is remembered (`PoolMoves`, `evicted`), and with the tip the filter is
emptied.  Of what was refused for its fee or for a limit (`passing`) nothing is
claimed.
`ResolvedCorrect` is about a step (the handler returns) and follows from `LoopInv`:
every orphan that waits for something the loop has gone through has been tried, or is
one of those still to be tried for the transaction in hand.

**BlockTreeProofs**, from `TreeAssumption` (`Anc` and `Height` are those of the tree
`Parent`), for any tree and any set of threads.  `Inv` is `Types`, `Flags`, `Links`
(with a linked block its parent is linked, with a stored one its header known),
`Waiting` (a block that waits in mapBlocksUnlinked has a parent without nChainTx),
`Gaps` (a linked block waits there only because data below it was pruned, and
everything in between waits, too), `Remembered` (a stored block that is not linked
waits, or there is a failure below it), `Sound` and `FailedMarksJustified`.  It
gives CheckBlockIndex, FailuresRespected and ActiveChainSound, through an
InvalidateBlock that fails half way as well: what such a step marks in the active
chain is what `unremoved` records (`InvalidateFailsStep`), and as it is marked no later
step connects it; the loop of
ReceivedBlockTransactions, which links everything above a block that has come, is
one lemma on the least closed set.  The best chain needs more (`BestInv`): a block that
could be connected and is no candidate is worse than some candidate that could be
connected, too (`Covered`; this anchor is the tip, or the tip before a
reorganisation that met an invalid block); no candidate is worse than the tip
(`NotWorse`); and if no thread is on its way to FindMostWorkChain nothing is better
than the tip (`Best`).  A round of ActivateBestChain keeps `Covered` because
PruneBlockIndexCandidates removes only what is worse than the new tip, and because
a block found invalid takes its descendants from the candidates but never the
anchor.  All this is claimed until a failed block stays active (`Normal`).  `BestChainActiveCorrect` and `CandidateKeysStableCorrect` assume `Unpruned`
(-prune is off), see section 5.

**ChainStateProofs**, from `ChainAssumption` and for errors that last (`~Transient`:
after the first failed write every later one fails, as on a full disk).  `ChainAssumption` says of the
blocks what CheckBlock and CheckTransaction let through (a coinbase first and nowhere
else, main.cpp:2978-2982; no input twice in a transaction, main.cpp:855), nothing of
what ConnectBlock checks.  For the databases and files (`Inv`) the
invariant has two halves.  `Known` holds always: the index on disk names only what was
committed, it holds a block's parents with the block, and every state the coin
database may come back in has its best block in the index on disk.  Until
the first error also `InOrder` (what is not in the index on disk is in
setDirtyBlockIndex, what is not committed is in the last file, which is the one
FlushBlockFile commits) and `Stage` (which of the three writes have been done)
hold.  They are lost with a failure, and are not needed again: nothing more is
written before the restart, which finds only what `Known` speaks of.

For the coins the argument is in four parts.  (1) ConnectBlock and
DisconnectBlock are folds; each fold is the last member of a sequence of works
(`Works`), and properties are carried along it by `UpTo`, an induction on the
length.  (2) Seen through the two caches with their flags (`Sound`), one input spends one
coin (`SpendStep`), a transaction is `TxStep` and a block `BlockRun`, which no
longer speak of caches; `Partial` says what is unspent after the first transactions
of a block.  That a transaction never meets its own txid in the view, and so
ModifyNewCoins overwrites nothing, follows from the BIP30 check before the first
transaction and from inputs being spent only once (`Later`, `SpentIsGone`).
(3) `UtxoNext`: what `BlockRun` leaves of the unspent outputs of the parent's chain is
what `Utxo`, which looks at a whole chain at once, defines for the block.
(4) `RestoreStep`, `UndoTxStep` and `DisconnectSound`: backwards, ApplyTxInUndo puts back
exactly what was spent.  The height is kept only with the last output of a
transaction; it is found again because all the outputs of a transaction have the
same, positive height (`Uniform`), so 0 is free to say "not kept".

The invariant `FullInv` adds to `Inv`: `CoinsRight` (coins in memory, as long as a
failed FlushCoins has not emptied the cache, and on disk are those of their block),
`UndoRight` (undo data that exists is what a `BlockRun` from the parent's coins
left, so a block may be disconnected after any restart), `ChainsUndone` (the chain of the
tip is marked as having undo data, in the index too for what the coin database may
go back to) and `UndoInFile` (with one file a mark in the index comes after the
commit).  TLC checks all of it but `BlockRun` on the instance of `ChainState.cfg`.

**MempoolProofs**, from `MempoolAssumption` and `ChainAssumption`, which says what
ConnectBlock lets into a chain (inputs exist, nothing is spent twice in a
block, no transaction is twice in a chain), for any blocks, transactions and limits.
LinksExact says nothing of the states in the middle of DisconnectTip, but has to
survive them: `Links` has, at all times, links that agree on both sides and are
true, and says which may be missing, namely those from a transaction that came back
to an entry that was in the pool before and whose turn in
UpdateTransactionsFromBlock has not come (`Awaited`).  InputsAvailable likewise
speaks of the finished chain; `Available` and `Unconfirmed` speak of `Settled`, the
chain as far as the pool has been adapted to it, which moves by one transaction
with each iteration.  For ReadyWhenIdle `Cached` says what the cached lock points are
good for: they are true of the chain of maxInputBlock, so testing that this
block is in the active chain is enough to use them, and an entry with a relative lock
had confirmed inputs only.  `RipeWhenDue` says which calls have to keep entries
minable and which make them so again at their end, `Bounded` the same for the size of
the entries.
The size of the pool is a fold over a set: `Total` and the lemmas on it
show that the fold does not depend on the order of elements and does not grow when
entries go.

The cached totals (DescendantsExact) are wrong in the middle of DisconnectTip, but
wrong in a known way.  `Totals`: an entry is dirty with its own size and fees, or has
the totals of what the links, as they are at that moment, reach from it; only a
transaction that came back and has not had its turn in UpdateTransactionsFromBlock
has those of what came back with it (`Reckoned`).  That its turn then completes
them rests on the order, `Ordered`: the turns go backwards through the block, so all
its children that came back had theirs, and nothing that had its turn reaches it.
The lemmas on `Reach` say what is reached after an entry is added, entries are
removed or links are completed, and that the ancestors whose totals the code updates
are those that reach the entry (`ReachUp`, `ReachBack`), which is why walking the
parent links is enough; removing the transactions of a block one by one is sound because
nothing they spend is in the pool any more (`BlockTotals`).

**HttpServerProofs**, from `HttpAssumption` (finitely many workers).  `Counted`:
numThreads is the number of workers inside Run; `MainKnows` and `LateOnes`: what
Interrupt and WaitExit have achieved where the main thread is, and that a worker that
enters after WaitExit gets no further than the test of `running`; `Holding` and
`HeldOnce`: a request is in the queue once, with one worker or with the event
thread, and its state says which.

**ThinBlocksProofs**, from `ThinAssumption` (finitely many transactions; at most two
blocks beyond the tip, which is what IsChainNearlySyncd allows).  `Shape` holds
always: the counter is the number of missing transactions if the hashes are those of
the block, and never more than that, and a peer has one slot.  `Fine` holds until an expedited block has taken the place of a thin block
(`confused`): a slot is taken by a block that is wanted, and for every block in
flight from an honest peer there is a request that it owes an answer to.  A lemma
per operation on `dl` is combined into one per message.

**BlockDownloadProofs**, from `DownloadAssumption` (a tree of blocks with its
ancestors and heights, which may be infinite, and finitely many peers), for any
limits.  The invariant `FullInv` is `StateOK` (types, the header index is closed
under ancestors, nPreferredDownload and nSyncStarted), `Sound` (what
mapBlocksInFlight, the queues and the other counters say is one and the same, only
peers that are known are named, and a peer that is timed owes a block) and
`RequestsUseful`.  `Sound` is stated of any value of `dl` and any set of peers, so
that it can be carried through a message that calls MarkBlockAsReceived and
MarkBlockAsInFlight several times.  (1) A chain has one block at each height below
its tip (`Chains`), so `InOrder` lists every block of a part of a chain exactly
once (`Ordered`): no handler asks for a block twice within one message.  (2)
Taking one entry from a queue, or adding one, changes the number of validated
headers by that entry's (`RemoveCount`, `AppendCount`), and
nPeersWithValidatedDownloads changes exactly when the number of a peer leaves or
reaches 0 (`LoadingChange`). (3) `ReceivedSound` and `InFlightSound` carry `Sound`
through the two operations, `RequestAllSound` through all requests of a message,
`ReleasedSound` through FinalizeNode. (4) `WalkSound`: what
FindNextBlocksToDownload returns is not in flight and not there, and the staller
it names has a block in flight.  (5) One lemma per message.  TLC checks `FullInv`
on the instance of `BlockDownload.cfg`.

Induction over data is done by hand: a set that is not what it should be has a
member of least height (`BranchInduction`), least index (`LeastNatural`) or least
size (`SmallestSet`), and that one gives the contradiction.

Only model-checked:

* everything temporal under fairness (`WaitReturns`, `ActivationReturns`,
  `EventuallySynced`, `HonestSettled`, `KnownIsFetched`, `ShutdownEnds`,
  `QueuedIsServed`, `AlwaysReconnects`, `NothingWaitsForEver`), which the prover
  does not handle;
* BestChainActive and CandidateKeysStable with pruning;
* `NetworkConnection`: OneWriteAtATime rests on a batch never being empty, which
  is so only because `bytesSend` belongs to the front message; that is what
  `StreamSound` counts, over sequences of chunks.

## 5. Where the code departs from what it says

These were met while modelling; the properties are stated so as not to claim what
does not hold.  For the first six TLC gives a counterexample.

* `assert(m_messageBytesSend <= m_messageQueue.front().rawData().size())`
  (NetworkManager.cpp:356).  After a write error sentSomeBytes resets the two counts of
  bytes but keeps m_sendQHeaders and m_sentPriorityMessages (473-477).  What is sent
  again is counted with the headers of both attempts: a message counts as complete too
  late, is sent a second time and is taken off the queue between its batches, and the
  count stays beyond the size of the next message.  `AssertionHolds` as an invariant of
  `NetworkConnection.cfg` is violated; `StreamSound` excludes what follows by `mixed`.
* "Didn't finish another. Thats illegal." (NetworkManager.cpp:688).  close() clears the
  buffer of a partly received chunked message but not its id, so after the reconnect
  the first chunk of a correct message is refused and the connection closed again:
  `IllegalMeansUnfinished` as an invariant of `NetworkConnection.cfg` is violated.
  `AlwaysReconnects` holds all the same: each close is followed by another attempt.
* "The result is either failure or an activated best chain" (main.cpp:2603).
  ReconsiderBlock clears the failure of all ancestors (2745-2752) but makes only the
  block and its descendants candidates, so a branch of an ancestor that is valid
  again and better than the tip is not activated.  `ActivationPromise` is violated
  with all of `MCBlocks`, one thread and `Budgets <- InvalidateAndReconsider`;
  `BestChainActive` is what holds without it.
* "First make sure all block and undo data is flushed to disk" (main.cpp:2209).
  FlushBlockFile commits the last file only; undo data of a block in an older file
  is marked in the index and not committed.  `IndexedUndoDurable` as an invariant
  of `ChainState.cfg` is violated.
* The coins a view shows are those of its best block (coins.h:308).
  CCoinsViewDB::BatchWrite empties pcoinsTip before the write; if it fails and a
  later write succeeds, the best block is saved without its coins.
  `DiskCoinsExact` is violated with `Transient = TRUE`.
* A failed write of the block index has emptied setDirtyBlockIndex (main.cpp:2223),
  so the next flush writes coins that refer to blocks the index does not have; and
  AcceptBlock continues after AbortNode (3227), so a block that was not written is
  marked as stored.  `Recoverable` and `IndexedDataDurable` are violated with
  `Transient = TRUE`.
* CheckBlockIndex's assertion on candidates (main.cpp:3839) does not hold while a
  thread is between two rounds: `CandidatesExact`, a part of `BestChainActive`, is
  claimed only when none is.
* A block stored while its parent is marked failed is not put into
  mapBlocksUnlinked (main.cpp:2828), so after the mark is cleared it stays unlinked
  until the next start: the premise of `LinkedWhenStored`.  ReconsiderBlock also
  leaves marks on other descendants of the ancestors it clears, against the assertion
  at 3830: the premise of `FailedMarksJustified`.
* One invalidateblock is enough against the assertions at 3813 and 3864 ("We aren't
  missing data for any parent -- cannot be in mapBlocksUnlinked").  On a branch q, p,
  f, g let the data of p and g arrive, p be invalidated, then the data of f arrive,
  which is not put into mapBlocksUnlinked, and then that of q: now all data of the branch
  is there, but neither f nor g gets nChainTx and g stays in mapBlocksUnlinked.  The proof
  of `UnlinkedExact` came upon it; its premise excludes branches with a failure.
* LoadBlockIndexDB puts pruned blocks into mapBlocksUnlinked (3456), against the
  assertion at 3863; `UnlinkedExact` makes no claim about them.
* A pruned block that is a candidate and is downloaded again gets a new sequence
  number while it is in the ordered set (2814); `CandidateKeysStable` is checked and
  proved without pruning.  A pruned block that invalidateblock makes the tip again and
  that is downloaded again gets a new number likewise, by which blocks that are not
  candidates sort above the tip: the last premise of `BestChainActive` (`Regular`), and
  why `BestChainActiveCorrect` is without pruning, too.
* InvalidateBlock marks the block and the tip before it disconnects the tip
  (2689-2696), and returns with the marks set if that fails (2700-2703): a failed block
  stays in the active chain, `invalidateblock` goes on to ActivateBestChain if only
  undo data was missing, and a later start may meet the assertion at 2530 for want of
  a candidate.  The exception `unremoved` of `ActiveChainSound`.
* A relative lock of zero on an unconfirmed input is kept as a lock at the tip's
  height (main.cpp:754): a shorter chain removes the transaction needlessly.  The fee rate
  after an eviction (txmempool.cpp:976) is that of the package, which may be below the
  score the package was chosen by.  ActivateBestChainStep returns without
  removeForReorg if DisconnectTip fails (2547).
* The comment on recentRejects (main.cpp:150-153) has only rejected transactions in
  it.  The TX handler also adds a transaction that the node already has
  (4726-4727), and one whose orphan is refused (4703-4708).  And it keeps out, until
  the next block, a transaction that was refused for its fee or a limit although the
  minimum fee decays, entries expire or are evicted, and prioritisetransaction changes
  fees under the same tip: `RejectsJustified` leaves out those of `passing`.
* An orphan whose parent comes in a block or by RPC is not looked at again, while
  AlreadyHave keeps it from being fetched: `OrphansResolved` is about the TX handler.
* AskFor schedules each announcement two minutes after the one before.  Entries
  of mapAskFor outlive a transaction that some peer sends without being asked, so
  the time of a request has no bound such as two minutes for each peer.
* ProcessGetData does not set `pushed` after a hit in mapRelay and may send a
  transaction twice.
* "Precondition: worker threads have all stopped" (httpserver.cpp:104-106).
  WaitExit waits only for workers that have registered, and the threads are
  detached: one that starts late, as when AppInit2 fails early (bitcoind.cpp:171-180),
  uses the queue after its deletion.  http_request_cb tests workQueue, which is not
  set to null when it is deleted, and Enqueue does not test `running`.
* NetworkConnection.h:34-35 promises to "automatically reconnect and resend messages
  on failures"; close() empties the queues.  After a failed connect m_sendQHeaders
  may keep headers of messages that are gone, and assert(!m_sendQHeaders.empty())
  (NetworkManager.cpp:509) can fail.
* The handlers at NetworkManager.cpp:467 and 536 look for connection_aborted, while an
  operation cancelled by close() reports operation_aborted.  When the system does report
  connection_aborted, a write leaves m_sendingInProgress set, so that nothing is sent
  any more, and a read leaves the connection with nothing reading (`lost`: the
  exceptions of `NothingWaitsForEver`, of `AlwaysReconnects` when both are lost, and of
  the flag in `OneWriteAtATime`).  They are bound to `this` without keeping it alive.
  reconnectWithCheck may close a connection in use, and two reads may be outstanding.
* The path for too much data (703-706) neither closes nor reads on, and after the other
  side's first ping the timer calls close(false) if no other follows (665-681), also on
  an outgoing connection: the other exceptions of `AlwaysReconnects` (`GivenUp`).
* "slow down reconnect due to bad peer" (NetworkManager.cpp:826): m_firstPacket is false (572) before a bad
  first packet makes the connection close (575), so in this case the reconnect is not
  slowed down.
* runMessageQueue returns when the normal queue is empty (353), so an urgent message
  that comes alone waits for the next ping.
* `setPreVerifiedTxHash` is static in main.h:142: thinblock.cpp and main.cpp have
  different copies, and ConnectBlock (2049-2064) checks every transaction.
* "We'll wait for an INV to get this block" (thinblock.cpp:164): slot and
  mapBlocksInFlight are kept after a wrong Merkle root, so no INV helps before the
  timeout.  submitblock leaves the slot occupied, too.
* thinBlockWaitingForTxns counts a null transaction as if it had filled its entry
  (main.cpp:4956-4965): of `WaitingExact` what is left when the list of hashes is not
  that of a block is that the count is not too high.
* "This code ALSO cleans up the thin block" (thinblock.cpp:310) does not hold for an
  expedited block, which is in no slot.  One with transactions missing is never
  completed, since XBLOCKTX is dropped without a slot; and it overwrites a thin
  block whose transactions are awaited, for which the next XBLOCKTX, matched by the
  slot, fills up the wrong block (`confused`).
* An INV for a block in flight from another peer sends no GETHEADERS
  (main.cpp:4442), so if that peer leaves the block is fetched only when its header
  comes some other way: the premise of `KnownIsFetched`.

## 6. What is not modelled

Script evaluation, signatures, hashes, proof-of-work arithmetic and fee
statistics are functions of bytes or floating-point numbers without state that
TLC could explore; their verdicts are inputs of the models.  Encodings (blocks,
undo data, databases) are left out for the same reason.  The graphical
interface, logging, notifications and reporting RPC commands do not change the
node's state.  LevelDB, secp256k1 and univalue are vendored; of LevelDB the
models use that a batch is written whole and that a sync lasts.  Within the
modelled components, `components` in `PROJECT.json` says what is left out of
each: most notably reindexing and VerifyDB, unlinking of pruned files together
with crashes, fee estimation and system errors in Mempool, the lists of peers that
get expedited blocks, and the incoming side of the network manager.

## 7. Plan

Done, in this order: `BlockTree` (the choice of the chain is what the node is
for), `CheckQueue` with proofs, `CoinsLayer` and `CoinsCache` refining `CoinsMap`
with proofs, `ChainState` on top of them, `BlockDownload`, `Mempool`, `TxRelay` with
proofs, `HttpServer`, `NetworkConnection`, `ThinBlocks`.  To come:

1. `Scheduler` (scheduler.cpp): a timed queue with shutdown, in the manner of
   CheckQueue; a task runs once, stop(true) drains.
2. `VersionBits`: the cached threshold states against a definition by recursion
   over periods.
3. `AddrMan`: reference counts of the two tables.
4. net.cpp: CNode's reference counts between the socket and the message thread.
5. Wallet conflicts and the miner's closure under parents, on top of Mempool.

Theorems to come: `NetworkConnection` StreamSound and, from it, OneWriteAtATime.
