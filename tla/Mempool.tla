------------------------------ MODULE Mempool -------------------------------
(***************************************************************************)
(* CTxMemPool (src/txmempool.cpp) and the code of src/main.cpp that moves  *)
(* transactions into and out of it: AcceptToMemoryPool, LimitMempoolSize,  *)
(* and the mempool's share of ConnectTip, DisconnectTip,                   *)
(* ActivateBestChainStep and InvalidateBlock.                              *)
(*                                                                         *)
(* All of this runs under cs_main.  A call that loops over transactions is *)
(* taken one iteration at a time: pc says which loop runs, and no other    *)
(* call starts before pc is "idle" again.  Which block is connected or     *)
(* disconnected is left open (see BlockTree), and the unspent outputs of a *)
(* chain are what ChainState shows pcoinsTip to hold.                      *)
(*                                                                         *)
(* Abstractions: every input of a transaction carries the same sequence    *)
(* number; locks are by height; the memory a transaction takes is its      *)
(* size; the time of entry is not kept, so Expire may find any set of      *)
(* entries too old; policy that depends on nothing modelled here           *)
(* (standardness, priority, free relay) may refuse any transaction of a    *)
(* disconnected block.                                                     *)
(***************************************************************************)
EXTENDS Integers, Sequences, SequencesExt, FiniteSetsExt

CONSTANTS
    Blocks, Base, Parent, Anc, Height,
    BlockTxs,        \* the transactions of a block, its coinbase first
    Ins, OutIdx,     \* the outpoints a transaction spends; the numbers of its outputs
    Coinbases, Fee, Size,
    LockTime,        \* the last height at which a transaction is not final
    RelLock,         \* BIP68: the age in blocks its inputs must have, or NoLock
    Maturity,        \* COINBASE_MATURITY
    LimitAncestors, LimitAncestorSize, LimitDescendants, LimitDescendantSize,
    MaxVisit,        \* maxDescendantsToVisit
    MaxUsage,        \* -maxmempool
    DeltaSize,       \* the memory of an element of mapDeltas
    MinRelay,        \* minReasonableRelayFee
    Deltas           \* bound: what prioritisetransaction may add up to for a transaction

NoLock == -1
None == "none"
Txs == DOMAIN Ins
Outpoints == UNION {{t} \X OutIdx[t] : t \in Txs}

ASSUME MempoolAssumption ==
    /\ Height \in [Blocks -> Nat]
    /\ Base \in Blocks /\ Anc[Base] = {Base} /\ Height[Base] = 0
    /\ \A b \in Blocks \ {Base} :
          /\ Parent[b] \in Blocks
          /\ Anc[b] = {b} \cup Anc[Parent[b]]
          /\ Height[b] = Height[Parent[b]] + 1
    /\ None \notin Txs
    /\ \A t \in Txs : Ins[t] \subseteq Outpoints /\ (t \in Coinbases => Ins[t] = {})
    /\ \A t \in Txs : Fee[t] \in Nat /\ Size[t] \in Nat \ {0}
    /\ \A t \in Txs : LockTime[t] \in Int /\ RelLock[t] \in Nat \cup {NoLock}
    /\ Maturity \in Nat
    /\ \A t \in Txs : 0 \in Deltas[t] /\ Deltas[t] \subseteq Int
    /\ MinRelay \in Nat /\ MaxUsage \in Nat /\ DeltaSize \in Nat

VARIABLES
    tip, coins,      \* chainActive.Tip() and the best block of pcoinsTip
    pool,            \* mapTx: the transactions in the mempool
    next,            \* mapNextTx: which of them spends an outpoint
    parents, children,   \* mapLinks
    state,           \* count, size and fees of an entry with its descendants
    delta,           \* an entry's feeDelta
    lp,              \* an entry's LockPoints: minimal height, maxInputBlock
    deltas,          \* mapDeltas
    rolling,         \* rollingMinimumFeeRate
    blockSince,      \* blockSinceLastRollingFeeBump
    pc, mode,        \* the loop that runs, and the call it belongs to
    todo, readded,   \* the transactions the loop has left; vHashUpdate
    undone           \* the blocks the running call has disconnected

chainVars == <<tip, coins>>
linkVars  == <<next, parents, children>>
entryVars == <<pool, linkVars, state, delta, lp>>
feeVars   == <<rolling, blockSince>>
callVars  == <<pc, mode, todo, readded, undone>>
vars == <<chainVars, entryVars, deltas, feeVars, callVars>>

NoState == [count |-> 0, size |-> 0, fees |-> 0]
NoPoints == [height |-> -1, block |-> Base]

-----------------------------------------------------------------------------
(* The chain that ends in b.                                               *)

Included(b) == UNION {Range(BlockTxs[a]) : a \in Anc[b]}

Unspent == [b \in Blocks |->
    (UNION {{t} \X OutIdx[t] : t \in Included(b)}) \ UNION {Ins[t] : t \in Included(b)}]

CoinHeight == [b \in Blocks |-> [t \in Included(b) |->
    Height[CHOOSE a \in Anc[b] : t \in Range(BlockTxs[a])]]]

Ancestor(b, h) == CHOOSE a \in Anc[b] : Height[a] = h

-----------------------------------------------------------------------------
(* Entries and their relatives.                                            *)

Spends(t, p) == \E o \in Ins[t] : o[1] = p

(* What ConnectBlock lets into a chain: a transaction spends outputs of    *)
(* the chain, in a block those of earlier ones only, no output is spent    *)
(* twice in a block, and no transaction is twice in a chain.               *)
ASSUME ChainAssumption ==
    /\ \A t \in Txs : ~Spends(t, t) /\ (t \notin Coinbases => Ins[t] # {})
    /\ \A b \in Blocks : /\ BlockTxs[b] \in Seq(Txs)
                         /\ \A t \in Included(b) : \A o \in Ins[t] : o[1] \in Included(b)
    /\ \A b \in Blocks \ {Base} :
          /\ Range(BlockTxs[b]) \cap Included(Parent[b]) = {}
          /\ \A i, j \in DOMAIN BlockTxs[b] : i < j =>
                /\ BlockTxs[b][i] # BlockTxs[b][j]
                /\ Ins[BlockTxs[b][i]] \cap Ins[BlockTxs[b][j]] = {}
                /\ ~Spends(BlockTxs[b][i], BlockTxs[b][j])

ModifiedFee(t) == Fee[t] + delta[t]
SizeOf(S) == MapThenSumSet(LAMBDA t : Size[t], S)

(* The least set of entries that holds S and with an entry its links.      *)
Closure(S, links) ==
    LET closed == {T \in SUBSET pool : S \subseteq T /\ \A t \in T : links[t] \subseteq T}
    IN  {t \in pool : \A T \in closed : t \in T}

CalculateDescendants(S) == Closure(S, children)

(* What SetDirty leaves is a count of zero: such an entry is never updated *)
(* again.                                                                  *)
IsDirty(t) == state[t].count = 0
UpdateState(t, count, size, fees) ==
    IF IsDirty(t) THEN state[t]
    ELSE [count |-> state[t].count + count, size |-> state[t].size + size,
          fees |-> state[t].fees + fees]

(* CalculateMemPoolAncestors of a transaction that is not in the pool: the *)
(* parents are searched in mapTx, their ancestors follow mapLinks.         *)
MempoolParents(t) == {p \in pool : Spends(t, p)}
MempoolAncestors(t) == Closure(MempoolParents(t), parents)

WithinLimits(t) ==
    LET anc == MempoolAncestors(t)
    IN  /\ Cardinality(anc) + 1 <= LimitAncestors \/ anc = {}
        /\ Size[t] + SizeOf(anc) <= LimitAncestorSize \/ anc = {}
        /\ \A a \in anc : /\ state[a].size + Size[t] <= LimitDescendantSize
                          /\ state[a].count + 1 <= LimitDescendants

-----------------------------------------------------------------------------
(* addUnchecked and RemoveStaged.                                          *)

AddUnchecked(t, points) ==
    LET fee == Fee[t] + deltas[t]
        anc == MempoolAncestors(t)
        par == MempoolParents(t)
    IN  /\ pool' = pool \cup {t}
        /\ delta' = [delta EXCEPT ![t] = deltas[t]]
        /\ lp' = [lp EXCEPT ![t] = points]
        /\ next' = [o \in Outpoints |-> IF o \in Ins[t] THEN t ELSE next[o]]
        /\ parents' = [parents EXCEPT ![t] = par]
        /\ children' = [p \in Txs |-> IF p \in par THEN children[p] \cup {t} ELSE children[p]]
        /\ state' = [a \in Txs |->
              IF a = t THEN [count |-> 1, size |-> Size[t], fees |-> fee]
              ELSE IF a \in anc THEN UpdateState(a, 1, Size[t], fee)
              ELSE state[a]]

(* UpdateForRemoveFromMempool walks the ancestors of every entry to be     *)
(* removed by their parent links, takes it out of their state, and severs  *)
(* the links from both sides; removeUnchecked then erases the entries.     *)
\* Mutant of LeftBehind: only the parents are updated.
LeftBehindParents(t, stage) == {r \in stage : t \in parents[r]}

LeftBehind(t, stage) == {r \in stage : t \in Closure(parents[r], parents)}

\* Mutant of SeveredParents: UpdateChildrenForRemoval is not called.
KeptParents(t, stage) == parents[t]

SeveredParents(t, stage) == parents[t] \ {r \in stage : t \in children[r]}

RemoveEntries(stage) ==
    /\ pool' = pool \ stage
    /\ next' = [o \in Outpoints |->
          IF \E r \in stage : o \in Ins[r] THEN None ELSE next[o]]
    /\ parents' = [t \in Txs |->
          IF t \in stage THEN {} ELSE SeveredParents(t, stage)]
    /\ children' = [t \in Txs |->
          IF t \in stage THEN {} ELSE children[t] \ {r \in stage : t \in parents[r]}]
    /\ state' = [t \in Txs |->
          IF t \in stage \/ t \notin pool THEN NoState
          ELSE LET gone == LeftBehind(t, stage)
               IN  UpdateState(t, -Cardinality(gone), -SizeOf(gone),
                               -MapThenSumSet(ModifiedFee, gone))]
    /\ delta' = [t \in Txs |-> IF t \in stage THEN 0 ELSE delta[t]]

RemoveStaged(stage) ==
    /\ RemoveEntries(stage)
    /\ lp' = [t \in Txs |-> IF t \in stage THEN NoPoints ELSE lp[t]]

(* remove(tx, true) of a transaction that is not in the pool removes what  *)
(* spends it.                                                              *)
\* Mutant of RecursiveRemoves: spenders of a missing transaction stay.
RemovesItself(t) == CalculateDescendants({t} \cap pool)

RecursiveRemoves(t) ==
    CalculateDescendants(IF t \in pool THEN {t}
                         ELSE {next[o] : o \in {t} \X OutIdx[t]} \ {None})

-----------------------------------------------------------------------------
(* Finality.                                                               *)

HaveCoins(t) == t \in pool \/ \E o \in Unspent[coins] : o[1] = t

IsFinalTx(t, h) == LockTime[t] < h
CheckFinalTx(t) == IsFinalTx(t, Height[tip] + 1)

InputHeights(t) ==
    {IF o[1] \in pool THEN Height[tip] + 1 ELSE CoinHeight[coins][o[1]] : o \in Ins[t]}

(* Without a relative lock maxInputBlock is computed all the same.         *)
CalculateLockPoints(t) ==
    LET heights == InputHeights(t)
    IN  [height |-> IF RelLock[t] = NoLock THEN -1 ELSE Max(heights) + RelLock[t] - 1,
         block  |-> Ancestor(tip, Max({0} \cup (heights \ {Height[tip] + 1})))]

\* Mutant of TestLockPointValidity: lock points are used after a reorganisation.
AlwaysValid(t) == TRUE

TestLockPointValidity(t) == lp[t].block \in Anc[tip]

EvaluateSequenceLocks(points) == points.height < Height[tip] + 1

(* The coinbases among the inputs are mature in a block of height h.       *)
Matured(t, h) ==
    \A o \in Ins[t] : o[1] \in Coinbases /\ o[1] \notin pool =>
        h - CoinHeight[coins][o[1]] >= Maturity

-----------------------------------------------------------------------------
(* Fees.                                                                   *)

(* GetMinFee: once a block has come since the last eviction, the rolling   *)
(* minimum decays with time, by whatever has passed since the last call.   *)
Decayed ==
    IF ~blockSince \/ rolling = 0 THEN {rolling}
    ELSE {0} \cup {r \in 1..rolling : 2 * r >= MinRelay}

MinFee(r) ==
    IF blockSince /\ r # 0 THEN Max({r, MinRelay}) ELSE r

PaysEnough(t, r) == Fee[t] + deltas[t] >= MinFee(r) * Size[t] \/ MinFee(r) = 0

(* CompareTxMemPoolEntryByDescendantScore; entries with equal scores come  *)
(* in any order.                                                           *)
UseDescendantScore(t) == state[t].fees * Size[t] > ModifiedFee(t) * state[t].size
ScoreFees(t) == IF UseDescendantScore(t) THEN state[t].fees ELSE ModifiedFee(t)
ScoreSize(t) == IF UseDescendantScore(t) THEN state[t].size ELSE Size[t]
LowestScore ==
    {t \in pool : \A u \in pool :
        ScoreFees(t) * ScoreSize(u) <= ScoreFees(u) * ScoreSize(t)}

(* DynamicMemoryUsage: the entries and mapDeltas, whose elements stay when *)
(* the transaction is evicted (a sum that is 0 again is taken for none).   *)
Prioritised == {t \in Txs : deltas[t] # 0}
Usage == SizeOf(pool) + DeltaSize * Cardinality(Prioritised)

-----------------------------------------------------------------------------
(* AcceptToMemoryPool.                                                     *)

Acceptable(t) ==
    /\ t \notin Coinbases
    /\ CheckFinalTx(t)
    /\ t \notin pool
    /\ \A o \in Ins[t] : next[o] = None
    /\ ~HaveCoins(t)
    /\ \A o \in Ins[t] : o[1] \in pool \/ o \in Unspent[coins]
    /\ EvaluateSequenceLocks(CalculateLockPoints(t))
    /\ WithinLimits(t)
    /\ Matured(t, Height[coins] + 1)

AcceptToMemoryPool(t) ==
    /\ pc = "idle"
    /\ Acceptable(t)
    /\ \E r \in Decayed : PaysEnough(t, r) /\ rolling' = r
    /\ AddUnchecked(t, CalculateLockPoints(t))
    /\ pc' = "expire" /\ mode' = "accept" /\ todo' = <<t>>
    /\ UNCHANGED <<chainVars, deltas, blockSince, readded, undone>>

(* What a rejected transaction, or a question for the minimum, leaves.     *)
GetMinFee ==
    /\ pc = "idle"
    /\ \E r \in Decayed : rolling' = r
    /\ UNCHANGED <<chainVars, entryVars, deltas, blockSince, callVars>>

(* LimitMempoolSize: first what is too old, with its descendants.          *)
Expire ==
    /\ pc = "expire"
    /\ \E old \in SUBSET (pool \ Range(todo)) : RemoveStaged(CalculateDescendants(old))
    /\ pc' = "trim" /\ todo' = <<>>
    /\ UNCHANGED <<chainVars, deltas, feeVars, mode, readded, undone>>

(* Then the packages with the lowest score until the pool is small enough. *)
TrimToSize ==
    /\ pc = "trim" /\ Usage > MaxUsage
    /\ \E t \in LowestScore :
          LET rate == state[t].fees \div state[t].size + MinRelay
          IN  /\ RemoveStaged(CalculateDescendants({t}))
              /\ IF rate > rolling THEN rolling' = rate /\ blockSince' = FALSE
                 ELSE UNCHANGED feeVars
    /\ UNCHANGED <<chainVars, deltas, callVars>>

Trimmed ==
    /\ pc = "trim" /\ Usage <= MaxUsage
    /\ pc' = IF mode = "invalidate" THEN "reorg" ELSE "idle"
    /\ mode' = IF mode = "invalidate" THEN mode ELSE "none"
    /\ undone' = IF mode = "invalidate" THEN undone ELSE {}
    /\ UNCHANGED <<chainVars, entryVars, deltas, feeVars, todo, readded>>

PrioritiseBy(t, d) ==
    /\ deltas' = [deltas EXCEPT ![t] = @ + d]
    /\ IF t \in pool
       THEN /\ delta' = [delta EXCEPT ![t] = deltas[t] + d]
            /\ state' = [a \in Txs |->
                  IF a = t THEN [state[t] EXCEPT !.fees = @ + (deltas[t] + d - delta[t])]
                  ELSE IF a \in Closure(parents[t], parents) THEN UpdateState(a, 0, 0, d)
                  ELSE state[a]]
       ELSE UNCHANGED <<delta, state>>

PrioritiseTransaction(t) ==
    /\ pc = "idle"
    /\ \E sum \in Deltas[t] \ {deltas[t]} : PrioritiseBy(t, sum - deltas[t])
    /\ UNCHANGED <<chainVars, pool, linkVars, lp, feeVars, callVars>>

-----------------------------------------------------------------------------
(* A block is connected: removeForBlock, then UpdateTip.                   *)

ConnectTip(b) ==
    /\ pc = "idle" \/ (pc = "moved" /\ mode \in {"step", "connect"})
    /\ b # Base /\ Parent[b] = tip /\ b \notin undone
    /\ coins' = b
    /\ pc' = "connect" /\ todo' = BlockTxs[b]
    /\ mode' = IF pc = "idle" THEN "extend" ELSE "connect"
    /\ UNCHANGED <<tip, entryVars, deltas, feeVars, readded, undone>>

(* An entry of the block goes alone.  If the block's transaction is not in *)
(* the pool, what spends its inputs goes with all descendants.             *)
Conflicts(t) == {next[o] : o \in Ins[t]} \ {None, t}
RemovedForBlock(t) == IF t \in pool THEN {t} ELSE CalculateDescendants(Conflicts(t))

(* removeConflicts clears the delta of a conflicting transaction by a      *)
(* reference into the entry it has just erased: the hash it reads may be   *)
(* the right one or not.                                                   *)
RemoveForBlock ==
    /\ pc = "connect" /\ todo # <<>>
    /\ LET t == Head(todo)
       IN  /\ RemoveStaged(RemovedForBlock(t))
           /\ \E read \in SUBSET (IF t \in pool THEN {} ELSE Conflicts(t)) :
                 deltas' = [u \in Txs |-> IF u \in read \cup {t} THEN 0 ELSE deltas[u]]
    /\ todo' = Tail(todo)
    /\ UNCHANGED <<chainVars, feeVars, pc, mode, readded, undone>>

Connected ==
    /\ pc = "connect" /\ todo = <<>>
    /\ tip' = coins /\ blockSince' = TRUE
    /\ pc' = IF mode = "extend" THEN "idle" ELSE "moved"
    /\ mode' = IF mode = "extend" THEN "none" ELSE mode
    /\ UNCHANGED <<coins, entryVars, deltas, rolling, todo, readded, undone>>

-----------------------------------------------------------------------------
(* A block is disconnected: its transactions come back if they can.        *)

DisconnectTip(caller) ==
    /\ \/ pc = "idle"
       \/ pc = "moved" /\ mode = caller
    /\ tip # Base
    /\ coins' = Parent[tip]
    /\ pc' = "resurrect" /\ mode' = caller
    /\ todo' = BlockTxs[tip] /\ readded' = <<>>
    /\ undone' = undone \cup {tip}
    /\ UNCHANGED <<tip, entryVars, deltas, feeVars>>

Resurrect ==
    /\ pc = "resurrect" /\ todo # <<>>
    /\ LET t == Head(todo)
       IN  \/ /\ Acceptable(t)
              /\ \E r \in Decayed : PaysEnough(t, r) /\ rolling' = r
              /\ AddUnchecked(t, CalculateLockPoints(t))
              /\ readded' = Append(readded, t)
           \/ /\ RemoveStaged(RecursiveRemoves(t))
              /\ rolling' \in Decayed
              /\ UNCHANGED readded
    /\ todo' = Tail(todo)
    /\ UNCHANGED <<chainVars, deltas, blockSince, pc, mode, undone>>

Resurrected ==
    /\ pc = "resurrect" /\ todo = <<>>
    /\ pc' = "update" /\ todo' = Reverse(readded)
    /\ UNCHANGED <<chainVars, entryVars, deltas, feeVars, mode, readded, undone>>

(* UpdateTransactionsFromBlock, from the last transaction that came back   *)
(* to the first: link the children that were in the pool before, then      *)
(* UpdateForDescendants.  It gives up on a dirty descendant, and when too  *)
(* many entries beyond the children would have to be visited; entries that *)
(* came back with the block are already accounted for.                     *)
\* Mutant of NewChildren: the test against setAlreadyIncluded is inverted.
NewChildrenInBlock(t) ==
    ({next[o] : o \in {t} \X OutIdx[t]} \ {None}) \cap Range(readded)

NewChildren(t) ==
    ({next[o] : o \in {t} \X OutIdx[t]} \ {None}) \ Range(readded)

TooMany(t, below, links) ==
    Cardinality((below \ Range(readded)) \ links[t]) > MaxVisit

UpdateForDescendants(t, links) ==
    LET below == Closure(links[t], links)
        added == below \ Range(readded)
    IN  IF (\E u \in below : IsDirty(u)) \/ TooMany(t, below, links)
        THEN [count |-> 0, size |-> Size[t], fees |-> ModifiedFee(t)]
        ELSE UpdateState(t, Cardinality(added), SizeOf(added),
                         MapThenSumSet(ModifiedFee, added))

UpdateTransactionsFromBlock ==
    /\ pc = "update" /\ todo # <<>>
    /\ LET t == Head(todo)
           new == NewChildren(t)
           links == [children EXCEPT ![t] = @ \cup new]
       IN  IF t \in pool
           THEN /\ children' = links
                /\ parents' = [c \in Txs |-> IF c \in new THEN parents[c] \cup {t} ELSE parents[c]]
                /\ state' = [state EXCEPT ![t] = UpdateForDescendants(t, links)]
           ELSE UNCHANGED <<children, parents, state>>
    /\ todo' = Tail(todo)
    /\ UNCHANGED <<chainVars, pool, next, delta, lp, deltas, feeVars, pc, mode, readded, undone>>

Disconnected ==
    /\ pc = "update" /\ todo = <<>>
    /\ tip' = coins
    /\ pc' = "moved" /\ readded' = <<>>
    /\ UNCHANGED <<coins, entryVars, deltas, feeVars, mode, todo, undone>>

(* ActivateBestChainStep cleans up by removeForReorg and LimitMempoolSize, *)
(* InvalidateBlock the other way round.                                    *)
CallEnds ==
    /\ pc = "moved"
    /\ pc' = IF mode = "invalidate" THEN "expire" ELSE "reorg"
    /\ UNCHANGED <<chainVars, entryVars, deltas, feeVars, mode, todo, readded, undone>>

(* removeForReorg: entries that cannot be in the next block go with their  *)
(* descendants; lock points that were computed on a disconnected block are *)
(* computed again.                                                         *)
PointsNow(t) == IF TestLockPointValidity(t) THEN lp[t] ELSE CalculateLockPoints(t)
MissingInput(t) == \E o \in Ins[t] : ~HaveCoins(o[1])
SpendsCoinbase(t) == \E o \in Ins[t] : o[1] \in Coinbases
Unminable ==
    {t \in pool : \/ ~CheckFinalTx(t)
                  \/ ~TestLockPointValidity(t) /\ MissingInput(t)
                  \/ ~EvaluateSequenceLocks(PointsNow(t))
                  \/ SpendsCoinbase(t) /\ (MissingInput(t) \/ ~Matured(t, Height[tip] + 1))}

\* Mutant of AfterReorg: LimitMempoolSize is forgotten.
NoLimitAfterReorg == "idle"

AfterReorg == IF mode = "invalidate" THEN "idle" ELSE "expire"

RemoveForReorg ==
    /\ pc = "reorg"
    /\ LET stage == CalculateDescendants(Unminable)
       IN  /\ RemoveEntries(stage)
           /\ lp' = [t \in Txs |-> IF t \in stage THEN NoPoints
                                    ELSE IF t \in pool THEN PointsNow(t) ELSE lp[t]]
    /\ pc' = AfterReorg
    /\ mode' = IF mode = "invalidate" THEN "none" ELSE mode
    /\ undone' = IF mode = "invalidate" THEN {} ELSE undone
    /\ UNCHANGED <<chainVars, deltas, feeVars, todo, readded>>

-----------------------------------------------------------------------------
Init ==
    /\ tip = Base /\ coins = Base
    /\ pool = {} /\ next = [o \in Outpoints |-> None]
    /\ parents = [t \in Txs |-> {}] /\ children = [t \in Txs |-> {}]
    /\ state = [t \in Txs |-> NoState] /\ delta = [t \in Txs |-> 0]
    /\ lp = [t \in Txs |-> NoPoints]
    /\ deltas = [t \in Txs |-> 0]
    /\ rolling = 0 /\ blockSince = FALSE
    /\ pc = "idle" /\ mode = "none" /\ todo = <<>> /\ readded = <<>> /\ undone = {}

Next ==
    \/ \E t \in Txs : AcceptToMemoryPool(t) \/ PrioritiseTransaction(t)
    \/ GetMinFee \/ Expire \/ TrimToSize \/ Trimmed
    \/ \E b \in Blocks : ConnectTip(b)
    \/ RemoveForBlock \/ Connected
    \/ \E caller \in {"step", "invalidate"} : DisconnectTip(caller)
    \/ Resurrect \/ Resurrected \/ UpdateTransactionsFromBlock \/ Disconnected
    \/ CallEnds \/ RemoveForReorg

Spec == Init /\ [][Next]_vars

-----------------------------------------------------------------------------
(* Properties.                                                             *)

\* Every variable has its type: entries have links, totals and lock points, and
\* the links lead to entries only, also in the middle of a call.
TypeOK ==
    /\ tip \in Blocks /\ coins \in Blocks /\ undone \subseteq Blocks
    /\ pool \subseteq Txs
    /\ next \in [Outpoints -> pool \cup {None}]
    /\ parents \in [Txs -> SUBSET pool] /\ children \in [Txs -> SUBSET pool]
    /\ state \in [Txs -> [count : Nat, size : Nat, fees : Int]]
    /\ delta \in [Txs -> Int] /\ deltas \in [Txs -> Int]
    /\ lp \in [Txs -> [height : Int, block : Blocks]]
    /\ rolling \in Nat /\ blockSince \in BOOLEAN
    /\ pc \in {"idle", "expire", "trim", "connect", "resurrect", "update", "moved", "reorg"}
    /\ mode \in {"none", "accept", "extend", "step", "connect", "invalidate"}
    /\ todo \in Seq(Txs) /\ readded \in Seq(Txs)

(* While DisconnectTip brings transactions back, their links to entries    *)
(* that were in the pool before are still missing.                         *)
Linked == pc \notin {"resurrect", "update"}

(* mapNextTx names exactly the entries and what they spend, so no two      *)
(* entries spend the same output; and outside DisconnectTip mapLinks is    *)
(* exactly the relation between the entries that mapNextTx describes       *)
(* (the assertions of CTxMemPool::check, txmempool.cpp:647-660, 700-708).  *)
LinksExact ==
    /\ \A t \in pool, o \in Outpoints : o \in Ins[t] <=> next[o] = t
    /\ Linked => \A t \in pool : /\ parents[t] = {p \in pool : Spends(t, p)}
                                  /\ children[t] = {c \in pool : Spends(c, t)}

(* Outside DisconnectTip the count, size and fees that an entry caches for *)
(* itself and its descendants are right, or the entry is dirty and has its *)
(* own size and fees (txmempool.cpp:662-669 asserts a part of it).  The    *)
(* entries' deltas are those of mapDeltas.                                 *)
DescendantsExact ==
    /\ \A t \in pool : delta[t] = deltas[t]
    /\ Linked => \A t \in pool :
          LET all == IF IsDirty(t) THEN {t}
                     ELSE Closure({t}, [p \in pool |-> {c \in pool : Spends(c, p)}])
          IN  /\ ~IsDirty(t) => state[t].count = Cardinality(all)
              /\ state[t].size = SizeOf(all)
              /\ state[t].fees = MapThenSumSet(ModifiedFee, all)

(* CTxMemPool::check on an entry's links and totals, with the types, which *)
(* say that links lead to entries only, also in the middle of a call.      *)
PoolConsistent == TypeOK /\ LinksExact /\ DescendantsExact

(* What an entry spends is an output of another entry or unspent in the    *)
(* chain, except while the pool is being adapted to a block                *)
(* (txmempool.cpp:633-645).                                                *)
InputsAvailable ==
    pc \notin {"connect", "resurrect"} =>
        \A t \in pool : \A o \in Ins[t] : o[1] \in pool \/ o \in Unspent[coins]

(* Between calls every entry can be in the next block, its in-pool         *)
(* ancestors given: it is final, its relative locks, computed afresh, have *)
(* passed and the coinbases it spends are mature (removeForReorg).         *)
MinableWhenIdle ==
    pc = "idle" => \A t \in pool :
        /\ CheckFinalTx(t)
        /\ EvaluateSequenceLocks(CalculateLockPoints(t))
        /\ Matured(t, Height[tip] + 1)

(* Between calls the entries are within the limit, although DisconnectTip  *)
(* puts transactions back without regard to it (LimitMempoolSize).  Of     *)
(* Usage this is not true: PrioritiseTransaction adds to mapDeltas and     *)
(* evicts nothing (txmempool.cpp:794).                                     *)
PoolBounded == pc = "idle" => SizeOf(pool) <= MaxUsage

(* Whatever blocks were connected and disconnected, when the call returns  *)
(* what is left in the pool can be mined and fits into it.                 *)
ReadyWhenIdle == MinableWhenIdle /\ PoolBounded

=============================================================================
