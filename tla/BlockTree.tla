----------------------------- MODULE BlockTree ------------------------------
(***************************************************************************)
(* The block index and the choice of the active chain (src/main.cpp).      *)
(*                                                                         *)
(* The blocks that may ever arrive form a fixed tree.  The node learns     *)
(* their headers and their data in any order, keeps in                     *)
(* setBlockIndexCandidates the tips worth switching to and in              *)
(* mapBlocksUnlinked the blocks whose parents' data is missing, and moves  *)
(* the active chain to the best candidate in several steps.                *)
(*                                                                         *)
(* The index is protected by cs_main, so what is done under one LOCK is    *)
(* one step.  ActivateBestChain releases cs_main between its steps, and    *)
(* several threads (message handler, RPC, import) may be inside it.        *)
(***************************************************************************)
EXTENDS Integers, FiniteSets

CONSTANTS
    Blocks,        \* the blocks that may arrive
    Genesis,
    Parent,        \* pprev of every block but Genesis
    Anc,           \* Anc[b]: b and the blocks pprev leads to from b
    Height,        \* nHeight
    Work,          \* nChainWork
    Addr,          \* the address of the CBlockIndex, the last tie breaker
    ContextBad,    \* blocks ContextualCheckBlock rejects
    ConnectBad,    \* blocks ConnectBlock rejects
    Threads,       \* the threads that process blocks
    MIN_BLOCKS_TO_KEEP,
    Budgets        \* how often, at most, the rare operations happen together

RareOps == {"invalidate", "reconsider", "prune", "shutdown"}

ASSUME TreeAssumption ==
    /\ Genesis \in Blocks
    /\ IsFiniteSet(Blocks)
    /\ Parent \in [Blocks \ {Genesis} -> Blocks]
    /\ Anc \in [Blocks -> SUBSET Blocks]
    /\ Anc[Genesis] = {Genesis}
    /\ \A b \in Blocks \ {Genesis} : Anc[b] = {b} \cup Anc[Parent[b]]
    /\ Height \in [Blocks -> Nat]
    /\ \A b \in Blocks \ {Genesis} : Height[b] = Height[Parent[b]] + 1
    /\ Work \in [Blocks -> Nat]
    /\ \A b \in Blocks \ {Genesis} : Work[b] > Work[Parent[b]]
    /\ Addr \in [Blocks -> Nat]
    /\ \A a, b \in Blocks : Addr[a] = Addr[b] => a = b
    /\ Genesis \notin ContextBad \cup ConnectBad
    /\ MIN_BLOCKS_TO_KEEP \in Nat
    /\ Budgets \subseteq [RareOps -> Nat]

VARIABLES
    index,        \* Blocks::indexMap
    haveData,     \* BLOCK_HAVE_DATA
    haveUndo,     \* BLOCK_HAVE_UNDO
    failedValid,  \* BLOCK_FAILED_VALID
    failedChild,  \* BLOCK_FAILED_CHILD
    received,     \* nTx > 0, which is also BLOCK_VALID_TRANSACTIONS
    linked,       \* nChainTx > 0
    seqId,        \* nSequenceId
    nextSeqId,    \* nBlockSequenceId
    candidates,   \* setBlockIndexCandidates
    unlinked,     \* how often (b's parent, b) is in mapBlocksUnlinked
    tip,          \* chainActive.Tip()
    pc,           \* what each thread does
    mostWork,     \* pindexMostWork in each thread's ActivateBestChain
    shutdown,     \* fRequestShutdown
    sysError,     \* history: an activation returned false
    unremoved,    \* history: blocks marked by an InvalidateBlock that could not
                  \* disconnect them
    used          \* history: how often each rare operation happened

treeVars == <<index, haveData, haveUndo, failedValid, failedChild, received,
              linked, seqId, nextSeqId, candidates, unlinked>>
vars == <<treeVars, tip, pc, mostWork, shutdown, sysError, unremoved, used>>

-----------------------------------------------------------------------------
(* The tree.                                                               *)

Failed == failedValid \cup failedChild

\* The highest and the lowest block of a set of blocks of one branch.
Highest(S) == CHOOSE b \in S : \A c \in S : Height[c] <= Height[b]
Lowest(S)  == CHOOSE b \in S : \A c \in S : Height[c] >= Height[b]

\* CBlockIndexWorkComparator, with sequence ids s: a sorts before b.
Worse(a, b, s) ==
    \/ Work[a] < Work[b]
    \/ Work[a] = Work[b] /\ s[a] > s[b]
    \/ Work[a] = Work[b] /\ s[a] = s[b] /\ Addr[a] > Addr[b]

\* chainActive.Contains and the blocks between the active chain and b.
Active == Anc[tip]
Path(b) == Anc[b] \ Active

\* The threads wait for cs_main in ActivateBestChain ("activate"), have
\* released it after a step ("stepped"), or do something else ("idle").
Locations == {"idle", "activate", "stepped"}

WithinBudget == \E budget \in Budgets : \A o \in RareOps : used'[o] <= budget[o]

Spend(op) == used' = [used EXCEPT ![op] = @ + 1] /\ WithinBudget
SpendBoth(op1, op2) == used' = [used EXCEPT ![op1] = @ + 1, ![op2] = @ + 1] /\ WithinBudget

-----------------------------------------------------------------------------
(* Headers and blocks arrive.                                              *)

\* AcceptBlockHeader on a new header (a known one changes nothing) and
\* AddToBlockIndex.
HeaderAcceptable(b) == b \notin index /\ Parent[b] \in index \ Failed

AcceptBlockHeader(b) ==
    /\ ~shutdown
    /\ HeaderAcceptable(b)
    /\ index' = index \cup {b}
    /\ UNCHANGED <<haveData, haveUndo, failedValid, failedChild, received, linked,
                   seqId, nextSeqId, candidates, unlinked,
                   tip, pc, mostWork, shutdown, sysError, unremoved, used>>

\* Mutant of NewlyLinked: waiting descendants are forgotten.
NewlyLinkedAlone(b) == {b}

\* The blocks that become linked when the data of b arrives and its parent is
\* linked: b, and descendants of b reachable through mapBlocksUnlinked.
NewlyLinked(b) ==
    {b} \cup {d \in index : /\ b \in Anc[d]
                            /\ \A x \in Anc[d] \ Anc[b] : unlinked[x] > 0}

\* The entries of the queue they pass through: b once, the others as often as they
\* are in mapBlocksUnlinked.
QueueEntries(b) ==
    UNION {{d} \X (1 .. IF d = b THEN 1 ELSE unlinked[d]) : d \in NewlyLinked(b)}

\* The sequence ids handed out breadth first, one to every entry, of which a block
\* keeps the last.  The order among children of one parent is the multimap's; any
\* order, and any id left behind by a block with several entries, is allowed here.
Numberings(b) ==
    {f \in [NewlyLinked(b) -> nextSeqId .. nextSeqId + Cardinality(QueueEntries(b)) - 1] :
        \A x, y \in NewlyLinked(b) : /\ Height[x] < Height[y] => f[x] < f[y]
                                     /\ x # y => f[x] # f[y]}

\* A block whose parent is not linked waits in mapBlocksUnlinked, unless the
\* parent failed.  Mutant: it does not wait.
WaitsNever(b) == 0

Waits(b) == IF Parent[b] \in Failed THEN 0 ELSE 1

ReceivedBlockTransactions(b) ==
    /\ haveData' = haveData \cup {b}
    /\ received' = received \cup {b}
    /\ IF b = Genesis \/ Parent[b] \in linked
       THEN LET L == NewlyLinked(b)
            IN  /\ linked' = linked \cup L
                /\ \E f \in Numberings(b) :
                      seqId' = [x \in Blocks |-> IF x \in L THEN f[x] ELSE seqId[x]]
                /\ nextSeqId' = nextSeqId + Cardinality(QueueEntries(b))
                /\ candidates' = candidates \cup {x \in L : ~Worse(x, tip, seqId')}
                /\ unlinked' = [x \in Blocks |-> IF x \in L \ {b} THEN 0 ELSE unlinked[x]]
       ELSE /\ linked' = linked \ {b}
            /\ unlinked' = [unlinked EXCEPT ![b] = @ + Waits(b)]
            /\ UNCHANGED <<seqId, nextSeqId, candidates>>

\* Mutant of WantBlock: a stored block is stored again when requested.
WantBlockAgain(b, fRequested) ==
    ~fRequested => /\ b \notin received
                   /\ Work[b] > Work[tip]
                   /\ Height[b] <= Height[tip] + MIN_BLOCKS_TO_KEEP

\* Whether AcceptBlock stores the block instead of ignoring it.
WantBlock(b, fRequested) ==
    /\ b \notin haveData
    /\ ~fRequested => /\ b \notin received
                      /\ Work[b] > Work[tip]
                      /\ Height[b] <= Height[tip] + MIN_BLOCKS_TO_KEEP

\* ProcessNewBlock up to the release of cs_main, on a block that passes
\* CheckBlock: AcceptBlock, which first accepts the header.  Unless it fails,
\* ActivateBestChain follows.
IgnoreBlock(t, b, fRequested) ==
    /\ ~WantBlock(b, fRequested)
    /\ pc' = [pc EXCEPT ![t] = "activate"]
    /\ UNCHANGED <<haveData, failedValid, received, linked, seqId, nextSeqId,
                   candidates, unlinked>>

RejectBlock(b, fRequested) ==
    /\ WantBlock(b, fRequested)
    /\ b \in ContextBad
    /\ failedValid' = failedValid \cup {b}
    /\ UNCHANGED <<haveData, received, linked, seqId, nextSeqId, candidates,
                   unlinked, pc>>

StoreBlock(t, b, fRequested) ==
    /\ WantBlock(b, fRequested)
    /\ b \notin ContextBad
    /\ ReceivedBlockTransactions(b)
    /\ pc' = [pc EXCEPT ![t] = "activate"]
    /\ UNCHANGED failedValid

ProcessNewBlock(t, b, fRequested) ==
    /\ ~shutdown
    /\ pc[t] = "idle"
    /\ b \in index \ Failed \/ HeaderAcceptable(b)
    /\ index' = index \cup {b}
    /\ \/ IgnoreBlock(t, b, fRequested)
       \/ RejectBlock(b, fRequested)
       \/ StoreBlock(t, b, fRequested)
    /\ UNCHANGED <<haveUndo, failedChild, tip, mostWork, shutdown, sysError, unremoved, used>>

-----------------------------------------------------------------------------
(* FindMostWorkChain.  Its loop takes the best candidate, drops it if the  *)
(* path to it holds a failed block or misses data, and takes the next one. *)
(* Dropping a candidate only changes blocks whose paths are unusable       *)
(* already, so the loop's effect is described at once.                     *)

Unusable(b) == {a \in Path(b) : a \in Failed \/ a \notin haveData}
UsableCandidates == {c \in candidates : Unusable(c) = {}}

\* Mutant of Above: the walk does not stop at the obstacle.
AboveActiveChain(c) == Path(c)

\* The block the walk down from c stops at, and the blocks above it.
Obstacle(c) == Highest(Unusable(c))
Above(c) == {a \in Path(c) : Height[a] > Height[Obstacle(c)]}

\* The candidates better than every usable one, and those of them that are
\* still there when their turn comes.
Hopeless == {c \in candidates : /\ Unusable(c) # {}
                                /\ \A u \in UsableCandidates : Worse(u, c, seqId)}
Turns == {c \in Hopeless : \A d \in Hopeless \ {c} : c \notin Above(d) \cup {Obstacle(d)}}

Remaining == candidates \ UNION {Above(c) \cup {Obstacle(c)} : c \in Turns}

\* What it returns: at most one block.
MostWork == {c \in UsableCandidates : \A d \in UsableCandidates : ~Worse(c, d, seqId)}

\* How often b is put back into mapBlocksUnlinked because data is missing.
\* Mutant: never.
PutBackNever(b) == 0

PutBack(b) == Cardinality({c \in Turns : b \in Above(c) /\ Obstacle(c) \notin Failed})

FindMostWorkChain ==
    /\ failedChild' = failedChild \cup
                      UNION {Above(c) : c \in {d \in Turns : Obstacle(d) \in Failed}}
    /\ unlinked' = [b \in Blocks |-> unlinked[b] + PutBack(b)]

-----------------------------------------------------------------------------
(* ActivateBestChainStep towards target, with cs_main held since           *)
(* FindMostWorkChain.                                                      *)

\* A step ends at the first block with more work than the old tip.
Goal(target) ==
    LET better == {b \in Path(target) : Work[b] > Work[tip]}
    IN  IF better = {} THEN target ELSE Lowest(better)

\* Mutant of Refused: only the last block of a step is validated.
RefusedLast(target) == {Goal(target)} \cap ConnectBad

\* The blocks to disconnect that DisconnectTip cannot read back or undo, and
\* the blocks to connect that ConnectBlock refuses.
Stuck(target) == {d \in Active \ Anc[target] : d \notin haveData \cap haveUndo}
Refused(target) == Path(target) \cap Anc[Goal(target)] \cap ConnectBad

\* DisconnectTip down to the fork and ConnectTip up to newTip; every connected
\* block is followed by PruneBlockIndexCandidates.
MoveTip(target, newTip) ==
    /\ tip' = newTip
    /\ haveUndo' = haveUndo \cup (Path(target) \cap Anc[newTip])

StillCandidates(target, newTip) ==
    IF newTip \in Path(target) THEN {c \in Remaining : ~Worse(c, newTip, seqId)}
                               ELSE Remaining

StepSucceeds(t, target) ==
    /\ Stuck(target) = {} /\ Refused(target) = {}
    /\ MoveTip(target, Goal(target))
    /\ candidates' = StillCandidates(target, Goal(target))
    /\ pc' = [pc EXCEPT ![t] = "stepped"]
    /\ UNCHANGED <<failedValid, shutdown, sysError, used>>

\* Mutant of StepMeetsInvalidBlock: the block is not marked as failed.
StepKeepsInvalidBlock(t, target) ==
    /\ Stuck(target) = {} /\ Refused(target) # {}
    /\ LET bad == Lowest(Refused(target))
       IN  /\ MoveTip(target, Parent[bad])
           /\ candidates' = StillCandidates(target, Parent[bad])
    /\ pc' = [pc EXCEPT ![t] = "stepped"]
    /\ UNCHANGED <<failedValid, shutdown, sysError, used>>

\* InvalidBlockFound: the block that breaks a rule is marked, the tip stays at
\* its parent.
StepMeetsInvalidBlock(t, target) ==
    /\ Stuck(target) = {} /\ Refused(target) # {}
    /\ LET bad == Lowest(Refused(target))
       IN  /\ MoveTip(target, Parent[bad])
           /\ candidates' = StillCandidates(target, Parent[bad]) \ {bad}
           /\ failedValid' = failedValid \cup {bad}
    /\ pc' = [pc EXCEPT ![t] = "stepped"]
    /\ UNCHANGED <<shutdown, sysError, used>>

\* A block cannot be disconnected: AbortNode if its data is gone, an error if
\* only its undo data is.
StepIsStuck(t, target) ==
    /\ Stuck(target) # {}
    /\ MoveTip(target, Highest(Stuck(target)))
    /\ candidates' = Remaining
    /\ pc' = [pc EXCEPT ![t] = "idle"]
    /\ sysError' = TRUE
    /\ shutdown' = (shutdown \/ Highest(Stuck(target)) \notin haveData)
    /\ UNCHANGED <<failedValid, used>>

\* A system error (disk space, database) at any point on the way: AbortNode.
StepAborts(t, target) ==
    /\ Stuck(target) = {}
    /\ Spend("shutdown")
    /\ \E n \in {Highest(Active \cap Anc[target])} \cup (Active \ Anc[target])
                \cup (Path(target) \cap Anc[Goal(target)]) :
          /\ Anc[n] \cap Refused(target) = {}
          /\ MoveTip(target, n)
          /\ candidates' = StillCandidates(target, n)
    /\ pc' = [pc EXCEPT ![t] = "idle"]
    /\ sysError' = TRUE
    /\ shutdown' = TRUE
    /\ UNCHANGED failedValid

-----------------------------------------------------------------------------
(* ActivateBestChain, called after every operation below.                  *)

\* One round of the loop, up to the release of cs_main.
ActivateRound(t) ==
    /\ pc[t] = "activate" /\ ~shutdown
    /\ FindMostWorkChain
    /\ \/ /\ MostWork \subseteq {tip}
          /\ candidates' = Remaining
          /\ pc' = [pc EXCEPT ![t] = "idle"]
          /\ UNCHANGED <<haveUndo, failedValid, tip, mostWork, shutdown, sysError, used>>
       \/ \E target \in MostWork \ {tip} :
             /\ \/ StepSucceeds(t, target)
                \/ StepMeetsInvalidBlock(t, target)
                \/ StepIsStuck(t, target)
                \/ StepAborts(t, target)
             /\ mostWork' = [mostWork EXCEPT ![t] = target]
    /\ UNCHANGED <<index, haveData, received, linked, seqId, nextSeqId, unremoved>>

\* Mutant of LoopTest: one step is enough.
LoopOnce(t) ==
    /\ pc[t] = "stepped"
    /\ pc' = [pc EXCEPT ![t] = "idle"]
    /\ UNCHANGED <<treeVars, tip, mostWork, shutdown, sysError, unremoved, used>>

\* The loop condition, which reads the tip without cs_main.
LoopTest(t) ==
    /\ pc[t] = "stepped"
    /\ pc' = [pc EXCEPT ![t] = IF mostWork[t] # tip THEN "activate" ELSE "idle"]
    /\ UNCHANGED <<treeVars, tip, mostWork, shutdown, sysError, unremoved, used>>

\* The loop is left when a shutdown was requested.
LeaveOnShutdown(t) ==
    /\ pc[t] = "activate" /\ shutdown
    /\ pc' = [pc EXCEPT ![t] = "idle"]
    /\ UNCHANGED <<treeVars, tip, mostWork, shutdown, sysError, unremoved, used>>

ActivateBestChain(t) == ActivateRound(t) \/ LoopTest(t) \/ LeaveOnShutdown(t)

-----------------------------------------------------------------------------
(* The commands invalidateblock and reconsiderblock.                       *)

\* Mutants of Connectable: without the test of nChainTx, and never.
ConnectableUnlinked(b, bad) == b \in index \cap received /\ b \notin bad
NotConnectable(b, bad) == FALSE

\* IsValid(BLOCK_VALID_TRANSACTIONS) and nChainTx, for failure marks bad.
Connectable(b, bad) == b \in index \cap received \cap linked /\ b \notin bad

\* The blocks InvalidateBlock disconnects.  Mutant: none.
DisconnectsNone(b) == {}

Disconnects(b) == IF b \in Active THEN Active \ Anc[Parent[b]] ELSE {}

\* InvalidateBlock when every block of the active chain from b on can be
\* disconnected; invalidateblock then calls ActivateBestChain.
InvalidateBlock(t, b) ==
    /\ ~shutdown
    /\ pc[t] = "idle"
    /\ b \in index \ {Genesis}
    /\ Spend("invalidate")
    /\ LET dropped == Disconnects(b)
           newTip  == IF dropped # {} THEN Parent[b] ELSE tip
       IN  /\ dropped \subseteq haveData \cap haveUndo
           /\ failedValid' = failedValid \cup {b}
           /\ failedChild' = failedChild \cup dropped
           /\ tip' = newTip
           /\ candidates' = (candidates \ ({b} \cup dropped)) \cup
                  {x \in index : /\ Connectable(x, Failed \cup {b} \cup dropped)
                                 /\ ~Worse(x, newTip, seqId)}
    /\ pc' = [pc EXCEPT ![t] = "activate"]
    /\ UNCHANGED <<index, haveData, haveUndo, received, linked, seqId, nextSeqId,
                   unlinked, mostWork, shutdown, sysError, unremoved>>

\* InvalidateBlock when DisconnectTip fails for n: b and the blocks down from the old
\* tip to n are marked already, and b and n stay in the active chain.  The candidates
\* are not completed.  AbortNode if the data of n is gone; if only its undo data is,
\* state stays valid and invalidateblock calls ActivateBestChain all the same; or a
\* system error, also AbortNode, of which FlushStateToDisk's finds the coins at the
\* parent of n already, where the next start then begins.
InvalidateFails(t, b) ==
    /\ ~shutdown
    /\ pc[t] = "idle"
    /\ b \in index \ {Genesis}
    /\ \E n \in Disconnects(b), newTip \in Blocks :
          LET marked == {d \in Disconnects(b) : Height[d] >= Height[n]}
          IN  /\ marked \ {n} \subseteq haveData \cap haveUndo
              /\ \/ /\ n \notin haveData /\ newTip = n
                    /\ Spend("invalidate")
                    /\ shutdown' = TRUE /\ pc' = pc
                 \/ /\ n \in haveData \ haveUndo /\ newTip = n
                    /\ Spend("invalidate")
                    /\ shutdown' = FALSE /\ pc' = [pc EXCEPT ![t] = "activate"]
                 \/ /\ n \in haveData \cap haveUndo /\ newTip \in {n, Parent[n]}
                    /\ SpendBoth("invalidate", "shutdown")
                    /\ shutdown' = TRUE /\ pc' = pc
              /\ tip' = newTip
              /\ failedValid' = failedValid \cup {b}
              /\ failedChild' = failedChild \cup marked
              /\ candidates' = candidates \ ({b} \cup marked)
              /\ unremoved' = unremoved \cup (({b} \cup marked) \cap Anc[newTip])
    /\ UNCHANGED <<index, haveData, haveUndo, received, linked, seqId, nextSeqId,
                   unlinked, mostWork, sysError>>

\* ReconsiderBlock: marks are cleared on the failed descendants of b, which may
\* become candidates, and on the ancestors of b, which may not.
ReconsiderBlock(t, b) ==
    /\ ~shutdown
    /\ pc[t] = "idle"
    /\ b \in index
    /\ Spend("reconsider")
    /\ LET below == {d \in index : b \in Anc[d] /\ ~(d \in received /\ d \notin Failed)}
           clean == below \cup Anc[b]
       IN  /\ failedValid' = failedValid \ clean
           /\ failedChild' = failedChild \ clean
           /\ candidates' = candidates \cup
                  {d \in below : d \in received \cap linked /\ Worse(tip, d, seqId)}
    /\ pc' = [pc EXCEPT ![t] = "activate"]
    /\ UNCHANGED <<index, haveData, haveUndo, received, linked, seqId, nextSeqId,
                   unlinked, tip, mostWork, shutdown, sysError, unremoved>>

-----------------------------------------------------------------------------
(* Pruning, shutdown and restart.                                          *)

\* FindFilesToPrune and PruneOneBlockFile for a file that holds the blocks S;
\* a file is pruned when its highest block is deep enough below the tip.
PruneOneBlockFile(S) ==
    /\ ~shutdown
    /\ S # {} /\ S \subseteq haveData
    /\ \A b \in S : Height[b] + MIN_BLOCKS_TO_KEEP <= Height[tip]
    /\ Spend("prune")
    /\ haveData' = haveData \ S
    /\ haveUndo' = haveUndo \ S
    /\ unlinked' = [b \in Blocks |-> IF b \in S THEN 0 ELSE unlinked[b]]
    /\ UNCHANGED <<index, failedValid, failedChild, received, linked, seqId, nextSeqId,
                   candidates, tip, pc, mostWork, shutdown, sysError, unremoved>>

StartShutdown ==
    /\ ~shutdown
    /\ Spend("shutdown")
    /\ shutdown' = TRUE
    /\ UNCHANGED <<treeVars, tip, pc, mostWork, sysError, unremoved>>

\* What LoadBlockIndexDB recomputes.  Mutants: a block is linked when its own
\* data is there; nothing waits; the tip is not kept as a candidate.
LoadedLinkedAlone == received
LoadedLinked == {b \in received : Anc[b] \subseteq received}

LoadedWaitingNone == {}
LoadedWaiting == received \ LoadedLinked

LoadedBetter(b) == Worse(tip, b, [x \in Blocks |-> 0])
LoadedGoodEnough(b) == ~Worse(b, tip, [x \in Blocks |-> 0])

\* A clean restart: what FlushStateToDisk wrote is read back by
\* LoadBlockIndexDB, which recomputes the rest, and the import thread calls
\* ActivateBestChain.  PruneBlockIndexCandidates asserts that there is a candidate; a
\* failed tip is none, so the node may be unable to start.
Restart(t) ==
    /\ shutdown
    /\ \A u \in Threads : pc[u] = "idle"
    /\ linked' = LoadedLinked
    /\ seqId' = [b \in Blocks |-> 0]
    /\ unlinked' = [b \in Blocks |-> IF b \in LoadedWaiting THEN 1 ELSE 0]
    /\ candidates' = {b \in LoadedLinked : b \notin Failed /\ LoadedGoodEnough(b)}
    /\ candidates' # {}
    /\ nextSeqId' = 1
    /\ pc' = [pc EXCEPT ![t] = "activate"]
    /\ shutdown' = FALSE
    /\ sysError' = FALSE
    /\ UNCHANGED <<index, haveData, haveUndo, failedValid, failedChild, received,
                   tip, mostWork, unremoved, used>>

-----------------------------------------------------------------------------

Init ==
    /\ index = {Genesis} /\ received = {Genesis} /\ linked = {Genesis}
    /\ haveData = {Genesis} /\ haveUndo = {}
    /\ failedValid = {} /\ failedChild = {}
    /\ seqId = [b \in Blocks |-> IF b = Genesis THEN 1 ELSE 0]
    /\ nextSeqId = 2
    /\ candidates = {Genesis}
    /\ unlinked = [b \in Blocks |-> 0]
    /\ tip = Genesis
    /\ pc = [t \in Threads |-> "idle"]
    /\ mostWork = [t \in Threads |-> Genesis]
    /\ shutdown = FALSE /\ sysError = FALSE /\ unremoved = {}
    /\ used = [op \in RareOps |-> 0]

Next ==
    \/ \E b \in Blocks \ {Genesis} : AcceptBlockHeader(b)
    \/ \E t \in Threads, b \in Blocks \ {Genesis}, r \in BOOLEAN : ProcessNewBlock(t, b, r)
    \/ \E t \in Threads : ActivateBestChain(t)
    \/ \E t \in Threads, b \in Blocks : \/ InvalidateBlock(t, b) \/ InvalidateFails(t, b)
                                       \/ ReconsiderBlock(t, b)
    \/ \E S \in SUBSET Blocks : PruneOneBlockFile(S)
    \/ StartShutdown
    \/ \E t \in Threads : Restart(t)

\* A thread inside ActivateBestChain gets cs_main in the end; nothing else is
\* obliged to happen.
Fairness == \A t \in Threads : WF_vars(ActivateBestChain(t))

Spec == Init /\ [][Next]_vars
FairSpec == Spec /\ Fairness

-----------------------------------------------------------------------------
(* Properties.                                                             *)

\* Every variable has its type.  Status flags are consistent: undo data only with
\* data, links only for received blocks, and only linked blocks are candidates
\* or the tip, whatever order headers and data came in.
TypeOK ==
    /\ index \in SUBSET Blocks /\ haveData \in SUBSET index /\ haveUndo \in SUBSET haveData
    /\ failedValid \in SUBSET index /\ failedChild \in SUBSET index
    /\ received \in SUBSET index /\ linked \in SUBSET received
    /\ seqId \in [Blocks -> Nat] /\ nextSeqId \in Nat
    /\ candidates \in SUBSET linked
    /\ unlinked \in [Blocks -> Nat]
    /\ tip \in linked
    /\ pc \in [Threads -> Locations] /\ mostWork \in [Threads -> Blocks]
    /\ shutdown \in BOOLEAN /\ sysError \in BOOLEAN /\ unremoved \in SUBSET index
    /\ used \in [RareOps -> Nat]

\* No thread is inside ActivateBestChain.
Quiet == \A t \in Threads : pc[t] = "idle"

\* Every block of the active chain passed all checks, at every release of cs_main, and
\* the only ones marked as failed are those that an InvalidateBlock marked and then
\* could not disconnect: neither a reorganisation given up half way, nor
\* invalidateblock racing one, nor a restart after such a failure adds another.
ActiveChainSound ==
    /\ Active \cap (ContextBad \cup ConnectBad) = {}
    /\ Active \cap Failed \subseteq unremoved

\* "The result is either failure or an activated best chain": when every
\* ActivateBestChain has returned, no block whose whole path is stored, linked
\* and not failed sorts above the tip.
ActivationPromise ==
    Quiet /\ ~shutdown /\ ~sysError =>
        \A b \in index : Anc[b] \subseteq received /\ Unusable(b) = {}
                            => ~Worse(tip, b, seqId)

\* reconsiderblock, which leaves marks and candidates behind, was not used.
NotReconsidered == used["reconsider"] = 0

\* CheckBlockIndex on setBlockIndexCandidates: a candidate is linked and not
\* worse than the tip; and the tip, and every stored block without failed
\* ancestors that is not worse than the tip, is a candidate.
CandidatesExact ==
    /\ \A b \in candidates : ~Worse(b, tip, seqId)
    /\ \A b \in linked :
          /\ ~Worse(b, tip, seqId)
          /\ Anc[b] \cap failedValid = {}
          /\ Anc[b] \subseteq haveData \/ b = tip
          => b \in candidates

\* Nor did an InvalidateBlock fail half way and leave a failed block active, nor were
\* blocks both pruned and invalidated: a pruned block that invalidateblock makes the
\* tip again and that is downloaded again gets a new sequence id, by which blocks
\* that are not candidates may sort above it.
Regular == /\ NotReconsidered
           /\ unremoved = {}
           /\ used["prune"] = 0 \/ used["invalidate"] = 0

\* As long as that is so, the best chain is active and the candidates are exact
\* whenever every ActivateBestChain has returned, however the calls interleaved,
\* whatever was invalidated or pruned, and after a restart.
BestChainActive ==
    Regular =>
        /\ ActivationPromise
        /\ Quiet /\ ~shutdown /\ ~sysError => CandidatesExact

\* CheckBlockIndex on nChainTx, which is propagated through mapBlocksUnlinked
\* only: a linked block's ancestors were all received, and a block whose whole
\* branch is stored and not failed is linked, in whatever order the branch
\* arrived.
LinkedWhenStored ==
    \A b \in index :
      /\ b \in linked => Anc[b] \subseteq received
      /\ /\ NotReconsidered
         /\ Anc[b] \subseteq haveData /\ Anc[b] \cap failedValid = {}
         => b \in linked

\* CheckBlockIndex on mapBlocksUnlinked: a stored block without failed
\* ancestors that is not linked yet waits there, and one whose ancestors are
\* all stored does not (unless reconsiderblock cleared a failure).
UnlinkedExact ==
    NotReconsidered => \A b \in index : Anc[b] \cap failedValid = {} =>
      /\ b \in haveData /\ ~(Anc[b] \subseteq received) => unlinked[b] > 0
      /\ Anc[b] \subseteq haveData => unlinked[b] = 0

\* The assertions of CheckBlockIndex on links and mapBlocksUnlinked, with the types:
\* whatever order headers and data come in, nothing that could be connected is forgotten.
CheckBlockIndex == TypeOK /\ LinkedWhenStored /\ UnlinkedExact

\* CheckBlockIndex: a block is marked as failed only if it or an ancestor of it
\* was found invalid (unless reconsiderblock cleared that mark).
FailedMarksJustified ==
    NotReconsidered => \A b \in index : b \in Failed => Anc[b] \cap failedValid # {}

\* Failures are found, and only real ones: no failed block is active but one that could
\* not be disconnected, and no block is marked without a reason.
FailuresRespected == FailedMarksJustified /\ ActiveChainSound

\* The key a candidate is sorted by does not change while it is in the set, on a node
\* that does not prune.  (With pruning it can: a candidate whose data was pruned and
\* is downloaded again gets a new sequence id while it is in the set.)
CandidateKeysStable ==
    [][\A b \in candidates \cap candidates' : shutdown \/ seqId'[b] = seqId[b]]_vars

\* ActivateBestChain returns, also when two threads run it against each other.
ActivationReturns == \A t \in Threads : (pc[t] = "activate") ~> (pc[t] = "idle")

=============================================================================
