--------------------------- MODULE BlockTreeProofs --------------------------
(***************************************************************************)
(* Proofs about BlockTree, for any tree of blocks, any number of threads   *)
(* and any number of operations.                                           *)
(***************************************************************************)
EXTENDS BlockTree, FiniteSetTheorems, TLAPS

-----------------------------------------------------------------------------
(* Branches.                                                               *)

\* Every nonempty set of natural numbers has a least element.
LEMMA LeastNatural ==
    ASSUME NEW S \in SUBSET Nat, S # {}
    PROVE  \E n \in S : \A m \in S : n <= m
<1> DEFINE R == {ss \in Nat \X Nat : ss[1] < ss[2]}
<1>1. IsWellFoundedOn(R, Nat)
  BY NatLessThanWellFounded DEF OpToRel
<1> HIDE DEF R
<1>2. PICK n \in S : \A m \in S : ~(<<m, n>> \in R)
  BY <1>1, WFMin
<1>3. \A m \in S : ~(m < n)
  BY <1>2 DEF R
<1> QED BY <1>3

\* What TreeAssumption says of one block.
LEMMA ParentFacts ==
    ASSUME NEW b \in Blocks
    PROVE  /\ Height[b] \in Nat /\ Anc[b] \subseteq Blocks /\ b \in Anc[b]
           /\ b = Genesis => Anc[b] = {Genesis}
           /\ b # Genesis => /\ Parent[b] \in Blocks /\ Anc[b] = {b} \cup Anc[Parent[b]]
                             /\ Height[b] = Height[Parent[b]] + 1
                             /\ Height[Parent[b]] \in Nat
BY TreeAssumption

\* Among the blocks of a nonempty set one has the least height.
LEMMA LowestBlock ==
    ASSUME NEW S \in SUBSET Blocks, S # {}
    PROVE  \E c \in S : \A d \in S : Height[c] <= Height[d]
<1> DEFINE H == {Height[d] : d \in S}
<1>1. H \in SUBSET Nat /\ H # {}
  BY TreeAssumption
<1> HIDE DEF H
<1>2. PICK n \in H : \A m \in H : n <= m
  BY <1>1, LeastNatural
<1> QED BY <1>2 DEF H

\* Induction along branches: a set that holds Genesis, and a block whenever it holds
\* its parent, holds all blocks.
LEMMA BranchInduction ==
    ASSUME NEW P \in SUBSET Blocks, Genesis \in P,
           \A b \in Blocks \ {Genesis} : Parent[b] \in P => b \in P
    PROVE  P = Blocks
<1> SUFFICES ASSUME Blocks \ P # {} PROVE FALSE
  OBVIOUS
<1>1. PICK c \in Blocks \ P : \A d \in Blocks \ P : Height[c] <= Height[d]
  BY LowestBlock
<1>2. /\ c # Genesis /\ Parent[c] \in Blocks \ P /\ Height[c] = Height[Parent[c]] + 1
      /\ Height[Parent[c]] \in Nat
  BY <1>1, ParentFacts
<1> QED BY <1>1, <1>2

\* Every branch begins with Genesis.
LEMMA GenesisFirst ==
    ASSUME NEW b \in Blocks
    PROVE  Genesis \in Anc[b]
<1> DEFINE P == {c \in Blocks : Genesis \in Anc[c]}
<1>1. Genesis \in P
  BY TreeAssumption
<1>2. \A c \in Blocks \ {Genesis} : Parent[c] \in P => c \in P
  BY ParentFacts
<1>3. P = Blocks
  <2> HIDE DEF P
  <2>1. P \in SUBSET Blocks
    BY DEF P
  <2> QED BY <1>1, <1>2, <2>1, BranchInduction
<1> QED BY <1>3

\* An ancestor's ancestors are ancestors, and they are lower.
LEMMA AncTransitive ==
    ASSUME NEW b \in Blocks, NEW a \in Anc[b]
    PROVE  a \in Blocks /\ Anc[a] \subseteq Anc[b]
<1> DEFINE P == {c \in Blocks : \A x \in Anc[c] : Anc[x] \subseteq Anc[c]}
<1>1. Genesis \in P
  BY TreeAssumption
<1>2. \A c \in Blocks \ {Genesis} : Parent[c] \in P => c \in P
  BY ParentFacts
<1>3. P = Blocks
  <2> HIDE DEF P
  <2>1. P \in SUBSET Blocks
    BY DEF P
  <2> QED BY <1>1, <1>2, <2>1, BranchInduction
<1> QED BY <1>3, ParentFacts

\* The other blocks of a branch are lower, and in the branch of the parent.
LEMMA AncLower ==
    ASSUME NEW b \in Blocks, NEW a \in Anc[b], a # b
    PROVE  Height[a] < Height[b] /\ b # Genesis /\ a \in Anc[Parent[b]]
<1> DEFINE P == {c \in Blocks : \A x \in Anc[c] : x # c => Height[x] < Height[c]}
<1>1. Genesis \in P
  BY TreeAssumption
<1>2. ASSUME NEW c \in Blocks \ {Genesis}, Parent[c] \in P PROVE c \in P
  <2> SUFFICES ASSUME NEW x \in Anc[c], x # c PROVE Height[x] < Height[c]
    OBVIOUS
  <2>1. /\ x \in Anc[Parent[c]] /\ Parent[c] \in Blocks /\ Height[c] = Height[Parent[c]] + 1
        /\ Height[Parent[c]] \in Nat /\ x \in Blocks
    BY ParentFacts
  <2>2. Height[x] \in Nat
    BY <2>1, ParentFacts
  <2>3. x = Parent[c] \/ Height[x] < Height[Parent[c]]
    BY <2>1, <1>2
  <2> QED BY <2>1, <2>2, <2>3
<1>3. P = Blocks
  <2> HIDE DEF P
  <2>1. P \in SUBSET Blocks
    BY DEF P
  <2> QED BY <1>1, <1>2, <2>1, BranchInduction
<1> QED BY <1>3, ParentFacts

\* Two blocks of one branch: the lower one is an ancestor of the higher one.
LEMMA AncComparable ==
    ASSUME NEW b \in Blocks, NEW a \in Anc[b], NEW c \in Anc[b], Height[a] <= Height[c]
    PROVE  a \in Anc[c]
<1> DEFINE P == {x \in Blocks : \A y, z \in Anc[x] : Height[y] <= Height[z] => y \in Anc[z]}
<1>1. Genesis \in P
  BY TreeAssumption
<1>2. ASSUME NEW x \in Blocks \ {Genesis}, Parent[x] \in P PROVE x \in P
  <2> SUFFICES ASSUME NEW y \in Anc[x], NEW z \in Anc[x], Height[y] <= Height[z]
               PROVE  y \in Anc[z]
    OBVIOUS
  <2>1. Height[y] \in Nat /\ Height[z] \in Nat /\ Height[x] \in Nat
    BY ParentFacts
  <2>2. CASE z = x
    BY <2>2
  <2>3. CASE z # x
    <3>1. Height[z] < Height[x] /\ z \in Anc[Parent[x]]
      BY <2>3, AncLower
    <3>2. y \in Anc[Parent[x]]
      BY <2>1, <3>1, AncLower
    <3> QED BY <1>2, <3>1, <3>2
  <2> QED BY <2>2, <2>3
<1>3. P = Blocks
  <2> HIDE DEF P
  <2>1. P \in SUBSET Blocks
    BY DEF P
  <2> QED BY <1>1, <1>2, <2>1, BranchInduction
<1> QED BY <1>3

\* A nonempty set of blocks of one branch has a highest block, which Highest returns.
LEMMA HighestExists ==
    ASSUME NEW c \in Blocks, NEW S \in SUBSET Anc[c], S # {}
    PROVE  Highest(S) \in S /\ \A x \in S : Height[x] <= Height[Highest(S)]
<1> DEFINE D == {Height[c] - Height[x] : x \in S}
<1>1. \A x \in S : Height[x] \in Nat /\ Height[c] \in Nat /\ Height[x] <= Height[c]
  BY ParentFacts, AncLower
<1>2. D \in SUBSET Nat /\ D # {}
  BY <1>1
<1>3. PICK n \in D : \A m \in D : n <= m
  <2> HIDE DEF D
  <2> QED BY <1>2, LeastNatural
<1>4. PICK x \in S : n = Height[c] - Height[x]
  BY <1>3
<1>5. ASSUME NEW y \in S PROVE Height[y] <= Height[x]
  <2>1. n <= Height[c] - Height[y]
    BY <1>3
  <2> QED BY <1>1, <1>4, <2>1
<1> QED BY <1>5 DEF Highest

\* A nonempty set of blocks has a lowest one, which Lowest returns.
LEMMA LowestExists ==
    ASSUME NEW S \in SUBSET Blocks, S # {}
    PROVE  Lowest(S) \in S /\ \A x \in S : Height[x] >= Height[Lowest(S)]
<1>1. PICK c \in S : \A d \in S : Height[c] <= Height[d]
  BY LowestBlock
<1>2. \A d \in S : Height[d] >= Height[c]
  BY <1>1, ParentFacts
<1> QED BY <1>2 DEF Lowest

\* A set of blocks that holds the parents of its blocks.
Closed(S) == S \subseteq Blocks /\ Genesis \in S /\ \A b \in S \ {Genesis} : Parent[b] \in S

\* Such a set holds the whole branch of each of its blocks.
LEMMA ClosedHoldsBranches ==
    ASSUME NEW S, Closed(S), NEW b \in S
    PROVE  Anc[b] \subseteq S
<1> DEFINE P == {c \in Blocks : c \in S => Anc[c] \subseteq S}
<1>1. Genesis \in P
  BY TreeAssumption DEF Closed
<1>2. \A c \in Blocks \ {Genesis} : Parent[c] \in P => c \in P
  BY ParentFacts DEF Closed
<1>3. P = Blocks
  <2> HIDE DEF P
  <2>1. P \in SUBSET Blocks
    BY DEF P
  <2> QED BY <1>1, <1>2, <2>1, BranchInduction
<1> QED BY <1>3 DEF Closed

-----------------------------------------------------------------------------
(* The inductive invariant.                                                *)

\* TypeOK without the flags.
Types ==
    /\ index \in SUBSET Blocks /\ haveData \in SUBSET received /\ haveUndo \in SUBSET haveData
    /\ failedValid \in SUBSET index /\ failedChild \in SUBSET index
    /\ received \in SUBSET index /\ linked \in SUBSET received
    /\ seqId \in [Blocks -> Nat] /\ nextSeqId \in Nat
    /\ candidates \in SUBSET linked
    /\ unlinked \in [Blocks -> Nat]
    /\ tip \in linked
    /\ pc \in [Threads -> Locations] /\ mostWork \in [Threads -> Blocks]
    /\ unremoved \in SUBSET index
    /\ used \in [RareOps -> Nat]

\* The flags of TypeOK.
Flags == shutdown \in BOOLEAN /\ sysError \in BOOLEAN

\* The index and the linked blocks hold whole branches; only received blocks wait.
Links ==
    /\ Closed(index) /\ Closed(linked)
    /\ \A x \in Blocks : unlinked[x] > 0 => x \in received

\* A block that waits for its parent is linked with it.
Waiting ==
    \A x \in Blocks \ linked : unlinked[x] > 0 => Parent[x] \notin linked

\* A linked block waits because data below it is missing, and so does every block in
\* between.
MissingBelow(x) ==
    \E a \in Anc[x] \ haveData : \A y \in Anc[x] \ Anc[a] : unlinked[y] > 0

\* See MissingBelow.
Gaps == \A x \in linked : unlinked[x] > 0 => x \in haveData /\ MissingBelow(x)

\* A stored block that is not linked waits, or there is a failure below it.
Remembered ==
    NotReconsidered =>
        \A x \in haveData \ linked : unlinked[x] > 0 \/ Anc[x] \cap failedValid # {}

\* Blocks are stored only when ContextualCheckBlock accepts them.
Sound == haveData \cap ContextBad = {} /\ ActiveChainSound

\* The inductive invariant.
Inv == /\ Types /\ Flags /\ Links /\ Waiting /\ Gaps /\ Remembered
       /\ Sound /\ FailedMarksJustified

\* The invariant gives the assertions of CheckBlockIndex.
LEMMA InvImplies ==
    ASSUME Inv
    PROVE  CheckBlockIndex /\ FailuresRespected
<1>1. TypeOK
  <2>1. Flags
    BY DEF Inv
  <2> QED BY <2>1 DEF Inv, Types, Flags, TypeOK
<1>2. \A b \in linked : Anc[b] \subseteq received
  BY ClosedHoldsBranches DEF Inv, Types, Links
<1>3. ASSUME NotReconsidered, NEW b \in index, Anc[b] \subseteq haveData,
             Anc[b] \cap failedValid = {}
      PROVE  b \in linked
  <2> SUFFICES ASSUME b \notin linked PROVE FALSE
    OBVIOUS
  <2> DEFINE Out == Anc[b] \ linked
  <2>1. b \in Blocks /\ Out \in SUBSET Blocks /\ Out # {}
    BY ParentFacts DEF Inv, Types
  <2>2. PICK x \in Out : \A y \in Out : Height[x] <= Height[y]
    <3> HIDE DEF Out
    <3> QED BY <2>1, LowestBlock
  <2>3. x \in Blocks /\ x # Genesis /\ Anc[x] \subseteq Anc[b]
    BY <2>1, <2>2, AncTransitive DEF Inv, Links, Closed
  <2>4. /\ Parent[x] \in Anc[x] /\ Height[x] = Height[Parent[x]] + 1
        /\ Height[Parent[x]] \in Nat /\ Parent[x] \in Blocks
    BY <2>3, ParentFacts
  <2>5. Parent[x] \in linked
    BY <2>2, <2>3, <2>4
  <2>6. unlinked[x] > 0
    BY <1>3, <2>2, <2>3 DEF Inv, Remembered
  <2> QED BY <2>2, <2>3, <2>5, <2>6 DEF Inv, Waiting
<1>4. LinkedWhenStored
  BY <1>2, <1>3 DEF LinkedWhenStored
<1>5. ASSUME NotReconsidered, NEW b \in index, Anc[b] \cap failedValid = {},
             b \in haveData, ~(Anc[b] \subseteq received)
      PROVE  unlinked[b] > 0
  BY <1>2, <1>5 DEF Inv, Remembered
<1>6. ASSUME NotReconsidered, NEW b \in index, Anc[b] \cap failedValid = {},
             Anc[b] \subseteq haveData
      PROVE  unlinked[b] = 0
  <2>1. b \in linked /\ unlinked[b] \in Nat
    BY <1>3, <1>6 DEF Inv, Types
  <2>2. ~MissingBelow(b)
    BY <1>6 DEF MissingBelow
  <2> QED BY <2>1, <2>2 DEF Inv, Gaps
<1>7. UnlinkedExact
  BY <1>5, <1>6 DEF UnlinkedExact
<1> QED BY <1>1, <1>4, <1>7 DEF CheckBlockIndex, FailuresRespected, Inv, Sound

\* It holds at the start.
LEMMA InitInv == Init => Inv
<1> SUFFICES ASSUME Init PROVE Inv
  OBVIOUS
<1> USE TreeAssumption DEF Init
<1>1. Types
  BY DEF Types, Locations
<1>2. Flags
  BY Zenon DEF Flags
<1>3. Links
  BY DEF Links, Closed
<1>4. Waiting /\ Gaps /\ Remembered
  BY DEF Waiting, Gaps, Remembered
<1>5. Sound /\ FailedMarksJustified
  BY DEF Sound, ActiveChainSound, Active, Failed, FailedMarksJustified
<1> QED BY <1>1, <1>2, <1>3, <1>4, <1>5 DEF Inv

\* The operations that change at most pc, mostWork and the flags.
LEMMA QuietStep ==
    ASSUME Inv, UNCHANGED <<treeVars, tip>>, pc' \in [Threads -> Locations],
           mostWork' \in [Threads -> Blocks], used' \in [RareOps -> Nat],
           used'["reconsider"] = used["reconsider"], Flags',
           unremoved' = unremoved
    PROVE  Inv'
<1> USE DEF treeVars
<1>1. Types'
  BY DEF Inv, Types
<1>2. Links' /\ Waiting' /\ Sound'
  BY DEF Inv, Links, Closed, Waiting, Sound, ActiveChainSound, Active, Failed
<1>3. Gaps'
  BY DEF Inv, Gaps, MissingBelow
<1>4. Remembered' /\ FailedMarksJustified'
  BY DEF Inv, Remembered, FailedMarksJustified, Failed, NotReconsidered
<1> QED BY <1>1, <1>2, <1>3, <1>4 DEF Inv

\* A rare operation is counted.
LEMMA SpendFacts ==
    ASSUME Types, NEW op \in RareOps, Spend(op)
    PROVE  /\ used' \in [RareOps -> Nat]
           /\ op # "reconsider" => used'["reconsider"] = used["reconsider"]
           /\ op = "reconsider" => used'["reconsider"] # 0
<1>1. used' = [used EXCEPT ![op] = @ + 1] /\ used \in [RareOps -> Nat]
  BY DEF Types, Spend
<1> QED BY <1>1 DEF RareOps

\* Two of them are.
LEMMA SpendBothFacts ==
    ASSUME Types, SpendBoth("invalidate", "shutdown")
    PROVE  used' \in [RareOps -> Nat] /\ used'["reconsider"] = used["reconsider"]
<1>1. /\ used' = [used EXCEPT !["invalidate"] = @ + 1, !["shutdown"] = @ + 1]
      /\ used \in [RareOps -> Nat]
  BY DEF Types, SpendBoth
<1> QED BY <1>1 DEF RareOps

\* The steps of ActivateBestChain without cs_main, and a request to shut down.
LEMMA FlowSteps ==
    ASSUME Inv, \/ StartShutdown
                \/ \E t \in Threads : LoopTest(t) \/ LeaveOnShutdown(t)
    PROVE  Inv'
<1>1. CASE StartShutdown
  <2>1. /\ UNCHANGED <<treeVars, tip>> /\ pc' = pc /\ mostWork' = mostWork
        /\ unremoved' = unremoved
    BY <1>1 DEF StartShutdown
  <2>2. used' \in [RareOps -> Nat] /\ used'["reconsider"] = used["reconsider"]
    BY <1>1, SpendFacts DEF StartShutdown, RareOps, Inv
  <2>3. Flags'
    BY <1>1, Zenon DEF StartShutdown, Inv, Flags
  <2> QED BY <2>1, <2>2, <2>3, QuietStep DEF Inv, Types
<1>2. ASSUME NEW t \in Threads, LoopTest(t) \/ LeaveOnShutdown(t) PROVE Inv'
  <2>1. /\ UNCHANGED <<treeVars, tip>> /\ mostWork' = mostWork /\ used' = used
        /\ unremoved' = unremoved
    BY <1>2 DEF LoopTest, LeaveOnShutdown
  <2>2. pc' \in [Threads -> Locations]
    BY <1>2 DEF LoopTest, LeaveOnShutdown, Inv, Types, Locations
  <2>3. shutdown' = shutdown /\ sysError' = sysError
    BY <1>2 DEF LoopTest, LeaveOnShutdown
  <2>4. Flags'
    BY <2>3, Zenon DEF Inv, Flags
  <2> QED BY <2>1, <2>2, <2>4, QuietStep DEF Inv, Types
<1> QED BY <1>1, <1>2

\* A new header: its parent is known, and nothing else is known of the block.
LEMMA HeaderStep ==
    ASSUME Inv, NEW b \in Blocks \ {Genesis}, AcceptBlockHeader(b)
    PROVE  Inv'
<1> USE DEF AcceptBlockHeader
<1>1. Types'
  BY DEF Inv, Types
<1>2. Flags'
  BY Zenon DEF Inv, Flags
<1>3. Links' /\ Waiting'
  BY DEF Inv, Links, Closed, Waiting, HeaderAcceptable
<1>4. Gaps'
  BY DEF Inv, Gaps, MissingBelow
<1>5. Remembered' /\ FailedMarksJustified'
  BY DEF Inv, Types, Remembered, FailedMarksJustified, Failed, NotReconsidered
<1>6. Sound'
  BY DEF Inv, Sound, ActiveChainSound, Active, Failed
<1> QED BY <1>1, <1>2, <1>3, <1>4, <1>5, <1>6 DEF Inv

\* A restart links what has a received branch, and lets the rest wait.
LEMMA RestartStep ==
    ASSUME Inv, NEW t \in Threads, Restart(t)
    PROVE  Inv'
<1> USE DEF Restart
<1>0. tip \in LoadedLinked /\ linked' = LoadedLinked
  BY ClosedHoldsBranches DEF LoadedLinked, Inv, Types, Links
<1>1. Types'
  <2>1. candidates' \subseteq linked' /\ linked' \subseteq received /\ tip' \in linked'
    BY <1>0 DEF LoadedLinked
  <2>2. unlinked' \in [Blocks -> Nat] /\ seqId' \in [Blocks -> Nat] /\ nextSeqId' \in Nat
    OBVIOUS
  <2> QED BY <2>1, <2>2 DEF Inv, Types, Locations
<1>2. Flags'
  BY Zenon DEF Flags
<1>3. Links'
  <2>1. Closed(linked)'
    <3>1. LoadedLinked \subseteq Blocks /\ Genesis \in LoadedLinked
      BY TreeAssumption DEF LoadedLinked, Inv, Types, Links, Closed
    <3>2. \A b \in LoadedLinked \ {Genesis} : Parent[b] \in LoadedLinked
      BY <3>1, ParentFacts DEF LoadedLinked
    <3> QED BY <1>0, <3>1, <3>2 DEF Closed
  <2>2. \A x \in Blocks : unlinked'[x] > 0 => x \in received
    BY DEF LoadedWaiting
  <2> QED BY <2>1, <2>2 DEF Inv, Links, Closed
<1>4. Waiting'
  <2> SUFFICES ASSUME NEW x \in Blocks, x \notin linked', unlinked'[x] > 0,
                      Parent[x] \in linked'
               PROVE  FALSE
    BY DEF Waiting
  <2>1. x \in received
    BY DEF LoadedWaiting
  <2>2. x # Genesis
    BY TreeAssumption, <2>1 DEF LoadedLinked
  <2> QED BY <2>1, <2>2, ParentFacts DEF LoadedLinked
<1>5. Gaps'
  <2>1. \A x \in LoadedLinked : x \in Blocks /\ x \notin LoadedWaiting
    BY DEF Inv, Types, LoadedLinked, LoadedWaiting
  <2>2. \A x \in linked' : unlinked'[x] = 0
    BY <1>0, <2>1
  <2> QED BY <2>2 DEF Gaps
<1>6. Remembered' /\ FailedMarksJustified'
  <2>1. Remembered'
    BY DEF Inv, Types, Remembered, LoadedWaiting
  <2> QED BY <2>1 DEF Inv, FailedMarksJustified, Failed, NotReconsidered
<1>7. Sound'
  BY DEF Inv, Sound, ActiveChainSound, Active, Failed
<1> QED BY <1>1, <1>2, <1>3, <1>4, <1>5, <1>6, <1>7 DEF Inv

\* Pruned blocks do not wait any more; what waits above them misses their data.
LEMMA PruneStep ==
    ASSUME Inv, NEW S \in SUBSET Blocks, PruneOneBlockFile(S)
    PROVE  Inv'
<1> USE DEF PruneOneBlockFile
<1>0. used' \in [RareOps -> Nat] /\ used'["reconsider"] = used["reconsider"]
  BY SpendFacts DEF RareOps, Inv
<1>1. Types'
  BY <1>0 DEF Inv, Types
<1>2. Flags'
  BY Zenon DEF Inv, Flags
<1>3. Links' /\ Waiting'
  BY DEF Inv, Types, Links, Closed, Waiting
<1>4. Gaps'
  <2> SUFFICES ASSUME NEW x \in linked, unlinked'[x] > 0
               PROVE  x \in haveData' /\ MissingBelow(x)'
    BY DEF Gaps
  <2>1. x \in Blocks /\ x \notin S /\ unlinked[x] > 0
    BY DEF Inv, Types
  <2>2. x \in haveData
    BY <2>1 DEF Inv, Gaps
  <2>3. PICK a \in Anc[x] \ haveData : \A y \in Anc[x] \ Anc[a] : unlinked[y] > 0
    BY <2>1 DEF Inv, Gaps, MissingBelow
  <2> DEFINE D == (Anc[x] \ Anc[a]) \cap S
  <2>4. CASE D = {}
    <3>1. \A y \in Anc[x] \ Anc[a] : unlinked'[y] > 0
      BY <2>1, <2>3, <2>4, ParentFacts
    <3> QED BY <2>1, <2>2, <2>3, <3>1 DEF MissingBelow
  <2>5. CASE D # {}
    <3> DEFINE m == Highest(D)
    <3>1. m \in D /\ \A y \in D : Height[y] <= Height[m]
      <4> HIDE DEF D
      <4>1. D \in SUBSET Anc[x]
        BY DEF D
      <4> QED BY <2>1, <2>5, <4>1, HighestExists
    <3> HIDE DEF m
    <3>2. m \in Anc[x] /\ m \notin haveData' /\ m \in Blocks
      BY <2>1, <3>1, ParentFacts
    <3>3. ASSUME NEW y \in Anc[x] \ Anc[m] PROVE unlinked'[y] > 0
      <4>1. y \in Blocks /\ a \in Blocks /\ Height[y] \in Nat /\ Height[m] \in Nat
        BY <2>1, <2>3, <3>2, ParentFacts
      <4>2. ~(Height[y] <= Height[m])
        BY <2>1, <3>2, AncComparable
      <4>3. y \notin S \/ y \in Anc[a]
        BY <3>1, <4>2
      <4>4. y \notin Anc[a]
        <5> SUFFICES ASSUME y \in Anc[a] PROVE FALSE
          OBVIOUS
        <5>1. Height[y] <= Height[a] /\ Height[a] \in Nat
          BY <4>1, AncLower, ParentFacts
        <5>2. Height[m] <= Height[a]
          BY <4>1, <4>2, <5>1
        <5>3. m \in Anc[a]
          BY <2>1, <2>3, <3>2, <5>2, AncComparable
        <5> QED BY <3>1, <5>3
      <4> QED BY <2>3, <4>1, <4>3, <4>4
    <3> QED BY <2>1, <2>2, <3>2, <3>3 DEF MissingBelow
  <2> QED BY <2>4, <2>5
<1>5. Remembered' /\ FailedMarksJustified'
  BY <1>0 DEF Inv, Types, Remembered, FailedMarksJustified, Failed, NotReconsidered
<1>6. Sound'
  BY DEF Inv, Sound, ActiveChainSound, Active, Failed
<1> QED BY <1>1, <1>2, <1>3, <1>4, <1>5, <1>6 DEF Inv

\* The blocks InvalidateBlock disconnects are b and its descendants.
LEMMA DisconnectsFacts ==
    ASSUME Inv, NEW b \in Blocks \ {Genesis}
    PROVE  /\ Active \subseteq linked /\ linked \subseteq Blocks /\ tip \in Blocks
           /\ b \notin Anc[Parent[b]] /\ Parent[b] \in Blocks
           /\ Disconnects(b) \subseteq Active
           /\ Disconnects(b) # {} => b \in Active
           /\ b \in Active => b \in Disconnects(b)
           /\ \A d \in Disconnects(b) : b \in Anc[d]
<1>3. Active \subseteq linked /\ linked \subseteq Blocks /\ tip \in Blocks
  BY ClosedHoldsBranches DEF Inv, Types, Links, Active
<1>4. b \notin Anc[Parent[b]] /\ Parent[b] \in Blocks
  BY ParentFacts, AncLower
<1>5. /\ Disconnects(b) \subseteq Active
      /\ Disconnects(b) # {} => b \in Active
      /\ b \in Active => b \in Disconnects(b)
      /\ \A d \in Disconnects(b) : b \in Anc[d]
  <2>1. ASSUME NEW d \in Active \ Anc[Parent[b]], b \in Active PROVE b \in Anc[d]
    <3>1. d \in Blocks /\ Height[d] \in Nat /\ Height[b] \in Nat
      BY <1>3, ParentFacts
    <3>2. CASE Height[b] <= Height[d]
      BY <1>3, <2>1, <3>2, AncComparable DEF Active
    <3>3. CASE Height[d] <= Height[b]
      <4>1. d \in Anc[b]
        BY <1>3, <2>1, <3>3, AncComparable DEF Active
      <4>2. d = b
        BY <2>1, <4>1, ParentFacts
      <4> QED BY <4>2, ParentFacts
    <3> QED BY <3>1, <3>2, <3>3
  <2> QED BY <1>4, <2>1 DEF Disconnects
<1> QED BY <1>3, <1>4, <1>5

\* InvalidateBlock disconnects what it marks.
LEMMA InvalidateStep ==
    ASSUME Inv, NEW t \in Threads, NEW b \in Blocks, InvalidateBlock(t, b)
    PROVE  Inv'
<1> DEFINE newTip == IF Disconnects(b) # {} THEN Parent[b] ELSE tip
<1>0. used' \in [RareOps -> Nat] /\ used'["reconsider"] = used["reconsider"]
  BY SpendFacts DEF RareOps, Inv, InvalidateBlock
<1>1. /\ UNCHANGED <<index, haveData, haveUndo, received, linked, seqId, nextSeqId,
                     unlinked, mostWork, shutdown, sysError, unremoved>>
      /\ b \in index \ {Genesis} /\ pc' = [pc EXCEPT ![t] = "activate"]
      /\ failedValid' = failedValid \cup {b} /\ failedChild' = failedChild \cup Disconnects(b)
      /\ tip' = newTip
  BY DEF InvalidateBlock
<1>2. candidates' \subseteq candidates \cup linked
  BY DEF InvalidateBlock, Connectable
<1>3. Active \subseteq linked /\ linked \subseteq Blocks /\ tip \in Blocks
  BY <1>1, DisconnectsFacts
<1>4. b \notin Anc[Parent[b]] /\ Parent[b] \in Blocks
  BY <1>1, DisconnectsFacts
<1>5. /\ Disconnects(b) \subseteq Active
      /\ Disconnects(b) # {} => b \in Active
      /\ b \in Active => b \in Disconnects(b)
      /\ \A d \in Disconnects(b) : b \in Anc[d]
  BY <1>1, DisconnectsFacts
<1>6. Anc[newTip] \subseteq Active /\ newTip \in linked
  <2>1. CASE Disconnects(b) = {}
    BY <2>1 DEF Active, Inv, Types
  <2>2. CASE Disconnects(b) # {}
    <3>1. b \in Active /\ Parent[b] \in Anc[b]
      BY <1>1, <1>4, <1>5, <2>2, ParentFacts
    <3>2. Anc[Parent[b]] \subseteq Active /\ Parent[b] \in linked
      BY <1>1, <1>3, <1>4, <3>1, AncTransitive DEF Active
    <3> QED BY <2>2, <3>2
  <2> QED BY <2>1, <2>2
<1>7. Anc[newTip] \cap (Disconnects(b) \cup {b}) = {}
  BY <1>4, <1>5 DEF Disconnects, Active
<1> HIDE DEF newTip
<1>8. Types'
  BY <1>0, <1>1, <1>2, <1>3, <1>5, <1>6 DEF Inv, Types, Locations
<1>9. Flags'
  BY <1>1, Zenon DEF Inv, Flags
<1>10. Links' /\ Waiting'
  BY <1>1 DEF Inv, Links, Closed, Waiting
<1>11. Gaps'
  BY <1>1 DEF Inv, Gaps, MissingBelow
<1>12. Remembered' /\ FailedMarksJustified'
  BY <1>0, <1>1, <1>5, ParentFacts
     DEF Inv, Types, Remembered, FailedMarksJustified, Failed, NotReconsidered
<1>13. Sound'
  BY <1>1, <1>6, <1>7 DEF Inv, Sound, ActiveChainSound, Active, Failed
<1> QED BY <1>8, <1>9, <1>10, <1>11, <1>12, <1>13 DEF Inv

\* What an InvalidateBlock that fails marks and where it stops.
Stopped(b, marked) ==
    /\ b \in marked /\ marked \subseteq Active /\ \A d \in marked : b \in Anc[d]
    /\ tip' \in Active
    /\ failedValid' = failedValid \cup {b}
    /\ failedChild' \subseteq failedChild \cup marked
    /\ candidates' = candidates \ marked
    /\ unremoved' = unremoved \cup (marked \cap Anc[tip'])
    /\ shutdown' = FALSE => b \in Anc[tip']

\* See Stopped.
LEMMA InvalidateFailsFacts ==
    ASSUME Inv, NEW t \in Threads, NEW b \in Blocks, InvalidateFails(t, b)
    PROVE  /\ \E marked \in SUBSET Blocks : Stopped(b, marked)
           /\ UNCHANGED <<index, haveData, haveUndo, received, linked, seqId, nextSeqId,
                          unlinked, mostWork, sysError>>
           /\ pc' = pc \/ pc' = [pc EXCEPT ![t] = "activate"]
           /\ shutdown' = TRUE \/ shutdown' = FALSE
           /\ used' \in [RareOps -> Nat] /\ used'["reconsider"] = used["reconsider"]
<1>0. b \in index \ {Genesis} /\ b \in Blocks \ {Genesis}
  BY DEF InvalidateFails
<1>1. PICK n \in Disconnects(b), newTip \in Blocks :
        LET above == {d \in Disconnects(b) : Height[d] >= Height[n]}
        IN  /\ \/ /\ newTip = n /\ Spend("invalidate")
                  /\ shutdown' = TRUE /\ pc' = pc
               \/ /\ newTip = n /\ Spend("invalidate")
                  /\ shutdown' = FALSE /\ pc' = [pc EXCEPT ![t] = "activate"]
               \/ /\ newTip \in {n, Parent[n]} /\ SpendBoth("invalidate", "shutdown")
                  /\ shutdown' = TRUE /\ pc' = pc
            /\ tip' = newTip
            /\ failedValid' = failedValid \cup {b}
            /\ failedChild' = failedChild \cup above
            /\ candidates' = candidates \ ({b} \cup above)
            /\ unremoved' = unremoved \cup (({b} \cup above) \cap Anc[newTip])
  BY DEF InvalidateFails
<1> DEFINE above == {d \in Disconnects(b) : Height[d] >= Height[n]}
<1> DEFINE marked == {b} \cup above
<1>2. /\ Active \subseteq linked /\ linked \subseteq Blocks /\ tip \in Blocks
      /\ Disconnects(b) \subseteq Active /\ b \in Active
      /\ \A d \in Disconnects(b) : b \in Anc[d]
  BY <1>0, <1>1, DisconnectsFacts
<1>3. n \in Active /\ n \in Blocks /\ n # Genesis /\ b \in Anc[n]
  <2>1. n \in Active /\ n \in Blocks /\ b \in Anc[n]
    BY <1>2
  <2> QED BY <1>0, <2>1, ParentFacts
<1>4. Parent[n] \in Active
  BY <1>2, <1>3, ParentFacts, AncTransitive DEF Active
<1>5. marked \subseteq Active /\ \A d \in marked : b \in Anc[d]
  BY <1>0, <1>2, ParentFacts
<1>6. tip' \in Active
  BY <1>1, <1>3, <1>4
<1>7. failedChild' \subseteq failedChild \cup marked
  BY <1>1
<1>8. shutdown' = FALSE => b \in Anc[tip']
  BY <1>1, <1>3
<1>9. /\ failedValid' = failedValid \cup {b} /\ candidates' = candidates \ marked
      /\ unremoved' = unremoved \cup (marked \cap Anc[tip'])
  BY <1>1
<1>10. Stopped(b, marked) /\ marked \in SUBSET Blocks
  <2> HIDE DEF marked
  <2>1. b \in marked
    BY DEF marked
  <2> QED BY <1>2, <1>5, <1>6, <1>7, <1>8, <1>9, <2>1 DEF Stopped
<1>11. UNCHANGED <<index, haveData, haveUndo, received, linked, seqId, nextSeqId,
                   unlinked, mostWork, sysError>>
  BY DEF InvalidateFails
<1>12. used' \in [RareOps -> Nat] /\ used'["reconsider"] = used["reconsider"]
  BY <1>1, SpendFacts, SpendBothFacts DEF RareOps, Inv
<1>13. /\ pc' = pc \/ pc' = [pc EXCEPT ![t] = "activate"]
       /\ shutdown' = TRUE \/ shutdown' = FALSE
  BY <1>1
<1> QED BY <1>10, <1>11, <1>12, <1>13

\* An InvalidateBlock that fails leaves marked blocks in the active chain.
LEMMA InvalidateFailsStep ==
    ASSUME Inv, NEW t \in Threads, NEW b \in Blocks, InvalidateFails(t, b)
    PROVE  Inv'
<1>1. /\ UNCHANGED <<index, haveData, haveUndo, received, linked, seqId, nextSeqId,
                     unlinked, mostWork, sysError>>
      /\ pc' = pc \/ pc' = [pc EXCEPT ![t] = "activate"]
      /\ shutdown' = TRUE \/ shutdown' = FALSE
      /\ used' \in [RareOps -> Nat] /\ used'["reconsider"] = used["reconsider"]
  BY InvalidateFailsFacts
<1>2. PICK marked \in SUBSET Blocks : Stopped(b, marked)
  BY InvalidateFailsFacts
<1>3. Active \subseteq linked /\ linked \subseteq Blocks /\ tip \in Blocks
  BY ClosedHoldsBranches DEF Inv, Types, Links, Active
<1>4. marked \subseteq index /\ b \in index /\ tip' \in linked
  BY <1>2, <1>3 DEF Stopped, Inv, Types
<1>5. Anc[tip'] \subseteq Active
  BY <1>2, <1>3, AncTransitive DEF Stopped, Active
<1>6. Types'
  <2>1. failedChild' \subseteq index /\ failedValid' \subseteq index
    BY <1>2, <1>4 DEF Stopped, Inv, Types
  <2>2. candidates' \subseteq linked /\ unremoved' \subseteq index
    BY <1>2, <1>4 DEF Stopped, Inv, Types
  <2>3. pc' \in [Threads -> Locations]
    BY <1>1 DEF Inv, Types, Locations
  <2> QED BY <1>1, <1>4, <2>1, <2>2, <2>3 DEF Inv, Types
<1>7. Flags'
  BY <1>1, Zenon DEF Inv, Flags
<1>8. Links' /\ Waiting'
  BY <1>1 DEF Inv, Links, Closed, Waiting
<1>9. Gaps'
  BY <1>1 DEF Inv, Gaps, MissingBelow
<1>10. Remembered' /\ FailedMarksJustified'
  BY <1>1, <1>2, ParentFacts
     DEF Stopped, Inv, Types, Remembered, FailedMarksJustified, Failed, NotReconsidered
<1>11. Sound'
  <2>1. Anc[tip'] \cap (failedValid' \cup failedChild') \subseteq unremoved'
    BY <1>2, <1>5 DEF Stopped, Inv, Sound, ActiveChainSound, Failed
  <2> QED BY <1>1, <1>5, <2>1 DEF Inv, Sound, ActiveChainSound, Active, Failed
<1> QED BY <1>6, <1>7, <1>8, <1>9, <1>10, <1>11 DEF Inv

\* ReconsiderBlock clears marks and changes nothing else but the candidates.
LEMMA ReconsiderStep ==
    ASSUME Inv, NEW t \in Threads, NEW b \in Blocks, ReconsiderBlock(t, b)
    PROVE  Inv'
<1>0. used' \in [RareOps -> Nat] /\ used'["reconsider"] # 0
  BY SpendFacts DEF RareOps, Inv, ReconsiderBlock
<1>1. /\ UNCHANGED <<index, haveData, haveUndo, received, linked, seqId, nextSeqId,
                     unlinked, tip, mostWork, shutdown, sysError, unremoved>>
      /\ pc' = [pc EXCEPT ![t] = "activate"]
  BY DEF ReconsiderBlock
<1>2. /\ failedValid' \subseteq failedValid /\ failedChild' \subseteq failedChild
      /\ candidates' \subseteq candidates \cup linked
  BY DEF ReconsiderBlock
<1>3. Types'
  BY <1>0, <1>1, <1>2 DEF Inv, Types, Locations
<1>4. Flags'
  BY <1>1, Zenon DEF Inv, Flags
<1>5. Links' /\ Waiting'
  BY <1>1 DEF Inv, Links, Closed, Waiting
<1>6. Gaps'
  BY <1>1 DEF Inv, Gaps, MissingBelow
<1>7. Remembered' /\ FailedMarksJustified'
  BY <1>0 DEF Remembered, FailedMarksJustified, NotReconsidered
<1>8. Sound'
  BY <1>1, <1>2 DEF Inv, Sound, ActiveChainSound, Active, Failed
<1> QED BY <1>3, <1>4, <1>5, <1>6, <1>7, <1>8 DEF Inv

\* The header of a block that arrives is known, or is accepted first.
LEMMA ArrivedFacts ==
    ASSUME Inv, NEW t \in Threads, NEW b \in Blocks \ {Genesis}, NEW r \in BOOLEAN,
           ProcessNewBlock(t, b, r)
    PROVE  /\ index' = index \cup {b} /\ Closed(index)' /\ Parent[b] \in index
           /\ UNCHANGED <<haveUndo, failedChild, tip, mostWork, shutdown, sysError, unremoved, used>>
           /\ Flags'
<1>1. /\ index' = index \cup {b}
      /\ UNCHANGED <<haveUndo, failedChild, tip, mostWork, shutdown, sysError, unremoved, used>>
  BY DEF ProcessNewBlock
<1>2. Parent[b] \in index
  BY DEF ProcessNewBlock, HeaderAcceptable, Inv, Links, Closed
<1>3. Flags'
  BY <1>1, Zenon DEF Inv, Flags
<1> QED BY <1>1, <1>2, <1>3 DEF Inv, Links, Closed

\* A block that is ignored, or marked as failed: it is not in the active chain, which
\* passed the check.
LEMMA DropStep ==
    ASSUME Inv, NEW t \in Threads, NEW b \in Blocks \ {Genesis}, NEW r \in BOOLEAN,
           ProcessNewBlock(t, b, r), IgnoreBlock(t, b, r) \/ RejectBlock(b, r)
    PROVE  Inv'
<1>0. /\ index' = index \cup {b} /\ Closed(index)'
      /\ UNCHANGED <<haveUndo, failedChild, tip, mostWork, shutdown, sysError, unremoved, used>>
      /\ Flags'
  BY ArrivedFacts
<1>1. /\ UNCHANGED <<haveData, received, linked, seqId, nextSeqId, candidates, unlinked>>
      /\ pc' \in [Threads -> Locations]
      /\ \/ failedValid' = failedValid
         \/ failedValid' = failedValid \cup {b} /\ b \in ContextBad
  BY DEF IgnoreBlock, RejectBlock, Inv, Types, Locations
<1>2. Types'
  BY <1>0, <1>1 DEF Inv, Types
<1>3. Links' /\ Waiting'
  BY <1>0, <1>1 DEF Inv, Links, Closed, Waiting
<1>4. Gaps'
  BY <1>0, <1>1 DEF Inv, Gaps, MissingBelow
<1>5. Remembered' /\ FailedMarksJustified'
  BY <1>0, <1>1, ParentFacts
     DEF Inv, Types, Remembered, FailedMarksJustified, Failed, NotReconsidered
<1>6. Sound'
  BY <1>0, <1>1 DEF Inv, Sound, ActiveChainSound, Active, Failed
<1> QED BY <1>0, <1>2, <1>3, <1>4, <1>5, <1>6 DEF Inv

\* What is linked with b: blocks that waited, up to one that does not.
LEMMA LinkedFacts ==
    ASSUME Inv, NEW b \in Blocks \ {Genesis}, Parent[b] \in linked, b \notin haveData
    PROVE  /\ unlinked[b] = 0 /\ b \in NewlyLinked(b) /\ IsFiniteSet(NewlyLinked(b))
           /\ \A d \in NewlyLinked(b) \ {b} : /\ d \in received /\ b \in Anc[d]
                                              /\ Parent[d] \in NewlyLinked(b)
                                              /\ unlinked[d] > 0
           /\ \A d \in index : /\ b \in Anc[d] /\ d # b
                               /\ Parent[d] \in NewlyLinked(b) /\ unlinked[d] > 0
                               => d \in NewlyLinked(b)
<1>1. unlinked[b] = 0
  <2>1. ~(unlinked[b] > 0)
    BY DEF Inv, Waiting, Gaps
  <2> QED BY <2>1 DEF Inv, Types
<1>2. b \in NewlyLinked(b) /\ IsFiniteSet(NewlyLinked(b))
  <2>1. NewlyLinked(b) \subseteq Blocks
    BY DEF NewlyLinked, Inv, Types
  <2> QED BY <2>1, FS_Subset, TreeAssumption DEF NewlyLinked
<1>3. ASSUME NEW d \in NewlyLinked(b), d # b
      PROVE  d \in received /\ b \in Anc[d] /\ Parent[d] \in NewlyLinked(b) /\ unlinked[d] > 0
  <2>1. d \in index /\ d \in Blocks /\ b \in Anc[d]
    BY <1>3 DEF NewlyLinked, Inv, Types
  <2>2. Height[b] < Height[d] /\ d # Genesis /\ b \in Anc[Parent[d]]
    BY <1>3, <2>1, AncLower
  <2>3. /\ d \in Anc[d] /\ Anc[d] = {d} \cup Anc[Parent[d]]
        /\ Height[b] \in Nat /\ Height[d] \in Nat
    BY <2>1, <2>2, ParentFacts
  <2>4. d \notin Anc[b]
    BY <1>3, <2>2, <2>3, AncLower
  <2>5. unlinked[d] > 0 /\ d \in received
    BY <1>3, <2>1, <2>3, <2>4 DEF NewlyLinked, Inv, Links
  <2>6. Parent[d] \in index
    BY <2>1, <2>2 DEF Inv, Links, Closed
  <2>7. Parent[d] \in NewlyLinked(b)
    BY <1>3, <2>2, <2>3, <2>6 DEF NewlyLinked
  <2> QED BY <2>1, <2>5, <2>7
<1>4. ASSUME NEW d \in index, b \in Anc[d], d # b, Parent[d] \in NewlyLinked(b),
             unlinked[d] > 0
      PROVE  d \in NewlyLinked(b)
  <2>1. d \in Blocks /\ d # Genesis /\ Anc[d] = {d} \cup Anc[Parent[d]]
    BY <1>4, ParentFacts, AncLower DEF Inv, Types
  <2>2. \A y \in Anc[Parent[d]] \ Anc[b] : unlinked[y] > 0
    BY <1>4 DEF NewlyLinked
  <2> QED BY <1>4, <2>1, <2>2 DEF NewlyLinked
<1> QED BY <1>1, <1>2, <1>3, <1>4

\* The queue of ReceivedBlockTransactions is finite.
LEMMA QueueFinite ==
    ASSUME Inv, NEW b \in Blocks
    PROVE  Cardinality(QueueEntries(b)) \in Nat
<1> DEFINE Times(d) == IF d = b THEN 1 ELSE unlinked[d]
<1> DEFINE Entry == [d \in NewlyLinked(b) |-> {d} \X (1 .. Times(d))]
<1> DEFINE All == {Entry[d] : d \in NewlyLinked(b)}
<1>1. NewlyLinked(b) \subseteq Blocks /\ IsFiniteSet(NewlyLinked(b))
  <2>1. NewlyLinked(b) \subseteq Blocks
    BY DEF NewlyLinked, Inv, Types
  <2> QED BY <2>1, FS_Subset, TreeAssumption
<1>2. ASSUME NEW d \in NewlyLinked(b) PROVE IsFiniteSet(Entry[d])
  <2>1. Times(d) \in Nat
    BY <1>1 DEF Inv, Types
  <2>2. IsFiniteSet(1 .. Times(d))
    BY <2>1, FS_Interval
  <2>3. IsFiniteSet({d})
    BY FS_Singleton
  <2>4. IsFiniteSet({d} \X (1 .. Times(d)))
    BY <2>2, <2>3, FS_Product
  <2> QED BY <2>4
<1>3. QueueEntries(b) = UNION All
  BY DEF QueueEntries
<1> HIDE DEF Entry
<1>4. IsFiniteSet(All)
  <2>1. [d \in NewlyLinked(b) |-> Entry[d]] \in Surjection(NewlyLinked(b), All)
    BY DEF Surjection
  <2> HIDE DEF All
  <2> QED BY <1>1, <2>1, FS_Surjection
<1>5. IsFiniteSet(UNION All)
  <2>1. \A e \in All : IsFiniteSet(e)
    BY <1>2
  <2> HIDE DEF All
  <2> QED BY <1>4, <2>1, FS_UNION
<1> HIDE DEF All
<1> QED BY <1>3, <1>5, FS_CardinalityType

\* A block is stored and its parent is linked.
LEMMA StoreLinkedStep ==
    ASSUME Inv, NEW t \in Threads, NEW b \in Blocks \ {Genesis}, NEW r \in BOOLEAN,
           ProcessNewBlock(t, b, r), StoreBlock(t, b, r), Parent[b] \in linked
    PROVE  Inv'
<1> DEFINE L == NewlyLinked(b)
<1>0. /\ index' = index \cup {b} /\ Closed(index)'
      /\ UNCHANGED <<haveUndo, failedChild, tip, mostWork, shutdown, sysError, unremoved, used>>
      /\ Flags'
  BY ArrivedFacts
<1>1. /\ b \notin haveData /\ b \notin ContextBad /\ failedValid' = failedValid
      /\ haveData' = haveData \cup {b} /\ received' = received \cup {b}
      /\ linked' = linked \cup L
      /\ unlinked' = [x \in Blocks |-> IF x \in L \ {b} THEN 0 ELSE unlinked[x]]
      /\ candidates' \subseteq candidates \cup L
      /\ pc' = [pc EXCEPT ![t] = "activate"]
  BY DEF StoreBlock, WantBlock, ReceivedBlockTransactions
<1>2. /\ unlinked[b] = 0 /\ b \in L /\ IsFiniteSet(L)
      /\ \A d \in L \ {b} : /\ d \in received /\ b \in Anc[d] /\ Parent[d] \in L
                            /\ unlinked[d] > 0
      /\ \A d \in index : b \in Anc[d] /\ d # b /\ Parent[d] \in L /\ unlinked[d] > 0 => d \in L
  BY <1>1, LinkedFacts
<1>3. seqId' \in [Blocks -> Nat] /\ nextSeqId' \in Nat
  <2>1. Cardinality(QueueEntries(b)) \in Nat
    BY QueueFinite
  <2>2. nextSeqId' = nextSeqId + Cardinality(QueueEntries(b)) /\ nextSeqId \in Nat
    BY DEF StoreBlock, ReceivedBlockTransactions, Inv, Types
  <2>3. PICK f \in Numberings(b) :
           seqId' = [x \in Blocks |-> IF x \in L THEN f[x] ELSE seqId[x]]
    BY DEF StoreBlock, ReceivedBlockTransactions
  <2>4. \A x \in L : f[x] \in Nat
    BY <2>1, <2>2 DEF Numberings
  <2> HIDE DEF L
  <2> QED BY <2>1, <2>2, <2>3, <2>4 DEF Inv, Types
<1> HIDE DEF L
<1>4. L \subseteq received' /\ L \subseteq Blocks
  BY <1>1, <1>2 DEF Inv, Types
<1>5. Types'
  BY <1>0, <1>1, <1>3, <1>4 DEF Inv, Types, Locations
<1>6. Links'
  <2>1. Closed(linked)'
    BY <1>1, <1>2, <1>4 DEF Inv, Links, Closed
  <2>2. \A x \in Blocks : unlinked'[x] > 0 => x \in received'
    BY <1>1, <1>4 DEF Inv, Links
  <2> QED BY <1>0, <2>1, <2>2 DEF Links
<1>7. Waiting'
  <2> SUFFICES ASSUME NEW x \in Blocks, x \notin linked', unlinked'[x] > 0,
                      Parent[x] \in linked'
               PROVE  FALSE
    BY DEF Waiting
  <2>1. x \notin L /\ x \notin linked /\ unlinked[x] > 0 /\ x # b /\ x # Genesis
    BY <1>1, <1>2 DEF Inv, Links, Closed
  <2>2. Parent[x] \in L /\ x \in index
    BY <1>1, <2>1 DEF Inv, Waiting, Links, Types
  <2>3. b \in Anc[Parent[x]]
    BY <1>2, <2>2, ParentFacts
  <2>4. b \in Anc[x]
    BY <2>1, <2>3, ParentFacts
  <2> QED BY <1>2, <2>1, <2>2, <2>4
<1>8. Gaps'
  <2> SUFFICES ASSUME NEW x \in linked', unlinked'[x] > 0
               PROVE  x \in haveData' /\ MissingBelow(x)'
    BY DEF Gaps
  <2>1. x \notin L /\ x \in linked /\ unlinked[x] > 0 /\ x \in Blocks /\ x \in index
    BY <1>1, <1>2, <1>4 DEF Inv, Types
  <2>2. x \in haveData
    BY <2>1 DEF Inv, Gaps
  <2>3. PICK a \in Anc[x] \ haveData : \A y \in Anc[x] \ Anc[a] : unlinked[y] > 0
    BY <2>1 DEF Inv, Gaps, MissingBelow
  <2>4. /\ a \in Blocks /\ Anc[a] \subseteq Anc[x] /\ Anc[x] \subseteq linked
        /\ Height[a] \in Nat /\ Height[b] \in Nat
    BY <2>1, <2>3, AncTransitive, ClosedHoldsBranches, ParentFacts DEF Inv, Links
  <2>5. a # b
    BY <2>1, <2>3 DEF L, NewlyLinked
  <2>6. ASSUME NEW y \in Anc[x] \ Anc[a] PROVE unlinked'[y] > 0
    <3> SUFFICES ASSUME y \in L, y # b PROVE FALSE
      BY <1>1, <2>1, <2>3, ParentFacts
    <3>1. y \in Blocks /\ b \in Anc[y] /\ Anc[y] \subseteq Anc[x] /\ Height[y] \in Nat
      BY <1>2, <2>1, AncTransitive, ParentFacts
    <3>2. CASE b \in Anc[a]
      <4>1. Height[b] < Height[a]
        BY <2>4, <2>5, <3>2, AncLower
      <4>2. a \notin Anc[b]
        BY <2>4, <2>5, <4>1, AncLower
      <4>3. a \in Anc[y]
        <5>1. ~(Height[y] <= Height[a])
          BY <2>1, <2>3, <2>6, AncComparable
        <5> QED BY <2>1, <2>3, <2>4, <2>6, <3>1, <5>1, AncComparable
      <4>4. unlinked[a] > 0
        BY <4>2, <4>3 DEF L, NewlyLinked
      <4> QED BY <2>3, <2>4, <4>4 DEF Inv, Gaps
    <3>3. CASE b \notin Anc[a]
      <4>1. unlinked[b] > 0
        BY <2>3, <3>1, <3>3
      <4> QED BY <1>2, <4>1
    <3> QED BY <3>2, <3>3
  <2> QED BY <1>1, <2>2, <2>3, <2>5, <2>6 DEF MissingBelow
<1>9. Remembered' /\ FailedMarksJustified'
  <2>1. \A x \in haveData' \ linked' : x \in haveData \ linked /\ unlinked'[x] = unlinked[x]
    BY <1>1, <1>2, <1>4 DEF Inv, Types
  <2>2. Remembered'
    BY <1>0, <1>1, <2>1 DEF Inv, Remembered, NotReconsidered
  <2>3. FailedMarksJustified'
    BY <1>0, <1>1 DEF Inv, Types, FailedMarksJustified, Failed, NotReconsidered
  <2> QED BY <2>2, <2>3
<1>10. Sound'
  BY <1>0, <1>1 DEF Inv, Sound, ActiveChainSound, Active, Failed
<1> QED BY <1>0, <1>5, <1>6, <1>7, <1>8, <1>9, <1>10 DEF Inv

\* A block is stored and its parent is not linked: it waits, unless its parent failed.
LEMMA StoreUnlinkedStep ==
    ASSUME Inv, NEW t \in Threads, NEW b \in Blocks \ {Genesis}, NEW r \in BOOLEAN,
           ProcessNewBlock(t, b, r), StoreBlock(t, b, r), Parent[b] \notin linked
    PROVE  Inv'
<1>0. /\ index' = index \cup {b} /\ Closed(index)' /\ Parent[b] \in index
      /\ UNCHANGED <<haveUndo, failedChild, tip, mostWork, shutdown, sysError, unremoved, used>>
      /\ Flags'
  BY ArrivedFacts
<1>1. b \notin linked
  BY DEF Inv, Links, Closed
<1>2. /\ b \notin haveData /\ b \notin ContextBad /\ failedValid' = failedValid
      /\ haveData' = haveData \cup {b} /\ received' = received \cup {b}
      /\ linked' = linked
      /\ unlinked' = [unlinked EXCEPT ![b] = @ + Waits(b)]
      /\ UNCHANGED <<seqId, nextSeqId, candidates>>
      /\ pc' = [pc EXCEPT ![t] = "activate"]
  BY <1>1 DEF StoreBlock, WantBlock, ReceivedBlockTransactions
<1>3. /\ unlinked' \in [Blocks -> Nat] /\ \A y \in Blocks : unlinked'[y] >= unlinked[y]
      /\ \A y \in Blocks \ {b} : unlinked'[y] = unlinked[y]
      /\ Parent[b] \notin Failed => unlinked'[b] > 0
  BY <1>2 DEF Inv, Types, Waits
<1>4. Types'
  BY <1>0, <1>2, <1>3 DEF Inv, Types, Locations
<1>5. Links' /\ Waiting'
  BY <1>0, <1>2, <1>3 DEF Inv, Links, Closed, Waiting
<1>6. Gaps'
  <2> SUFFICES ASSUME NEW x \in linked, unlinked'[x] > 0
               PROVE  x \in haveData' /\ MissingBelow(x)'
    BY <1>2 DEF Gaps
  <2>1. x \in Blocks /\ unlinked[x] > 0
    BY <1>1, <1>3 DEF Inv, Types
  <2>2. x \in haveData
    BY <2>1 DEF Inv, Gaps
  <2>3. PICK a \in Anc[x] \ haveData : \A y \in Anc[x] \ Anc[a] : unlinked[y] > 0
    BY <2>1 DEF Inv, Gaps, MissingBelow
  <2>4. a # b
    BY <1>1, <2>3, ClosedHoldsBranches DEF Inv, Links
  <2>5. \A y \in Anc[x] \ Anc[a] : unlinked'[y] > 0
    <3> SUFFICES ASSUME NEW y \in Anc[x] \ Anc[a] PROVE unlinked'[y] > 0
      OBVIOUS
    <3>1. y \in Blocks
      BY <2>1, ParentFacts
    <3> QED BY <1>3, <2>3, <3>1 DEF Inv, Types
  <2> QED BY <1>2, <2>2, <2>3, <2>4, <2>5 DEF MissingBelow
<1>7. FailedMarksJustified'
  BY <1>0, <1>2 DEF Inv, Types, FailedMarksJustified, Failed, NotReconsidered
<1>8. Remembered'
  <2> SUFFICES ASSUME NotReconsidered, NEW x \in haveData' \ linked
               PROVE  unlinked'[x] > 0 \/ Anc[x] \cap failedValid # {}
    BY <1>0, <1>2 DEF Remembered, NotReconsidered
  <2>1. CASE x # b
    BY <1>2, <1>3, <2>1 DEF Inv, Types, Remembered
  <2>2. CASE x = b /\ Parent[b] \in Failed
    <3>1. Anc[Parent[b]] \cap failedValid # {}
      BY <1>0, <2>2 DEF Inv, FailedMarksJustified
    <3> QED BY <2>2, <3>1, ParentFacts
  <2>3. CASE x = b /\ Parent[b] \notin Failed
    BY <1>3, <2>3
  <2> QED BY <2>1, <2>2, <2>3
<1>9. Sound'
  BY <1>0, <1>2 DEF Inv, Sound, ActiveChainSound, Active, Failed
<1> QED BY <1>0, <1>4, <1>5, <1>6, <1>7, <1>8, <1>9 DEF Inv

-----------------------------------------------------------------------------
(* A round of ActivateBestChain.                                           *)

\* The active chain and the branches of the candidates.
LEMMA BranchFacts ==
    ASSUME Inv
    PROVE  /\ tip \in Blocks /\ Active \subseteq linked /\ Genesis \in Active
           /\ linked \subseteq Blocks /\ candidates \subseteq linked
           /\ \A c \in candidates : Anc[c] \subseteq linked /\ Path(c) \subseteq linked
           /\ \A a \in Active : Anc[a] \subseteq Active
<1>1. tip \in Blocks /\ linked \subseteq Blocks /\ candidates \subseteq linked
  BY DEF Inv, Types
<1>2. \A c \in linked : Anc[c] \subseteq linked
  BY ClosedHoldsBranches DEF Inv, Links
<1> QED BY <1>1, <1>2, GenesisFirst, AncTransitive DEF Active, Path, Inv, Types

\* The block FindMostWorkChain stops at lies below the blocks it passed, which are fine.
LEMMA ObstacleFacts ==
    ASSUME Inv, NEW c \in Turns
    PROVE  /\ c \in candidates /\ Obstacle(c) \in Path(c)
           /\ Obstacle(c) \in Failed \/ Obstacle(c) \notin haveData
           /\ Above(c) \subseteq Path(c)
           /\ \A a \in Above(c) : /\ Obstacle(c) \in Anc[a] /\ a \in haveData
                                  /\ \A y \in Anc[a] \ Anc[Obstacle(c)] : y \in Above(c)
<1> DEFINE o == Obstacle(c)
<1>1. c \in candidates /\ Unusable(c) # {} /\ c \in Blocks
  BY BranchFacts DEF Turns, Hopeless
<1>2. Unusable(c) \in SUBSET Anc[c]
  BY DEF Unusable, Path
<1>3. o \in Unusable(c) /\ \A x \in Unusable(c) : Height[x] <= Height[o]
  BY <1>1, <1>2, HighestExists DEF Obstacle
<1>4. o \in Path(c) /\ (o \in Failed \/ o \notin haveData)
  BY <1>3 DEF Unusable
<1> HIDE DEF o
<1>5. ASSUME NEW a \in Anc[c], a \notin Active, Height[a] > Height[o]
      PROVE  /\ o \in Anc[a] /\ a \in haveData
             /\ \A y \in Anc[a] \ Anc[o] : y \in Anc[c] \ Active /\ Height[y] > Height[o]
  <2>1. a \in Blocks /\ o \in Blocks /\ o \in Anc[c] /\ Height[a] \in Nat /\ Height[o] \in Nat
    BY <1>1, <1>4, ParentFacts DEF Path
  <2>2. o \in Anc[a]
    BY <1>1, <1>5, <2>1, AncComparable
  <2>3. a \in haveData
    BY <1>3, <1>5, <2>1 DEF Unusable, Path
  <2>4. ASSUME NEW y \in Anc[a] \ Anc[o] PROVE y \in Anc[c] \ Active /\ Height[y] > Height[o]
    <3>1. y \in Anc[c] /\ y \in Blocks /\ Height[y] \in Nat
      BY <1>1, <2>1, AncTransitive, ParentFacts
    <3>2. ~(Height[y] <= Height[o])
      BY <1>1, <2>1, <3>1, AncComparable
    <3>3. o \in Anc[y]
      BY <1>1, <2>1, <3>1, <3>2, AncComparable
    <3>4. y \notin Active
      BY <1>4, <3>3, BranchFacts DEF Path
    <3> QED BY <2>1, <3>1, <3>2, <3>4
  <2> QED BY <2>2, <2>3, <2>4
<1>6. Above(c) = {a \in Anc[c] : a \notin Active /\ Height[a] > Height[o]}
  BY DEF Above, Path, o
<1> QED BY <1>1, <1>4, <1>5, <1>6 DEF o, Path

\* The blocks FindMostWorkChain marks because of a failure below them.
Marks == UNION {Above(c) : c \in {d \in Turns : Obstacle(d) \in Failed}}

\* The marks are justified, and neither on the active chain nor on the way to a usable
\* candidate.
LEMMA MarksFacts ==
    ASSUME Inv
    PROVE  /\ Marks \subseteq linked /\ Marks \cap Active = {}
           /\ \A a \in Marks : \E o \in Failed : o \in Anc[a] /\ Anc[o] \subseteq Anc[a]
           /\ \A target \in MostWork : Marks \cap Path(target) = {}
<1>1. ASSUME NEW a \in Marks
      PROVE  /\ a \in linked /\ a \notin Active
             /\ \E o \in Failed : o \in Anc[a] /\ Anc[o] \subseteq Anc[a] /\ o \notin Active
  <2>1. PICK c \in Turns : a \in Above(c) /\ Obstacle(c) \in Failed
    BY DEF Marks
  <2>2. /\ c \in candidates /\ a \in Path(c) /\ Obstacle(c) \in Anc[a]
        /\ Obstacle(c) \in Path(c)
    BY <2>1, ObstacleFacts
  <2>3. a \in linked /\ a \in Blocks
    BY <2>2, BranchFacts
  <2>4. Anc[Obstacle(c)] \subseteq Anc[a]
    BY <2>2, <2>3, AncTransitive
  <2> QED BY <2>1, <2>2, <2>3, <2>4 DEF Path
<1>2. ASSUME NEW target \in MostWork, NEW a \in Marks, a \in Path(target) PROVE FALSE
  <2>1. target \in candidates /\ Unusable(target) = {} /\ target \in Blocks
    BY BranchFacts DEF MostWork, UsableCandidates
  <2>2. PICK o \in Failed : o \in Anc[a] /\ o \notin Active
    BY <1>1
  <2>3. o \in Path(target)
    BY <1>2, <2>1, <2>2, AncTransitive DEF Path
  <2> QED BY <2>1, <2>2, <2>3 DEF Unusable
<1> QED BY <1>1, <1>2

\* How often a block is put back: at least once exactly when a walk over it met missing
\* data.
LEMMA PutBackFacts ==
    ASSUME Inv, NEW x
    PROVE  /\ PutBack(x) \in Nat
           /\ PutBack(x) > 0 <=> \E c \in Turns : x \in Above(c) /\ Obstacle(c) \notin Failed
<1> DEFINE C == {c \in Turns : x \in Above(c) /\ Obstacle(c) \notin Failed}
<1>1. C \subseteq Blocks
  BY BranchFacts DEF Turns, Hopeless
<1>2. IsFiniteSet(C)
  BY <1>1, FS_Subset, TreeAssumption
<1>3. Cardinality(C) \in Nat /\ (Cardinality(C) = 0 <=> C = {})
  <2> HIDE DEF C
  <2> QED BY <1>2, FS_CardinalityType, FS_EmptySet
<1>4. PutBack(x) = Cardinality(C)
  BY DEF PutBack
<1>5. C # {} <=> \E c \in Turns : x \in Above(c) /\ Obstacle(c) \notin Failed
  OBVIOUS
<1> HIDE DEF C
<1> QED BY <1>3, <1>4, <1>5

\* The way to the target is stored and has no failed block; the goal is on it.
LEMMA TargetFacts ==
    ASSUME Inv, NEW target \in MostWork
    PROVE  /\ target \in linked /\ target \in Blocks /\ Anc[target] \subseteq linked
           /\ Path(target) \subseteq haveData /\ Path(target) \cap Failed = {}
           /\ Goal(target) \in Anc[target]
<1>1. target \in candidates /\ Unusable(target) = {}
  BY DEF MostWork, UsableCandidates
<1>2. target \in linked /\ target \in Blocks /\ Anc[target] \subseteq linked
  BY <1>1, BranchFacts
<1>3. Path(target) \subseteq haveData /\ Path(target) \cap Failed = {}
  BY <1>1 DEF Unusable
<1>4. Goal(target) \in Anc[target]
  <2> DEFINE better == {b \in Path(target) : Work[b] > Work[tip]}
  <2>1. better \in SUBSET Blocks /\ better \subseteq Anc[target]
    BY <1>2, ParentFacts DEF Path
  <2>2. CASE better = {}
    BY <1>2, <2>2, ParentFacts DEF Goal
  <2>3. CASE better # {}
    <3>1. Goal(target) = Lowest(better)
      BY <2>3 DEF Goal
    <3> HIDE DEF better
    <3> QED BY <2>1, <2>3, <3>1, LowestExists
  <2> QED BY <2>2, <2>3
<1> QED BY <1>2, <1>3, <1>4

\* What every ending of ActivateBestChainStep has in common: the new active chain
\* consists of old active blocks and of accepted ones on the way to the target, and a
\* block that is marked now is not in it.
Moved(target) ==
    /\ tip' \in linked
    /\ Anc[tip'] \subseteq Active \cup Path(target)
    /\ Anc[tip'] \cap Path(target) \cap ConnectBad = {}
    /\ haveUndo' = haveUndo \cup (Path(target) \cap Anc[tip'])
    /\ candidates' \subseteq candidates
    /\ \/ failedValid' = failedValid
       \/ \E bad \in Path(target) \cap ConnectBad :
             failedValid' = failedValid \cup {bad} /\ bad \notin Anc[tip']

\* A tip on the way to the goal, below every refused block.
LEMMA OnTheWay ==
    ASSUME Inv, NEW target \in MostWork, NEW n \in Anc[Goal(target)],
           Anc[n] \cap Refused(target) = {}
    PROVE  /\ n \in linked /\ Anc[n] \subseteq Active \cup Path(target)
           /\ Anc[n] \cap Path(target) \cap ConnectBad = {}
<1>1. Goal(target) \in Anc[target] /\ target \in Blocks /\ Anc[target] \subseteq linked
  BY TargetFacts
<1>2. Goal(target) \in Blocks /\ Anc[Goal(target)] \subseteq Anc[target]
  BY <1>1, AncTransitive
<1>3. Anc[n] \subseteq Anc[Goal(target)]
  BY <1>2, AncTransitive
<1> QED BY <1>1, <1>2, <1>3 DEF Path, Refused

\* A tip in the old active chain.
LEMMA StillActive ==
    ASSUME Inv, NEW target \in MostWork, NEW n \in Active
    PROVE  /\ n \in linked /\ Anc[n] \subseteq Active \cup Path(target)
           /\ Anc[n] \cap Path(target) \cap ConnectBad = {}
BY BranchFacts DEF Path

\* What a step of ActivateBestChain does to the tip and to what has failed.
LEMMA StepMoves ==
    ASSUME Inv, NEW t \in Threads, NEW target \in MostWork,
           \/ StepSucceeds(t, target) \/ StepMeetsInvalidBlock(t, target)
           \/ StepIsStuck(t, target) \/ StepAborts(t, target)
    PROVE  Moved(target)
<1>0. \A n : StillCandidates(target, n) \subseteq candidates
  BY DEF StillCandidates, Remaining
<1>1. Goal(target) \in Blocks /\ Goal(target) \in Anc[Goal(target)]
  BY TargetFacts, AncTransitive, ParentFacts
<1>2. CASE StepSucceeds(t, target)
  <2>1. Anc[Goal(target)] \cap Refused(target) = {}
    BY <1>2 DEF StepSucceeds
  <2> QED BY <1>0, <1>1, <1>2, <2>1, OnTheWay DEF StepSucceeds, MoveTip, Moved
<1>3. CASE StepMeetsInvalidBlock(t, target)
  <2> DEFINE bad == Lowest(Refused(target))
  <2>1. /\ tip' = Parent[bad] /\ failedValid' = failedValid \cup {bad}
        /\ haveUndo' = haveUndo \cup (Path(target) \cap Anc[tip'])
        /\ candidates' \subseteq candidates /\ Refused(target) # {}
    BY <1>0, <1>3 DEF StepMeetsInvalidBlock, MoveTip
  <2>2. Refused(target) \in SUBSET Blocks
    BY <1>1, ParentFacts DEF Refused
  <2>3. bad \in Refused(target) /\ \A x \in Refused(target) : Height[x] >= Height[bad]
    BY <2>1, <2>2, LowestExists
  <2> HIDE DEF bad
  <2>4. /\ bad \in Path(target) \cap ConnectBad /\ bad \in Anc[Goal(target)]
        /\ bad \in Blocks /\ bad # Genesis
    BY <2>2, <2>3, BranchFacts DEF Refused, Path
  <2>5. /\ Parent[bad] \in Blocks /\ Parent[bad] \in Anc[bad]
        /\ Height[bad] = Height[Parent[bad]] + 1 /\ Height[Parent[bad]] \in Nat
    BY <2>4, ParentFacts
  <2>6. Parent[bad] \in Anc[Goal(target)]
    BY <1>1, <2>4, <2>5, AncTransitive
  <2>7. \A x \in Anc[Parent[bad]] : ~(Height[x] >= Height[bad])
    BY <2>5, AncLower, ParentFacts
  <2>8. bad \notin Anc[Parent[bad]] /\ Anc[Parent[bad]] \cap Refused(target) = {}
    BY <2>3, <2>4, <2>5, <2>7, ParentFacts
  <2> QED BY <2>1, <2>4, <2>6, <2>8, OnTheWay DEF Moved
<1>4. CASE StepIsStuck(t, target)
  <2>1. Stuck(target) \in SUBSET Anc[tip] /\ Stuck(target) # {} /\ tip \in Blocks
    BY <1>4, BranchFacts DEF StepIsStuck, Stuck, Active
  <2>2. Highest(Stuck(target)) \in Active
    BY <2>1, HighestExists DEF Active
  <2>3. Remaining \subseteq candidates
    BY DEF Remaining
  <2> QED BY <1>4, <2>2, <2>3, StillActive DEF StepIsStuck, MoveTip, Moved
<1>5. CASE StepAborts(t, target)
  <2>1. PICK n \in {Highest(Active \cap Anc[target])} \cup (Active \ Anc[target])
                   \cup (Path(target) \cap Anc[Goal(target)]) :
          /\ Anc[n] \cap Refused(target) = {}
          /\ MoveTip(target, n)
          /\ candidates' = StillCandidates(target, n)
    BY <1>5 DEF StepAborts
  <2>2. failedValid' = failedValid /\ candidates' \subseteq candidates
    BY <1>0, <1>5, <2>1 DEF StepAborts
  <2>3. Highest(Active \cap Anc[target]) \in Active
    <3>1. Genesis \in Active \cap Anc[target] /\ target \in Blocks
      BY TargetFacts, BranchFacts, GenesisFirst
    <3>2. Active \cap Anc[target] \in SUBSET Anc[target]
      OBVIOUS
    <3> QED BY <3>1, <3>2, HighestExists
  <2>4. CASE n \in Active
    BY <2>1, <2>2, <2>4, StillActive DEF MoveTip, Moved
  <2>5. CASE n \in Anc[Goal(target)]
    BY <2>1, <2>2, <2>5, OnTheWay DEF MoveTip, Moved
  <2> QED BY <2>1, <2>3, <2>4, <2>5
<1> QED BY <1>2, <1>3, <1>4, <1>5

\* What a round leaves alone, and what it does to counters and flags.
LEMMA RoundFlow ==
    ASSUME Inv, NEW t \in Threads, ActivateRound(t)
    PROVE  /\ UNCHANGED <<index, haveData, received, linked, seqId, nextSeqId, unremoved>>
           /\ failedChild' = failedChild \cup Marks
           /\ unlinked' = [b \in Blocks |-> unlinked[b] + PutBack(b)]
           /\ used' \in [RareOps -> Nat] /\ used'["reconsider"] = used["reconsider"]
           /\ pc' \in [Threads -> Locations] /\ mostWork' \in [Threads -> Blocks]
           /\ Flags'
<1>1. /\ UNCHANGED <<index, haveData, received, linked, seqId, nextSeqId, unremoved>>
      /\ failedChild' = failedChild \cup Marks
      /\ unlinked' = [b \in Blocks |-> unlinked[b] + PutBack(b)]
  BY DEF ActivateRound, FindMostWorkChain, Marks
<1>2. used' \in [RareOps -> Nat] /\ used'["reconsider"] = used["reconsider"]
  <2>1. used' = used \/ Spend("shutdown")
    BY DEF ActivateRound, StepSucceeds, StepMeetsInvalidBlock, StepIsStuck, StepAborts
  <2> QED BY <2>1, SpendFacts DEF Inv, Types, RareOps
<1>3. pc' \in [Threads -> Locations]
  BY DEF ActivateRound, StepSucceeds, StepMeetsInvalidBlock, StepIsStuck, StepAborts,
         Inv, Types, Locations
<1>4. mostWork' \in [Threads -> Blocks]
  BY TargetFacts DEF ActivateRound, Inv, Types
<1>5. Flags'
  <2>1. shutdown \in BOOLEAN /\ sysError \in BOOLEAN
    BY Zenon DEF Inv, Flags
  <2>2. \/ shutdown' = shutdown /\ sysError' = sysError
        \/ sysError' = TRUE /\ shutdown' = TRUE
        \/ sysError' = TRUE /\ \E c \in BOOLEAN : shutdown' = (shutdown \/ c)
    BY Zenon DEF ActivateRound, StepSucceeds, StepMeetsInvalidBlock, StepIsStuck, StepAborts
  <2> QED BY <2>1, <2>2, Zenon DEF Flags
<1> QED BY <1>1, <1>2, <1>3, <1>4, <1>5

\* A round of ActivateBestChain.
LEMMA RoundStep ==
    ASSUME Inv, NEW t \in Threads, ActivateRound(t)
    PROVE  Inv'
<1>0. /\ UNCHANGED <<index, haveData, received, linked, seqId, nextSeqId, unremoved>>
      /\ failedChild' = failedChild \cup Marks
      /\ unlinked' = [b \in Blocks |-> unlinked[b] + PutBack(b)]
      /\ used' \in [RareOps -> Nat] /\ used'["reconsider"] = used["reconsider"]
      /\ pc' \in [Threads -> Locations] /\ mostWork' \in [Threads -> Blocks]
      /\ Flags'
  BY RoundFlow
<1>1. \/ UNCHANGED <<tip, haveUndo, failedValid>> /\ candidates' \subseteq candidates
      \/ \E target \in MostWork : Moved(target)
  <2>1. CASE \E target \in MostWork \ {tip} :
                \/ StepSucceeds(t, target) \/ StepMeetsInvalidBlock(t, target)
                \/ StepIsStuck(t, target) \/ StepAborts(t, target)
    BY <2>1, StepMoves
  <2>2. CASE UNCHANGED <<tip, haveUndo, failedValid>> /\ candidates' = Remaining
    BY <2>2 DEF Remaining
  <2> QED BY <2>1, <2>2 DEF ActivateRound
<1>2. Marks \subseteq linked /\ Marks \cap Active = {}
  BY MarksFacts
<1>3. \A x \in Blocks : /\ unlinked'[x] \in Nat /\ unlinked[x] \in Nat
                        /\ unlinked'[x] >= unlinked[x]
                        /\ PutBack(x) > 0 => unlinked'[x] > 0
                        /\ unlinked'[x] > 0 => unlinked[x] > 0 \/ PutBack(x) > 0
  BY <1>0, PutBackFacts DEF Inv, Types
<1>4. \A x \in Blocks : PutBack(x) > 0 => x \in linked /\ x \in haveData
  BY PutBackFacts, ObstacleFacts, BranchFacts
<1>5. tip' \in linked /\ haveUndo' \subseteq haveData /\ candidates' \subseteq candidates
  BY <1>1, TargetFacts DEF Moved, Inv, Types
<1>6. failedValid \subseteq failedValid' /\ failedValid' \subseteq index
  BY <1>1, TargetFacts DEF Moved, Inv, Types
<1>7. Types'
  <2>1. unlinked' \in [Blocks -> Nat]
    BY <1>0, <1>3
  <2> QED BY <1>0, <1>2, <1>5, <1>6, <2>1 DEF Inv, Types
<1>8. Links' /\ Waiting'
  BY <1>0, <1>3, <1>4 DEF Inv, Types, Links, Closed, Waiting
<1>9. Gaps'
  <2> SUFFICES ASSUME NEW x \in linked, unlinked'[x] > 0
               PROVE  x \in haveData /\ MissingBelow(x)'
    BY <1>0 DEF Gaps
  <2>0. x \in Blocks /\ \A y \in Anc[x] : y \in Blocks
    BY BranchFacts, ParentFacts
  <2>1. CASE PutBack(x) > 0
    <3>1. PICK c \in Turns : x \in Above(c) /\ Obstacle(c) \notin Failed
      BY <2>1, PutBackFacts
    <3>2. /\ Obstacle(c) \in Anc[x] \ haveData /\ x \in haveData
          /\ \A y \in Anc[x] \ Anc[Obstacle(c)] : y \in Above(c)
      BY <3>1, ObstacleFacts
    <3>3. \A y \in Anc[x] \ Anc[Obstacle(c)] : unlinked'[y] > 0
      BY <1>3, <2>0, <3>1, <3>2, PutBackFacts
    <3> QED BY <1>0, <3>2, <3>3 DEF MissingBelow
  <2>2. CASE ~(PutBack(x) > 0)
    <3>1. unlinked[x] > 0
      BY <1>3, <2>0, <2>2
    <3>2. x \in haveData /\ MissingBelow(x)
      BY <3>1 DEF Inv, Gaps
    <3>3. \A y \in Anc[x] : unlinked[y] > 0 => unlinked'[y] > 0
      BY <1>3, <2>0
    <3> QED BY <1>0, <3>2, <3>3 DEF MissingBelow
  <2> QED BY <2>1, <2>2
<1>10. Remembered'
  BY <1>0, <1>3, <1>6 DEF Inv, Types, Remembered, NotReconsidered
<1>11. FailedMarksJustified'
  <2> SUFFICES ASSUME NotReconsidered, NEW b \in index, b \in Failed'
               PROVE  Anc[b] \cap failedValid' # {}
    BY <1>0 DEF FailedMarksJustified, NotReconsidered
  <2>1. b \in Blocks /\ b \in Anc[b]
    BY ParentFacts DEF Inv, Types
  <2>2. CASE b \in failedValid'
    BY <2>1, <2>2
  <2>3. CASE b \in failedChild
    BY <1>6, <2>3 DEF Inv, FailedMarksJustified, Failed
  <2>4. CASE b \in Marks
    <3>1. PICK o \in Failed : o \in Anc[b] /\ Anc[o] \subseteq Anc[b]
      BY <2>4, MarksFacts
    <3>2. Anc[o] \cap failedValid # {}
      BY <3>1 DEF Inv, FailedMarksJustified, Failed, Types
    <3> QED BY <1>6, <3>1, <3>2
  <2> QED BY <1>0, <2>2, <2>3, <2>4 DEF Failed
<1>12. Sound'
  <2>1. CASE UNCHANGED <<tip, haveUndo, failedValid>>
    BY <1>0, <1>2, <2>1 DEF Inv, Sound, ActiveChainSound, Active, Failed
  <2>2. ASSUME NEW target \in MostWork, Moved(target) PROVE Sound'
    <3>1. /\ Path(target) \subseteq haveData /\ Path(target) \cap Failed = {}
          /\ Marks \cap Path(target) = {}
      BY TargetFacts, MarksFacts
    <3>2. Anc[tip'] \cap (failedChild' \cup failedValid) \subseteq unremoved
      BY <1>0, <1>2, <2>2, <3>1 DEF Moved, Inv, Sound, ActiveChainSound, Failed
    <3>3. Anc[tip'] \cap failedValid' \subseteq unremoved
      BY <2>2, <3>2 DEF Moved
    <3>4. Anc[tip'] \cap (ContextBad \cup ConnectBad) = {}
      BY <2>2, <3>1 DEF Moved, Inv, Sound, ActiveChainSound
    <3> QED BY <1>0, <3>2, <3>3, <3>4 DEF Inv, Sound, ActiveChainSound, Active, Failed
  <2> QED BY <1>1, <2>1, <2>2
<1> QED BY <1>0, <1>7, <1>8, <1>9, <1>10, <1>11, <1>12 DEF Inv

-----------------------------------------------------------------------------
(* The theorems.                                                           *)

\* Every step keeps the invariant.
LEMMA StepInv ==
    ASSUME Inv, [Next]_vars
    PROVE  Inv'
<1>1. ASSUME NEW t \in Threads, NEW b \in Blocks \ {Genesis}, NEW r \in BOOLEAN,
             ProcessNewBlock(t, b, r)
      PROVE  Inv'
  <2>1. IgnoreBlock(t, b, r) \/ RejectBlock(b, r) \/ StoreBlock(t, b, r)
    BY <1>1 DEF ProcessNewBlock
  <2> QED BY <1>1, <2>1, DropStep, StoreLinkedStep, StoreUnlinkedStep
<1>2. ASSUME NEW t \in Threads, ActivateBestChain(t) PROVE Inv'
  BY <1>2, RoundStep, FlowSteps DEF ActivateBestChain
<1>3. CASE UNCHANGED vars
  <2>1. Flags'
    BY <1>3, Zenon DEF vars, Inv, Flags
  <2> QED BY <1>3, <2>1, QuietStep DEF vars, Inv, Types
<1> QED BY <1>1, <1>2, <1>3, HeaderStep, InvalidateStep, ReconsiderStep, PruneStep,
           InvalidateFailsStep, FlowSteps, RestartStep DEF Next

\* The invariant holds in every behaviour.
THEOREM InvCorrect == Spec => []Inv
BY InitInv, StepInv, PTL DEF Spec

\* The assertions of CheckBlockIndex (src/main.cpp:3815-3889) on the status of blocks,
\* on nChainTx and on mapBlocksUnlinked, in any tree and after any sequence of blocks,
\* reorganisations, failures, prunings and restarts.
THEOREM CheckBlockIndexCorrect == Spec => []CheckBlockIndex
<1>1. Inv => CheckBlockIndex
  BY InvImplies
<1> QED BY <1>1, InvCorrect, PTL

\* No block marked as failed is in the active chain but those that InvalidateBlock
\* marked before their DisconnectTip failed (src/main.cpp:2689-2703), and no block is
\* marked without a failure below it (unless reconsiderblock cleared that one).
THEOREM FailuresRespectedCorrect == Spec => []FailuresRespected
<1>1. Inv => FailuresRespected
  BY InvImplies
<1> QED BY <1>1, InvCorrect, PTL

\* In particular, at any release of cs_main every block of the active chain is one that
\* ContextualCheckBlock and ConnectBlock accept, and the failed ones among them are those
\* of an InvalidateBlock that could not disconnect them.
THEOREM ActiveChainSoundCorrect == Spec => []ActiveChainSound
<1>1. Inv => ActiveChainSound
  BY DEF Inv, Sound
<1> QED BY <1>1, InvCorrect, PTL

-----------------------------------------------------------------------------
(* Without pruning (-prune is off by default) data once received is kept,  *)
(* so a block is numbered only once.                                       *)

\* No block file is ever pruned.
Unpruned == \A budget \in Budgets : budget["prune"] = 0

\* No data is lost.
Kept == received = haveData

\* Then PruneOneBlockFile never happens ...
LEMMA NeverPruned ==
    ASSUME Unpruned, Inv, NEW S \in SUBSET Blocks, PruneOneBlockFile(S)
    PROVE  FALSE
<1>1. used' = [used EXCEPT !["prune"] = @ + 1] /\ used \in [RareOps -> Nat]
  BY DEF PruneOneBlockFile, Spend, Inv, Types
<1>2. used'["prune"] = used["prune"] + 1 /\ used["prune"] \in Nat
  BY <1>1 DEF RareOps
<1>3. PICK budget \in Budgets : used'["prune"] <= budget["prune"]
  BY DEF PruneOneBlockFile, Spend, WithinBudget, RareOps
<1> QED BY <1>2, <1>3 DEF Unpruned

\* ... and data is kept.
LEMMA KeptStep ==
    ASSUME Unpruned, Inv, Kept, [Next]_vars
    PROVE  Kept'
<1>1. ASSUME NEW S \in SUBSET Blocks, PruneOneBlockFile(S) PROVE FALSE
  BY <1>1, NeverPruned
<1>2. ASSUME NEW t \in Threads, NEW b \in Blocks \ {Genesis}, NEW r \in BOOLEAN,
             ProcessNewBlock(t, b, r)
      PROVE  Kept'
  BY <1>2 DEF ProcessNewBlock, IgnoreBlock, RejectBlock, StoreBlock,
              ReceivedBlockTransactions, Kept
<1>3. CASE \/ \E b \in Blocks \ {Genesis} : AcceptBlockHeader(b)
           \/ \E t \in Threads : ActivateBestChain(t) \/ Restart(t)
           \/ \E t \in Threads, b \in Blocks : InvalidateBlock(t, b) \/ InvalidateFails(t, b)
                                              \/ ReconsiderBlock(t, b)
           \/ StartShutdown
  BY <1>3 DEF AcceptBlockHeader, ActivateBestChain, ActivateRound, LoopTest, LeaveOnShutdown,
              Restart, InvalidateBlock, InvalidateFails, ReconsiderBlock, StartShutdown,
              treeVars, Kept
<1>4. CASE UNCHANGED vars
  BY <1>4 DEF vars, treeVars, Kept
<1> QED BY <1>1, <1>2, <1>3, <1>4 DEF Next

\* What is linked with a new block was not linked before.
LEMMA NewOnes ==
    ASSUME Inv, Kept, NEW b \in Blocks \ {Genesis}, Parent[b] \in linked, b \notin haveData
    PROVE  NewlyLinked(b) \cap linked = {}
<1> SUFFICES ASSUME NEW x \in linked, x \in NewlyLinked(b) PROVE FALSE
  OBVIOUS
<1>1. x # b
  BY DEF Kept, Inv, Types
<1>2. unlinked[x] > 0
  BY <1>1, LinkedFacts
<1>3. ~MissingBelow(x)
  BY ClosedHoldsBranches DEF MissingBelow, Kept, Inv, Types, Links
<1> QED BY <1>2, <1>3 DEF Inv, Gaps

\* Only new blocks are numbered, so a candidate keeps its key.
LEMMA KeysStep ==
    ASSUME Inv, Kept, [Next]_vars, NEW b \in candidates
    PROVE  shutdown \/ seqId'[b] = seqId[b]
<1>1. b \in linked /\ b \in Blocks
  BY BranchFacts
<1>2. ASSUME NEW t \in Threads, NEW c \in Blocks \ {Genesis}, NEW r \in BOOLEAN,
             ProcessNewBlock(t, c, r)
      PROVE  seqId'[b] = seqId[b]
  <2>1. CASE UNCHANGED seqId
    BY <2>1
  <2>2. CASE StoreBlock(t, c, r) /\ Parent[c] \in linked
    <3>1. c \notin haveData
      BY <2>2 DEF StoreBlock, WantBlock
    <3>2. PICK f : seqId' = [x \in Blocks |-> IF x \in NewlyLinked(c) THEN f[x] ELSE seqId[x]]
      BY <2>2 DEF StoreBlock, ReceivedBlockTransactions
    <3>3. b \notin NewlyLinked(c)
      BY <1>1, <2>2, <3>1, NewOnes
    <3> QED BY <1>1, <3>2, <3>3
  <2> QED BY <1>2, <2>1, <2>2 DEF ProcessNewBlock, IgnoreBlock, RejectBlock, StoreBlock,
                                  ReceivedBlockTransactions
<1>3. CASE \/ \E c \in Blocks \ {Genesis} : AcceptBlockHeader(c)
           \/ \E t \in Threads : ActivateBestChain(t)
           \/ \E t \in Threads, c \in Blocks : InvalidateBlock(t, c) \/ InvalidateFails(t, c)
                                              \/ ReconsiderBlock(t, c)
           \/ \E S \in SUBSET Blocks : PruneOneBlockFile(S)
           \/ StartShutdown
  BY <1>3 DEF AcceptBlockHeader, ActivateBestChain, ActivateRound, LoopTest, LeaveOnShutdown,
              InvalidateBlock, InvalidateFails, ReconsiderBlock, PruneOneBlockFile,
              StartShutdown, treeVars
<1>4. ASSUME NEW t \in Threads, Restart(t) PROVE shutdown
  BY <1>4 DEF Restart
<1>5. CASE UNCHANGED vars
  BY <1>5 DEF vars, treeVars
<1> QED BY <1>2, <1>3, <1>4, <1>5 DEF Next

\* The key a candidate is sorted by does not change while it is in
\* setBlockIndexCandidates (nSequenceId is given in ReceivedBlockTransactions,
\* src/main.cpp:2814), on a node that does not prune.
THEOREM CandidateKeysStableCorrect == Unpruned /\ Spec => CandidateKeysStable
<1> SUFFICES ASSUME Unpruned PROVE Spec => CandidateKeysStable
  OBVIOUS
<1>1. Init => Kept
  BY DEF Init, Kept
<1>2. Inv /\ Kept /\ [Next]_vars => Kept'
  BY KeptStep
<1>3. Inv /\ Kept /\ [Next]_vars
        => [\A b \in candidates \cap candidates' : shutdown \/ seqId'[b] = seqId[b]]_vars
  BY KeysStep
<1> QED BY <1>1, <1>2, <1>3, InvCorrect, PTL DEF Spec, CandidateKeysStable

-----------------------------------------------------------------------------
(* The best chain, without pruning.                                        *)

\* CBlockIndexWorkComparator is a strict total order.
LEMMA WorseOrder ==
    ASSUME NEW s \in [Blocks -> Nat], NEW a \in Blocks, NEW b \in Blocks, NEW c \in Blocks
    PROVE  /\ ~Worse(a, a, s)
           /\ Worse(a, b, s) => ~Worse(b, a, s)
           /\ Worse(a, b, s) /\ Worse(b, c, s) => Worse(a, c, s)
           /\ a = b \/ Worse(a, b, s) \/ Worse(b, a, s)
<1>1. \A x \in Blocks : Work[x] \in Nat /\ Addr[x] \in Nat /\ s[x] \in Nat
  BY TreeAssumption
<1>2. \A x, y \in Blocks : Addr[x] = Addr[y] => x = y
  BY TreeAssumption
<1> QED BY <1>1, <1>2 DEF Worse

\* A block has more work than its ancestors.
LEMMA AncWorse ==
    ASSUME NEW b \in Blocks, NEW a \in Anc[b], a # b
    PROVE  Work[a] < Work[b]
<1> DEFINE P == {c \in Blocks : \A x \in Anc[c] : x # c => Work[x] < Work[c]}
<1>1. Genesis \in P
  BY TreeAssumption
<1>2. ASSUME NEW c \in Blocks \ {Genesis}, Parent[c] \in P PROVE c \in P
  <2> SUFFICES ASSUME NEW x \in Anc[c], x # c PROVE Work[x] < Work[c]
    OBVIOUS
  <2>1. x \in Anc[Parent[c]] /\ Parent[c] \in Blocks /\ x \in Blocks
    BY ParentFacts
  <2>2. Work[x] \in Nat /\ Work[c] \in Nat /\ Work[Parent[c]] \in Nat /\ Work[c] > Work[Parent[c]]
    BY <2>1, TreeAssumption
  <2>3. x = Parent[c] \/ Work[x] < Work[Parent[c]]
    BY <1>2, <2>1
  <2> QED BY <2>2, <2>3
<1>3. P = Blocks
  <2> HIDE DEF P
  <2>1. P \in SUBSET Blocks
    BY DEF P
  <2> QED BY <1>1, <1>2, <2>1, BranchInduction
<1> QED BY <1>3

\* A nonempty set of blocks has a best one.
LEMMA BestExists ==
    ASSUME NEW s \in [Blocks -> Nat], NEW S \in SUBSET Blocks, S # {}
    PROVE  \E b \in S : \A c \in S : ~Worse(b, c, s)
<1> DEFINE Better(b) == {c \in S : Worse(b, c, s)}
           T == {Better(b) : b \in S}
           R == StrictSubsetOrdering(S)
<1>1. IsFiniteSet(S)
  BY FS_Subset, TreeAssumption
<1>2. T \subseteq FiniteSubsetsOf(S) /\ T # {}
  <2>1. \A b \in S : Better(b) \in SUBSET S /\ IsFiniteSet(Better(b))
    BY <1>1, FS_Subset
  <2> QED BY <2>1 DEF FiniteSubsetsOf
<1>3. IsWellFoundedOn(R, FiniteSubsetsOf(S))
  BY FS_StrictSubsetOrderingWellFounded
<1>4. PICK x \in T : \A y \in T : ~(<<y, x>> \in R)
  <2> HIDE DEF T, R
  <2> QED BY <1>2, <1>3, WFMin
<1>5. PICK b \in S : x = Better(b)
  BY <1>4
<1>6. ASSUME NEW c \in S, Worse(b, c, s) PROVE FALSE
  <2>1. Better(c) \subseteq Better(b)
    BY <1>6, WorseOrder
  <2>2. c \in Better(b) /\ c \notin Better(c)
    BY <1>6, WorseOrder
  <2>3. <<Better(c), Better(b)>> \in R
    BY <2>1, <2>2 DEF StrictSubsetOrdering
  <2> QED BY <1>4, <1>5, <2>3
<1> QED BY <1>6

\* A block that could be connected: it is linked, without a failure below it.
Good(b) == b \in linked /\ Anc[b] \cap Failed = {}

\* A good block that is no candidate is worse than a candidate that is good and breaks
\* no rule, the anchor: the tip, or the tip before a reorganisation that met an invalid
\* block.
Anchor(T) ==
    /\ T \in candidates /\ Good(T) /\ Anc[T] \cap ConnectBad = {}
    /\ \A b \in Blocks : Good(b) /\ b \notin candidates => Worse(b, T, seqId)

\* Nothing was reconsidered, and no failed block was left in the active chain.
Normal == NotReconsidered /\ unremoved = {}

\* See Anchor.  It is not needed after an error that ends the node: a restart computes
\* the candidates anew.
Covered == Normal /\ ~shutdown => \E T \in Blocks : Anchor(T)

\* No candidate is worse than the tip.
NotWorse == \A c \in candidates : ~Worse(c, tip, seqId)

\* A thread is going to look for a better chain.
Pending ==
    \E t \in Threads : pc[t] = "activate" \/ (pc[t] = "stepped" /\ mostWork[t] # tip)

\* If none is, the tip is the best.
Best ==
    Normal /\ ~shutdown /\ ~sysError /\ ~Pending =>
        \A b \in Blocks : Good(b) => ~Worse(tip, b, seqId)

\* The inductive invariant for the best chain.
BestInv == Kept /\ Covered /\ NotWorse /\ Best

\* The tip is good; without pruning, good is the same as usable.
LEMMA GoodFacts ==
    ASSUME Inv, unremoved = {}
    PROVE  /\ Good(tip) /\ Anc[tip] \cap ConnectBad = {}
           /\ Kept => \A c \in linked : Unusable(c) = {} <=> Good(c)
<1>1. Good(tip) /\ Anc[tip] \cap ConnectBad = {}
  BY DEF Good, Inv, Types, Sound, ActiveChainSound, Active
<1>2. ASSUME Kept, NEW c \in linked PROVE Unusable(c) = {} <=> Good(c)
  <2>1. Anc[c] \subseteq haveData
    BY <1>2, ClosedHoldsBranches DEF Kept, Inv, Links, Types
  <2>2. Unusable(c) = Anc[c] \cap Failed
    BY <2>1 DEF Unusable, Path, Inv, Sound, ActiveChainSound
  <2> QED BY <1>2, <2>2 DEF Good
<1> QED BY <1>1, <1>2

\* What FindMostWorkChain returns is not worse than any good block, and it finds one.
LEMMA MostWorkBest ==
    ASSUME Inv, Kept, unremoved = {}, NEW T \in Blocks, Anchor(T)
    PROVE  /\ MostWork # {}
           /\ \A m \in MostWork : \A b \in Blocks : Good(b) => ~Worse(m, b, seqId)
<1>1. seqId \in [Blocks -> Nat] /\ candidates \subseteq linked /\ linked \subseteq Blocks
  BY DEF Inv, Types
<1>2. \A c \in candidates : c \in UsableCandidates <=> Good(c)
  BY <1>1, GoodFacts DEF UsableCandidates
<1>3. T \in UsableCandidates /\ UsableCandidates \in SUBSET Blocks
  BY <1>1, <1>2 DEF Anchor, UsableCandidates
<1>4. MostWork # {}
  BY <1>1, <1>3, BestExists DEF MostWork
<1>5. ASSUME NEW m \in MostWork, NEW b \in Blocks, Good(b), Worse(m, b, seqId) PROVE FALSE
  <2>1. m \in Blocks /\ ~Worse(m, T, seqId)
    BY <1>3 DEF MostWork
  <2>2. CASE b \in candidates
    BY <1>2, <1>5, <2>2 DEF MostWork
  <2>3. CASE b \notin candidates
    BY <1>1, <1>5, <2>1, <2>3, WorseOrder DEF Anchor
  <2> QED BY <2>2, <2>3
<1> QED BY <1>4, <1>5

\* FindMostWorkChain drops no good candidate.
LEMMA GoodRemain ==
    ASSUME Inv, Kept, NEW c \in candidates, Good(c)
    PROVE  c \in Remaining
<1> SUFFICES ASSUME NEW d \in Turns, c \in Above(d) \cup {Obstacle(d)} PROVE FALSE
  BY DEF Remaining
<1>1. c \in Blocks /\ c \in Anc[c]
  BY BranchFacts, ParentFacts
<1>2. Obstacle(d) \in Anc[c]
  BY <1>1, ObstacleFacts
<1>3. Obstacle(d) \in linked
  BY ObstacleFacts, BranchFacts
<1>4. Obstacle(d) \in Failed
  BY <1>3, ObstacleFacts DEF Kept, Inv, Types
<1> QED BY <1>2, <1>4 DEF Good

\* The operations that change none of the good blocks, the candidates and the tip.
LEMMA SameBlocks ==
    ASSUME Inv, Covered, NotWorse, UNCHANGED <<linked, seqId, candidates, tip>>,
           \A b \in linked : Good(b)' <=> Good(b),
           used'["reconsider"] = used["reconsider"], unremoved' = unremoved,
           ~shutdown' => ~shutdown
    PROVE  Covered' /\ NotWorse'
<1>1. NotWorse'
  BY DEF NotWorse, Worse
<1>2. ASSUME NEW T \in Blocks, Anchor(T) PROVE Anchor(T)'
  <2>1. T \in linked /\ \A b : Good(b)' => b \in linked
    BY <1>2 DEF Anchor, Good
  <2> QED BY <1>2, <2>1 DEF Anchor, Worse
<1> QED BY <1>1, <1>2 DEF Covered, Normal, NotReconsidered

\* A thread is about to look.
LEMMA PendingNow ==
    ASSUME NEW t \in Threads, Inv, pc' = [pc EXCEPT ![t] = "activate"]
    PROVE  Best'
<1>1. pc'[t] = "activate"
  BY DEF Inv, Types
<1> QED BY <1>1 DEF Best, Pending

\* Headers, the steps of ActivateBestChain without cs_main, a request to shut down.
LEMMA BestQuietSteps ==
    ASSUME Inv, BestInv,
           \/ \E b \in Blocks \ {Genesis} : AcceptBlockHeader(b)
           \/ \E t \in Threads : LoopTest(t) \/ LeaveOnShutdown(t)
           \/ StartShutdown
           \/ UNCHANGED vars
    PROVE  Covered' /\ NotWorse' /\ Best'
<1>1. /\ UNCHANGED <<linked, seqId, candidates, tip, failedValid, failedChild, mostWork,
                     unremoved>>
      /\ used'["reconsider"] = used["reconsider"]
  <2>1. CASE StartShutdown
    BY <2>1, SpendFacts DEF StartShutdown, treeVars, RareOps, Inv
  <2> QED BY <2>1 DEF AcceptBlockHeader, LoopTest, LeaveOnShutdown, treeVars, vars
<1>2. \A b : Good(b)' <=> Good(b)
  BY <1>1 DEF Good, Failed
<1>3. Covered' /\ NotWorse'
  <2>1. ~shutdown' => ~shutdown
    BY DEF StartShutdown, AcceptBlockHeader, LoopTest, LeaveOnShutdown, vars
  <2> QED BY <1>1, <1>2, <2>1, SameBlocks DEF BestInv
<1>4. ASSUME ~shutdown', ~sysError', ~Pending' PROVE ~shutdown /\ ~sysError /\ ~Pending
  <2>1. ASSUME NEW t \in Threads, LoopTest(t) PROVE ~shutdown /\ ~sysError /\ ~Pending
    <3>1. pc' = [pc EXCEPT ![t] = IF mostWork[t] # tip THEN "activate" ELSE "idle"]
      BY <2>1 DEF LoopTest
    <3>2. pc[t] = "stepped" /\ shutdown' = shutdown /\ sysError' = sysError
      BY <2>1 DEF LoopTest
    <3>3. pc'[t] = IF mostWork[t] # tip THEN "activate" ELSE "idle"
      BY <3>1 DEF Inv, Types
    <3>4. mostWork[t] = tip
      BY <1>4, <3>3 DEF Pending
    <3>5. ASSUME NEW u \in Threads
          PROVE  ~(pc[u] = "activate" \/ (pc[u] = "stepped" /\ mostWork[u] # tip))
      <4>1. CASE u = t
        BY <3>2, <3>4, <4>1
      <4>2. CASE u # t
        BY <1>1, <1>4, <3>1, <4>2 DEF Pending, Inv, Types
      <4> QED BY <4>1, <4>2
    <3> QED BY <1>4, <3>2, <3>5 DEF Pending
  <2>2. ASSUME NEW t \in Threads, LeaveOnShutdown(t) PROVE FALSE
    BY <1>4, <2>2 DEF LeaveOnShutdown
  <2>3. CASE StartShutdown
    BY <1>4, <2>3 DEF StartShutdown
  <2>4. CASE (\E b \in Blocks \ {Genesis} : AcceptBlockHeader(b)) \/ UNCHANGED vars
    BY <1>1, <1>4, <2>4 DEF AcceptBlockHeader, vars, Pending
  <2> QED BY <2>1, <2>2, <2>3, <2>4
<1>5. Best'
  BY <1>1, <1>2, <1>4 DEF BestInv, Best, Normal, NotReconsidered, Worse
<1> QED BY <1>3, <1>5

\* A block arrives.  One that is refused was not linked, so no good block is lost; the
\* others make a thread look.
LEMMA BestArriveStep ==
    ASSUME Inv, BestInv, Inv', NEW t \in Threads, NEW b \in Blocks \ {Genesis},
           NEW r \in BOOLEAN, ProcessNewBlock(t, b, r)
    PROVE  Covered' /\ NotWorse' /\ Best'
<1>0. UNCHANGED <<failedChild, tip, mostWork, shutdown, sysError, unremoved, used>>
  BY DEF ProcessNewBlock
<1>1. CASE IgnoreBlock(t, b, r)
  <2>1. UNCHANGED <<linked, seqId, candidates, failedValid>>
    BY <1>1 DEF IgnoreBlock
  <2>2. \A c : Good(c)' <=> Good(c)
    BY <1>0, <2>1 DEF Good, Failed
  <2> QED BY <1>0, <1>1, <2>1, <2>2, SameBlocks, PendingNow DEF BestInv, IgnoreBlock
<1>2. CASE RejectBlock(b, r)
  <2>1. UNCHANGED <<linked, seqId, candidates, pc>> /\ failedValid' = failedValid \cup {b}
    BY <1>2 DEF RejectBlock
  <2>2. b \notin linked
    BY <1>2 DEF RejectBlock, WantBlock, BestInv, Kept, Inv, Types
  <2>3. \A c \in linked : b \notin Anc[c]
    BY <2>2, ClosedHoldsBranches DEF Inv, Links
  <2>4. \A c : Good(c)' <=> Good(c)
    BY <1>0, <2>1, <2>3 DEF Good, Failed
  <2>5. Best'
    BY <1>0, <2>1, <2>4 DEF BestInv, Best, Pending, Normal, NotReconsidered, Worse
  <2> QED BY <1>0, <2>1, <2>4, <2>5, SameBlocks DEF BestInv
<1>3. CASE StoreBlock(t, b, r) /\ Parent[b] \notin linked
  <2>1. b \notin linked
    BY <1>3 DEF Inv, Links, Closed
  <2>2. UNCHANGED <<linked, seqId, candidates, failedValid>>
    BY <1>3, <2>1 DEF StoreBlock, ReceivedBlockTransactions
  <2>3. \A c : Good(c)' <=> Good(c)
    BY <1>0, <2>2 DEF Good, Failed
  <2> QED BY <1>0, <1>3, <2>2, <2>3, SameBlocks, PendingNow DEF BestInv, StoreBlock
<1>4. CASE StoreBlock(t, b, r) /\ Parent[b] \in linked
  <2> DEFINE L == NewlyLinked(b)
  <2>1. /\ b \notin haveData /\ linked' = linked \cup L /\ failedValid' = failedValid
        /\ candidates' = candidates \cup {x \in L : ~Worse(x, tip, seqId')}
        /\ pc' = [pc EXCEPT ![t] = "activate"]
    BY <1>4 DEF StoreBlock, WantBlock, ReceivedBlockTransactions
  <2>2. L \cap linked = {} /\ L \subseteq Blocks
    <3>1. NewlyLinked(b) \cap linked = {}
      BY <1>4, <2>1, NewOnes DEF BestInv
    <3>2. NewlyLinked(b) \subseteq Blocks
      BY DEF NewlyLinked, Inv, Types
    <3> QED BY <3>1, <3>2
  <2>3. \A x \in linked : seqId'[x] = seqId[x]
    <3>1. PICK f : seqId' = [x \in Blocks |-> IF x \in L THEN f[x] ELSE seqId[x]]
      BY <1>4 DEF StoreBlock, ReceivedBlockTransactions
    <3> QED BY <2>2, <3>1, BranchFacts
  <2> HIDE DEF L
  <2>4. \A x, y \in linked : Worse(x, y, seqId') <=> Worse(x, y, seqId)
    BY <2>3 DEF Worse
  <2>5. tip \in linked /\ candidates \subseteq linked /\ linked \subseteq Blocks
    BY DEF Inv, Types
  <2>6. NotWorse'
    BY <1>0, <2>1, <2>4, <2>5 DEF BestInv, NotWorse
  <2>7. Covered'
    <3> SUFFICES ASSUME Normal, ~shutdown PROVE \E T \in Blocks : Anchor(T)'
      BY <1>0 DEF Covered, Normal, NotReconsidered
    <3>1. PICK T \in Blocks : Anchor(T)
      BY DEF BestInv, Covered
    <3>2. T \in linked /\ T \in candidates' /\ Good(T)' /\ Anc[T] \cap ConnectBad = {}
      BY <1>0, <2>1, <3>1 DEF Anchor, Good, Failed
    <3>3. ASSUME NEW c \in Blocks, Good(c)', c \notin candidates' PROVE Worse(c, T, seqId')
      <4>1. CASE c \in linked
        <5>1. Good(c) /\ c \notin candidates
          BY <1>0, <2>1, <3>3, <4>1 DEF Good, Failed
        <5> QED BY <2>4, <3>1, <3>2, <4>1, <5>1 DEF Anchor
      <4>2. CASE c \in L
        <5>1. Worse(c, tip, seqId')
          BY <2>1, <3>3, <4>2
        <5>2. tip = T \/ Worse(tip, T, seqId)
          <6>1. seqId \in [Blocks -> Nat]
            BY DEF Inv, Types
          <6>2. ~Worse(T, tip, seqId)
            BY <3>1 DEF Anchor, BestInv, NotWorse
          <6> QED BY <2>5, <6>1, <6>2, WorseOrder
        <5>3. seqId' \in [Blocks -> Nat]
          BY DEF Inv, Types
        <5> QED BY <2>4, <2>5, <3>2, <5>1, <5>2, <5>3, WorseOrder
      <4> QED BY <2>1, <3>3, <4>1, <4>2 DEF Good
    <3> QED BY <3>2, <3>3 DEF Anchor
  <2> QED BY <2>1, <2>6, <2>7, PendingNow
<1> QED BY <1>1, <1>2, <1>3, <1>4 DEF ProcessNewBlock

\* The commands and a restart.
LEMMA BestCommandSteps ==
    ASSUME Inv, BestInv, Inv', NEW t \in Threads,
           \/ \E b \in Blocks : InvalidateBlock(t, b) \/ InvalidateFails(t, b)
                                              \/ ReconsiderBlock(t, b)
           \/ Restart(t)
    PROVE  Covered' /\ NotWorse' /\ Best'
<1>0. /\ seqId \in [Blocks -> Nat] /\ tip \in linked
      /\ candidates \subseteq linked /\ linked \subseteq Blocks
  BY DEF Inv, Types
<1>1. ASSUME NEW b \in Blocks, InvalidateBlock(t, b) PROVE Covered' /\ NotWorse' /\ Best'
  <2>1. /\ UNCHANGED <<index, received, linked, seqId, unremoved>> /\ b # Genesis
        /\ pc' = [pc EXCEPT ![t] = "activate"]
        /\ failedValid' = failedValid \cup {b} /\ failedChild' = failedChild \cup Disconnects(b)
        /\ tip' = IF Disconnects(b) # {} THEN Parent[b] ELSE tip
    BY <1>1 DEF InvalidateBlock
  <2>2. candidates' = (candidates \ ({b} \cup Disconnects(b))) \cup
                  {x \in index : /\ Connectable(x, Failed \cup {b} \cup Disconnects(b))
                                 /\ ~Worse(x, tip', seqId)}
    BY <1>1, <2>1 DEF InvalidateBlock
  <2>3. Failed' = Failed \cup {b} \cup Disconnects(b)
    BY <2>1 DEF Failed
  <2>4. tip' = tip \/ Worse(tip', tip, seqId)
    <3>1. CASE Disconnects(b) # {}
      <4>1. b \in Anc[tip]
        BY <3>1 DEF Disconnects, Active
      <4>2. Parent[b] \in Anc[b] /\ Parent[b] # b /\ Parent[b] \in Blocks
        BY <2>1, ParentFacts
      <4>3. Parent[b] \in Anc[tip] /\ Parent[b] # tip
        <5>1. Parent[b] \in Anc[tip]
          BY <1>0, <4>1, <4>2, AncTransitive
        <5>2. Height[Parent[b]] < Height[b] /\ Height[b] <= Height[tip]
          BY <1>0, <4>1, <4>2, AncLower, ParentFacts
        <5> QED BY <1>0, <4>2, <5>1, <5>2, ParentFacts
      <4>4. Work[Parent[b]] < Work[tip]
        BY <1>0, <4>3, AncWorse
      <4> QED BY <2>1, <3>1, <4>4 DEF Worse
    <3> QED BY <2>1, <3>1
  <2>5. /\ tip' \in linked /\ Anc[tip'] \cap ConnectBad = {}
        /\ unremoved' = {} => Good(tip)'
    BY <2>1 DEF Inv, Types, Good, Sound, ActiveChainSound, Active
  <2>6. ASSUME NEW c \in Blocks, Good(c)' PROVE c \in candidates' \/ Worse(c, tip', seqId)
    <3>1. c \in linked /\ c \notin Failed'
      BY <2>1, <2>6, ParentFacts DEF Good
    <3>2. Connectable(c, Failed \cup {b} \cup Disconnects(b)) /\ c \in index
      BY <2>3, <3>1 DEF Connectable, Inv, Types
    <3> QED BY <2>2, <3>2
  <2>7. NotWorse'
    <3> SUFFICES ASSUME NEW c \in candidates' PROVE ~Worse(c, tip', seqId)
      BY <2>1 DEF NotWorse
    <3>1. CASE c \in candidates
      BY <1>0, <2>1, <2>4, <2>5, <3>1, WorseOrder DEF BestInv, NotWorse
    <3> QED BY <2>2, <3>1
  <2>8. ASSUME unremoved' = {} PROVE Anchor(tip)'
    <3>1. tip' \in candidates'
      BY <1>0, <2>5, <2>6, <2>8, WorseOrder
    <3> QED BY <2>1, <2>5, <2>6, <2>8, <3>1 DEF Anchor
  <2>9. Covered'
    BY <1>0, <2>5, <2>8 DEF Covered, Normal
  <2> QED BY <2>1, <2>7, <2>9, PendingNow
<1>2. ASSUME NEW b \in Blocks, ReconsiderBlock(t, b) PROVE Covered' /\ NotWorse' /\ Best'
  <2>1. used'["reconsider"] # 0
    BY <1>2, SpendFacts DEF RareOps, Inv, ReconsiderBlock
  <2>2. UNCHANGED <<seqId, tip, linked>> /\ pc' = [pc EXCEPT ![t] = "activate"]
    BY <1>2 DEF ReconsiderBlock
  <2>3. \A c \in candidates' : c \in candidates \/ (c \in linked /\ Worse(tip, c, seqId))
    BY <1>2 DEF ReconsiderBlock
  <2>4. NotWorse'
    <3> SUFFICES ASSUME NEW c \in candidates' PROVE ~Worse(c, tip, seqId)
      BY <2>2 DEF NotWorse
    <3> QED BY <1>0, <2>3, WorseOrder DEF BestInv, NotWorse
  <2> QED BY <2>1, <2>2, <2>4, PendingNow DEF Covered, Normal, NotReconsidered
<1>3. CASE Restart(t)
  <2>1. /\ linked' = LoadedLinked /\ seqId' = [x \in Blocks |-> 0] /\ tip' = tip
        /\ candidates' = {b \in LoadedLinked : b \notin Failed /\ LoadedGoodEnough(b)}
        /\ pc' = [pc EXCEPT ![t] = "activate"] /\ Failed' = Failed
    BY <1>3 DEF Restart, Failed
  <2>2. \A b : LoadedGoodEnough(b) <=> ~Worse(b, tip', seqId')
    BY <2>1 DEF LoadedGoodEnough
  <2>3. /\ tip' \in linked' /\ Anc[tip'] \cap ConnectBad = {}
        /\ unremoved' = {} => Good(tip)'
    BY <2>1 DEF Inv, Types, Good, Sound, ActiveChainSound, Active
  <2>4. \A c \in Blocks : Good(c)' => c \in candidates' \/ Worse(c, tip', seqId')
    BY <2>1, <2>2, ParentFacts DEF Good
  <2>5. NotWorse'
    BY <2>1, <2>2 DEF NotWorse
  <2>6. ASSUME unremoved' = {} PROVE Anchor(tip)'
    <3>1. tip' \in candidates'
      BY <1>0, <2>1, <2>3, <2>4, <2>6, WorseOrder
    <3> QED BY <2>3, <2>4, <2>6, <3>1 DEF Anchor
  <2>7. Covered'
    BY <1>0, <2>1, <2>6 DEF Covered, Normal
  <2> QED BY <2>1, <2>5, <2>7, PendingNow
<1>4. ASSUME NEW b \in Blocks, InvalidateFails(t, b) PROVE Covered' /\ NotWorse' /\ Best'
  <2>1. UNCHANGED <<linked, seqId>> /\ (shutdown' = TRUE \/ shutdown' = FALSE)
    BY <1>4, InvalidateFailsFacts
  <2>2. PICK marked \in SUBSET Blocks : Stopped(b, marked)
    BY <1>4, InvalidateFailsFacts
  <2>3. ~shutdown' => ~Normal'
    BY <2>1, <2>2 DEF Stopped, Normal
  <2>4. tip' = tip \/ Worse(tip', tip, seqId)
    BY <1>0, <2>2, AncWorse DEF Stopped, Active, Worse
  <2>5. tip' \in Blocks /\ candidates' \subseteq candidates
    BY <1>0, <2>1, <2>2 DEF Stopped, Inv, Types
  <2>6. NotWorse'
    <3> SUFFICES ASSUME NEW c \in candidates PROVE ~Worse(c, tip', seqId)
      BY <2>1, <2>5 DEF NotWorse
    <3> QED BY <1>0, <2>4, <2>5, WorseOrder DEF BestInv, NotWorse
  <2> QED BY <2>3, <2>6 DEF Covered, Best
<1> QED BY <1>1, <1>2, <1>3, <1>4

\* What a round does to the candidates: good ones that are not worse than a newly
\* connected tip stay.
KeepsGood(target) ==
    /\ candidates' \subseteq Remaining
    /\ \A c \in Remaining :
          Good(c)' /\ (tip' \in Path(target) => ~Worse(c, tip', seqId)) => c \in candidates'
    /\ tip' \in Path(target) => \A c \in candidates' : ~Worse(c, tip', seqId)

\* Whatever becomes of a step of ActivateBestChain.
LEMMA StepKeepsGood ==
    ASSUME Inv, NEW t \in Threads, NEW target \in MostWork,
           \/ StepSucceeds(t, target) \/ StepMeetsInvalidBlock(t, target)
           \/ StepIsStuck(t, target) \/ StepAborts(t, target)
    PROVE  KeepsGood(target)
<1> DEFINE Still == StillCandidates(target, tip')
<1>1. /\ Still \subseteq Remaining
      /\ \A c \in Remaining : (tip' \in Path(target) => ~Worse(c, tip', seqId)) => c \in Still
      /\ tip' \in Path(target) => \A c \in Still : ~Worse(c, tip', seqId)
  BY DEF StillCandidates
<1>2. CASE StepSucceeds(t, target) \/ StepAborts(t, target)
  <2>1. candidates' = Still
    BY <1>2 DEF StepSucceeds, StepAborts, MoveTip
  <2> HIDE DEF Still
  <2> QED BY <1>1, <2>1 DEF KeepsGood
<1>3. CASE StepMeetsInvalidBlock(t, target)
  <2>1. PICK bad : candidates' = Still \ {bad} /\ bad \in failedValid'
    BY <1>3 DEF StepMeetsInvalidBlock, MoveTip
  <2>2. bad \in Blocks => ~Good(bad)'
    BY <2>1, ParentFacts DEF Good, Failed
  <2>3. Remaining \subseteq Blocks
    BY BranchFacts DEF Remaining
  <2> HIDE DEF Still
  <2> QED BY <1>1, <2>1, <2>2, <2>3 DEF KeepsGood
<1>4. CASE StepIsStuck(t, target)
  <2>1. candidates' = Remaining /\ tip' = Highest(Stuck(target)) /\ Stuck(target) # {}
    BY <1>4 DEF StepIsStuck, MoveTip
  <2>2. Stuck(target) \in SUBSET Anc[tip] /\ tip \in Blocks
    BY BranchFacts DEF Stuck, Active
  <2>3. tip' \in Active
    BY <2>1, <2>2, HighestExists DEF Active
  <2> QED BY <2>1, <2>3 DEF KeepsGood, Path
<1> QED BY <1>2, <1>3, <1>4

\* A round marks no block whose branch is good and breaks no rule.
LEMMA RoundGood ==
    ASSUME Inv, NEW t \in Threads, ActivateRound(t)
    PROVE  /\ \A b : Good(b)' => Good(b)
           /\ \A b \in Blocks : Good(b) /\ Anc[b] \cap ConnectBad = {} => Good(b)'
<1>1. linked' = linked /\ failedChild' = failedChild \cup Marks
  BY RoundFlow
<1>2. \/ failedValid' = failedValid
      \/ \E bad \in ConnectBad : failedValid' = failedValid \cup {bad}
  <2>1. ASSUME NEW target \in MostWork, Moved(target)
        PROVE  \/ failedValid' = failedValid
               \/ \E bad \in ConnectBad : failedValid' = failedValid \cup {bad}
    BY <2>1 DEF Moved
  <2> QED BY <2>1, StepMoves DEF ActivateRound
<1>3. ASSUME NEW b \in Blocks, Good(b) PROVE Anc[b] \cap Marks = {}
  BY <1>3, MarksFacts, AncTransitive DEF Good
<1> QED BY <1>1, <1>2, <1>3 DEF Good, Failed

\* A round of ActivateBestChain: the anchor stays, or the new tip becomes the anchor; and
\* a thread that stops has found the best chain.
LEMMA BestRoundStep ==
    ASSUME Inv, BestInv, Inv', NEW t \in Threads, ActivateRound(t)
    PROVE  Covered' /\ NotWorse' /\ Best'
<1>0. /\ UNCHANGED <<linked, seqId, unremoved>> /\ used'["reconsider"] = used["reconsider"]
      /\ ~shutdown
      /\ seqId \in [Blocks -> Nat] /\ tip \in Blocks /\ tip' \in Blocks /\ tip' \in Anc[tip']
      /\ candidates \subseteq Blocks /\ Remaining \subseteq candidates
  BY RoundFlow, ParentFacts DEF ActivateRound, Inv, Types, Remaining
<1>1. /\ \A b : Good(b)' => Good(b)
      /\ \A b \in Blocks : Good(b) /\ Anc[b] \cap ConnectBad = {} => Good(b)'
  BY RoundGood
<1>2. CASE MostWork \subseteq {tip} /\ candidates' = Remaining /\ tip' = tip
  <2>1. NotWorse'
    BY <1>0, <1>2 DEF BestInv, NotWorse
  <2>2. ASSUME unremoved = {}, NEW T \in Blocks, Anchor(T)
        PROVE  /\ Anchor(T)'
               /\ \A b \in Blocks : Good(b)' => ~Worse(tip, b, seqId)
    <3>1. T \in Remaining /\ Good(T)'
      BY <1>1, <2>2, GoodRemain DEF Anchor, BestInv
    <3>2. ASSUME NEW b \in Blocks, Good(b)', b \notin Remaining PROVE Worse(b, T, seqId)
      <4>1. Good(b) /\ b \notin candidates
        BY <1>1, <3>2, GoodRemain DEF BestInv
      <4> QED BY <2>2, <4>1 DEF Anchor
    <3>3. tip \in MostWork
      BY <1>2, <2>2, MostWorkBest DEF BestInv
    <3> QED BY <1>0, <1>1, <1>2, <2>2, <3>1, <3>2, <3>3, MostWorkBest DEF Anchor, BestInv
  <2>3. Covered' /\ Best'
    BY <1>0, <1>2, <2>2 DEF BestInv, Covered, Best, Normal, NotReconsidered
  <2> QED BY <2>1, <2>3
<1>3. ASSUME NEW target \in MostWork \ {tip},
             \/ StepSucceeds(t, target) \/ StepMeetsInvalidBlock(t, target)
             \/ StepIsStuck(t, target) \/ StepAborts(t, target),
             mostWork' = [mostWork EXCEPT ![t] = target]
      PROVE  Covered' /\ NotWorse' /\ Best'
  <2>1. Moved(target) /\ KeepsGood(target)
    BY <1>3, StepMoves, StepKeepsGood
  <2>2. tip' \in Active \/ tip' \in Path(target)
    BY <1>0, <2>1 DEF Moved
  <2>3. NotWorse'
    <3> SUFFICES ASSUME NEW c \in candidates' PROVE ~Worse(c, tip', seqId)
      BY <1>0 DEF NotWorse
    <3>1. CASE tip' \in Path(target)
      BY <2>1, <3>1 DEF KeepsGood
    <3>2. CASE tip' \in Active
      <4>1. tip' = tip \/ Worse(tip', tip, seqId)
        BY <1>0, <3>2, AncWorse DEF Active, Worse
      <4>2. c \in candidates /\ ~Worse(c, tip, seqId)
        BY <1>0, <2>1 DEF KeepsGood, BestInv, NotWorse
      <4> QED BY <1>0, <4>1, <4>2, WorseOrder
    <3> QED BY <2>2, <3>1, <3>2
  <2>4. (unremoved = {} => Good(tip)') /\ Anc[tip'] \cap ConnectBad = {}
    BY <1>0 DEF Inv, Types, Good, Sound, ActiveChainSound, Active
  <2>5. ASSUME Normal PROVE \E A \in Blocks : Anchor(A)'
    <3>1. PICK T \in Blocks : Anchor(T)
      BY <1>0, <2>5 DEF BestInv, Covered
    <3>2. T \in Remaining /\ Good(T)' /\ Anc[T] \cap ConnectBad = {}
      BY <1>1, <3>1, GoodRemain DEF Anchor, BestInv
    <3>3. ASSUME NEW b \in Blocks, Good(b)', b \notin Remaining PROVE Worse(b, T, seqId)
      <4>1. Good(b) /\ b \notin candidates
        BY <1>1, <3>3, GoodRemain DEF BestInv
      <4> QED BY <3>1, <4>1 DEF Anchor
    <3>4. CASE tip' \notin Path(target)
      BY <1>0, <2>1, <3>2, <3>3, <3>4 DEF KeepsGood, Anchor
    <3>5. CASE tip' \in Path(target) /\ ~Worse(T, tip', seqId)
      <4>1. T \in candidates'
        BY <2>1, <3>2, <3>5 DEF KeepsGood
      <4>2. ASSUME NEW b \in Blocks, Good(b)', b \notin candidates' PROVE Worse(b, T, seqId)
        <5>1. CASE b \notin Remaining
          BY <3>3, <4>2, <5>1
        <5>2. CASE b \in Remaining
          <6>1. Worse(b, tip', seqId)
            BY <2>1, <3>5, <4>2, <5>2 DEF KeepsGood
          <6> QED BY <1>0, <3>5, <6>1, WorseOrder
        <5> QED BY <5>1, <5>2
      <4> QED BY <1>0, <3>2, <4>1, <4>2 DEF Anchor
    <3>6. CASE tip' \in Path(target) /\ Worse(T, tip', seqId)
      <4>1. tip' \in Remaining
        BY <1>0, <2>4, <2>5, <3>3, <3>6, WorseOrder DEF Normal
      <4>2. tip' \in candidates'
        BY <1>0, <2>1, <2>4, <2>5, <4>1, WorseOrder DEF KeepsGood, Normal
      <4>3. ASSUME NEW b \in Blocks, Good(b)', b \notin candidates' PROVE Worse(b, tip', seqId)
        <5>1. CASE b \notin Remaining
          BY <1>0, <3>3, <3>6, <4>3, <5>1, WorseOrder
        <5>2. CASE b \in Remaining
          BY <2>1, <3>6, <4>3, <5>2 DEF KeepsGood
        <5> QED BY <5>1, <5>2
      <4>4. Anchor(tip)'
        BY <1>0, <2>4, <2>5, <4>2, <4>3 DEF Anchor, Normal
      <4> QED BY <1>0, <4>4
    <3> QED BY <3>4, <3>5, <3>6
  <2>6. Covered'
    BY <1>0, <2>5 DEF Covered, Normal, NotReconsidered
  <2>7. ASSUME Normal', ~shutdown', ~sysError', ~Pending'
        PROVE  \A b \in Blocks : Good(b)' => ~Worse(tip', b, seqId)
    <3>1. PICK T \in Blocks : Anchor(T)
      BY <1>0, <2>7 DEF BestInv, Covered, Normal, NotReconsidered
    <3>2. mostWork'[t] = target
      BY <1>3 DEF Inv, Types
    <3>3. ~StepIsStuck(t, target) /\ ~StepAborts(t, target)
      BY <2>7 DEF StepIsStuck, StepAborts
    <3>4. pc' = [pc EXCEPT ![t] = "stepped"]
      BY <1>3, <3>3 DEF StepSucceeds, StepMeetsInvalidBlock
    <3>5. tip' = target
      BY <2>7, <3>2, <3>4 DEF Pending, Inv, Types
    <3> QED BY <1>0, <1>1, <2>7, <3>1, <3>5, MostWorkBest DEF BestInv, Normal
  <2> QED BY <1>0, <2>3, <2>6, <2>7 DEF Best
<1> QED BY <1>2, <1>3 DEF ActivateRound

\* Every step keeps it, on a node that does not prune.
LEMMA BestStep ==
    ASSUME Unpruned, Inv, BestInv, [Next]_vars
    PROVE  BestInv'
<1>1. Inv' /\ Kept'
  BY StepInv, KeptStep DEF BestInv
<1>2. ASSUME NEW S \in SUBSET Blocks, PruneOneBlockFile(S) PROVE FALSE
  BY <1>2, NeverPruned
<1> QED BY <1>1, <1>2, BestQuietSteps, BestArriveStep, BestCommandSteps, BestRoundStep
        DEF BestInv, Next, ActivateBestChain

\* "The result is either failure or an activated best chain": on a node that does not
\* prune, as long as reconsiderblock is not used and no InvalidateBlock failed half way,
\* whenever every ActivateBestChain (src/main.cpp:2618) has returned the best chain is active and the candidates are what
\* CheckBlockIndex asserts.
THEOREM BestChainActiveCorrect == Unpruned /\ Spec => []BestChainActive
<1> SUFFICES ASSUME Unpruned PROVE Spec => []BestChainActive
  OBVIOUS
<1>1. Init => BestInv
  <2> SUFFICES ASSUME Init PROVE BestInv
    OBVIOUS
  <2>1. Inv
    BY InitInv
  <2>2. Kept /\ linked = {Genesis} /\ candidates = {Genesis} /\ tip = Genesis
    BY DEF Init, Kept
  <2>3. Good(tip) /\ Anc[tip] \cap ConnectBad = {} /\ tip \in Blocks /\ seqId \in [Blocks -> Nat]
    BY <2>1, GoodFacts DEF Init, Inv, Types
  <2>4. Anchor(tip)
    BY <2>2, <2>3 DEF Anchor, Good
  <2>5. NotWorse /\ Best
    BY <2>2, <2>3, WorseOrder DEF NotWorse, Best, Good
  <2> QED BY <2>2, <2>3, <2>4, <2>5 DEF BestInv, Covered
<1>2. Inv /\ BestInv /\ [Next]_vars => BestInv'
  BY BestStep
<1>3. Inv /\ BestInv => BestChainActive
  <2> SUFFICES ASSUME Inv, BestInv, NotReconsidered, unremoved = {}, Quiet, ~shutdown,
                      ~sysError
               PROVE  /\ \A b \in index : Anc[b] \subseteq received /\ Unusable(b) = {}
                                              => ~Worse(tip, b, seqId)
                      /\ CandidatesExact
    BY DEF BestChainActive, Regular, ActivationPromise
  <2>1. \A b \in Blocks : Good(b) => ~Worse(tip, b, seqId)
    BY DEF BestInv, Best, Normal, Pending, Quiet
  <2>2. LinkedWhenStored
    BY InvImplies DEF CheckBlockIndex
  <2>3. ASSUME NEW b \in index, Anc[b] \subseteq received, Unusable(b) = {}
        PROVE  Good(b)
    <3>1. Anc[b] \cap Failed = {}
      BY <2>3 DEF Unusable, Path, Inv, Sound, ActiveChainSound
    <3> QED BY <2>2, <2>3, <3>1 DEF LinkedWhenStored, BestInv, Kept, Good, Failed
  <2>4. /\ seqId \in [Blocks -> Nat] /\ tip \in Blocks
        /\ index \subseteq Blocks /\ linked \subseteq index
    BY DEF Inv, Types
  <2>5. ASSUME NEW b \in linked, ~Worse(b, tip, seqId), Anc[b] \cap failedValid = {}
        PROVE  b \in candidates
    <3>1. b \in Blocks /\ Anc[b] \subseteq index
      BY <2>4, ClosedHoldsBranches DEF Inv, Links
    <3>2. \A a \in Anc[b] : Anc[a] \subseteq Anc[b]
      BY <3>1, AncTransitive
    <3>3. Good(b)
      BY <2>5, <3>1, <3>2 DEF Good, Inv, FailedMarksJustified
    <3>4. PICK T \in Blocks : Anchor(T)
      BY DEF BestInv, Covered, Normal
    <3>5. T = tip
      BY <2>1, <2>4, <3>4, WorseOrder DEF Anchor, BestInv, NotWorse
    <3> QED BY <2>5, <3>1, <3>3, <3>4, <3>5 DEF Anchor
  <2>6. CandidatesExact
    BY <2>5 DEF CandidatesExact, BestInv, NotWorse
  <2> QED BY <2>1, <2>3, <2>4, <2>6
<1> QED BY <1>1, <1>2, <1>3, InvCorrect, PTL DEF Spec

=============================================================================
