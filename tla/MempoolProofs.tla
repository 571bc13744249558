---------------------------- MODULE MempoolProofs ----------------------------
(***************************************************************************)
(* Proofs about Mempool, for any tree of valid blocks, any transactions    *)
(* and limits: mapNextTx and mapLinks are exact, what an entry spends is   *)
(* there through every connected and disconnected block, between calls     *)
(* every entry can be mined and the pool is small enough, and the totals   *)
(* an entry caches are those of its descendants.                           *)
(***************************************************************************)
EXTENDS Mempool, SequenceTheorems, FiniteSetTheorems, WellFoundedInduction, TLAPS

-----------------------------------------------------------------------------
(* The invariant.                                                          *)

\* The transactions of the chain as far as the pool has been adapted to it: of the block
\* being connected those that were looked at, of the one being disconnected those that
\* were not.
Settled == IF pc = "connect" THEN Included(coins) \ Range(todo)
           ELSE IF pc = "resurrect" THEN Included(coins) \cup Range(todo)
           ELSE Included(coins)

\* s is what is left of the block b.
Suffix(s, b) == \E k \in 0 .. Len(BlockTxs[b]) :
                    s = SubSeq(BlockTxs[b], k + 1, Len(BlockTxs[b]))

\* The link between p and its child c waits for UpdateTransactionsFromBlock: p has come
\* back from a block and c was in the pool before.
Awaited(p, c) ==
    /\ c \notin Range(readded)
    /\ \/ pc = "resurrect" /\ p \in Range(readded)
       \/ pc = "update" /\ p \in Range(todo)

Types ==
    /\ tip \in Blocks /\ coins \in Blocks /\ pool \subseteq Txs
    /\ next \in [Outpoints -> pool \cup {None}]
    /\ parents \in [Txs -> SUBSET pool] /\ children \in [Txs -> SUBSET pool]
    /\ todo \in Seq(Txs) /\ readded \in Seq(Txs)

\* Where the loops are.
Phases ==
    /\ pc \notin {"connect", "resurrect", "update"} => tip = coins
    /\ pc = "connect" => coins # Base /\ Parent[coins] = tip /\ Suffix(todo, coins)
    /\ pc \in {"resurrect", "update"} =>
          /\ tip # Base /\ coins = Parent[tip]
          /\ Range(readded) \subseteq Range(BlockTxs[tip])
          /\ pool \cap Range(BlockTxs[tip]) \subseteq Range(readded)
    /\ pc = "resurrect" => Suffix(todo, tip) /\ Range(readded) \cap Range(todo) = {}

\* mapNextTx.
NextExact == \A o \in Outpoints, t \in Txs : next[o] = t <=> t \in pool /\ o \in Ins[t]

\* mapLinks: both sides agree, links are true, and only those awaited are missing.
Links ==
    /\ \A t \in Txs \ pool : parents[t] = {} /\ children[t] = {}
    /\ \A p, c \in Txs : c \in children[p] <=> p \in parents[c]
    /\ \A p, c \in pool : c \in children[p] => Spends(c, p)
    /\ \A p, c \in pool : Spends(c, p) /\ ~Awaited(p, c) => c \in children[p]

\* No entry is in the chain, and what an entry spends is there.
Unconfirmed == pool \cap Settled = {}
Available ==
    \A t \in pool : \A o \in Ins[t] :
        o[1] \in pool \/ (o[1] \in Settled /\ \A x \in Settled : o \notin Ins[x])

PoolInv == Types /\ Phases /\ NextExact /\ Links /\ Unconfirmed /\ Available

-----------------------------------------------------------------------------
(* Chains and blocks.                                                      *)

\* A block adds its transactions to the chain below it.
LEMMA IncludedStep ==
    ASSUME NEW b \in Blocks \ {Base}
    PROVE  /\ Parent[b] \in Blocks
           /\ Included(b) = Included(Parent[b]) \cup Range(BlockTxs[b])
           /\ Included(Parent[b]) \cap Range(BlockTxs[b]) = {}
<1>1. Parent[b] \in Blocks /\ Anc[b] = {b} \cup Anc[Parent[b]]
  BY MempoolAssumption
<1>2. Included(b) = Included(Parent[b]) \cup Range(BlockTxs[b])
  BY <1>1 DEF Included
<1>3. Included(Parent[b]) \cap Range(BlockTxs[b]) = {}
  BY ChainAssumption
<1> QED BY <1>1, <1>2, <1>3

\* The members of a sequence.
LEMMA RangeFacts ==
    ASSUME NEW S, NEW s \in Seq(S)
    PROVE  /\ Range(s) = {s[i] : i \in 1 .. Len(s)} /\ Range(s) \subseteq S
           /\ Range(<<>>) = {}
           /\ s # <<>> => /\ Head(s) \in S /\ Tail(s) \in Seq(S)
                          /\ Range(s) = {Head(s)} \cup Range(Tail(s))
           /\ \A x \in S : Append(s, x) \in Seq(S) /\ Range(Append(s, x)) = Range(s) \cup {x}
<1>1. Range(s) = {s[i] : i \in 1 .. Len(s)} /\ Range(s) \subseteq S
  BY DEF Range
<1>2. Range(<<>>) = {}
  BY DEF Range
<1>3. ASSUME s # <<>> PROVE /\ Head(s) \in S /\ Tail(s) \in Seq(S)
                            /\ Range(s) = {Head(s)} \cup Range(Tail(s))
  <2>1. /\ Tail(s) \in Seq(S) /\ Len(Tail(s)) = Len(s) - 1 /\ Head(s) = s[1]
        /\ Len(s) \in Nat \ {0} /\ \A i \in 1 .. Len(s) - 1 : Tail(s)[i] = s[i + 1]
    BY <1>3
  <2>2. Range(Tail(s)) = {s[i + 1] : i \in 1 .. Len(s) - 1}
    <3>1. DOMAIN Tail(s) = 1 .. Len(s) - 1
      BY <2>1, LenProperties
    <3> QED BY <2>1, <3>1 DEF Range
  <2>3. ASSUME NEW i \in 1 .. Len(s), i # 1 PROVE s[i] \in Range(Tail(s))
    <3>1. i - 1 \in 1 .. Len(s) - 1 /\ s[(i - 1) + 1] = s[i]
      BY <2>1, <2>3
    <3> QED BY <2>2, <3>1
  <2>4. Range(Tail(s)) \subseteq Range(s)
    BY <1>1, <2>1, <2>2
  <2> QED BY <1>1, <2>1, <2>3, <2>4
<1>4. ASSUME NEW x \in S PROVE Append(s, x) \in Seq(S) /\ Range(Append(s, x)) = Range(s) \cup {x}
  <2>1. /\ Append(s, x) \in Seq(S) /\ Len(Append(s, x)) = Len(s) + 1 /\ Len(s) \in Nat
        /\ Append(s, x)[Len(s) + 1] = x /\ \A i \in 1 .. Len(s) : Append(s, x)[i] = s[i]
    OBVIOUS
  <2>2. Range(Append(s, x)) = {Append(s, x)[i] : i \in 1 .. Len(s) + 1}
    BY <2>1 DEF Range
  <2> QED BY <1>1, <2>1, <2>2
<1> QED BY <1>1, <1>2, <1>3, <1>4

\* The next transaction of a block: what was before it does not spend it, what comes
\* after it is something else, spends other outputs and is not spent by it.
LEMMA SuffixStep ==
    ASSUME NEW b \in Blocks \ {Base}, NEW s \in Seq(Txs), Suffix(s, b), s # <<>>,
           NEW t, t = Head(s)
    PROVE  /\ t \in Txs /\ t \in Range(BlockTxs[b]) /\ Range(s) \subseteq Range(BlockTxs[b])
           /\ Tail(s) \in Seq(Txs) /\ Suffix(Tail(s), b)
           /\ Range(s) = {t} \cup Range(Tail(s)) /\ t \notin Range(Tail(s))
           /\ \A x \in Range(BlockTxs[b]) \ Range(s) : ~Spends(x, t)
           /\ \A x \in Range(Tail(s)) : Ins[t] \cap Ins[x] = {}
           /\ \A x \in Range(Tail(s)) : ~Spends(t, x)
<1> DEFINE B == BlockTxs[b]
<1>1. B \in Seq(Txs)
  BY ChainAssumption
<1>2. PICK k \in 0 .. Len(B) : s = SubSeq(B, k + 1, Len(B))
  BY DEF Suffix
<1>3. \A i, j \in 1 .. Len(B) : i < j => /\ B[i] # B[j] /\ Ins[B[i]] \cap Ins[B[j]] = {}
                                         /\ ~Spends(B[i], B[j])
  <2>1. DOMAIN B = 1 .. Len(B)
    BY <1>1, LenProperties
  <2> QED BY <2>1, ChainAssumption, Zenon
<1> HIDE DEF B
<1>4. Len(s) = Len(B) - k /\ \A i \in 1 .. Len(B) - k : s[i] = B[k + i]
  BY <1>1, <1>2
<1>5. k < Len(B) /\ Len(B) \in Nat /\ Len(s) # 0
  BY <1>1, <1>2, <1>4
<1>6. t = B[k + 1] /\ k + 1 \in 1 .. Len(B)
  BY <1>4, <1>5
<1>7. Tail(s) = SubSeq(B, (k + 1) + 1, Len(B)) /\ k + 1 \in 0 .. Len(B)
  <2>1. k + 1 \in 1 .. Len(B) /\ Len(B) \in k + 1 .. Len(B)
    BY <1>5
  <2> QED BY <1>1, <1>2, <2>1, HeadTailOfSubSeq
<1>8. Range(s) = {B[i] : i \in k + 1 .. Len(B)}
  <2>1. Range(s) = {s[i] : i \in 1 .. Len(B) - k}
    BY <1>4, RangeFacts
  <2>2. ASSUME NEW i \in k + 1 .. Len(B) PROVE B[i] \in Range(s)
    <3>1. i - k \in 1 .. Len(B) - k /\ k + (i - k) = i
      BY <1>5
    <3> QED BY <1>4, <2>1, <3>1
  <2>3. ASSUME NEW i \in 1 .. Len(B) - k PROVE s[i] \in {B[j] : j \in k + 1 .. Len(B)}
    <3>1. k + i \in k + 1 .. Len(B)
      BY <1>5
    <3> QED BY <1>4, <3>1
  <2> QED BY <2>1, <2>2, <2>3
<1>9. Range(B) = {B[i] : i \in 1 .. Len(B)}
  BY <1>1, RangeFacts
<1>10. Range(Tail(s)) = {B[i] : i \in k + 2 .. Len(B)}
  <2> DEFINE u == Tail(s)
  <2>1. u \in Seq(Txs) /\ Len(u) = Len(B) - (k + 1)
        /\ \A i \in 1 .. Len(B) - (k + 1) : u[i] = B[(k + 1) + i]
    BY <1>1, <1>5, <1>7, RangeFacts
  <2> HIDE DEF u
  <2>2. Range(u) = {u[i] : i \in 1 .. Len(B) - (k + 1)}
    BY <2>1, RangeFacts
  <2>3. ASSUME NEW i \in k + 2 .. Len(B) PROVE B[i] \in Range(u)
    <3>1. i - (k + 1) \in 1 .. Len(B) - (k + 1) /\ (k + 1) + (i - (k + 1)) = i
      BY <1>5
    <3> QED BY <2>1, <2>2, <3>1
  <2>4. ASSUME NEW i \in 1 .. Len(B) - (k + 1) PROVE u[i] \in {B[j] : j \in k + 2 .. Len(B)}
    <3>1. (k + 1) + i \in k + 2 .. Len(B)
      BY <1>5
    <3> QED BY <2>1, <3>1
  <2>5. Range(u) = {B[i] : i \in k + 2 .. Len(B)}
    BY <2>2, <2>3, <2>4
  <2> QED BY <2>5 DEF u
<1>11. Suffix(Tail(s), b)
  BY <1>7 DEF Suffix, B
<1>12. ASSUME NEW x \in Range(Tail(s)) PROVE t # x /\ Ins[t] \cap Ins[x] = {} /\ ~Spends(t, x)
  <2>1. PICK i \in k + 2 .. Len(B) : x = B[i]
    BY <1>10
  <2>2. i \in 1 .. Len(B) /\ k + 1 < i
    BY <1>5
  <2> QED BY <1>3, <1>6, <2>1, <2>2
<1>13. \A x \in Range(B) \ Range(s) : ~Spends(x, t)
  <2> SUFFICES ASSUME NEW x \in Range(B) \ Range(s) PROVE ~Spends(x, t)
    OBVIOUS
  <2>1. PICK i \in 1 .. Len(B) : x = B[i]
    BY <1>9
  <2>2. i < k + 1
    BY <1>5, <1>8, <2>1
  <2> QED BY <1>3, <1>6, <2>1, <2>2
<1>14. t \in Txs /\ Tail(s) \in Seq(Txs) /\ Range(s) = {t} \cup Range(Tail(s))
  BY RangeFacts
<1>15. t \in Range(B) /\ Range(s) \subseteq Range(B)
  BY <1>5, <1>6, <1>8, <1>9
<1> QED BY <1>11, <1>12, <1>13, <1>14, <1>15 DEF B

\* The whole block is a part of itself.
LEMMA SuffixAll ==
    ASSUME NEW b \in Blocks PROVE BlockTxs[b] \in Seq(Txs) /\ Suffix(BlockTxs[b], b)
<1>1. BlockTxs[b] \in Seq(Txs)
  BY ChainAssumption
<1>2. BlockTxs[b] = SubSeq(BlockTxs[b], 0 + 1, Len(BlockTxs[b])) /\ 0 \in 0 .. Len(BlockTxs[b])
  BY <1>1
<1> QED BY <1>1, <1>2 DEF Suffix

\* Outpoints name the transaction that creates them, and what is unspent in a chain was
\* created and not spent there.
LEMMA OutpointFacts ==
    /\ \A t \in Txs : \A o \in Ins[t] : o \in Outpoints
    /\ \A o \in Outpoints : o[1] \in Txs /\ o \in {o[1]} \X OutIdx[o[1]]
    /\ \A t \in Txs : \A o \in {t} \X OutIdx[t] : o \in Outpoints /\ o[1] = t
<1>1. \A t \in Txs : \A o \in Ins[t] : o \in Outpoints
  BY MempoolAssumption
<1>2. ASSUME NEW o \in Outpoints PROVE o[1] \in Txs /\ o \in {o[1]} \X OutIdx[o[1]]
  <2>1. PICK t \in Txs : o \in {t} \X OutIdx[t]
    BY DEF Outpoints
  <2>2. o[1] = t
    BY <2>1
  <2> QED BY <2>1, <2>2
<1>3. ASSUME NEW t \in Txs, NEW o \in {t} \X OutIdx[t] PROVE o \in Outpoints /\ o[1] = t
  BY DEF Outpoints
<1> QED BY <1>1, <1>2, <1>3

LEMMA UnspentFacts ==
    ASSUME NEW b \in Blocks, NEW o \in Outpoints
    PROVE  o \in Unspent[b] <=> o[1] \in Included(b) /\ \A x \in Included(b) : o \notin Ins[x]
<1>1. Unspent[b] = (UNION {{t} \X OutIdx[t] : t \in Included(b)})
                      \ UNION {Ins[t] : t \in Included(b)}
  BY DEF Unspent
<1>2. o \in UNION {{t} \X OutIdx[t] : t \in Included(b)} <=> o[1] \in Included(b)
  <2>1. ASSUME o[1] \in Included(b) PROVE o \in UNION {{t} \X OutIdx[t] : t \in Included(b)}
    BY <2>1, OutpointFacts
  <2>2. ASSUME NEW t \in Included(b), o \in {t} \X OutIdx[t] PROVE o[1] \in Included(b)
    <3>1. o[1] = t
      BY <2>2
    <3> QED BY <3>1
  <2> QED BY <2>1, <2>2
<1> QED BY <1>1, <1>2

\* Chains are made of transactions, each with what it spends.
LEMMA IncludedTxs ==
    ASSUME NEW b \in Blocks
    PROVE  \A x \in Included(b) : \A o \in Ins[x] : o[1] \in Included(b)
  BY ChainAssumption, Zenon

-----------------------------------------------------------------------------
(* Relatives.                                                              *)

LEMMA ClosureFacts ==
    ASSUME NEW links, \A t \in pool : links[t] \subseteq pool, NEW S \in SUBSET pool
    PROVE  LET D == Closure(S, links)
           IN  /\ S \subseteq D /\ D \subseteq pool /\ \A t \in D : links[t] \subseteq D
               /\ \A T \in SUBSET pool :
                     S \subseteq T /\ (\A t \in T : links[t] \subseteq T) => D \subseteq T
  BY DEF Closure

\* RemoveStaged takes entries out of all maps.
LEMMA Removed ==
    ASSUME Types, NextExact, Links, NEW stage \in SUBSET pool, RemoveEntries(stage),
           \A p, c \in pool \ stage : Awaited(p, c) => Awaited(p, c)'
    PROVE  /\ pool' = pool \ stage /\ pool' \subseteq Txs
           /\ next' \in [Outpoints -> pool' \cup {None}]
           /\ parents' \in [Txs -> SUBSET pool'] /\ children' \in [Txs -> SUBSET pool']
           /\ NextExact' /\ Links'
<1>0. /\ pool' = pool \ stage
      /\ next' = [o \in Outpoints |-> IF \E r \in stage : o \in Ins[r] THEN None ELSE next[o]]
      /\ parents' = [t \in Txs |-> IF t \in stage THEN {}
                                     ELSE parents[t] \ {r \in stage : t \in children[r]}]
      /\ children' = [t \in Txs |-> IF t \in stage THEN {}
                                      ELSE children[t] \ {r \in stage : t \in parents[r]}]
  BY DEF RemoveEntries, SeveredParents
<1>1. pool' = pool \ stage /\ pool' \subseteq Txs /\ stage \subseteq Txs
  BY <1>0 DEF Types
<1>2. /\ \A p, c \in Txs : c \in children[p] <=> p \in parents[c]
      /\ parents \in [Txs -> SUBSET pool] /\ children \in [Txs -> SUBSET pool]
  BY DEF Links, Types
<1>3. ASSUME NEW p \in Txs
      PROVE  \A c : c \in children'[p] <=> c \in children[p] /\ p \notin stage /\ c \notin stage
  <2>1. \A r \in stage : p \in parents[r] <=> r \in children[p]
    BY <1>1, <1>2
  <2> QED BY <1>0, <2>1
<1>4. ASSUME NEW c \in Txs
      PROVE  \A p : p \in parents'[c] <=> p \in parents[c] /\ p \notin stage /\ c \notin stage
  <2>1. \A r \in stage : c \in children[r] <=> r \in parents[c]
    BY <1>1, <1>2
  <2> QED BY <1>0, <2>1
<1>5. parents' \in [Txs -> SUBSET pool'] /\ children' \in [Txs -> SUBSET pool']
  <2>1. \A t \in Txs : parents'[t] \subseteq pool' /\ children'[t] \subseteq pool'
    BY <1>1, <1>2, <1>3, <1>4
  <2> QED BY <1>0, <2>1
<1>6. ASSUME NEW o \in Outpoints, NEW t \in Txs
      PROVE  next'[o] = t <=> t \in pool' /\ o \in Ins[t]
  <2>1. next'[o] = IF \E r \in stage : o \in Ins[r] THEN None ELSE next[o]
    BY <1>0
  <2>2. \A u \in Txs : next[o] = u <=> u \in pool /\ o \in Ins[u]
    BY DEF NextExact
  <2>3. t # None /\ stage \subseteq Txs
    BY <1>1, MempoolAssumption DEF Types
  <2> QED BY <1>1, <2>1, <2>2, <2>3
<1>7. next' \in [Outpoints -> pool' \cup {None}]
  <2>1. ASSUME NEW o \in Outpoints PROVE next'[o] \in pool' \cup {None}
    <3>1. next[o] \in pool \cup {None} /\ pool \subseteq Txs
      BY DEF Types
    <3>2. next'[o] \in {None, next[o]}
      BY <1>0
    <3> QED BY <1>6, <3>1, <3>2
  <2> QED BY <1>0, <2>1
<1>8. Links'
  <2>1. \A t \in Txs \ pool' : parents'[t] = {} /\ children'[t] = {}
    BY <1>1, <1>3, <1>4 DEF Links
  <2>2. \A p, c \in Txs : c \in children'[p] <=> p \in parents'[c]
    BY <1>2, <1>3, <1>4
  <2>3. \A p, c \in pool' : c \in children'[p] => Spends(c, p)
    BY <1>1, <1>3 DEF Links
  <2>4. \A p, c \in pool' : Spends(c, p) /\ ~Awaited(p, c)' => c \in children'[p]
    BY <1>1, <1>3 DEF Links
  <2>5. \A p, c : Spends(c, p)' = Spends(c, p)
    BY DEF Spends
  <2> QED BY <2>1, <2>2, <2>3, <2>4, <2>5 DEF Links
<1> QED BY <1>1, <1>5, <1>6, <1>7, <1>8 DEF NextExact

\* addUnchecked puts a transaction into all maps, but finds only its parents.
LEMMA Added ==
    ASSUME Types, NextExact, Links, NEW t \in Txs \ pool, NEW points, AddUnchecked(t, points),
           \A o \in Ins[t] : next[o] = None,
           \A p, c \in pool : Awaited(p, c) => Awaited(p, c)',
           \A c \in pool : Spends(c, t) => Awaited(t, c)'
    PROVE  /\ pool' = pool \cup {t} /\ pool' \subseteq Txs
           /\ next' \in [Outpoints -> pool' \cup {None}]
           /\ parents' \in [Txs -> SUBSET pool'] /\ children' \in [Txs -> SUBSET pool']
           /\ NextExact' /\ Links'
<1> DEFINE par == MempoolParents(t)
<1>1. /\ pool' = pool \cup {t} /\ pool' \subseteq Txs /\ pool \subseteq Txs
      /\ par = {p \in pool : Spends(t, p)}
  BY DEF AddUnchecked, Types, MempoolParents
<1>2. /\ next' = [o \in Outpoints |-> IF o \in Ins[t] THEN t ELSE next[o]]
      /\ parents' = [parents EXCEPT ![t] = par]
      /\ children' = [p \in Txs |-> IF p \in par THEN children[p] \cup {t} ELSE children[p]]
  BY DEF AddUnchecked
<1> HIDE DEF par
<1>3. /\ parents \in [Txs -> SUBSET pool] /\ children \in [Txs -> SUBSET pool]
      /\ next \in [Outpoints -> pool \cup {None}]
  BY DEF Types
<1>4. parents' \in [Txs -> SUBSET pool'] /\ children' \in [Txs -> SUBSET pool']
  <2>1. \A p \in Txs : children'[p] \subseteq pool' /\ parents'[p] \subseteq pool'
    BY <1>1, <1>2, <1>3
  <2> QED BY <1>2, <1>3, <2>1
<1>5. next' \in [Outpoints -> pool' \cup {None}]
  BY <1>1, <1>2, <1>3
<1>6. ASSUME NEW o \in Outpoints, NEW u \in Txs
      PROVE  next'[o] = u <=> u \in pool' /\ o \in Ins[u]
  <2>1. next[o] = u <=> u \in pool /\ o \in Ins[u]
    BY DEF NextExact
  <2>2. next'[o] = IF o \in Ins[t] THEN t ELSE next[o]
    BY <1>2
  <2>3. u # None
    BY MempoolAssumption
  <2> QED BY <1>1, <2>1, <2>2, <2>3
<1>7. Links'
  <2>1. \A u \in Txs \ pool : parents[u] = {} /\ children[u] = {}
    BY DEF Links
  <2>2. \A u \in Txs \ pool' : parents'[u] = {} /\ children'[u] = {}
    BY <1>1, <1>2, <1>3, <2>1
  <2>3. ASSUME NEW p \in Txs, NEW c \in Txs
        PROVE  c \in children'[p] <=> c \in children[p] \/ (c = t /\ p \in par)
    BY <1>2
  <2>4. ASSUME NEW p \in Txs, NEW c \in Txs
        PROVE  p \in parents'[c] <=> IF c = t THEN p \in par ELSE p \in parents[c]
    BY <1>2, <1>3
  <2>5. ASSUME NEW p \in Txs PROVE t \notin children[p] /\ p \notin parents[t] /\ t \notin par
    BY <1>1, <1>3, <2>1
  <2>6. \A p, c \in Txs : c \in children'[p] <=> p \in parents'[c]
    BY <2>3, <2>4, <2>5 DEF Links
  <2>7. \A p, c \in pool' : c \in children'[p] => Spends(c, p)
    BY <1>1, <1>3, <2>1, <2>3, <2>5 DEF Links
  <2>8. ASSUME NEW p \in pool', NEW c \in pool', Spends(c, p), ~Awaited(p, c)'
        PROVE  c \in children'[p]
    <3>1. CASE c = t
      <4>1. p # t
        BY <2>8, <3>1, ChainAssumption
      <4> QED BY <1>1, <2>3, <2>8, <3>1, <4>1
    <3>2. CASE c # t /\ p = t
      BY <1>1, <2>8, <3>2
    <3>3. CASE c # t /\ p # t
      BY <1>1, <2>3, <2>8, <3>3 DEF Links
    <3> QED BY <3>1, <3>2, <3>3
  <2>9. \A p, c : Spends(c, p)' = Spends(c, p)
    BY DEF Spends
  <2> QED BY <2>2, <2>6, <2>7, <2>8, <2>9 DEF Links
<1> QED BY <1>1, <1>4, <1>5, <1>6, <1>7 DEF NextExact

-----------------------------------------------------------------------------
(* The actions.                                                            *)

\* Outside DisconnectTip no link is missing, and the chain is the settled one.
LEMMA Calm ==
    ASSUME pc \notin {"connect", "resurrect", "update"}
    PROVE  Settled = Included(coins) /\ \A p, c : ~Awaited(p, c)
  BY DEF Settled, Awaited

\* When entries go with all their descendants, what the others spend stays.
LEMMA WithDescendants ==
    ASSUME Types, Phases, NextExact, Links, Unconfirmed, Available,
           NEW S \in SUBSET pool, RemoveEntries(CalculateDescendants(S)),
           pc \notin {"connect", "resurrect", "update"},
           pc' \notin {"connect", "resurrect", "update"},
           UNCHANGED chainVars, todo' \in Seq(Txs), readded' = readded
    PROVE  PoolInv'
<1> DEFINE stage == CalculateDescendants(S)
<1>1. \A t \in pool : children[t] \subseteq pool
  BY DEF Types
<1>2. S \subseteq stage /\ stage \subseteq pool /\ \A t \in stage : children[t] \subseteq stage
  BY <1>1, ClosureFacts DEF CalculateDescendants
<1> HIDE DEF stage
<1>3. /\ Settled = Included(coins) /\ Settled' = Settled
      /\ \A p, c : ~Awaited(p, c)
  BY Calm DEF Settled, chainVars, Included
<1>4. /\ pool' = pool \ stage /\ pool' \subseteq Txs
      /\ next' \in [Outpoints -> pool' \cup {None}]
      /\ parents' \in [Txs -> SUBSET pool'] /\ children' \in [Txs -> SUBSET pool']
      /\ NextExact' /\ Links'
  <2>1. RemoveEntries(stage)
    BY DEF stage
  <2> QED BY <1>2, <1>3, <2>1, Removed
<1>5. Types'
  BY <1>4 DEF Types, chainVars
<1>6. Phases'
  BY DEF Phases, chainVars
<1>7. Unconfirmed'
  BY <1>3, <1>4 DEF Unconfirmed
<1>8. Available'
  <2> SUFFICES ASSUME NEW t \in pool', NEW o \in Ins[t]
               PROVE  o[1] \in pool' \/ (o[1] \in Settled /\ \A x \in Settled : o \notin Ins[x])
    BY <1>3 DEF Available
  <2>1. CASE o[1] \in pool
    <3>1. t \in children[o[1]]
      BY <1>3, <1>4, <2>1 DEF Links, Spends
    <3> QED BY <1>2, <1>4, <2>1, <3>1
  <2>2. CASE o[1] \notin pool
    BY <1>4, <2>2 DEF Available
  <2> QED BY <2>1, <2>2
<1> QED BY <1>4, <1>5, <1>6, <1>7, <1>8 DEF PoolInv

LEMMA ExpireStep == ASSUME PoolInv, Expire PROVE PoolInv'
<1>1. PICK old \in SUBSET (pool \ Range(todo)) : RemoveStaged(CalculateDescendants(old))
  BY DEF Expire
<1>2. RemoveEntries(CalculateDescendants(old)) /\ old \in SUBSET pool
  BY <1>1 DEF RemoveStaged
<1>3. /\ pc \notin {"connect", "resurrect", "update"}
      /\ pc' \notin {"connect", "resurrect", "update"}
      /\ UNCHANGED chainVars /\ todo' \in Seq(Txs) /\ readded' = readded
  BY DEF Expire
<1> QED BY <1>2, <1>3, WithDescendants DEF PoolInv

LEMMA TrimStep == ASSUME PoolInv, TrimToSize PROVE PoolInv'
<1>1. PICK t \in LowestScore : RemoveStaged(CalculateDescendants({t}))
  BY DEF TrimToSize
<1>2. RemoveEntries(CalculateDescendants({t})) /\ {t} \in SUBSET pool
  BY <1>1 DEF RemoveStaged, LowestScore
<1>3. /\ pc \notin {"connect", "resurrect", "update"}
      /\ pc' \notin {"connect", "resurrect", "update"}
      /\ UNCHANGED chainVars /\ todo' \in Seq(Txs) /\ readded' = readded
  BY DEF TrimToSize, callVars, PoolInv, Types
<1> QED BY <1>2, <1>3, WithDescendants DEF PoolInv

LEMMA ReorgStep == ASSUME PoolInv, RemoveForReorg PROVE PoolInv'
<1>1. RemoveEntries(CalculateDescendants(Unminable)) /\ Unminable \in SUBSET pool
  BY DEF RemoveForReorg, Unminable
<1>2. /\ pc \notin {"connect", "resurrect", "update"}
      /\ pc' \notin {"connect", "resurrect", "update"}
      /\ UNCHANGED chainVars /\ todo' \in Seq(Txs) /\ readded' = readded
  BY DEF RemoveForReorg, AfterReorg, PoolInv, Types
<1> QED BY <1>1, <1>2, WithDescendants DEF PoolInv

\* Steps between the loops, and those on fees only.
LEMMA QuietStep ==
    ASSUME PoolInv, UNCHANGED <<chainVars, pool, linkVars, todo, readded>>,
           pc \notin {"connect", "resurrect", "update"},
           pc' \notin {"connect", "resurrect", "update"}
    PROVE  PoolInv'
<1> USE DEF PoolInv, chainVars, linkVars
<1>1. Types'
  BY DEF Types
<1>2. Phases'
  BY DEF Phases
<1>3. NextExact'
  BY DEF NextExact
<1>4. \A p, c : ~Awaited(p, c) /\ ~Awaited(p, c)'
  BY DEF Awaited
<1>5. Links'
  BY <1>4 DEF Links, Spends
<1>6. Settled' = Settled
  BY DEF Settled, Included
<1>7. Unconfirmed' /\ Available'
  BY <1>6 DEF Unconfirmed, Available
<1> QED BY <1>1, <1>2, <1>3, <1>5, <1>7

\* A new transaction: the chain does not have it, nothing in the pool waits for it, and
\* what it spends is there.
LEMMA AcceptStep == ASSUME PoolInv, NEW t \in Txs, AcceptToMemoryPool(t) PROVE PoolInv'
<1> USE DEF PoolInv
<1>1. /\ pc = "idle" /\ pc' = "expire" /\ todo' = <<t>> /\ readded' = readded
      /\ tip' = tip /\ coins' = coins /\ AddUnchecked(t, CalculateLockPoints(t))
  BY DEF AcceptToMemoryPool, chainVars
<1>2. /\ t \notin pool /\ t \notin Coinbases /\ ~HaveCoins(t)
      /\ \A o \in Ins[t] : next[o] = None /\ (o[1] \in pool \/ o \in Unspent[coins])
  BY DEF AcceptToMemoryPool, Acceptable
<1>3. /\ Settled = Included(coins) /\ Settled' = Settled
      /\ \A p, c : ~Awaited(p, c) /\ ~Awaited(p, c)'
  BY <1>1 DEF Settled, Included, Awaited
<1>4. coins \in Blocks
  BY DEF Types
<1>5. ASSUME NEW u \in Txs, NEW o \in Ins[u]
      PROVE  o \in Unspent[coins]
                <=> o[1] \in Settled /\ \A x \in Settled : o \notin Ins[x]
  BY <1>3, <1>4, OutpointFacts, UnspentFacts
<1>6. t \notin Settled
  <2> SUFFICES ASSUME t \in Settled PROVE FALSE
    OBVIOUS
  <2>1. PICK o : o \in Ins[t]
    BY <1>2, ChainAssumption
  <2>2. o[1] \in pool
    BY <1>2, <1>5, <2>1
  <2>3. o[1] \in Included(coins)
    BY <1>3, <1>4, <2>1, IncludedTxs
  <2> QED BY <1>3, <2>2, <2>3 DEF Unconfirmed
<1>7. ASSUME NEW c \in pool PROVE ~Spends(c, t)
  <2> SUFFICES ASSUME NEW o \in Ins[c], o[1] = t PROVE FALSE
    BY DEF Spends
  <2>1. c \in Txs
    BY DEF Types
  <2>2. o \in Unspent[coins]
    BY <1>2, <1>5, <2>1 DEF Available
  <2> QED BY <1>2, <2>2 DEF HaveCoins
<1>8. /\ pool' = pool \cup {t} /\ pool' \subseteq Txs
      /\ next' \in [Outpoints -> pool' \cup {None}]
      /\ parents' \in [Txs -> SUBSET pool'] /\ children' \in [Txs -> SUBSET pool']
      /\ NextExact' /\ Links'
  BY <1>1, <1>2, <1>3, <1>7, Added
<1>9. Types'
  BY <1>1, <1>8 DEF Types
<1>10. Phases'
  BY <1>1 DEF Phases
<1>11. Unconfirmed'
  BY <1>3, <1>6, <1>8 DEF Unconfirmed
<1>12. Available'
  BY <1>2, <1>3, <1>5, <1>8 DEF Available
<1> QED BY <1>8, <1>9, <1>10, <1>11, <1>12

\* A block is being connected: the pool is still adapted to the chain below it.
LEMMA ConnectStep == ASSUME PoolInv, NEW b \in Blocks, ConnectTip(b) PROVE PoolInv'
<1> USE DEF PoolInv
<1>1. /\ pc \in {"idle", "moved"} /\ b # Base /\ Parent[b] = tip
      /\ coins' = b /\ pc' = "connect" /\ todo' = BlockTxs[b] /\ tip' = tip
      /\ pool' = pool /\ next' = next /\ parents' = parents /\ children' = children
      /\ readded' = readded
  BY DEF ConnectTip, entryVars, linkVars
<1>2. tip = coins
  BY <1>1 DEF Phases
<1>3. Settled = Included(coins) /\ \A p, c : ~Awaited(p, c)
  BY <1>1, Calm
<1>4. Settled' = Included(b) \ Range(BlockTxs[b])
  BY <1>1 DEF Settled, Included, Range
<1>5. Settled' = Settled
  BY <1>1, <1>2, <1>3, <1>4, IncludedStep
<1>6. Suffix(BlockTxs[b], b) /\ BlockTxs[b] \in Seq(Txs)
  BY SuffixAll
<1>7. Types'
  BY <1>1, <1>6 DEF Types
<1>8. Phases'
  BY <1>1, <1>6 DEF Phases, Suffix
<1>9. NextExact' /\ Links'
  BY <1>1, <1>3 DEF NextExact, Links, Spends
<1>10. Unconfirmed' /\ Available'
  BY <1>1, <1>5 DEF Unconfirmed, Available
<1> QED BY <1>7, <1>8, <1>9, <1>10

\* A transaction of the block: it becomes part of the settled chain, and what conflicts
\* with it goes.
LEMMA BlockStep == ASSUME PoolInv, RemoveForBlock PROVE PoolInv'
<1> USE DEF PoolInv
<1> DEFINE t == Head(todo)
           stage == RemovedForBlock(t)
<1>1. /\ pc = "connect" /\ todo # <<>> /\ RemoveEntries(stage)
      /\ todo' = Tail(todo) /\ pc' = pc /\ readded' = readded
      /\ tip' = tip /\ coins' = coins
  BY DEF RemoveForBlock, RemoveStaged, chainVars
<1>2. /\ coins \in Blocks \ {Base} /\ Parent[coins] = tip /\ Suffix(todo, coins)
      /\ todo \in Seq(Txs)
  BY <1>1 DEF Phases, Types
<1> DEFINE B == Range(BlockTxs[coins])
<1>3. /\ t \in Txs /\ t \in B /\ Range(todo) \subseteq B
      /\ Tail(todo) \in Seq(Txs) /\ Suffix(Tail(todo), coins)
      /\ Range(todo) = {t} \cup Range(Tail(todo)) /\ t \notin Range(Tail(todo))
      /\ \A x \in B \ Range(todo) : ~Spends(x, t)
  BY <1>1, <1>2, SuffixStep
<1>4. /\ tip \in Blocks /\ Included(coins) = Included(tip) \cup B
      /\ Included(tip) \cap B = {}
  BY <1>2, IncludedStep
<1> HIDE DEF t, stage, B
<1>5. Settled = Included(coins) \ Range(todo)
  BY <1>1 DEF Settled
<1>6. Settled' = Settled \cup {t}
  <2>1. Settled' = Included(coins) \ Range(Tail(todo))
    BY <1>1 DEF Settled, Included, Range
  <2> QED BY <1>3, <1>4, <1>5, <2>1
<1>7. \A p, c : ~Awaited(p, c)
  BY <1>1 DEF Awaited
<1>8. ASSUME NEW x \in Settled' PROVE ~Spends(x, t)
  <2>1. CASE x = t
    BY <1>3, <2>1, ChainAssumption
  <2>2. CASE x \in Included(tip)
    BY <1>3, <1>4, <2>2, IncludedTxs DEF Spends
  <2>3. CASE x \in B \ Range(todo)
    BY <1>3, <2>3
  <2> QED BY <1>4, <1>5, <1>6, <2>1, <2>2, <2>3
<1>9. /\ pool \subseteq Txs /\ None \notin Txs
      /\ \A u \in Txs : \A o \in Ins[u] : o \in Outpoints
  BY MempoolAssumption DEF Types
<1>10. ASSUME NEW u \in pool, NEW o \in Ins[u] PROVE next[o] = u
  BY <1>9 DEF NextExact
<1>11. /\ stage \subseteq pool
       /\ t \in pool => stage = {t}
       /\ t \notin pool => /\ \A u \in stage : children[u] \subseteq stage
                          /\ \A u \in pool : Ins[u] \cap Ins[t] # {} => u \in stage
  <2>1. CASE t \in pool
    BY <2>1 DEF stage, RemovedForBlock
  <2>2. CASE t \notin pool
    <3>1. stage = Closure(Conflicts(t), children)
      BY <2>2 DEF stage, RemovedForBlock, CalculateDescendants
    <3>2. Conflicts(t) \subseteq pool
      BY <1>3, <1>9 DEF Conflicts, Types
    <3>3. ASSUME NEW u \in pool, Ins[u] \cap Ins[t] # {} PROVE u \in Conflicts(t)
      <4>1. PICK o : o \in Ins[u] /\ o \in Ins[t]
        BY <3>3
      <4>2. next[o] = u /\ u \notin {None, t}
        BY <1>9, <1>10, <2>2, <4>1
      <4> QED BY <4>1, <4>2 DEF Conflicts
    <3>4. \A u \in pool : children[u] \subseteq pool
      BY <1>9 DEF Types
    <3> QED BY <2>2, <3>1, <3>2, <3>3, <3>4, ClosureFacts
  <2> QED BY <2>1, <2>2
<1>12. /\ pool' = pool \ stage /\ pool' \subseteq Txs
       /\ next' \in [Outpoints -> pool' \cup {None}]
       /\ parents' \in [Txs -> SUBSET pool'] /\ children' \in [Txs -> SUBSET pool']
       /\ NextExact' /\ Links'
  BY <1>1, <1>7, <1>11, Removed
<1>13. Types'
  BY <1>1, <1>3, <1>12 DEF Types
<1>14. Phases'
  BY <1>1, <1>2, <1>3 DEF Phases, Suffix
<1>15. Unconfirmed'
  BY <1>6, <1>11, <1>12 DEF Unconfirmed
<1>16. Available'
  <2> SUFFICES ASSUME NEW u \in pool', NEW o \in Ins[u]
               PROVE  o[1] \in pool' \/ (o[1] \in Settled' /\ \A x \in Settled' : o \notin Ins[x])
    BY DEF Available
  <2>1. u \in pool /\ u \notin stage
    BY <1>12
  <2>2. CASE o[1] \in pool \ stage
    BY <1>12, <2>2
  <2>3. CASE o[1] \in pool /\ o[1] \in stage
    <3>1. u \in children[o[1]]
      BY <1>7, <2>1, <2>3 DEF Links, Spends
    <3>2. o[1] = t
      BY <1>11, <2>1, <2>3, <3>1
    <3> QED BY <1>6, <1>8, <3>2 DEF Spends
  <2>4. CASE o[1] \notin pool
    <3>1. o[1] \in Settled /\ \A x \in Settled : o \notin Ins[x]
      BY <2>1, <2>4 DEF Available
    <3>2. o \notin Ins[t]
      BY <1>10, <1>11, <2>1
    <3> QED BY <1>6, <3>1, <3>2
  <2> QED BY <2>2, <2>3, <2>4
<1> QED BY <1>12, <1>13, <1>14, <1>15, <1>16

\* The tip moves up.
LEMMA ConnectedStep == ASSUME PoolInv, Connected PROVE PoolInv'
<1> USE DEF PoolInv
<1>1. /\ pc = "connect" /\ pc' \in {"idle", "moved"} /\ todo = <<>> /\ todo' = todo
      /\ tip' = coins /\ coins' = coins /\ readded' = readded
      /\ pool' = pool /\ next' = next /\ parents' = parents /\ children' = children
  BY DEF Connected, entryVars, linkVars
<1>2. Range(todo) = {}
  BY <1>1, RangeFacts DEF Types
<1>3. Settled' = Settled /\ \A p, c : ~Awaited(p, c)
  BY <1>1, <1>2 DEF Settled, Included, Range, Awaited
<1>4. Types'
  BY <1>1 DEF Types
<1>5. Phases'
  BY <1>1 DEF Phases
<1>6. NextExact' /\ Links'
  BY <1>1, <1>3 DEF NextExact, Links, Spends
<1>7. Unconfirmed' /\ Available'
  BY <1>1, <1>3 DEF Unconfirmed, Available
<1> QED BY <1>4, <1>5, <1>6, <1>7

\* A block is being disconnected: its transactions are still settled.
LEMMA DisconnectStep == ASSUME PoolInv, NEW caller, DisconnectTip(caller) PROVE PoolInv'
<1> USE DEF PoolInv
<1>1. /\ pc \in {"idle", "moved"} /\ tip # Base /\ coins' = Parent[tip] /\ pc' = "resurrect"
      /\ todo' = BlockTxs[tip] /\ readded' = <<>> /\ tip' = tip
      /\ pool' = pool /\ next' = next /\ parents' = parents /\ children' = children
  BY DEF DisconnectTip, entryVars, linkVars
<1>2. tip = coins /\ tip \in Blocks \ {Base}
  BY <1>1 DEF Phases, Types
<1>3. /\ Parent[tip] \in Blocks
      /\ Included(tip) = Included(Parent[tip]) \cup Range(BlockTxs[tip])
  BY <1>2, IncludedStep
<1>4. /\ Settled = Included(tip) /\ \A p, c : ~Awaited(p, c)
      /\ Settled' = Included(Parent[tip]) \cup Range(BlockTxs[tip])
  <2>1. Settled' = Included(coins') \cup Range(todo')
    BY <1>1 DEF Settled, Included, Range
  <2>2. Settled = Included(coins) /\ \A p, c : ~Awaited(p, c)
    BY <1>1, Calm
  <2>3. Settled = Included(tip)
    BY ONLY <1>2, <2>2
  <2>4. Included(coins') = Included(Parent[tip])
    BY ONLY <1>1
  <2>5. Range(todo') = Range(BlockTxs[tip])
    BY ONLY <1>1
  <2>6. Settled' = Included(Parent[tip]) \cup Range(BlockTxs[tip])
    BY ONLY <2>1, <2>4, <2>5
  <2> QED BY ONLY <2>2, <2>3, <2>6
<1>5. Suffix(BlockTxs[tip], tip) /\ BlockTxs[tip] \in Seq(Txs)
  BY <1>2, SuffixAll
<1>6. Range(readded') = {}
  BY <1>1, RangeFacts DEF Types
<1>7. Types'
  BY <1>1, <1>3, <1>5 DEF Types
<1>8. Unconfirmed' /\ Available'
  BY <1>1, <1>3, <1>4 DEF Unconfirmed, Available
<1>9. Phases'
  <2>1. pool \cap Range(BlockTxs[tip]) = {}
    BY <1>3, <1>4 DEF Unconfirmed
  <2> QED BY <1>1, <1>2, <1>5, <1>6, <2>1 DEF Phases, Suffix, Range
<1>10. NextExact' /\ Links'
  BY <1>1, <1>4 DEF NextExact, Links, Spends
<1> QED BY <1>7, <1>8, <1>9, <1>10

\* What the loop of DisconnectTip knows of the transaction it looks at.
LEMMA Returning ==
    ASSUME PoolInv, pc = "resurrect", todo # <<>>, NEW t, t = Head(todo)
    PROVE  /\ tip \in Blocks \ {Base} /\ coins \in Blocks /\ coins = Parent[tip]
           /\ t \in Txs /\ t \notin pool /\ Tail(todo) \in Seq(Txs) /\ Suffix(Tail(todo), tip)
           /\ t \in Range(BlockTxs[tip])
           /\ Range(todo) = {t} \cup Range(Tail(todo)) /\ t \notin Range(Tail(todo))
           /\ Included(tip) = Included(coins) \cup Range(BlockTxs[tip])
           /\ Settled = Included(coins) \cup Range(todo)
           /\ Included(coins) \cup Range(Tail(todo)) = Settled \ {t}
           /\ \A x \in Range(readded) : ~Spends(x, t)
           /\ \A x \in Range(Tail(todo)) : Ins[t] \cap Ins[x] = {}
<1> USE DEF PoolInv
<1>1. /\ tip \in Blocks \ {Base} /\ coins = Parent[tip] /\ coins \in Blocks
      /\ todo \in Seq(Txs) /\ Suffix(todo, tip)
      /\ Range(readded) \subseteq Range(BlockTxs[tip]) /\ Range(readded) \cap Range(todo) = {}
  BY DEF Phases, Types
<1>2. /\ t \in Txs /\ t \in Range(BlockTxs[tip]) /\ Range(todo) \subseteq Range(BlockTxs[tip])
      /\ Tail(todo) \in Seq(Txs) /\ Suffix(Tail(todo), tip)
      /\ Range(todo) = {t} \cup Range(Tail(todo)) /\ t \notin Range(Tail(todo))
      /\ \A x \in Range(BlockTxs[tip]) \ Range(todo) : ~Spends(x, t)
      /\ \A x \in Range(Tail(todo)) : Ins[t] \cap Ins[x] = {}
  BY <1>1, SuffixStep
<1>3. /\ Included(tip) = Included(coins) \cup Range(BlockTxs[tip])
      /\ Included(coins) \cap Range(BlockTxs[tip]) = {}
  BY <1>1, IncludedStep
<1>4. Settled = Included(coins) \cup Range(todo)
  BY DEF Settled
<1>5. t \notin pool
  BY <1>2, <1>4 DEF Unconfirmed
<1>6. Included(coins) \cup Range(Tail(todo)) = Settled \ {t}
  BY <1>2, <1>3, <1>4
<1> QED BY <1>1, <1>2, <1>3, <1>4, <1>5, <1>6

\* It comes back: its children in the pool are those that came back before it, which it
\* has none of, and those that were never gone, whose links are awaited.
LEMMA ComesBack ==
    ASSUME PoolInv, pc = "resurrect", todo # <<>>, NEW t, t = Head(todo),
           Acceptable(t), NEW points, AddUnchecked(t, points),
           readded' = Append(readded, t), todo' = Tail(todo), pc' = pc,
           tip' = tip, coins' = coins
    PROVE  PoolInv'
<1> USE DEF PoolInv
<1>1. /\ tip \in Blocks \ {Base} /\ coins \in Blocks /\ coins = Parent[tip]
      /\ t \in Txs /\ t \notin pool /\ Tail(todo) \in Seq(Txs) /\ Suffix(Tail(todo), tip)
      /\ t \in Range(BlockTxs[tip])
      /\ Range(todo) = {t} \cup Range(Tail(todo)) /\ t \notin Range(Tail(todo))
      /\ Settled = Included(coins) \cup Range(todo)
      /\ Included(coins) \cup Range(Tail(todo)) = Settled \ {t}
      /\ \A x \in Range(readded) : ~Spends(x, t)
      /\ \A x \in Range(Tail(todo)) : Ins[t] \cap Ins[x] = {}
  BY Returning
<1>2. /\ \A o \in Ins[t] : next[o] = None
      /\ \A o \in Ins[t] : o[1] \in pool \/ o \in Unspent[coins]
  BY DEF Acceptable
<1>3. readded' \in Seq(Txs) /\ Range(readded') = Range(readded) \cup {t}
  BY <1>1, RangeFacts DEF Types
<1>4. Settled' = Settled \ {t}
  <2>1. Settled' = Included(coins) \cup Range(Tail(todo))
    BY DEF Settled, Included, Range
  <2> QED BY <1>1, <2>1
<1>5. \A p, c \in pool : Awaited(p, c) => Awaited(p, c)'
  BY <1>1, <1>3 DEF Awaited
<1>6. ASSUME NEW c \in pool, Spends(c, t) PROVE Awaited(t, c)'
  <2>1. c \notin Range(readded) /\ c # t
    BY <1>1, <1>6
  <2> QED BY <1>3, <2>1 DEF Awaited
<1>7. /\ pool' = pool \cup {t} /\ pool' \subseteq Txs
      /\ next' \in [Outpoints -> pool' \cup {None}]
      /\ parents' \in [Txs -> SUBSET pool'] /\ children' \in [Txs -> SUBSET pool']
      /\ NextExact' /\ Links'
  BY <1>1, <1>2, <1>5, <1>6, Added
<1>8. Types'
  BY <1>1, <1>3, <1>7 DEF Types
<1>9. Phases'
  <2>1. /\ Range(readded) \subseteq Range(BlockTxs[tip]) /\ Range(readded) \cap Range(todo) = {}
        /\ pool \cap Range(BlockTxs[tip]) \subseteq Range(readded)
    BY DEF Phases
  <2>2. /\ Range(readded') \subseteq Range(BlockTxs[tip])
        /\ Range(readded') \cap Range(Tail(todo)) = {}
        /\ pool' \cap Range(BlockTxs[tip]) \subseteq Range(readded')
    BY <1>1, <1>3, <1>7, <2>1
  <2>3. Suffix(todo', tip')
    BY <1>1 DEF Suffix
  <2>4. Suffix(todo', tip') = Suffix(todo, tip)' /\ \A x : x \in Range(todo)' <=> x \in Range(todo')
    BY DEF Suffix, Range
  <2>5. Range(readded)' = Range(readded') /\ Range(BlockTxs[tip])' = Range(BlockTxs[tip])
    BY DEF Range
  <2> QED BY <1>1, <2>2, <2>3, <2>4, <2>5 DEF Phases
<1>10. Unconfirmed'
  BY <1>4, <1>7 DEF Unconfirmed
<1>11. Available'
  <2> SUFFICES ASSUME NEW u \in pool', NEW o \in Ins[u], o[1] \notin pool'
               PROVE  o[1] \in Settled' /\ \A x \in Settled' : o \notin Ins[x]
    BY DEF Available
  <2>1. CASE u = t
    <3>1. o \in Unspent[coins] /\ o \in Outpoints
      BY <1>1, <1>2, <1>7, <2>1, OutpointFacts
    <3>2. o[1] \in Included(coins) /\ \A x \in Included(coins) : o \notin Ins[x]
      BY <1>1, <3>1, UnspentFacts
    <3>3. \A x \in Range(Tail(todo)) : o \notin Ins[x]
      BY <1>1, <2>1
    <3> QED BY <1>1, <1>4, <3>2, <3>3
  <2>2. CASE u \in pool
    <3>1. o[1] \in Settled /\ o[1] # t /\ \A x \in Settled : o \notin Ins[x]
      BY <1>7, <2>2 DEF Available
    <3> QED BY <1>4, <3>1
  <2> QED BY <1>7, <2>1, <2>2
<1> QED BY <1>7, <1>8, <1>9, <1>10, <1>11

\* It does not come back: what spends it goes, and none of that came back before it.
LEMMA StaysAway ==
    ASSUME PoolInv, pc = "resurrect", todo # <<>>, NEW t, t = Head(todo),
           RemoveEntries(RecursiveRemoves(t)),
           readded' = readded, todo' = Tail(todo), pc' = pc, tip' = tip, coins' = coins
    PROVE  PoolInv'
<1> USE DEF PoolInv
<1> DEFINE spenders == {next[o] : o \in {t} \X OutIdx[t]} \ {None}
           stage == RecursiveRemoves(t)
<1>1. /\ tip \in Blocks \ {Base} /\ coins \in Blocks /\ coins = Parent[tip]
      /\ t \in Txs /\ t \notin pool /\ Tail(todo) \in Seq(Txs) /\ Suffix(Tail(todo), tip)
      /\ t \in Range(BlockTxs[tip])
      /\ Range(todo) = {t} \cup Range(Tail(todo)) /\ t \notin Range(Tail(todo))
      /\ Included(tip) = Included(coins) \cup Range(BlockTxs[tip])
      /\ Settled = Included(coins) \cup Range(todo)
      /\ Included(coins) \cup Range(Tail(todo)) = Settled \ {t}
      /\ \A x \in Range(readded) : ~Spends(x, t)
  BY Returning
<1>2. stage = Closure(spenders, children)
  BY <1>1 DEF RecursiveRemoves, CalculateDescendants
<1>3. RemoveEntries(stage)
  OBVIOUS
<1> HIDE DEF stage
<1>4. ASSUME NEW u \in pool, Spends(u, t) PROVE u \in spenders
  <2>1. PICK o \in Ins[u] : o[1] = t
    BY <1>4 DEF Spends
  <2>2. u \in Txs /\ u # None
    BY MempoolAssumption DEF Types
  <2>3. o \in Outpoints /\ o \in {t} \X OutIdx[t]
    BY <2>1, <2>2, OutpointFacts
  <2>4. next[o] = u
    BY <2>2, <2>3 DEF NextExact
  <2> QED BY <2>2, <2>3, <2>4
<1>5. ASSUME NEW u \in spenders PROVE u \in pool /\ Spends(u, t)
  <2>1. PICK o \in {t} \X OutIdx[t] : u = next[o] /\ u # None
    OBVIOUS
  <2>2. o \in Outpoints /\ o[1] = t
    BY <1>1, OutpointFacts
  <2>3. u \in pool /\ u \in Txs
    BY <2>1, <2>2 DEF Types
  <2>4. o \in Ins[u]
    BY <2>1, <2>2, <2>3 DEF NextExact
  <2> QED BY <2>2, <2>3, <2>4 DEF Spends
<1> HIDE DEF spenders
<1>6. ASSUME NEW p \in pool \ Range(readded), NEW c \in children[p]
      PROVE  c \in pool \ Range(readded)
  <2>1. c \in pool /\ Spends(c, p)
    <3>1. p \in Txs /\ c \in pool
      BY DEF Types
    <3> QED BY <3>1 DEF Links
  <2>2. ASSUME c \in Range(readded) PROVE FALSE
    <3>1. /\ c \in Included(tip) /\ pool \cap Range(BlockTxs[tip]) \subseteq Range(readded)
      BY <1>1, <2>2 DEF Phases
    <3>2. p \in Included(tip)
      BY <1>1, <2>1, <3>1, IncludedTxs DEF Spends
    <3>3. p \notin Included(coins)
      BY <1>1 DEF Unconfirmed
    <3> QED BY <1>1, <3>1, <3>2, <3>3
  <2> QED BY <2>1, <2>2
<1>7. \A u \in pool : children[u] \subseteq pool
  BY DEF Types
<1>8. /\ stage \subseteq pool /\ spenders \subseteq stage
      /\ \A u \in stage : children[u] \subseteq stage
      /\ stage \cap Range(readded) = {}
  <2>1. spenders \subseteq pool \ Range(readded)
    BY <1>1, <1>5
  <2>2. stage \subseteq pool \ Range(readded)
    <3> DEFINE T == pool \ Range(readded)
    <3>1. T \in SUBSET pool /\ spenders \subseteq T /\ \A u \in T : children[u] \subseteq T
      BY <1>6, <2>1
    <3> HIDE DEF T
    <3>2. stage \subseteq T
      BY <1>2, <1>5, <1>7, <3>1, ClosureFacts
    <3> QED BY <3>2 DEF T
  <2>3. /\ spenders \subseteq stage /\ \A u \in stage : children[u] \subseteq stage
    BY <1>2, <1>5, <1>7, ClosureFacts
  <2> QED BY <2>2, <2>3
<1>9. /\ pool' = pool \ stage /\ pool' \subseteq Txs
      /\ next' \in [Outpoints -> pool' \cup {None}]
      /\ parents' \in [Txs -> SUBSET pool'] /\ children' \in [Txs -> SUBSET pool']
      /\ NextExact' /\ Links'
  <2>1. \A p, c \in pool \ stage : Awaited(p, c) => Awaited(p, c)'
    BY DEF Awaited, Range
  <2> QED BY <1>3, <1>8, <2>1, Removed
<1>10. Settled' = Settled \ {t}
  <2>1. Settled' = Included(coins) \cup Range(Tail(todo))
    BY DEF Settled, Included, Range
  <2> QED BY <1>1, <2>1
<1>11. Types'
  BY <1>1, <1>9 DEF Types
<1>12. Phases'
  <2>1. /\ Range(readded) \subseteq Range(BlockTxs[tip]) /\ Range(readded) \cap Range(todo) = {}
        /\ pool \cap Range(BlockTxs[tip]) \subseteq Range(readded)
    BY DEF Phases
  <2>2. /\ Range(readded) \cap Range(Tail(todo)) = {}
        /\ pool' \cap Range(BlockTxs[tip]) \subseteq Range(readded)
    BY <1>1, <1>9, <2>1
  <2>3. Suffix(todo', tip')
    BY <1>1 DEF Suffix
  <2>4. Suffix(todo', tip') = Suffix(todo, tip)' /\ \A x : x \in Range(todo)' <=> x \in Range(todo')
    BY DEF Suffix, Range
  <2>5. Range(readded)' = Range(readded) /\ Range(BlockTxs[tip])' = Range(BlockTxs[tip])
    BY DEF Range
  <2> QED BY <1>1, <2>1, <2>2, <2>3, <2>4, <2>5 DEF Phases
<1>13. Unconfirmed'
  BY <1>9, <1>10 DEF Unconfirmed
<1>14. Available'
  <2> SUFFICES ASSUME NEW u \in pool', NEW o \in Ins[u]
               PROVE  o[1] \in pool' \/ (o[1] \in Settled' /\ \A x \in Settled' : o \notin Ins[x])
    BY DEF Available
  <2>1. u \in pool /\ u \notin stage
    BY <1>9
  <2>2. CASE o[1] \in pool
    <3>1. ASSUME o[1] \in stage PROVE FALSE
      <4>1. ~Awaited(o[1], u)
        BY <1>8, <3>1 DEF Awaited
      <4>2. u \in children[o[1]]
        BY <2>1, <2>2, <4>1 DEF Links, Spends
      <4> QED BY <1>8, <2>1, <3>1, <4>2
    <3> QED BY <1>9, <2>2, <3>1
  <2>3. CASE o[1] \notin pool
    <3>1. o[1] \in Settled /\ \A x \in Settled : o \notin Ins[x]
      BY <2>1, <2>3 DEF Available
    <3>2. o[1] # t
      BY <1>4, <1>8, <2>1 DEF Spends
    <3> QED BY <1>10, <3>1, <3>2
  <2> QED BY <2>2, <2>3
<1> QED BY <1>9, <1>11, <1>12, <1>13, <1>14

LEMMA ResurrectStep == ASSUME PoolInv, Resurrect PROVE PoolInv'
<1>1. /\ pc = "resurrect" /\ todo # <<>> /\ todo' = Tail(todo) /\ pc' = pc
      /\ tip' = tip /\ coins' = coins
  BY DEF Resurrect, chainVars
<1> DEFINE t == Head(todo)
<1>2. CASE /\ Acceptable(t) /\ AddUnchecked(t, CalculateLockPoints(t))
           /\ readded' = Append(readded, t)
  <2> DEFINE points == CalculateLockPoints(t)
  <2>1. AddUnchecked(t, points)
    BY <1>2
  <2> HIDE DEF points
  <2> QED BY <1>1, <1>2, <2>1, ComesBack
<1>3. CASE RemoveStaged(RecursiveRemoves(t)) /\ readded' = readded
  BY <1>1, <1>3, StaysAway DEF RemoveStaged
<1> QED BY <1>2, <1>3 DEF Resurrect

\* A sequence and its reverse have the same members.
LEMMA ReverseRange ==
    ASSUME NEW S, NEW s \in Seq(S)
    PROVE  Reverse(s) \in Seq(S) /\ Range(Reverse(s)) = Range(s)
<1> DEFINE r == Reverse(s)
<1>1. Len(s) \in Nat /\ r = [i \in 1 .. Len(s) |-> s[(Len(s) - i) + 1]]
  BY DEF Reverse
<1>2. ASSUME NEW i \in 1 .. Len(s)
      PROVE  /\ (Len(s) - i) + 1 \in 1 .. Len(s)
             /\ (Len(s) - ((Len(s) - i) + 1)) + 1 = i
  BY <1>1
<1> HIDE DEF r
<1>3. r \in Seq(S) /\ DOMAIN r = 1 .. Len(s)
  <2>1. \A i \in 1 .. Len(s) : s[(Len(s) - i) + 1] \in S
    BY <1>2, ElementOfSeq
  <2>2. r \in [1 .. Len(s) -> S]
    BY <1>1, <2>1
  <2> QED BY <1>1, <2>2
<1>4. ASSUME NEW i \in 1 .. Len(s) PROVE r[i] \in Range(s) /\ s[i] \in Range(r)
  <2>1. r[i] = s[(Len(s) - i) + 1] /\ r[(Len(s) - i) + 1] = s[i]
    BY <1>1, <1>2
  <2>2. DOMAIN s = 1 .. Len(s)
    BY LenProperties
  <2> QED BY <1>2, <1>3, <2>1, <2>2 DEF Range
<1>5. Range(s) = {s[i] : i \in 1 .. Len(s)}
  BY RangeFacts
<1>6. Range(r) = {r[i] : i \in 1 .. Len(s)}
  BY <1>3 DEF Range
<1> QED BY <1>3, <1>4, <1>5, <1>6 DEF r

LEMMA ResurrectedStep == ASSUME PoolInv, Resurrected PROVE PoolInv'
<1> USE DEF PoolInv
<1>1. /\ pc = "resurrect" /\ pc' = "update" /\ todo = <<>> /\ todo' = Reverse(readded)
      /\ tip' = tip /\ coins' = coins /\ readded' = readded
      /\ pool' = pool /\ next' = next /\ parents' = parents /\ children' = children
  BY DEF Resurrected, chainVars, entryVars, linkVars
<1>2. Range(todo) = {} /\ todo' \in Seq(Txs) /\ Range(todo') = Range(readded)
  BY <1>1, RangeFacts, ReverseRange DEF Types
<1>3. Range(readded)' = Range(readded) /\ Range(todo)' = Range(todo')
  BY <1>1 DEF Range
<1>4. Settled = Included(coins) /\ Settled' = Included(coins)
  <2>1. Settled' = Included(coins')
    BY <1>1 DEF Settled, Included
  <2>2. Settled = Included(coins)
    BY <1>1, <1>2 DEF Settled
  <2> QED BY ONLY <1>1, <2>1, <2>2
<1>5. \A p, c : Awaited(p, c)' <=> Awaited(p, c)
  BY <1>1, <1>2, <1>3 DEF Awaited
<1>6. Types'
  BY <1>1, <1>2 DEF Types
<1>7. Phases'
  BY <1>1, <1>3 DEF Phases, Range
<1>8. NextExact' /\ Links'
  BY <1>1, <1>5 DEF NextExact, Links, Spends
<1>9. Unconfirmed' /\ Available'
  BY <1>1, <1>4 DEF Unconfirmed, Available
<1> QED BY <1>6, <1>7, <1>8, <1>9

\* The links of a transaction that came back are completed.
LEMMA UpdateStep == ASSUME PoolInv, UpdateTransactionsFromBlock PROVE PoolInv'
<1> USE DEF PoolInv
<1> DEFINE t == Head(todo)
           new == NewChildren(t)
<1>1. /\ pc = "update" /\ pc' = pc /\ todo # <<>> /\ todo' = Tail(todo)
      /\ tip' = tip /\ coins' = coins /\ readded' = readded
      /\ pool' = pool /\ next' = next
  BY DEF UpdateTransactionsFromBlock, chainVars
<1>2. IF t \in pool
      THEN /\ children' = [children EXCEPT ![t] = @ \cup new]
           /\ parents' = [c \in Txs |-> IF c \in new THEN parents[c] \cup {t} ELSE parents[c]]
      ELSE children' = children /\ parents' = parents
  BY DEF UpdateTransactionsFromBlock
<1>3. /\ t \in Txs /\ todo' \in Seq(Txs) /\ Range(todo) = {t} \cup Range(todo')
  BY <1>1, RangeFacts DEF Types
<1>4. Range(readded)' = Range(readded) /\ Range(todo)' = Range(todo')
  BY <1>1 DEF Range
<1> HIDE DEF t
<1>5. ASSUME NEW u PROVE u \in new <=> u \in pool /\ u \notin Range(readded) /\ Spends(u, t)
  <2>1. ASSUME u \in new PROVE u \in pool /\ u \notin Range(readded) /\ Spends(u, t)
    <3>1. PICK o \in {t} \X OutIdx[t] : u = next[o] /\ u # None /\ u \notin Range(readded)
      BY <2>1 DEF NewChildren
    <3>2. o \in Outpoints /\ o[1] = t
      BY <1>3, OutpointFacts
    <3>3. u \in pool /\ u \in Txs
      BY <3>1, <3>2 DEF Types
    <3>4. o \in Ins[u]
      BY <3>1, <3>2, <3>3 DEF NextExact
    <3> QED BY <3>1, <3>2, <3>3, <3>4 DEF Spends
  <2>2. ASSUME u \in pool, u \notin Range(readded), Spends(u, t) PROVE u \in new
    <3>1. PICK o \in Ins[u] : o[1] = t
      BY <2>2 DEF Spends
    <3>2. u \in Txs /\ u # None
      BY <2>2, MempoolAssumption DEF Types
    <3>3. o \in Outpoints /\ o \in {t} \X OutIdx[t]
      BY <3>1, <3>2, OutpointFacts
    <3>4. next[o] = u
      BY <2>2, <3>2, <3>3 DEF NextExact
    <3> QED BY <2>2, <3>2, <3>3, <3>4 DEF NewChildren
  <2> QED BY <2>1, <2>2
<1> HIDE DEF new
<1>6. /\ pool \subseteq Txs
      /\ parents \in [Txs -> SUBSET pool] /\ children \in [Txs -> SUBSET pool]
  BY DEF Types
<1>7. /\ parents' \in [Txs -> SUBSET pool] /\ children' \in [Txs -> SUBSET pool]
      /\ \A p, c \in Txs :
            /\ c \in children'[p] <=> c \in children[p] \/ (p = t /\ t \in pool /\ c \in new)
            /\ p \in parents'[c] <=> p \in parents[c] \/ (p = t /\ t \in pool /\ c \in new)
  <2>1. CASE t \in pool
    BY <1>2, <1>3, <1>5, <1>6, <2>1
  <2>2. CASE t \notin pool
    BY <1>2, <1>6, <2>2
  <2> QED BY <2>1, <2>2
<1>8. Types'
  BY <1>1, <1>3, <1>7 DEF Types
<1>9. Phases'
  BY <1>1, <1>4 DEF Phases, Range
<1>10. NextExact'
  BY <1>1 DEF NextExact
<1>11. Links'
  <2>1. \A u \in Txs \ pool : parents[u] = {} /\ children[u] = {}
    BY DEF Links
  <2>2. ASSUME NEW u \in Txs \ pool PROVE parents'[u] = {} /\ children'[u] = {}
    <3>1. parents'[u] \subseteq Txs /\ children'[u] \subseteq Txs
      BY <1>6, <1>7
    <3> QED BY <1>5, <1>7, <2>1, <3>1
  <2>3. \A p, c \in Txs : c \in children'[p] <=> p \in parents'[c]
    BY <1>7 DEF Links
  <2>4. \A p, c \in pool : c \in children'[p] => Spends(c, p)
    BY <1>5, <1>6, <1>7 DEF Links
  <2>5. ASSUME NEW p \in pool, NEW c \in pool, Spends(c, p), ~Awaited(p, c)'
        PROVE  c \in children'[p]
    <3>1. CASE ~Awaited(p, c)
      BY <1>6, <1>7, <2>5, <3>1 DEF Links
    <3>2. CASE Awaited(p, c)
      <4>1. c \notin Range(readded) /\ p \in Range(todo)
        BY <1>1, <3>2 DEF Awaited
      <4>2. p = t
        BY <1>1, <1>3, <1>4, <2>5, <4>1 DEF Awaited
      <4> QED BY <1>5, <1>6, <1>7, <2>5, <4>1, <4>2
    <3> QED BY <3>1, <3>2
  <2>6. \A p, c : Spends(c, p)' = Spends(c, p)
    BY DEF Spends
  <2> QED BY <1>1, <2>2, <2>3, <2>4, <2>5, <2>6 DEF Links
<1>12. Settled' = Settled
  BY <1>1 DEF Settled, Included
<1>13. Unconfirmed' /\ Available'
  BY <1>1, <1>12 DEF Unconfirmed, Available
<1> QED BY <1>8, <1>9, <1>10, <1>11, <1>13

\* The tip moves down.
LEMMA DisconnectedStep == ASSUME PoolInv, Disconnected PROVE PoolInv'
<1> USE DEF PoolInv
<1>1. /\ pc = "update" /\ pc' = "moved" /\ todo = <<>> /\ todo' = todo
      /\ tip' = coins /\ coins' = coins /\ readded' = <<>>
      /\ pool' = pool /\ next' = next /\ parents' = parents /\ children' = children
  BY DEF Disconnected, entryVars, linkVars
<1>2. Range(todo) = {}
  BY <1>1, RangeFacts DEF Types
<1>3. Settled' = Settled /\ \A p, c : ~Awaited(p, c)
  BY <1>1, <1>2 DEF Settled, Included, Awaited
<1>4. Types'
  BY <1>1 DEF Types
<1>5. Phases'
  BY <1>1 DEF Phases
<1>6. NextExact' /\ Links'
  BY <1>1, <1>3 DEF NextExact, Links, Spends
<1>7. Unconfirmed' /\ Available'
  BY <1>1, <1>3 DEF Unconfirmed, Available
<1> QED BY <1>4, <1>5, <1>6, <1>7

-----------------------------------------------------------------------------
(* The theorems.                                                           *)

LEMMA PoolInit == Init => PoolInv
<1> SUFFICES ASSUME Init PROVE PoolInv
  OBVIOUS
<1> USE DEF Init
<1>1. Base \in Blocks /\ None \notin Txs
  BY MempoolAssumption
<1>2. Types
  BY <1>1 DEF Types
<1>3. Phases
  BY DEF Phases
<1>4. NextExact /\ Links /\ Unconfirmed /\ Available
  BY <1>1 DEF NextExact, Links, Unconfirmed, Available
<1> QED BY <1>2, <1>3, <1>4 DEF PoolInv

LEMMA PoolStep == PoolInv /\ [Next]_vars => PoolInv'
<1> SUFFICES ASSUME PoolInv, [Next]_vars PROVE PoolInv'
  OBVIOUS
<1>1. CASE \E t \in Txs : AcceptToMemoryPool(t)
  BY <1>1, AcceptStep
<1>2. CASE \E t \in Txs : PrioritiseTransaction(t)
  BY <1>2, QuietStep DEF PrioritiseTransaction, callVars
<1>3. CASE GetMinFee
  BY <1>3, QuietStep DEF GetMinFee, entryVars, callVars
<1>4. CASE Expire
  BY <1>4, ExpireStep
<1>5. CASE TrimToSize
  BY <1>5, TrimStep
<1>6. CASE Trimmed
  BY <1>6, QuietStep DEF Trimmed, entryVars
<1>7. CASE \E b \in Blocks : ConnectTip(b)
  BY <1>7, ConnectStep
<1>8. CASE RemoveForBlock
  BY <1>8, BlockStep
<1>9. CASE Connected
  BY <1>9, ConnectedStep
<1>10. CASE \E caller \in {"step", "invalidate"} : DisconnectTip(caller)
  BY <1>10, DisconnectStep
<1>11. CASE Resurrect
  BY <1>11, ResurrectStep
<1>12. CASE Resurrected
  BY <1>12, ResurrectedStep
<1>13. CASE UpdateTransactionsFromBlock
  BY <1>13, UpdateStep
<1>14. CASE Disconnected
  BY <1>14, DisconnectedStep
<1>15. CASE CallEnds
  BY <1>15, QuietStep DEF CallEnds, entryVars
<1>16. CASE RemoveForReorg
  BY <1>16, ReorgStep
<1>17. CASE UNCHANGED vars
  <2> USE DEF PoolInv, vars, chainVars, entryVars, linkVars, callVars
  <2>1. Types' /\ NextExact'
    BY <1>17 DEF Types, NextExact
  <2>2. Phases'
    <3>1. /\ Range(readded)' = Range(readded) /\ Range(todo)' = Range(todo)
          /\ Range(BlockTxs[tip])' = Range(BlockTxs[tip])
      BY <1>17 DEF Range
    <3>2. Suffix(todo, coins)' = Suffix(todo, coins) /\ Suffix(todo, tip)' = Suffix(todo, tip)
      BY <1>17 DEF Suffix
    <3> QED BY <1>17, <3>1, <3>2 DEF Phases
  <2>3. Settled' = Settled
    BY <1>17 DEF Settled, Included, Range
  <2>4. Unconfirmed' /\ Available'
    BY <1>17, <2>3 DEF Unconfirmed, Available
  <2>5. Links'
    BY <1>17 DEF Links, Spends, Awaited, Range
  <2> QED BY <2>1, <2>2, <2>4, <2>5
<1> QED BY <1>1, <1>2, <1>3, <1>4, <1>5, <1>6, <1>7, <1>8, <1>9, <1>10, <1>11, <1>12,
           <1>13, <1>14, <1>15, <1>16, <1>17 DEF Next

\* Outside DisconnectTip nothing is awaited, and the links are exact.
LEMMA LinksHold == ASSUME PoolInv PROVE LinksExact
<1>1. pool \subseteq Txs /\ parents \in [Txs -> SUBSET pool] /\ children \in [Txs -> SUBSET pool]
  BY DEF PoolInv, Types
<1>2. \A t \in pool, o \in Outpoints : o \in Ins[t] <=> next[o] = t
  BY <1>1 DEF PoolInv, NextExact
<1>3. ASSUME Linked, NEW t \in pool
      PROVE  /\ parents[t] = {p \in pool : Spends(t, p)}
             /\ children[t] = {c \in pool : Spends(c, t)}
  <2>1. \A p, c : ~Awaited(p, c)
    BY <1>3 DEF Linked, Awaited
  <2>2. \A p, c \in pool : c \in children[p] <=> Spends(c, p)
    BY <2>1 DEF PoolInv, Links
  <2>3. \A p \in pool : p \in parents[t] <=> Spends(t, p)
    BY <1>1, <2>2 DEF PoolInv, Links
  <2> QED BY <1>1, <2>2, <2>3
<1> QED BY <1>2, <1>3 DEF LinksExact

\* What an entry spends is an output of another entry or unspent in the chain, whenever
\* the pool is not just being adapted to a block (InputsAvailable; txmempool.cpp:633-645).
THEOREM InputsCorrect == Spec => []InputsAvailable
<1>1. PoolInv => InputsAvailable
  <2> SUFFICES ASSUME PoolInv, pc \notin {"connect", "resurrect"}, NEW t \in pool, NEW o \in Ins[t]
               PROVE  o[1] \in pool \/ o \in Unspent[coins]
    BY DEF InputsAvailable
  <2>1. Settled = Included(coins)
    BY DEF Settled
  <2>2. o \in Outpoints /\ coins \in Blocks
    BY OutpointFacts DEF PoolInv, Types
  <2> QED BY <2>1, <2>2, UnspentFacts DEF PoolInv, Available
<1> QED BY <1>1, PoolInit, PoolStep, PTL DEF Spec

-----------------------------------------------------------------------------
(* Entries that can be mined.                                              *)

\* What t spends was created up to height h of the chain of b.
CreatedBy(t, b, h) ==
    \A o \in Ins[t] : \E a \in Anc[b] : o[1] \in Range(BlockTxs[a]) /\ Height[a] <= h

\* The lock points of an entry say the truth about the chain of maxInputBlock, whatever the
\* tip is now.  An entry with a relative lock has only confirmed inputs then.
Cached ==
    /\ pool \cap Coinbases = {} /\ DOMAIN lp = Txs
    /\ \A t \in pool : RelLock[t] > 0 =>
          /\ lp[t].block \in Blocks /\ lp[t].height \in Int
          /\ CreatedBy(t, lp[t].block, lp[t].height - RelLock[t] + 1)

\* t can be in the next block, as far as it depends on heights.
Mature(t) ==
    \A o \in Ins[t] : o[1] \in Coinbases =>
        \E a \in Anc[tip] : /\ o[1] \in Range(BlockTxs[a])
                            /\ Height[tip] + 1 - Height[a] >= Maturity
Ripe(t) ==
    /\ LockTime[t] < Height[tip] + 1
    /\ RelLock[t] > 0 => lp[t].block \in Anc[tip] /\ lp[t].height < Height[tip] + 1
    /\ Mature(t)

\* The calls that disconnect nothing keep all entries ripe, the others make them so again
\* by removeForReorg.
Due == \/ mode \in {"none", "accept", "extend"}
       \/ mode \in {"step", "connect"} /\ pc \in {"expire", "trim"}
Modes ==
    /\ mode \in {"none", "accept", "extend", "step", "connect", "invalidate"}
    /\ pc = "idle" => mode = "none"
    /\ pc \in {"resurrect", "update"} => mode \in {"step", "invalidate"}
RipeWhenDue == Due => \A t \in pool : Ripe(t)

ReadyInv == PoolInv /\ Modes /\ Cached /\ RipeWhenDue

\* Every nonempty set of natural numbers has a least element, and a bounded one has a
\* greatest, which is its Max.
LEMMA LeastNatural ==
    ASSUME NEW S \in SUBSET Nat, S # {}
    PROVE  \E n \in S : \A m \in S : n <= m
<1> DEFINE R == {ss \in Nat \X Nat : ss[1] < ss[2]}
<1>1. IsWellFoundedOn(R, Nat)
  BY NatLessThanWellFounded DEF OpToRel
<1> HIDE DEF R
<1>2. PICK n \in S : \A m \in S : ~(<<m, n>> \in R)
  BY <1>1, WFMin
<1>3. \A m \in S : ~(m < n)
  BY <1>2 DEF R
<1> QED BY <1>3

LEMMA MaxFacts ==
    ASSUME NEW n \in Nat, NEW S \in SUBSET (0 .. n), S # {}
    PROVE  Max(S) \in S /\ \A x \in S : x <= Max(S)
<1> DEFINE D == {n - x : x \in S}
<1>1. D \in SUBSET Nat /\ D # {}
  OBVIOUS
<1> HIDE DEF D
<1>2. PICK d \in D : \A m \in D : d <= m
  BY <1>1, LeastNatural
<1>3. PICK y \in S : d = n - y
  BY DEF D
<1>4. ASSUME NEW x \in S PROVE y >= x
  <2>1. d <= n - x
    BY <1>2 DEF D
  <2> QED BY <1>3, <2>1
<1>5. Max(S) \in S /\ \A x \in S : Max(S) >= x
  BY <1>4 DEF Max
<1> QED BY <1>5

LEMMA MaxIs ==
    ASSUME NEW n \in Nat, NEW S \in SUBSET (0 .. n), NEW m \in S, \A x \in S : x <= m
    PROVE  Max(S) = m
<1>1. Max(S) \in S /\ m <= Max(S) /\ Max(S) <= m
  BY MaxFacts
<1>2. PICK k \in 0 .. n : k = Max(S)
  BY <1>1
<1>3. k = m
  BY <1>1, <1>2
<1> QED BY <1>2, <1>3

\* The tree: what the assumption says of one block, and induction along branches.
LEMMA BlockFacts ==
    ASSUME NEW b \in Blocks
    PROVE  /\ Height[b] \in Nat /\ b \in Anc[b]
           /\ b = Base => Anc[b] = {Base} /\ Height[b] = 0
           /\ b # Base => /\ Parent[b] \in Blocks /\ Anc[b] = {b} \cup Anc[Parent[b]]
                          /\ Height[b] = Height[Parent[b]] + 1 /\ Height[Parent[b]] \in Nat
  BY MempoolAssumption

LEMMA BranchInduction ==
    ASSUME NEW P \in SUBSET Blocks, Base \in P,
           \A b \in Blocks \ {Base} : Parent[b] \in P => b \in P
    PROVE  P = Blocks
<1> SUFFICES ASSUME Blocks \ P # {} PROVE FALSE
  OBVIOUS
<1> DEFINE H == {Height[b] : b \in Blocks \ P}
<1>1. H \in SUBSET Nat /\ H # {}
  BY BlockFacts
<1> HIDE DEF H
<1>2. PICK n \in H : \A m \in H : n <= m
  BY <1>1, LeastNatural
<1>3. PICK c \in Blocks \ P : n = Height[c]
  BY DEF H
<1>4. /\ c # Base /\ Parent[c] \in Blocks \ P /\ Height[c] = Height[Parent[c]] + 1
      /\ Height[Parent[c]] \in Nat
  BY BlockFacts
<1>5. Height[Parent[c]] \in H
  BY <1>4 DEF H
<1> QED BY <1>2, <1>3, <1>4, <1>5

\* The blocks of a branch form a chain: one at every height, the lower ones below it.
LEMMA AncFacts ==
    ASSUME NEW b \in Blocks
    PROVE  /\ Anc[b] \subseteq Blocks
           /\ \A a \in Anc[b] : Anc[a] \subseteq Anc[b] /\ Height[a] <= Height[b]
           /\ \A a \in Anc[b] : a # b => Height[a] < Height[b]
           /\ \A a, c \in Anc[b] : Height[a] <= Height[c] => a \in Anc[c]
           /\ \A h \in 0 .. Height[b] : \E a \in Anc[b] : Height[a] = h
<1> DEFINE Chain(d) ==
              /\ Anc[d] \subseteq Blocks
              /\ \A a \in Anc[d] : Anc[a] \subseteq Anc[d] /\ Height[a] <= Height[d]
              /\ \A a \in Anc[d] : a # d => Height[a] < Height[d]
              /\ \A a, c \in Anc[d] : Height[a] <= Height[c] => a \in Anc[c]
              /\ \A h \in 0 .. Height[d] : \E a \in Anc[d] : Height[a] = h
           P == {d \in Blocks : Chain(d)}
<1>1. Base \in P
  BY MempoolAssumption
<1>2. ASSUME NEW d \in Blocks \ {Base}, Parent[d] \in P PROVE d \in P
  <2> DEFINE q == Parent[d]
  <2>1. /\ q \in Blocks /\ Anc[d] = {d} \cup Anc[q] /\ Height[d] = Height[q] + 1
        /\ Height[q] \in Nat /\ Chain(q) /\ q \in Anc[q]
    BY <1>2, BlockFacts
  <2> HIDE DEF q
  <2>2. \A a \in Anc[d] : a \in Blocks /\ Height[a] \in Nat
    BY <2>1, BlockFacts
  <2>3. \A a \in Anc[d] : Anc[a] \subseteq Anc[d] /\ Height[a] <= Height[d]
    BY <2>1, <2>2
  <2>4. \A a \in Anc[d] : a # d => Height[a] < Height[d]
    BY <2>1, <2>2
  <2>5. \A a, c \in Anc[d] : Height[a] <= Height[c] => a \in Anc[c]
    BY <2>1, <2>2, BlockFacts
  <2>6. ASSUME NEW h \in 0 .. Height[d] PROVE \E a \in Anc[d] : Height[a] = h
    <3>1. CASE h = Height[d]
      BY <2>1, <3>1
    <3>2. CASE h \in 0 .. Height[q]
      BY <2>1, <3>2
    <3> QED BY <2>1, <3>1, <3>2
  <2> QED BY <2>2, <2>3, <2>4, <2>5, <2>6
<1>3. P = Blocks
  <2> HIDE DEF P
  <2>1. P \in SUBSET Blocks
    BY DEF P
  <2> QED BY <1>1, <1>2, <2>1, BranchInduction
<1> QED BY <1>3

\* A transaction is in one block of a chain, and CoinHeight is the height of this block.
LEMMA CoinHeightFacts ==
    ASSUME NEW b \in Blocks, NEW a \in Anc[b], NEW t \in Range(BlockTxs[a])
    PROVE  t \in Included(b) /\ CoinHeight[b][t] = Height[a] /\ Height[a] \in Nat
<1>1. /\ Anc[b] \subseteq Blocks /\ \A c \in Anc[b] : Height[c] \in Nat
  BY AncFacts, BlockFacts
<1>2. ASSUME NEW c \in Anc[b], NEW d \in Anc[b], t \in Range(BlockTxs[c]),
             t \in Range(BlockTxs[d]), Height[c] <= Height[d], c # d
      PROVE  FALSE
  <2>1. c \in Anc[d] /\ d \in Blocks
    BY <1>1, <1>2, AncFacts
  <2>2. d # Base
    BY <1>2, <2>1, BlockFacts
  <2>3. c \in Anc[Parent[d]] /\ Parent[d] \in Blocks
    BY <1>2, <2>1, <2>2, BlockFacts
  <2>4. t \in Included(Parent[d])
    BY <1>2, <2>3 DEF Included
  <2> QED BY <1>2, <2>1, <2>2, <2>4, IncludedStep
<1>3. \A c \in Anc[b] : t \in Range(BlockTxs[c]) => c = a
  BY <1>1, <1>2
<1>4. t \in Included(b)
  BY DEF Included
<1>5. CoinHeight[b][t] = Height[CHOOSE c \in Anc[b] : t \in Range(BlockTxs[c])]
  BY <1>4 DEF CoinHeight
<1>6. (CHOOSE c \in Anc[b] : t \in Range(BlockTxs[c])) = a
  BY <1>3
<1> QED BY <1>1, <1>4, <1>5, <1>6

\* Where a transaction of the chain is.
LEMMA IncludedWhere ==
    ASSUME NEW b \in Blocks, NEW t \in Included(b)
    PROVE  \E a \in Anc[b] : /\ t \in Range(BlockTxs[a]) /\ a \in Blocks
                             /\ CoinHeight[b][t] = Height[a] /\ Height[a] \in 0 .. Height[b]
<1>1. PICK a \in Anc[b] : t \in Range(BlockTxs[a])
  BY DEF Included
<1> QED BY <1>1, CoinHeightFacts, AncFacts, BlockFacts

\* The inputs of a transaction are at some height, the next one if they are entries.
Provided(t) == \A o \in Ins[t] : o[1] \in pool \/ o[1] \in Included(coins)

LEMMA HeightFacts ==
    ASSUME NEW t \in Txs \ Coinbases, tip \in Blocks, coins \in Anc[tip], Provided(t)
    PROVE  /\ InputHeights(t) \in SUBSET (0 .. Height[tip] + 1) /\ InputHeights(t) # {}
           /\ Height[tip] \in Nat
<1>1. Height[tip] \in Nat /\ coins \in Blocks /\ Height[coins] <= Height[tip]
      /\ Height[coins] \in Nat
  BY AncFacts, BlockFacts
<1>2. Ins[t] # {}
  BY ChainAssumption
<1>3. ASSUME NEW o \in Ins[t]
      PROVE  (IF o[1] \in pool THEN Height[tip] + 1 ELSE CoinHeight[coins][o[1]])
                \in 0 .. Height[tip] + 1
  <2>1. CASE o[1] \in pool
    BY <1>1, <2>1
  <2>2. CASE o[1] \notin pool
    <3>1. CoinHeight[coins][o[1]] \in 0 .. Height[coins]
      BY <1>1, <2>2, IncludedWhere DEF Provided
    <3> QED BY <1>1, <2>2, <3>1
  <2> QED BY <2>1, <2>2
<1> QED BY <1>1, <1>2, <1>3 DEF InputHeights

\* Lock points computed now that have passed: with a relative lock nothing the
\* transaction spends is an entry, and all of it was created in the chain of maxInputBlock.
LEMMA FreshPoints ==
    ASSUME NEW t \in Txs \ Coinbases, tip \in Blocks, coins \in Anc[tip], Provided(t),
           RelLock[t] > 0, NEW points, points = CalculateLockPoints(t),
           EvaluateSequenceLocks(points)
    PROVE  /\ points.block \in Anc[tip] /\ points.block \in Blocks /\ points.height \in Int
           /\ CreatedBy(t, points.block, points.height - RelLock[t] + 1)
<1> DEFINE H == InputHeights(t)
           m == Max(H)
           n == Height[tip] + 1
<1>1. H \in SUBSET (0 .. n) /\ H # {} /\ Height[tip] \in Nat /\ n \in Nat
  BY HeightFacts
<1>2. m \in H /\ \A x \in H : x <= m
  <2> HIDE DEF H, n
  <2> QED BY <1>1, MaxFacts
<1>3. RelLock[t] \in Nat /\ RelLock[t] # NoLock
  BY MempoolAssumption DEF NoLock
<1>4. /\ points.height = m + RelLock[t] - 1
      /\ points.block = Ancestor(tip, Max({0} \cup (H \ {n})))
  BY <1>3 DEF CalculateLockPoints
<1>5. m < n /\ m \in Nat
  <2>1. points.height < n
    BY DEF EvaluateSequenceLocks
  <2> HIDE DEF H, m
  <2> QED BY <1>1, <1>2, <1>3, <1>4, <2>1
<1>6. ASSUME NEW o \in Ins[t]
      PROVE  o[1] \notin pool /\ o[1] \in Included(coins) /\ CoinHeight[coins][o[1]] \in H
  <2>1. (IF o[1] \in pool THEN n ELSE CoinHeight[coins][o[1]]) \in H
    BY DEF InputHeights
  <2>2. o[1] \notin pool
    <3> HIDE DEF H, m, n
    <3> QED BY <1>1, <1>2, <1>5, <2>1
  <2> QED BY <2>1, <2>2 DEF Provided
<1>7. Max({0} \cup (H \ {n})) = m
  <2> HIDE DEF H, m, n
  <2> DEFINE G == {0} \cup (H \ {n})
  <2>1. G \in SUBSET (0 .. n) /\ G # {} /\ m \in G /\ \A x \in G : x <= m
    BY <1>1, <1>2, <1>5
  <2> HIDE DEF G
  <2>2. Max(G) = m
    BY <1>1, <2>1, MaxIs
  <2> QED BY <2>2 DEF G
<1>8. points.block \in Anc[tip] /\ Height[points.block] = m /\ points.block \in Blocks
  <2> HIDE DEF H, m, n
  <2>1. m \in 0 .. Height[tip]
    BY <1>1, <1>5 DEF n
  <2>2. \E a \in Anc[tip] : Height[a] = m
    BY <2>1, AncFacts
  <2>3. points.block = CHOOSE a \in Anc[tip] : Height[a] = m
    BY <1>4, <1>7 DEF Ancestor
  <2> QED BY <2>2, <2>3, AncFacts
<1>9. ASSUME NEW o \in Ins[t]
      PROVE  \E a \in Anc[points.block] : o[1] \in Range(BlockTxs[a]) /\ Height[a] <= m
  <2>1. coins \in Blocks /\ o[1] \in Included(coins)
    BY <1>6, AncFacts
  <2>2. PICK a \in Anc[coins] : o[1] \in Range(BlockTxs[a]) /\ CoinHeight[coins][o[1]] = Height[a]
    BY <2>1, IncludedWhere
  <2>3. Height[a] <= m
    <3> HIDE DEF H, m, n
    <3> QED BY <1>2, <1>6, <2>2
  <2>4. a \in Anc[tip]
    BY AncFacts
  <2>5. a \in Anc[points.block]
    <3> HIDE DEF H, m, n
    <3> QED BY <1>8, <2>3, <2>4, AncFacts
  <2> QED BY <2>2, <2>3, <2>5
<1>10. points.height \in Int /\ points.height - RelLock[t] + 1 = m
  <2> HIDE DEF H, m, n
  <2> QED BY <1>3, <1>4, <1>5
<1>11. CreatedBy(t, points.block, points.height - RelLock[t] + 1)
  <2> HIDE DEF H, m, n
  <2> QED BY <1>9, <1>10 DEF CreatedBy
<1> QED BY <1>8, <1>10, <1>11

\* And back: a ripe entry passes removeForReorg's tests, computed afresh.
LEMMA RipePasses ==
    ASSUME PoolInv, Cached, pc = "idle", NEW t \in pool, Ripe(t)
    PROVE  /\ CheckFinalTx(t) /\ EvaluateSequenceLocks(CalculateLockPoints(t))
           /\ Matured(t, Height[tip] + 1)
<1>1. /\ tip = coins /\ tip \in Blocks /\ Settled = Included(coins) /\ coins \in Anc[tip]
      /\ t \in Txs \ Coinbases
  BY Calm, BlockFacts DEF PoolInv, Phases, Types, Cached
<1>2. Provided(t)
  BY <1>1 DEF PoolInv, Available, Provided
<1>3. CheckFinalTx(t)
  BY DEF Ripe, CheckFinalTx, IsFinalTx
<1>4. ASSUME NEW o \in Ins[t], NEW a \in Anc[tip], o[1] \in Range(BlockTxs[a])
      PROVE  o[1] \notin pool /\ CoinHeight[coins][o[1]] = Height[a] /\ Height[a] \in Nat
  <2>1. o[1] \in Included(coins) /\ CoinHeight[coins][o[1]] = Height[a] /\ Height[a] \in Nat
    BY <1>1, <1>4, CoinHeightFacts
  <2> QED BY <1>1, <2>1 DEF PoolInv, Unconfirmed
<1>5. Matured(t, Height[tip] + 1)
  <2>1. PICK h : h = Height[tip] + 1
    OBVIOUS
  <2>2. ASSUME NEW o \in Ins[t], o[1] \in Coinbases
        PROVE  h - CoinHeight[coins][o[1]] >= Maturity
    <3>1. PICK a \in Anc[tip] : /\ o[1] \in Range(BlockTxs[a])
                                /\ Height[tip] + 1 - Height[a] >= Maturity
      BY <2>2 DEF Ripe, Mature
    <3>2. CoinHeight[coins][o[1]] = Height[a] /\ Height[a] \in Nat
      BY <1>4, <3>1
    <3>3. Height[tip] \in Nat
      BY <1>1, BlockFacts
    <3> QED BY ONLY <2>1, <3>1, <3>2, <3>3
  <2>3. Matured(t, h)
    BY <2>2 DEF Matured
  <2> QED BY ONLY <2>1, <2>3
<1>6. EvaluateSequenceLocks(CalculateLockPoints(t))
  <2> DEFINE H == InputHeights(t)
             m == Max(H)
             n == Height[tip] + 1
  <2>1. H \in SUBSET (0 .. n) /\ H # {} /\ Height[tip] \in Nat /\ n \in Nat
    BY <1>1, <1>2, HeightFacts
  <2>2. m \in H /\ m \in 0 .. n
    <3> HIDE DEF H, n
    <3> QED BY <2>1, MaxFacts
  <2>3. CalculateLockPoints(t).height = IF RelLock[t] = NoLock THEN -1 ELSE m + RelLock[t] - 1
    BY DEF CalculateLockPoints
  <2>4. RelLock[t] \in Nat \cup {NoLock} /\ NoLock = -1
    BY <1>1, MempoolAssumption DEF NoLock
  <2>5. CASE RelLock[t] = NoLock \/ RelLock[t] = 0
    <3> HIDE DEF H, m
    <3> QED BY <2>1, <2>2, <2>3, <2>4, <2>5 DEF EvaluateSequenceLocks
  <2>6. CASE RelLock[t] > 0
    <3>1. /\ lp[t].block \in Anc[tip] /\ lp[t].height < n /\ lp[t].height \in Int
          /\ CreatedBy(t, lp[t].block, lp[t].height - RelLock[t] + 1)
      BY <2>6 DEF Ripe, Cached
    <3>2. PICK o \in Ins[t] :
              m = IF o[1] \in pool THEN n ELSE CoinHeight[coins][o[1]]
      BY <2>2 DEF InputHeights
    <3>3. PICK a \in Anc[lp[t].block] :
              o[1] \in Range(BlockTxs[a]) /\ Height[a] <= lp[t].height - RelLock[t] + 1
      BY <3>1 DEF CreatedBy
    <3>4. a \in Anc[tip]
      BY <1>1, <3>1, <3>3, AncFacts
    <3>5. m = Height[a] /\ Height[a] \in Nat
      <4> HIDE DEF m
      <4> QED BY <1>4, <3>2, <3>3, <3>4
    <3> HIDE DEF H, m
    <3>6. CalculateLockPoints(t).height = m + RelLock[t] - 1
      BY <2>3, <2>4, <2>6
    <3>7. m + RelLock[t] - 1 < n
      BY <2>1, <2>4, <2>6, <3>1, <3>3, <3>5
    <3> QED BY <3>6, <3>7 DEF EvaluateSequenceLocks
  <2> QED BY <2>4, <2>5, <2>6
<1> QED BY <1>3, <1>5, <1>6

\* Entries stay ripe when others go and when the chain grows.
LEMMA StayRipe ==
    ASSUME ReadyInv, pool' \subseteq pool, DOMAIN lp' = Txs, \A t \in pool' : lp'[t] = lp[t],
           Due' => Due /\ tip' \in Blocks /\ tip \in Anc[tip']
    PROVE  Cached' /\ RipeWhenDue'
<1>1. Cached'
  BY DEF ReadyInv, Cached, CreatedBy
<1>2. ASSUME Due', NEW t \in pool' PROVE Ripe(t)'
  <2>1. /\ Ripe(t) /\ lp'[t] = lp[t]
        /\ tip \in Blocks /\ Anc[tip] \subseteq Anc[tip'] /\ Height[tip] <= Height[tip']
        /\ Height[tip] \in Nat /\ Height[tip'] \in Nat
    BY <1>2, AncFacts, BlockFacts DEF ReadyInv, RipeWhenDue, PoolInv, Types
  <2>2. t \in Txs /\ LockTime[t] \in Int
    BY <1>2, MempoolAssumption DEF ReadyInv, PoolInv, Types
  <2>3. LockTime[t] < Height[tip'] + 1
    BY <2>1, <2>2 DEF Ripe
  <2>4. RelLock[t] > 0 => lp'[t].block \in Anc[tip'] /\ lp'[t].height < Height[tip'] + 1
    <3>1. RelLock[t] > 0 => lp[t].height \in Int
      BY <1>2 DEF ReadyInv, Cached
    <3> QED BY <2>1, <3>1 DEF Ripe
  <2>5. ASSUME NEW o \in Ins[t], o[1] \in Coinbases
        PROVE  \E a \in Anc[tip'] : /\ o[1] \in Range(BlockTxs[a])
                                    /\ Height[tip'] + 1 - Height[a] >= Maturity
    <3>1. PICK a \in Anc[tip] : /\ o[1] \in Range(BlockTxs[a])
                                /\ Height[tip] + 1 - Height[a] >= Maturity
      BY <2>1, <2>5 DEF Ripe, Mature
    <3>2. a \in Anc[tip'] /\ Height[a] \in Nat /\ Maturity \in Nat
      BY <2>1, AncFacts, BlockFacts, MempoolAssumption
    <3>3. Height[tip'] + 1 - Height[a] >= Maturity
      BY <2>1, <3>1, <3>2
    <3> QED BY <3>1, <3>2, <3>3
  <2>6. Mature(t)'
    BY <2>5 DEF Mature, Range
  <2> QED BY <2>3, <2>4, <2>6 DEF Ripe
<1> QED BY <1>1, <1>2 DEF RipeWhenDue

\* What the test on coinbases says of the chain.
LEMMA MatureFacts ==
    ASSUME NEW t, tip = coins, tip \in Blocks, Provided(t), pool \cap Coinbases = {},
           Matured(t, Height[tip] + 1)
    PROVE  Mature(t)
<1> SUFFICES ASSUME NEW o \in Ins[t], o[1] \in Coinbases
             PROVE  \E a \in Anc[tip] : /\ o[1] \in Range(BlockTxs[a])
                                        /\ Height[tip] + 1 - Height[a] >= Maturity
  BY DEF Mature
<1>1. o[1] \notin pool /\ o[1] \in Included(tip)
  BY DEF Provided
<1>2. PICK a \in Anc[tip] : /\ o[1] \in Range(BlockTxs[a]) /\ CoinHeight[tip][o[1]] = Height[a]
                            /\ Height[a] \in 0 .. Height[tip]
  BY <1>1, IncludedWhere
<1>3. PICK h : h = Height[tip] + 1
  OBVIOUS
<1>4. Matured(t, h)
  BY ONLY <1>3, Matured(t, Height[tip] + 1)
<1>5. h - CoinHeight[tip][o[1]] >= Maturity
  BY <1>1, <1>4 DEF Matured
<1>6. Height[tip] \in Nat
  BY BlockFacts
<1>7. Height[tip] + 1 - Height[a] >= Maturity
  BY ONLY <1>2, <1>3, <1>5, <1>6
<1> QED BY <1>2, <1>7

\* A transaction that is accepted is ripe, if the tip is that of the coins.
LEMMA AddedRipe ==
    ASSUME ReadyInv, NEW t \in Txs, Acceptable(t), AddUnchecked(t, CalculateLockPoints(t)),
           coins \in Anc[tip], tip' = tip, Due' => Due /\ tip = coins
    PROVE  Cached' /\ RipeWhenDue'
<1> DEFINE points == CalculateLockPoints(t)
<1>1. /\ t \notin Coinbases /\ CheckFinalTx(t) /\ EvaluateSequenceLocks(points)
      /\ Matured(t, Height[coins] + 1)
      /\ \A o \in Ins[t] : o[1] \in pool \/ o \in Unspent[coins]
  BY DEF Acceptable
<1>2. pool' = pool \cup {t} /\ lp' = [lp EXCEPT ![t] = points]
  BY DEF AddUnchecked
<1>3. /\ tip \in Blocks /\ pool \subseteq Txs /\ t \notin pool
      /\ Cached /\ RipeWhenDue
  BY DEF ReadyInv, PoolInv, Types, Acceptable
<1> HIDE DEF points
<1>4. DOMAIN lp' = Txs /\ lp'[t] = points /\ \A u \in pool : lp'[u] = lp[u]
  BY <1>2, <1>3 DEF Cached
<1>5. Provided(t)
  <2>1. coins \in Blocks
    BY <1>3, AncFacts
  <2> QED BY <1>1, <2>1, OutpointFacts, UnspentFacts DEF Provided
<1>6. RelLock[t] > 0 =>
          /\ points.block \in Anc[tip] /\ points.block \in Blocks /\ points.height \in Int
          /\ CreatedBy(t, points.block, points.height - RelLock[t] + 1)
  BY <1>1, <1>3, <1>5, FreshPoints DEF points
<1>7. Cached'
  <2>1. pool' \cap Coinbases = {}
    BY <1>1, <1>2, <1>3 DEF Cached
  <2>2. ASSUME NEW u \in pool', RelLock[u] > 0
        PROVE  /\ lp'[u].block \in Blocks /\ lp'[u].height \in Int
               /\ CreatedBy(u, lp'[u].block, lp'[u].height - RelLock[u] + 1)
    <3>1. CASE u = t
      BY <1>4, <1>6, <2>2, <3>1
    <3>2. CASE u \in pool
      BY <1>3, <1>4, <2>2, <3>2 DEF Cached
    <3> QED BY <1>2, <3>1, <3>2
  <2>3. \A u, b, h : CreatedBy(u, b, h)' = CreatedBy(u, b, h)
    BY DEF CreatedBy, Range
  <2> QED BY <1>4, <2>1, <2>2, <2>3 DEF Cached, CreatedBy
<1>8. ASSUME Due', NEW u \in pool' PROVE Ripe(u)'
  <2>1. Mature(u)' = Mature(u)
    BY DEF Mature, Range
  <2>2. CASE u = t
    <3>1. Mature(t)
      BY <1>1, <1>3, <1>5, <1>8, MatureFacts DEF Cached
    <3>2. LockTime[t] < Height[tip] + 1 /\ points.height < Height[tip] + 1
      BY <1>1 DEF CheckFinalTx, IsFinalTx, EvaluateSequenceLocks
    <3> QED BY <1>4, <1>6, <2>1, <2>2, <3>1, <3>2 DEF Ripe
  <2>3. CASE u \in pool
    BY <1>3, <1>4, <1>8, <2>1, <2>3 DEF RipeWhenDue, Ripe
  <2> QED BY <1>2, <2>2, <2>3
<1> QED BY <1>7, <1>8 DEF RipeWhenDue

\* removeForReorg leaves only what is ripe, whatever was disconnected.
LEMMA ReorgRipe == ASSUME ReadyInv, RemoveForReorg PROVE Cached' /\ RipeWhenDue'
<1> DEFINE stage == CalculateDescendants(Unminable)
<1>1. /\ pc = "reorg" /\ pool' = pool \ stage /\ tip' = tip
      /\ lp' = [t \in Txs |-> IF t \in stage THEN NoPoints
                               ELSE IF t \in pool THEN PointsNow(t) ELSE lp[t]]
  BY DEF RemoveForReorg, RemoveEntries, chainVars
<1>2. Unminable \subseteq stage
  <2>1. Unminable \in SUBSET pool /\ \A t \in pool : children[t] \subseteq pool
    BY DEF Unminable, ReadyInv, PoolInv, Types
  <2> QED BY <2>1, ClosureFacts DEF CalculateDescendants
<1> HIDE DEF stage
<1>3. /\ tip = coins /\ tip \in Blocks /\ coins \in Anc[tip] /\ pool \subseteq Txs
      /\ Settled = Included(coins) /\ Cached
  BY <1>1, Calm, BlockFacts DEF ReadyInv, PoolInv, Phases, Types
<1>4. ASSUME NEW t \in pool'
      PROVE  /\ t \in pool /\ t \in Txs \ Coinbases /\ Provided(t) /\ lp'[t] = PointsNow(t)
             /\ CheckFinalTx(t) /\ EvaluateSequenceLocks(PointsNow(t)) /\ Mature(t)
  <2>1. t \in pool /\ t \notin Unminable /\ t \in Txs /\ lp'[t] = PointsNow(t)
    BY <1>1, <1>2, <1>3
  <2>2. t \notin Coinbases /\ Provided(t)
    BY <1>3, <2>1 DEF Cached, Provided, ReadyInv, PoolInv, Available
  <2>3. /\ CheckFinalTx(t) /\ EvaluateSequenceLocks(PointsNow(t))
        /\ SpendsCoinbase(t) => Matured(t, Height[tip] + 1)
    BY <2>1 DEF Unminable
  <2>4. Mature(t)
    <3>1. CASE SpendsCoinbase(t)
      BY <1>3, <2>2, <2>3, <3>1, MatureFacts DEF Cached
    <3>2. CASE ~SpendsCoinbase(t)
      BY <3>2 DEF SpendsCoinbase, Mature
    <3> QED BY <3>1, <3>2
  <2> QED BY <2>1, <2>2, <2>3, <2>4
<1>5. ASSUME NEW t \in pool', RelLock[t] > 0
      PROVE  /\ lp'[t].block \in Anc[tip] /\ lp'[t].block \in Blocks /\ lp'[t].height \in Int
             /\ CreatedBy(t, lp'[t].block, lp'[t].height - RelLock[t] + 1)
  <2>1. CASE TestLockPointValidity(t)
    BY <1>3, <1>4, <1>5, <2>1 DEF PointsNow, TestLockPointValidity, Cached
  <2>2. CASE ~TestLockPointValidity(t)
    <3>1. lp'[t] = CalculateLockPoints(t) /\ EvaluateSequenceLocks(lp'[t])
      BY <1>4, <2>2 DEF PointsNow
    <3> QED BY <1>3, <1>4, <1>5, <3>1, FreshPoints
  <2> QED BY <2>1, <2>2
<1>6. Cached'
  <2>1. \A u, b, h : CreatedBy(u, b, h)' = CreatedBy(u, b, h)
    BY DEF CreatedBy, Range
  <2>2. pool' \cap Coinbases = {} /\ DOMAIN lp' = Txs
    BY <1>1, <1>4
  <2> QED BY <1>5, <2>1, <2>2 DEF Cached, CreatedBy
<1>7. ASSUME NEW t \in pool' PROVE Ripe(t)'
  <2>1. Mature(t)'
    BY <1>1, <1>4 DEF Mature, Range
  <2>2. LockTime[t] < Height[tip] + 1 /\ lp'[t].height < Height[tip] + 1
    BY <1>4 DEF CheckFinalTx, IsFinalTx, EvaluateSequenceLocks
  <2> QED BY <1>1, <1>5, <2>1, <2>2 DEF Ripe
<1> QED BY <1>6, <1>7 DEF RipeWhenDue

LEMMA ModesStep == Modes /\ [Next]_vars => Modes'
<1> SUFFICES ASSUME Modes, [Next]_vars PROVE Modes'
  OBVIOUS
<1> USE DEF Modes
<1>1. CASE \E t \in Txs : AcceptToMemoryPool(t) \/ PrioritiseTransaction(t)
  BY <1>1 DEF AcceptToMemoryPool, PrioritiseTransaction, callVars
<1>2. CASE GetMinFee \/ Expire \/ TrimToSize \/ Trimmed
  BY <1>2 DEF GetMinFee, Expire, TrimToSize, Trimmed, callVars
<1>3. CASE \E b \in Blocks : ConnectTip(b)
  BY <1>3 DEF ConnectTip
<1>4. CASE RemoveForBlock \/ Connected
  BY <1>4 DEF RemoveForBlock, Connected
<1>5. CASE \E caller \in {"step", "invalidate"} : DisconnectTip(caller)
  BY <1>5 DEF DisconnectTip
<1>6. CASE Resurrect \/ Resurrected \/ UpdateTransactionsFromBlock \/ Disconnected
  BY <1>6 DEF Resurrect, Resurrected, UpdateTransactionsFromBlock, Disconnected
<1>7. CASE CallEnds \/ RemoveForReorg
  BY <1>7 DEF CallEnds, RemoveForReorg, AfterReorg
<1>8. CASE UNCHANGED vars
  BY <1>8 DEF vars, callVars
<1> QED BY <1>1, <1>2, <1>3, <1>4, <1>5, <1>6, <1>7, <1>8 DEF Next

\* RemoveStaged does not touch the lock points of the others.
LEMMA StagedPoints ==
    ASSUME NEW stage, RemoveStaged(stage), pool \subseteq Txs
    PROVE  pool' \subseteq pool /\ DOMAIN lp' = Txs /\ \A t \in pool' : lp'[t] = lp[t]
<1>1. /\ pool' = pool \ stage
      /\ lp' = [t \in Txs |-> IF t \in stage THEN NoPoints ELSE lp[t]]
  BY DEF RemoveStaged, RemoveEntries
<1> QED BY <1>1

LEMMA RipeStep == ReadyInv /\ [Next]_vars => Cached' /\ RipeWhenDue'
<1> SUFFICES ASSUME ReadyInv, [Next]_vars PROVE Cached' /\ RipeWhenDue'
  OBVIOUS
<1>1. /\ tip \in Blocks /\ tip \in Anc[tip] /\ coins \in Blocks /\ pool \subseteq Txs
      /\ DOMAIN lp = Txs
      /\ pc \notin {"connect", "resurrect", "update"} => tip = coins
      /\ mode \in {"none", "accept", "extend", "step", "connect", "invalidate"}
      /\ pc = "idle" => mode = "none"
      /\ pc \in {"resurrect", "update"} => mode \in {"step", "invalidate"}
  BY BlockFacts DEF ReadyInv, PoolInv, Types, Phases, Modes, Cached
<1>2. ASSUME pool' = pool, lp' = lp, Due' => Due /\ tip' \in Blocks /\ tip \in Anc[tip']
      PROVE  Cached' /\ RipeWhenDue'
  BY <1>1, <1>2, StayRipe
<1>3. ASSUME NEW t \in Txs, AcceptToMemoryPool(t) PROVE Cached' /\ RipeWhenDue'
  <2>1. /\ Acceptable(t) /\ AddUnchecked(t, CalculateLockPoints(t)) /\ tip' = tip
        /\ pc = "idle"
    BY <1>3 DEF AcceptToMemoryPool, chainVars
  <2>2. Due /\ tip = coins
    BY <1>1, <2>1 DEF Due
  <2> QED BY <1>1, <2>1, <2>2, AddedRipe
<1>4. ASSUME NEW t \in Txs, PrioritiseTransaction(t) PROVE Cached' /\ RipeWhenDue'
  BY <1>1, <1>2, <1>4 DEF PrioritiseTransaction, Due, chainVars, callVars
<1>5. CASE GetMinFee
  BY <1>1, <1>2, <1>5 DEF GetMinFee, Due, chainVars, entryVars, callVars
<1>6. CASE Expire
  <2>1. PICK old \in SUBSET (pool \ Range(todo)) : RemoveStaged(CalculateDescendants(old))
    BY <1>6 DEF Expire
  <2>2. tip' = tip /\ (Due' => Due)
    BY <1>6 DEF Expire, chainVars, Due
  <2> QED BY <1>1, <2>1, <2>2, StagedPoints, StayRipe
<1>7. CASE TrimToSize
  <2>1. PICK t \in LowestScore : RemoveStaged(CalculateDescendants({t}))
    BY <1>7 DEF TrimToSize
  <2>2. tip' = tip /\ (Due' => Due)
    BY <1>7 DEF TrimToSize, chainVars, callVars, Due
  <2> QED BY <1>1, <2>1, <2>2, StagedPoints, StayRipe
<1>8. CASE Trimmed
  <2>1. pool' = pool /\ lp' = lp /\ tip' = tip
    BY <1>8 DEF Trimmed, chainVars, entryVars
  <2>2. Due' => Due
    BY <1>1, <1>8 DEF Trimmed, Due
  <2> QED BY <1>1, <1>2, <2>1, <2>2
<1>9. ASSUME NEW b \in Blocks, ConnectTip(b) PROVE Cached' /\ RipeWhenDue'
  <2>1. pool' = pool /\ lp' = lp /\ tip' = tip
    BY <1>9 DEF ConnectTip, entryVars
  <2>2. Due' => Due
    BY <1>1, <1>9 DEF ConnectTip, Due
  <2> QED BY <1>1, <1>2, <2>1, <2>2
<1>10. CASE RemoveForBlock
  <2>1. RemoveStaged(RemovedForBlock(Head(todo))) /\ tip' = tip /\ (Due' => Due)
    BY <1>10 DEF RemoveForBlock, chainVars, Due
  <2> QED BY <1>1, <2>1, StagedPoints, StayRipe
<1>11. CASE Connected
  <2>1. /\ pool' = pool /\ lp' = lp /\ tip' = coins /\ pc = "connect"
        /\ Due' => Due
    BY <1>11 DEF Connected, entryVars, Due
  <2>2. coins # Base /\ Parent[coins] = tip
    BY <2>1 DEF ReadyInv, PoolInv, Phases
  <2>3. tip \in Anc[coins]
    BY <1>1, <2>2, BlockFacts
  <2> QED BY <1>1, <1>2, <2>1, <2>3
<1>12. ASSUME NEW caller \in {"step", "invalidate"}, DisconnectTip(caller)
       PROVE  Cached' /\ RipeWhenDue'
  <2>1. pool' = pool /\ lp' = lp /\ ~Due'
    BY <1>12 DEF DisconnectTip, entryVars, Due
  <2> QED BY <1>2, <2>1
<1>13. CASE Resurrect
  <2> DEFINE t == Head(todo)
  <2>1. pc = "resurrect" /\ todo # <<>> /\ tip' = tip /\ ~Due'
    BY <1>1, <1>13 DEF Resurrect, chainVars, Due
  <2>2. CASE Acceptable(t) /\ AddUnchecked(t, CalculateLockPoints(t))
    <3>1. t \in Txs /\ coins = Parent[tip] /\ tip # Base
      BY <2>1, Returning DEF ReadyInv
    <3>2. coins \in Anc[tip]
      BY <1>1, <3>1, BlockFacts
    <3> HIDE DEF t
    <3> QED BY <2>1, <2>2, <3>1, <3>2, AddedRipe
  <2>3. CASE RemoveStaged(RecursiveRemoves(t))
    BY <1>1, <2>1, <2>3, StagedPoints, StayRipe
  <2> QED BY <1>13, <2>2, <2>3 DEF Resurrect
<1>14. CASE Resurrected
  <2>1. pool' = pool /\ lp' = lp /\ ~Due'
    BY <1>1, <1>14 DEF Resurrected, entryVars, Due
  <2> QED BY <1>2, <2>1
<1>15. CASE UpdateTransactionsFromBlock
  <2>1. pool' = pool /\ lp' = lp /\ ~Due'
    BY <1>1, <1>15 DEF UpdateTransactionsFromBlock, Due
  <2> QED BY <1>2, <2>1
<1>16. CASE Disconnected
  <2>1. pool' = pool /\ lp' = lp /\ ~Due'
    BY <1>1, <1>16 DEF Disconnected, entryVars, Due
  <2> QED BY <1>2, <2>1
<1>17. CASE CallEnds
  <2>1. pool' = pool /\ lp' = lp /\ tip' = tip /\ (Due' => Due)
    BY <1>17 DEF CallEnds, chainVars, entryVars, Due
  <2> QED BY <1>1, <1>2, <2>1
<1>18. CASE RemoveForReorg
  BY <1>18, ReorgRipe
<1>19. CASE UNCHANGED vars
  BY <1>1, <1>2, <1>19 DEF vars, chainVars, entryVars, callVars, Due
<1> QED BY <1>3, <1>4, <1>5, <1>6, <1>7, <1>8, <1>9, <1>10, <1>11, <1>12, <1>13, <1>14,
           <1>15, <1>16, <1>17, <1>18, <1>19 DEF Next

-----------------------------------------------------------------------------
(* The size of the pool.                                                   *)

\* The iteration that MapThenSumSet chooses: f[s] is the sum of w over the subset s of S.
Chosen(s) == CHOOSE x \in s : TRUE
Adds(f, w, S) ==
    f = [s \in SUBSET S |-> IF s = {} THEN 0 ELSE w[Chosen(s)] + f[s \ {Chosen(s)}]]
Total(w, S) == (CHOOSE f : Adds(f, w, S))[S]

\* Among finite sets one has the fewest elements.
LEMMA SmallestSet ==
    ASSUME NEW X, X # {}, \A S \in X : IsFiniteSet(S)
    PROVE  \E S \in X : \A T \in X : ~(T \subseteq S /\ T # S)
<1> DEFINE N == {Cardinality(S) : S \in X}
<1>1. N \in SUBSET Nat /\ N # {}
  BY FS_CardinalityType
<1> HIDE DEF N
<1>2. PICK n \in N : \A m \in N : n <= m
  BY <1>1, LeastNatural
<1>3. PICK S \in X : n = Cardinality(S)
  BY DEF N
<1>4. ASSUME NEW T \in X, T \subseteq S, T # S PROVE FALSE
  <2>1. Cardinality(T) \in N /\ Cardinality(T) \in Nat /\ Cardinality(S) \in Nat
    BY FS_CardinalityType DEF N
  <2>2. Cardinality(T) < Cardinality(S)
    <3>1. IsFiniteSet(S) /\ T \in SUBSET S
      BY <1>4
    <3>2. Cardinality(T) <= Cardinality(S) /\ (Cardinality(S) = Cardinality(T) => S = T)
      BY <3>1, FS_Subset
    <3> QED BY <1>4, <2>1, <3>2
  <2> QED BY <1>2, <1>3, <2>1, <2>2
<1> QED BY <1>4

\* Two iterations agree where both are defined.
LEMMA AddsAgree ==
    ASSUME NEW w, NEW S, NEW T, NEW f, NEW g, Adds(f, w, S), Adds(g, w, T),
           NEW s, s \subseteq S, s \subseteq T, IsFiniteSet(s)
    PROVE  f[s] = g[s]
<1> DEFINE X == {u \in SUBSET s : f[u] # g[u]}
<1> SUFFICES ASSUME X # {} PROVE FALSE
  OBVIOUS
<1>1. \A u \in X : IsFiniteSet(u)
  BY FS_Subset
<1>2. PICK u \in X : \A v \in X : ~(v \subseteq u /\ v # u)
  <2> HIDE DEF X
  <2> QED BY <1>1, SmallestSet
<1>3. u \in SUBSET S /\ u \in SUBSET T
  OBVIOUS
<1>4. u # {} /\ Chosen(u) \in u
  <2>1. f[{}] = 0 /\ g[{}] = 0
    BY DEF Adds
  <2>2. u # {}
    BY <2>1
  <2> QED BY <2>2 DEF Chosen
<1>5. f[u] = w[Chosen(u)] + f[u \ {Chosen(u)}] /\ g[u] = w[Chosen(u)] + g[u \ {Chosen(u)}]
  BY <1>3, <1>4 DEF Adds
<1>6. f[u \ {Chosen(u)}] = g[u \ {Chosen(u)}]
  BY <1>2, <1>4
<1> QED BY <1>5, <1>6

\* Over a finite set the iteration exists.
LEMMA AddsExists ==
    ASSUME NEW w, NEW S, IsFiniteSet(S)
    PROVE  \E f : Adds(f, w, S)
<1> DEFINE X == {T \in SUBSET S : ~ \E f : Adds(f, w, T)}
<1> SUFFICES ASSUME X # {} PROVE FALSE
  OBVIOUS
<1>1. \A T \in X : IsFiniteSet(T)
  BY FS_Subset
<1>2. PICK T \in X : \A U \in X : ~(U \subseteq T /\ U # T)
  <2> HIDE DEF X
  <2> QED BY <1>1, SmallestSet
<1>3. T \subseteq S /\ IsFiniteSet(T) /\ \A f : ~Adds(f, w, T)
  BY <1>1
<1>4. ASSUME NEW U, U \subseteq T, U # T PROVE IsFiniteSet(U) /\ \E f : Adds(f, w, U)
  BY <1>2, <1>3, <1>4, FS_Subset
<1> HIDE DEF X
<1> DEFINE G(U) == CHOOSE f : Adds(f, w, U)
           h == [s \in SUBSET T |-> IF s = {} THEN 0
                                    ELSE w[Chosen(s)] + G(s \ {Chosen(s)})[s \ {Chosen(s)}]]
<1>5. ASSUME NEW U, U \subseteq T, U # T PROVE Adds(G(U), w, U)
  BY <1>4, <1>5
<1>6. ASSUME NEW s \in SUBSET T, s # {}
      PROVE  h[s \ {Chosen(s)}] = G(s \ {Chosen(s)})[s \ {Chosen(s)}]
  <2> DEFINE v == s \ {Chosen(s)}
             x == Chosen(v)
  <2>1. v \subseteq T /\ v # T /\ v \in SUBSET T /\ v \in SUBSET v
    BY <1>6 DEF Chosen
  <2>2. Adds(G(v), w, v) /\ IsFiniteSet(v)
    BY <1>4, <1>5, <2>1
  <2>3. G(v)[v] = IF v = {} THEN 0 ELSE w[x] + G(v)[v \ {x}]
    <3> HIDE DEF G, v, x
    <3> QED BY <2>1, <2>2 DEF Adds, x
  <2>4. v # {} => G(v)[v \ {x}] = G(v \ {x})[v \ {x}]
    <3>1. SUFFICES ASSUME v # {} PROVE G(v)[v \ {x}] = G(v \ {x})[v \ {x}]
      OBVIOUS
    <3>2. v \ {x} \subseteq v /\ v \ {x} \subseteq T /\ v \ {x} # T
      BY <2>1
    <3>3. Adds(G(v \ {x}), w, v \ {x}) /\ IsFiniteSet(v \ {x})
      BY <1>4, <1>5, <3>2
    <3> HIDE DEF G, v, x
    <3> QED BY <2>2, <3>2, <3>3, AddsAgree
  <2>5. h[v] = IF v = {} THEN 0 ELSE w[x] + G(v \ {x})[v \ {x}]
    BY <2>1
  <2> HIDE DEF G, v, x, h
  <2>6. h[v] = G(v)[v]
    BY <2>3, <2>4, <2>5
  <2> QED BY <2>6 DEF v
<1>7. h = [s \in SUBSET T |-> IF s = {} THEN 0 ELSE w[Chosen(s)] + h[s \ {Chosen(s)}]]
  <2> DEFINE k == [s \in SUBSET T |-> IF s = {} THEN 0 ELSE w[Chosen(s)] + h[s \ {Chosen(s)}]]
  <2>1. ASSUME NEW s \in SUBSET T PROVE h[s] = k[s]
    <3>1. /\ h[s] = IF s = {} THEN 0 ELSE w[Chosen(s)] + G(s \ {Chosen(s)})[s \ {Chosen(s)}]
          /\ k[s] = IF s = {} THEN 0 ELSE w[Chosen(s)] + h[s \ {Chosen(s)}]
      OBVIOUS
    <3>2. s # {} => h[s \ {Chosen(s)}] = G(s \ {Chosen(s)})[s \ {Chosen(s)}]
      BY <1>6
    <3> HIDE DEF h, k, G
    <3> QED BY <3>1, <3>2
  <2> QED BY <2>1
<1> HIDE DEF h
<1>8. Adds(h, w, T)
  BY <1>7 DEF Adds
<1> QED BY <1>3, <1>8

\* The total of a finite set is that of the element taken first and of the others.
LEMMA TotalChosen ==
    ASSUME NEW w, NEW S, IsFiniteSet(S)
    PROVE  /\ Total(w, {}) = 0
           /\ S # {} => Chosen(S) \in S /\ Total(w, S) = w[Chosen(S)] + Total(w, S \ {Chosen(S)})
<1> DEFINE G(U) == CHOOSE f : Adds(f, w, U)
<1>1. ASSUME NEW U, IsFiniteSet(U) PROVE Adds(G(U), w, U) /\ Total(w, U) = G(U)[U]
  BY <1>1, AddsExists DEF Total
<1> HIDE DEF G
<1>2. Total(w, {}) = 0
  <2>1. IsFiniteSet({})
    BY FS_EmptySet
  <2> QED BY <1>1, <2>1 DEF Adds
<1>3. ASSUME S # {} PROVE Chosen(S) \in S /\ Total(w, S) = w[Chosen(S)] + Total(w, S \ {Chosen(S)})
  <2> DEFINE v == S \ {Chosen(S)}
  <2>1. Chosen(S) \in S /\ v \subseteq S /\ IsFiniteSet(v)
    BY <1>3, FS_Subset DEF Chosen
  <2>2. G(S)[S] = w[Chosen(S)] + G(S)[v]
    BY <1>1, <1>3 DEF Adds
  <2>3. G(S)[v] = G(v)[v]
    <3> HIDE DEF v
    <3> QED BY <1>1, <2>1, AddsAgree
  <2> QED BY <1>1, <2>1, <2>2, <2>3
<1> QED BY <1>2, <1>3

\* It does not matter which element is taken first.
LEMMA TotalFacts ==
    ASSUME NEW w, NEW S, IsFiniteSet(S), \A x \in S : w[x] \in Int
    PROVE  Total(w, S) \in Int /\ \A x \in S : Total(w, S) = w[x] + Total(w, S \ {x})
<1> DEFINE Good(T) == /\ Total(w, T) \in Int
                      /\ \A x \in T : Total(w, T) = w[x] + Total(w, T \ {x})
           X == {T \in SUBSET S : ~Good(T)}
<1> SUFFICES ASSUME X # {} PROVE FALSE
  OBVIOUS
<1>1. \A T \in X : IsFiniteSet(T)
  BY FS_Subset
<1>2. PICK T \in X : \A U \in X : ~(U \subseteq T /\ U # T)
  <2> HIDE DEF X
  <2> QED BY <1>1, SmallestSet
<1>3. T \subseteq S /\ IsFiniteSet(T) /\ ~Good(T)
  BY <1>1
<1>4. ASSUME NEW x \in T PROVE Good(T \ {x})
  BY <1>2
<1> HIDE DEF X
<1>5. T # {}
  <2>1. Total(w, {}) = 0
    BY <1>3, TotalChosen
  <2> QED BY <1>3, <2>1
<1> DEFINE c == Chosen(T)
<1>6. c \in T /\ Total(w, T) = w[c] + Total(w, T \ {c}) /\ w[c] \in Int
  BY <1>3, <1>5, TotalChosen
<1> HIDE DEF c
<1>7. Total(w, T) \in Int
  BY <1>4, <1>6
<1>8. ASSUME NEW x \in T PROVE Total(w, T) = w[x] + Total(w, T \ {x})
  <2>1. CASE x = c
    BY <1>6, <2>1
  <2>2. CASE x # c
    <3>1. (T \ {c}) \ {x} = (T \ {x}) \ {c} /\ x \in T \ {c} /\ c \in T \ {x}
      BY <1>6, <2>2
    <3>2. PICK r : r = Total(w, (T \ {c}) \ {x})
      OBVIOUS
    <3>3. Total(w, T \ {c}) = w[x] + r /\ Total(w, T \ {x}) = w[c] + r
      BY <1>4, <1>6, <3>1, <3>2
    <3>4. r \in Int /\ w[x] \in Int
      <4>1. IsFiniteSet(T \ {c}) /\ (T \ {c}) \ {x} \subseteq S
        BY <1>3, FS_Subset
      <4>2. (T \ {c}) \ {x} \subseteq T /\ (T \ {c}) \ {x} # T
        BY <1>6
      <4>3. Good((T \ {c}) \ {x})
        BY <1>2, <4>1, <4>2 DEF X
      <4> QED BY <1>3, <3>2, <4>3
    <3> QED BY ONLY <1>6, <3>3, <3>4
  <2> QED BY <2>1, <2>2
<1> QED BY <1>3, <1>7, <1>8

\* SizeOf is such a total: fewer transactions are not larger.
LEMMA SizeOfTotal == \A S : SizeOf(S) = Total(Size, S)
  BY DEF SizeOf, MapThenSumSet, MapThenFoldSet, Total, Adds, Chosen

LEMMA SizeOfNone == SizeOf({}) = 0
  BY SizeOfTotal, TotalChosen, FS_EmptySet

LEMMA SizeShrinks ==
    ASSUME NEW S \in SUBSET Txs, IsFiniteSet(S), NEW T \in SUBSET S
    PROVE  SizeOf(T) \in Int /\ SizeOf(S) \in Int /\ SizeOf(T) <= SizeOf(S)
<1>1. \A U : SizeOf(U) = Total(Size, U)
  BY SizeOfTotal
<1>2. ASSUME NEW U \in SUBSET S
      PROVE  Total(Size, U) \in Int /\ \A x \in U : Total(Size, U) = Size[x] + Total(Size, U \ {x})
  <2>1. IsFiniteSet(U) /\ \A t \in U : Size[t] \in Int
    BY FS_Subset, MempoolAssumption
  <2> QED BY <2>1, TotalFacts
<1> DEFINE X == {U \in SUBSET S : T \subseteq U /\ ~(Total(Size, T) <= Total(Size, U))}
<1>3. X = {}
  <2> SUFFICES ASSUME X # {} PROVE FALSE
    OBVIOUS
  <2>1. \A U \in X : IsFiniteSet(U)
    BY FS_Subset
  <2>2. PICK U \in X : \A V \in X : ~(V \subseteq U /\ V # U)
    <3> HIDE DEF X
    <3> QED BY <2>1, SmallestSet
  <2>3. U # T /\ U \in SUBSET S
    BY <1>2
  <2>4. PICK x \in U : x \notin T
    BY <2>3
  <2>5. Total(Size, T) <= Total(Size, U \ {x})
    BY <2>2, <2>4
  <2>6. Total(Size, U) = Size[x] + Total(Size, U \ {x})
    BY <1>2, <2>3, <2>4
  <2>7. Total(Size, T) \in Int /\ Total(Size, U \ {x}) \in Int /\ Size[x] \in Nat
    BY <1>2, <2>3, <2>4, MempoolAssumption
  <2>8. Total(Size, T) <= Total(Size, U)
    BY ONLY <2>5, <2>6, <2>7
  <2> QED BY <2>8
<1> QED BY <1>1, <1>2, <1>3

\* After LimitMempoolSize, and while a call only takes entries away, the pool fits.
Tight == pc = "idle" \/ mode = "extend" \/ (pc = "reorg" /\ mode = "invalidate")
\* As many transactions have a delta as were prioritised, which is finitely many.
Few == DOMAIN deltas = Txs /\ IsFiniteSet(Prioritised)
Bounded ==
    /\ IsFiniteSet(pool) /\ Few
    /\ Tight => SizeOf(pool) <= MaxUsage

\* mapDeltas grows by one element at a time, and only by prioritisetransaction.
LEMMA FewPrioritised == ReadyInv /\ Bounded /\ [Next]_vars => Few'
<1> SUFFICES ASSUME ReadyInv, Bounded, [Next]_vars PROVE Few'
  OBVIOUS
<1>1. IsFiniteSet(Prioritised) /\ DOMAIN deltas = Txs
  BY DEF Bounded, Few
<1>2. ASSUME deltas' = deltas PROVE Few'
  BY <1>1, <1>2 DEF Prioritised, Few
<1>3. ASSUME NEW t \in Txs, PrioritiseTransaction(t) PROVE Few'
  <2>1. DOMAIN deltas' = Txs /\ \A u \in Txs : u # t => deltas'[u] = deltas[u]
    BY <1>1, <1>3 DEF PrioritiseTransaction, PrioritiseBy
  <2>2. Prioritised' \subseteq Prioritised \cup {t}
    BY <2>1 DEF Prioritised
  <2>3. IsFiniteSet(Prioritised \cup {t})
    BY <1>1, FS_AddElement
  <2> QED BY <2>1, <2>2, <2>3, FS_Subset DEF Few
<1>4. CASE RemoveForBlock
  <2>1. DOMAIN deltas' = Txs /\ \A u \in Txs : deltas'[u] \in {0, deltas[u]}
    BY <1>4 DEF RemoveForBlock
  <2>2. Prioritised' \subseteq Prioritised
    BY <2>1 DEF Prioritised
  <2> QED BY <1>1, <2>1, <2>2, FS_Subset DEF Few
<1>5. CASE \/ \E t \in Txs : AcceptToMemoryPool(t)
           \/ \E b \in Blocks : ConnectTip(b)
           \/ \E caller \in {"step", "invalidate"} : DisconnectTip(caller)
           \/ GetMinFee \/ Expire \/ TrimToSize \/ Trimmed \/ Connected \/ Resurrect
           \/ Resurrected \/ UpdateTransactionsFromBlock \/ Disconnected \/ RemoveForReorg
           \/ CallEnds \/ UNCHANGED vars
  <2>1. deltas' = deltas
    BY <1>5 DEF AcceptToMemoryPool, ConnectTip, DisconnectTip, GetMinFee, Expire, TrimToSize,
       Trimmed, Connected, Resurrect, Resurrected, UpdateTransactionsFromBlock, Disconnected,
       RemoveForReorg, CallEnds, vars
  <2> QED BY <1>2, <2>1
<1> QED BY <1>3, <1>4, <1>5 DEF Next

LEMMA BoundedStep == ReadyInv /\ Bounded /\ [Next]_vars => Bounded'
<1> SUFFICES ASSUME ReadyInv, Bounded, [Next]_vars PROVE Bounded'
  OBVIOUS
<1>1. IsFiniteSet(pool) /\ pool \subseteq Txs
  BY DEF Bounded, ReadyInv, PoolInv, Types
<1>0. Few'
  BY FewPrioritised
<1>2. ASSUME pool' \subseteq pool, Tight' => SizeOf(pool) <= MaxUsage PROVE Bounded'
  <2>1. IsFiniteSet(pool')
    BY <1>1, <1>2, FS_Subset
  <2>2. SizeOf(pool') \in Int /\ SizeOf(pool) \in Int /\ SizeOf(pool') <= SizeOf(pool)
    BY <1>1, <1>2, SizeShrinks
  <2>3. SizeOf(pool)' = SizeOf(pool') /\ MaxUsage \in Nat
    BY MempoolAssumption
  <2>4. Tight' => SizeOf(pool)' <= MaxUsage
    BY <1>2, <2>2, <2>3
  <2> QED BY <1>0, <2>1, <2>4 DEF Bounded
<1>3. ASSUME pool' \subseteq pool, Tight' => Tight PROVE Bounded'
  BY <1>2, <1>3 DEF Bounded
<1>4. ASSUME NEW t, pool' = pool \cup {t}, ~Tight' PROVE Bounded'
  <2>1. IsFiniteSet(pool')
    BY <1>1, <1>4, FS_AddElement
  <2> QED BY <1>0, <1>4, <2>1 DEF Bounded
<1>5. ASSUME NEW t \in Txs, AcceptToMemoryPool(t) PROVE Bounded'
  <2>1. pool' = pool \cup {t} /\ pc' = "expire" /\ mode' = "accept"
    BY <1>5 DEF AcceptToMemoryPool, AddUnchecked
  <2> QED BY <1>4, <2>1 DEF Tight
<1>6. ASSUME NEW t \in Txs, PrioritiseTransaction(t) PROVE Bounded'
  BY <1>3, <1>6 DEF PrioritiseTransaction, callVars, Tight
<1>7. CASE GetMinFee
  BY <1>3, <1>7 DEF GetMinFee, entryVars, callVars, Tight
<1>8. CASE Expire
  <2>1. pool' \subseteq pool
    BY <1>1, <1>8, StagedPoints DEF Expire
  <2> QED BY <1>3, <1>8, <2>1 DEF Expire, Tight
<1>9. CASE TrimToSize
  <2>1. pool' \subseteq pool
    BY <1>1, <1>9, StagedPoints DEF TrimToSize
  <2>2. UNCHANGED callVars
    BY <1>9 DEF TrimToSize
  <2> QED BY <1>3, <2>1, <2>2 DEF callVars, Tight
<1>10. CASE Trimmed
  <2>1. SizeOf(pool) \in Int /\ MaxUsage \in Nat /\ DeltaSize \in Nat
    BY <1>1, SizeShrinks, MempoolAssumption
  <2>2. Cardinality(Prioritised) \in Nat
    BY FS_CardinalityType DEF Bounded, Few
  <2>3. DeltaSize * Cardinality(Prioritised) \in Nat
    BY <2>1, <2>2
  <2>4. SizeOf(pool) <= MaxUsage
    BY <1>10, <2>1, <2>3 DEF Trimmed, Usage
  <2> QED BY <1>2, <1>10, <2>4 DEF Trimmed, entryVars
<1>11. ASSUME NEW b \in Blocks, ConnectTip(b) PROVE Bounded'
  BY <1>3, <1>11 DEF ConnectTip, entryVars, Tight
<1>12. CASE RemoveForBlock
  <2>1. pool' \subseteq pool
    BY <1>1, <1>12, StagedPoints DEF RemoveForBlock
  <2> QED BY <1>3, <1>12, <2>1 DEF RemoveForBlock, Tight
<1>13. CASE Connected
  BY <1>3, <1>13 DEF Connected, entryVars, Tight
<1>14. ASSUME NEW caller \in {"step", "invalidate"}, DisconnectTip(caller) PROVE Bounded'
  BY <1>3, <1>14 DEF DisconnectTip, entryVars, Tight
<1>15. CASE Resurrect
  <2>1. pc' = "resurrect" /\ mode' = mode /\ mode # "extend"
    BY <1>15 DEF Resurrect, ReadyInv, Modes
  <2>2. pool' = pool \cup {Head(todo)} \/ pool' \subseteq pool
    BY <1>1, <1>15, StagedPoints DEF Resurrect, AddUnchecked
  <2> QED BY <1>3, <1>4, <2>1, <2>2 DEF Tight
<1>16. CASE Resurrected \/ UpdateTransactionsFromBlock \/ Disconnected \/ CallEnds
  <2>1. pool' = pool /\ (Tight' => Tight)
    BY <1>16 DEF Resurrected, UpdateTransactionsFromBlock, Disconnected, CallEnds, entryVars, Tight
  <2> QED BY <1>3, <2>1
<1>17. CASE RemoveForReorg
  <2>1. pool' \subseteq pool
    BY <1>17 DEF RemoveForReorg, RemoveEntries
  <2>2. Tight' => Tight
    BY <1>17 DEF RemoveForReorg, AfterReorg, Tight
  <2> QED BY <1>3, <2>1, <2>2
<1>18. CASE UNCHANGED vars
  BY <1>3, <1>18 DEF vars, entryVars, callVars, Tight
<1> QED BY <1>5, <1>6, <1>7, <1>8, <1>9, <1>10, <1>11, <1>12, <1>13, <1>14, <1>15, <1>16,
           <1>17, <1>18 DEF Next

\* Between calls every entry can be in the next block: it is final, its relative locks,
\* computed afresh and not from the cached lock points, have passed, and the coinbases it
\* spends are mature, whatever was connected and disconnected (removeForReorg); and the
\* entries fit into -maxmempool (LimitMempoolSize).
THEOREM ReadyCorrect == Spec => []ReadyWhenIdle
<1> DEFINE IInv == ReadyInv /\ Bounded
<1>1. Init => IInv
  <2> SUFFICES ASSUME Init PROVE ReadyInv /\ Bounded
    OBVIOUS
  <2>1. Modes /\ Cached /\ RipeWhenDue
    BY DEF Init, Modes, Cached, RipeWhenDue
  <2>2. SizeOf(pool) = 0 /\ IsFiniteSet(pool) /\ Few
    <3>1. pool = {} /\ Prioritised = {} /\ DOMAIN deltas = Txs
      BY DEF Init, Prioritised
    <3>2. SizeOf({}) = 0
      BY SizeOfNone
    <3> QED BY <3>1, <3>2, FS_EmptySet DEF Few
  <2> QED BY <2>1, <2>2, PoolInit, MempoolAssumption DEF ReadyInv, Bounded
<1>2. IInv /\ [Next]_vars => IInv'
  BY PoolStep, ModesStep, RipeStep, BoundedStep DEF ReadyInv
<1>3. IInv => ReadyWhenIdle
  <2> SUFFICES ASSUME ReadyInv, Bounded PROVE MinableWhenIdle /\ PoolBounded
    BY DEF ReadyWhenIdle
  <2>1. ASSUME pc = "idle", NEW t \in pool
        PROVE  /\ CheckFinalTx(t) /\ EvaluateSequenceLocks(CalculateLockPoints(t))
               /\ Matured(t, Height[tip] + 1)
    <3>1. Ripe(t)
      BY <2>1 DEF ReadyInv, Modes, RipeWhenDue, Due
    <3> QED BY <2>1, <3>1, RipePasses DEF ReadyInv
  <2> QED BY <2>1 DEF MinableWhenIdle, PoolBounded, Bounded, Tight
<1> QED BY <1>1, <1>2, <1>3, PTL DEF Spec

-----------------------------------------------------------------------------
(* Totals over what is reached by links.                                   *)

\* The total of a set is that of its parts.
LEMMA TotalSplit ==
    ASSUME NEW w, NEW S, IsFiniteSet(S), \A x \in S : w[x] \in Int, NEW R
    PROVE  /\ Total(w, S) = Total(w, S \cap R) + Total(w, S \ R)
           /\ Total(w, S \cap R) \in Int /\ Total(w, S \ R) \in Int
<1> DEFINE Good(T) == Total(w, T) = Total(w, T \cap R) + Total(w, T \ R)
           X == {T \in SUBSET S : ~Good(T)}
<1>1. ASSUME NEW T \in SUBSET S
      PROVE  /\ IsFiniteSet(T) /\ Total(w, T) \in Int
             /\ \A x \in T : Total(w, T) = w[x] + Total(w, T \ {x})
  <2>1. IsFiniteSet(T) /\ \A x \in T : w[x] \in Int
    BY FS_Subset
  <2> QED BY <2>1, TotalFacts
<1>2. X = {}
  <2> SUFFICES ASSUME X # {} PROVE FALSE
    OBVIOUS
  <2>1. \A T \in X : IsFiniteSet(T)
    BY FS_Subset
  <2>2. PICK T \in X : \A U \in X : ~(U \subseteq T /\ U # T)
    <3> HIDE DEF X
    <3> QED BY <2>1, SmallestSet
  <2>3. T \in SUBSET S /\ ~Good(T)
    OBVIOUS
  <2>4. ASSUME NEW x \in T PROVE Good(T \ {x})
    BY <2>2
  <2> HIDE DEF X
  <2>5. T # {}
    <3>1. Total(w, {}) = 0
      BY TotalChosen
    <3>2. {} \cap R = {} /\ {} \ R = {}
      OBVIOUS
    <3>3. Good({})
      BY <3>1, <3>2
    <3> HIDE DEF Good
    <3> QED BY <2>3, <3>3
  <2>6. PICK x : x \in T
    BY <2>5
  <2> DEFINE all == Total(w, T \ {x})
             inner == Total(w, (T \ {x}) \cap R)
             outer == Total(w, (T \ {x}) \ R)
  <2>7. /\ all \in Int /\ inner \in Int /\ outer \in Int /\ w[x] \in Int
        /\ Total(w, T) = w[x] + all
    <3>1. T \ {x} \in SUBSET S /\ (T \ {x}) \cap R \in SUBSET S /\ (T \ {x}) \ R \in SUBSET S
      BY <2>3
    <3> QED BY <1>1, <2>3, <2>6, <3>1
  <2>8. all = inner + outer
    BY <2>4, <2>6
  <2>9. CASE x \in R
    <3>1. T \cap R \in SUBSET S /\ x \in T \cap R /\ (T \cap R) \ {x} = (T \ {x}) \cap R
          /\ T \ R = (T \ {x}) \ R
      BY <2>3, <2>6, <2>9
    <3>2. Total(w, T \cap R) = w[x] + inner /\ Total(w, T \ R) = outer
      BY <1>1, <3>1
    <3> HIDE DEF all, inner, outer
    <3> QED BY <2>3, <2>7, <2>8, <3>2
  <2>10. CASE x \notin R
    <3>1. T \ R \in SUBSET S /\ x \in T \ R /\ (T \ R) \ {x} = (T \ {x}) \ R
          /\ T \cap R = (T \ {x}) \cap R
      BY <2>3, <2>6, <2>10
    <3>2. Total(w, T \ R) = w[x] + outer /\ Total(w, T \cap R) = inner
      BY <1>1, <3>1
    <3> HIDE DEF all, inner, outer
    <3> QED BY <2>3, <2>7, <2>8, <3>2
  <2> QED BY <2>9, <2>10
<1>3. Good(S)
  BY <1>2
<1>4. S \cap R \in SUBSET S /\ S \ R \in SUBSET S
  OBVIOUS
<1> QED BY <1>1, <1>3, <1>4

\* The total depends on the elements only.
LEMMA TotalSame ==
    ASSUME NEW w, NEW v, NEW S, IsFiniteSet(S), \A x \in S : w[x] \in Int /\ v[x] = w[x]
    PROVE  Total(v, S) = Total(w, S)
<1> DEFINE X == {T \in SUBSET S : Total(v, T) # Total(w, T)}
<1> SUFFICES ASSUME X # {} PROVE FALSE
  OBVIOUS
<1>1. \A T \in X : IsFiniteSet(T)
  BY FS_Subset
<1>2. PICK T \in X : \A U \in X : ~(U \subseteq T /\ U # T)
  <2> HIDE DEF X
  <2> QED BY <1>1, SmallestSet
<1>3. T \subseteq S /\ IsFiniteSet(T) /\ Total(v, T) # Total(w, T)
  BY <1>1
<1>4. T # {}
  BY <1>3, TotalChosen
<1>5. PICK x : x \in T
  BY <1>4
<1>6. Total(v, T \ {x}) = Total(w, T \ {x})
  BY <1>2, <1>5
<1>7. /\ Total(w, T) = w[x] + Total(w, T \ {x}) /\ v[x] = w[x]
      /\ Total(v, T) = v[x] + Total(v, T \ {x})
  <2>1. (\A y \in T : w[y] \in Int) /\ (\A y \in T : v[y] \in Int)
    BY <1>3
  <2> QED BY <1>3, <1>5, <2>1, TotalFacts
<1> QED BY <1>3, <1>6, <1>7

\* The fees with the deltas d.
Fees(d) == [t \in Txs |-> Fee[t] + d[t]]

LEMMA FeesTotal ==
    ASSUME NEW S \in SUBSET Txs, IsFiniteSet(S)
    PROVE  MapThenSumSet(ModifiedFee, S) = Total(Fees(delta), S)
<1> DEFINE w == Fees(delta)
           It(f) == f = [s \in SUBSET S |-> IF s = {} THEN 0
                               ELSE (Fee[Chosen(s)] + delta[Chosen(s)]) + f[s \ {Chosen(s)}]]
<1>1. MapThenSumSet(ModifiedFee, S) = (CHOOSE f : It(f))[S]
  BY DEF MapThenSumSet, MapThenFoldSet, ModifiedFee, Chosen
<1>2. ASSUME NEW f PROVE It(f) <=> Adds(f, w, S)
  <2>1. ASSUME NEW s \in SUBSET S, s # {} PROVE w[Chosen(s)] = Fee[Chosen(s)] + delta[Chosen(s)]
    <3>1. Chosen(s) \in Txs
      BY <2>1 DEF Chosen
    <3> QED BY <3>1 DEF Fees
  <2> HIDE DEF w
  <2>2. [s \in SUBSET S |-> IF s = {} THEN 0
             ELSE (Fee[Chosen(s)] + delta[Chosen(s)]) + f[s \ {Chosen(s)}]]
        = [s \in SUBSET S |-> IF s = {} THEN 0 ELSE w[Chosen(s)] + f[s \ {Chosen(s)}]]
    BY <2>1
  <2> QED BY <2>2 DEF Adds
<1>3. \E f : It(f)
  <2>1. \E f : Adds(f, w, S)
    BY AddsExists
  <2> HIDE DEF It, w
  <2> QED BY <1>2, <2>1
<1>4. It(CHOOSE f : It(f))
  <2> HIDE DEF It
  <2> QED BY <1>3
<1>5. Adds(CHOOSE f : It(f), w, S) /\ Adds(CHOOSE f : Adds(f, w, S), w, S)
  <2>1. \E f : Adds(f, w, S)
    BY AddsExists
  <2> HIDE DEF It, w
  <2> QED BY <1>2, <1>4, <2>1
<1>6. (CHOOSE f : It(f))[S] = (CHOOSE f : Adds(f, w, S))[S]
  <2> HIDE DEF It, w
  <2> QED BY <1>5, AddsAgree
<1> QED BY <1>1, <1>6 DEF Total

\* The least set of elements of P that holds S and with an element its links.
Reach(P, S, L) ==
    {t \in P : \A T \in SUBSET P : S \subseteq T /\ (\A u \in T : L[u] \subseteq T) => t \in T}

LEMMA ClosureIsReach ==
    ASSUME NEW S, NEW L PROVE Closure(S, L) = Reach(pool, S, L)
  BY DEF Closure, Reach

\* Links that stay in P.
Inside(P, L) == \A t \in P : L[t] \subseteq P

LEMMA ReachFacts ==
    ASSUME NEW P, NEW L, Inside(P, L), NEW S \in SUBSET P
    PROVE  LET D == Reach(P, S, L)
           IN  /\ S \subseteq D /\ D \subseteq P /\ \A t \in D : L[t] \subseteq D
               /\ \A T \in SUBSET P :
                     S \subseteq T /\ (\A t \in T : L[t] \subseteq T) => D \subseteq T
  BY DEF Reach, Inside

LEMMA ReachFrom ==
    ASSUME NEW P, NEW L, Inside(P, L), NEW x \in P
    PROVE  LET D == Reach(P, {x}, L)
           IN  /\ x \in D /\ D \subseteq P /\ \A t \in D : L[t] \subseteq D
               /\ \A T \in SUBSET P :
                     x \in T /\ (\A t \in T : L[t] \subseteq T) => D \subseteq T
  BY DEF Reach, Inside

\* Only the links of what is reached matter.
LEMMA ReachSame ==
    ASSUME NEW P, NEW L, NEW M, Inside(P, L), Inside(P, M),
           NEW S \in SUBSET P, \A t \in Reach(P, S, L) : M[t] = L[t]
    PROVE  Reach(P, S, M) = Reach(P, S, L)
<1> DEFINE D == Reach(P, S, L)
           E == Reach(P, S, M)
<1>1. /\ S \subseteq D /\ D \subseteq P /\ \A t \in D : L[t] \subseteq D
      /\ \A T \in SUBSET P : S \subseteq T /\ (\A t \in T : L[t] \subseteq T) => D \subseteq T
  BY ReachFacts
<1>2. /\ S \subseteq E /\ E \subseteq P /\ \A t \in E : M[t] \subseteq E
      /\ \A T \in SUBSET P : S \subseteq T /\ (\A t \in T : M[t] \subseteq T) => E \subseteq T
  BY ReachFacts
<1>3. \A t \in D : M[t] = L[t]
  OBVIOUS
<1> HIDE DEF D, E
<1>4. E \subseteq D
  BY <1>1, <1>2, <1>3
<1>5. D \subseteq E
  BY <1>1, <1>2, <1>3, <1>4
<1>6. E = D
  BY <1>4, <1>5
<1> QED BY <1>6 DEF D, E

\* One element and what its links reach.
LEMMA ReachOne ==
    ASSUME NEW P, NEW L, Inside(P, L), NEW t \in P
    PROVE  Reach(P, {t}, L) = {t} \cup Reach(P, L[t], L)
<1> DEFINE D == Reach(P, {t}, L)
           E == Reach(P, L[t], L)
<1>1. /\ t \in D /\ D \subseteq P /\ \A u \in D : L[u] \subseteq D
      /\ \A T \in SUBSET P : t \in T /\ (\A u \in T : L[u] \subseteq T) => D \subseteq T
  BY ReachFrom
<1>2. /\ L[t] \subseteq E /\ E \subseteq P /\ \A u \in E : L[u] \subseteq E
      /\ \A T \in SUBSET P : L[t] \subseteq T /\ (\A u \in T : L[u] \subseteq T) => E \subseteq T
  BY ReachFacts
<1> HIDE DEF D, E
<1>3. E \subseteq D
  BY <1>1, <1>2
<1>4. D \subseteq {t} \cup E
  <2>1. {t} \cup E \in SUBSET P /\ \A u \in {t} \cup E : L[u] \subseteq {t} \cup E
    BY <1>2
  <2> QED BY <1>1, <2>1
<1>5. D = {t} \cup E
  BY <1>1, <1>3, <1>4
<1> QED BY <1>5 DEF D, E

\* What one side of the links reaches from S are those from which the other side reaches S.
LEMMA ReachBack ==
    ASSUME NEW P, NEW C, NEW A, Inside(P, C), Inside(P, A),
           \A p, c \in P : c \in C[p] <=> p \in A[c], NEW S \in SUBSET P, NEW a \in P
    PROVE  a \in Reach(P, S, A) <=> Reach(P, {a}, C) \cap S # {}
<1> DEFINE D == Reach(P, S, A)
           B(x) == Reach(P, {x}, C)
<1>1. /\ S \subseteq D /\ D \subseteq P /\ \A t \in D : A[t] \subseteq D
      /\ \A T \in SUBSET P : S \subseteq T /\ (\A t \in T : A[t] \subseteq T) => D \subseteq T
  BY ReachFacts
<1>2. ASSUME NEW x \in P
      PROVE  /\ x \in B(x) /\ B(x) \subseteq P /\ \A t \in B(x) : C[t] \subseteq B(x)
             /\ \A T \in SUBSET P : x \in T /\ (\A t \in T : C[t] \subseteq T) => B(x) \subseteq T
  BY ReachFrom
<1> HIDE DEF D, B
<1>3. ASSUME a \in D PROVE B(a) \cap S # {}
  <2> DEFINE T == {x \in P : B(x) \cap S # {}}
  <2>1. S \subseteq T
    BY <1>2
  <2>2. ASSUME NEW t \in T, NEW p \in A[t] PROVE p \in T
    <3>1. p \in P /\ t \in P /\ t \in C[p]
      BY DEF Inside
    <3>2. t \in B(p)
      BY <1>2, <3>1
    <3>3. B(t) \subseteq B(p)
      BY <1>2, <3>1, <3>2
    <3> QED BY <3>1, <3>3
  <2>3. D \subseteq T
    BY <1>1, <2>1, <2>2
  <2> QED BY <1>3, <2>3
<1>4. ASSUME a \notin D PROVE B(a) \cap S = {}
  <2>1. P \ D \in SUBSET P /\ a \in P \ D
    BY <1>4
  <2>2. ASSUME NEW t \in P \ D PROVE C[t] \subseteq P \ D
    BY <1>1 DEF Inside
  <2>3. B(a) \subseteq P \ D
    BY <1>2, <2>1, <2>2
  <2> QED BY <1>1, <2>3
<1> QED BY <1>3, <1>4 DEF D, B

\* An entry is an ancestor of another one when it reaches it.
LEMMA ReachUp ==
    ASSUME NEW P, NEW C, NEW A, Inside(P, C), Inside(P, A),
           \A p, c \in P : c \in C[p] <=> p \in A[c], NEW r \in P, NEW x \in P, x # r
    PROVE  x \in Reach(P, A[r], A) <=> r \in Reach(P, {x}, C)
<1> DEFINE B == Reach(P, {x}, C)
<1>1. /\ x \in B /\ B \subseteq P /\ \A t \in B : C[t] \subseteq B
      /\ \A T \in SUBSET P : x \in T /\ (\A t \in T : C[t] \subseteq T) => B \subseteq T
  BY ReachFrom
<1>2. x \in Reach(P, A[r], A) <=> B \cap A[r] # {}
  <2>1. A[r] \in SUBSET P
    BY DEF Inside
  <2> QED BY <2>1, ReachBack
<1> HIDE DEF B
<1>3. ASSUME B \cap A[r] # {} PROVE r \in B
  BY <1>1, <1>3
<1>4. ASSUME B \cap A[r] = {} PROVE r \notin B
  <2>1. B \ {r} \in SUBSET P /\ x \in B \ {r}
    BY <1>1
  <2>2. \A t \in B \ {r} : C[t] \subseteq B \ {r}
    BY <1>1, <1>4
  <2> QED BY <1>1, <2>1, <2>2
<1> QED BY <1>2, <1>3, <1>4 DEF B

\* What is reached without R, which has all its children in itself or no parent outside.
LEMMA ReachRemoved ==
    ASSUME NEW P, NEW C, Inside(P, C), NEW R \in SUBSET P,
           (\A r \in R : C[r] \subseteq R) \/ (\A t \in P \ R : C[t] \cap R = {}),
           NEW M, \A t \in P \ R : M[t] = C[t] \ R, NEW x \in P \ R
    PROVE  Reach(P \ R, {x}, M) = Reach(P, {x}, C) \ R
<1> DEFINE B == Reach(P, {x}, C)
           E == Reach(P \ R, {x}, M)
<1>1. /\ x \in B /\ B \subseteq P /\ \A t \in B : C[t] \subseteq B
      /\ \A T \in SUBSET P : x \in T /\ (\A t \in T : C[t] \subseteq T) => B \subseteq T
  BY ReachFrom
<1>2. /\ x \in E /\ E \subseteq P \ R /\ \A t \in E : M[t] \subseteq E
      /\ \A T \in SUBSET (P \ R) : x \in T /\ (\A t \in T : M[t] \subseteq T) => E \subseteq T
  <2>1. Inside(P \ R, M)
    BY DEF Inside
  <2> QED BY <2>1, ReachFrom
<1> HIDE DEF B, E
<1>3. E \subseteq B \ R
  <2>1. B \ R \in SUBSET (P \ R) /\ x \in B \ R /\ \A t \in B \ R : M[t] \subseteq B \ R
    BY <1>1
  <2> QED BY <1>2, <2>1
<1>4. B \ R \subseteq E
  <2>1. CASE \A r \in R : C[r] \subseteq R
    <3>1. E \cup R \in SUBSET P /\ x \in E \cup R
      BY <1>2
    <3>2. ASSUME NEW t \in E \cup R PROVE C[t] \subseteq E \cup R
      BY <1>2, <2>1
    <3> QED BY <1>1, <3>1, <3>2
  <2>2. CASE \A t \in P \ R : C[t] \cap R = {}
    <3>1. E \in SUBSET P /\ \A t \in E : C[t] \subseteq E
      BY <1>2, <2>2
    <3> QED BY <1>1, <1>2, <3>1
  <2> QED BY <2>1, <2>2
<1>5. E = B \ R
  BY <1>2, <1>3, <1>4
<1> QED BY <1>5 DEF B, E

\* Q is P with t, a new child of the elements of N, and M are the links with it.
Grown(P, C, t, N, Q, M) ==
    /\ Inside(P, C) /\ t \notin P /\ N \subseteq P
    /\ t \in Q /\ P \subseteq Q /\ Q \subseteq P \cup {t}
    /\ M[t] = {} /\ \A u \in P : M[u] = IF u \in N THEN C[u] \cup {t} ELSE C[u]

\* What is reached with t, too.
LEMMA ReachAdded ==
    ASSUME NEW P, NEW C, NEW t, NEW N, NEW Q, NEW M, Grown(P, C, t, N, Q, M), NEW a \in P
    PROVE  /\ Reach(P, {a}, C) \cap N # {} => Reach(Q, {a}, M) = Reach(P, {a}, C) \cup {t}
           /\ Reach(P, {a}, C) \cap N = {} => Reach(Q, {a}, M) = Reach(P, {a}, C)
<1> DEFINE B == Reach(P, {a}, C)
           E(x) == Reach(Q, {x}, M)
<1>1. /\ a \in B /\ B \subseteq P /\ \A u \in B : C[u] \subseteq B
      /\ \A T \in SUBSET P : a \in T /\ (\A u \in T : C[u] \subseteq T) => B \subseteq T
  <2>1. Inside(P, C)
    BY DEF Grown
  <2> QED BY <2>1, ReachFrom
<1>2. /\ M[t] = {} /\ t \in Q /\ Q \subseteq P \cup {t} /\ a \in Q /\ P \subseteq Q /\ N \subseteq P
      /\ \A u \in P : C[u] \subseteq P /\ (u \notin N => M[u] = C[u])
      /\ \A u \in N : M[u] = C[u] \cup {t}
  BY DEF Grown, Inside
<1>3. ASSUME NEW x \in Q
      PROVE  /\ x \in E(x) /\ E(x) \subseteq Q /\ \A u \in E(x) : M[u] \subseteq E(x)
             /\ \A T \in SUBSET Q : x \in T /\ (\A u \in T : M[u] \subseteq T) => E(x) \subseteq T
  <2>1. ASSUME NEW u \in Q PROVE M[u] \subseteq Q
    <3>1. CASE u = t
      BY <1>2, <3>1
    <3>2. CASE u \in P
      BY <1>2, <3>2
    <3> QED BY <1>2, <3>1, <3>2
  <2>2. Inside(Q, M)
    BY <2>1 DEF Inside
  <2> QED BY ONLY <1>3, <2>2, ReachFrom
<1> HIDE DEF B, E
<1>5. B \subseteq E(a)
  <2>1. E(a) \cap P \in SUBSET P /\ a \in E(a) \cap P
    BY <1>2, <1>3
  <2>2. ASSUME NEW u \in E(a) \cap P PROVE C[u] \subseteq E(a) \cap P
    <3>1. C[u] \subseteq M[u] /\ M[u] \subseteq E(a) /\ C[u] \subseteq P
      BY <1>2, <1>3
    <3> QED BY <3>1
  <2> QED BY <1>1, <2>1, <2>2
<1>6. ASSUME B \cap N # {} PROVE E(a) = B \cup {t}
  <2>1. t \in E(a)
    <3>1. PICK u \in B : u \in N
      BY <1>6
    <3>2. u \in E(a) /\ t \in M[u]
      BY <1>2, <1>5, <3>1
    <3> QED BY <1>2, <1>3, <3>2
  <2>2. B \cup {t} \in SUBSET Q /\ a \in B \cup {t}
    BY <1>1, <1>2
  <2>3. ASSUME NEW u \in B \cup {t} PROVE M[u] \subseteq B \cup {t}
    <3>1. CASE u = t
      BY <1>2, <3>1
    <3>2. CASE u \in B
      <4>1. M[u] \subseteq C[u] \cup {t}
        BY <1>1, <1>2, <3>2
      <4> QED BY <1>1, <3>2, <4>1
    <3> QED BY <3>1, <3>2
  <2>4. E(a) \subseteq B \cup {t}
    <3> DEFINE T == B \cup {t}
    <3>1. T \in SUBSET Q /\ a \in T /\ \A u \in T : M[u] \subseteq T
      BY <2>2, <2>3
    <3> HIDE DEF T
    <3>2. E(a) \subseteq T
      BY <1>2, <1>3, <3>1
    <3> QED BY <3>2 DEF T
  <2> QED BY <1>5, <2>1, <2>4
<1>7. ASSUME B \cap N = {} PROVE E(a) = B
  <2>1. B \in SUBSET Q /\ a \in B
    BY <1>1, <1>2
  <2>2. ASSUME NEW u \in B PROVE M[u] \subseteq B
    BY <1>1, <1>2, <1>7
  <2>3. E(a) \subseteq B
    BY <1>2, <1>3, <2>1, <2>2
  <2> QED BY <1>5, <2>3
<1> QED BY <1>6, <1>7 DEF B, E

-----------------------------------------------------------------------------
(* The cached totals.                                                      *)

\* A dirty entry has its own size and fees, another one the totals of a set of entries.
States == [count : Nat, size : Nat, fees : Int]
Own(d, t) == [count |-> 0, size |-> Size[t], fees |-> Fee[t] + d[t]]
Summed(d, S) == [count |-> Cardinality(S), size |-> Total(Size, S), fees |-> Total(Fees(d), S)]

\* The set is what the links reach at any moment.  Only for a transaction that came back
\* from a block and has not had its turn in UpdateTransactionsFromBlock it is what came
\* back with it.
Below(t) == Reach(pool, {t}, children)
Reckoned(t) ==
    IF pc = "update" /\ t \in Range(todo) THEN Below(t) \cap Range(readded) ELSE Below(t)

Totals ==
    /\ \A t \in Txs \ pool : state[t] = NoState
    /\ \A t \in pool : /\ delta[t] = deltas[t]
                       /\ state[t] \in {Own(delta, t), Summed(delta, Reckoned(t))}

TotalTypes ==
    /\ IsFiniteSet(pool) /\ state \in [Txs -> States]
    /\ delta \in [Txs -> Int] /\ deltas \in [Txs -> Int]

\* The totals of a set are those of its parts.
LEMMA Parts ==
    ASSUME NEW d \in [Txs -> Int], NEW S \in SUBSET Txs, IsFiniteSet(S), NEW R
    PROVE  /\ Cardinality(S) = Cardinality(S \cap R) + Cardinality(S \ R)
           /\ Cardinality(S \cap R) \in Nat /\ Cardinality(S \ R) \in Nat
           /\ Total(Size, S) = Total(Size, S \cap R) + Total(Size, S \ R)
           /\ Total(Size, S \cap R) \in Int /\ Total(Size, S \ R) \in Int
           /\ Total(Fees(d), S) = Total(Fees(d), S \cap R) + Total(Fees(d), S \ R)
           /\ Total(Fees(d), S \cap R) \in Int /\ Total(Fees(d), S \ R) \in Int
<1>1. \A x \in S : Size[x] \in Int /\ Fees(d)[x] \in Int
  BY MempoolAssumption DEF Fees
<1>2. IsFiniteSet(S \cap R) /\ IsFiniteSet(S \ R)
  BY FS_Subset
<1>3. /\ Cardinality(S) = Cardinality(S \cap R) + Cardinality(S \ R)
      /\ Cardinality(S \cap R) \in Nat /\ Cardinality(S \ R) \in Nat
  <2> DEFINE U == S \cap R
             V == S \ R
  <2>1. U \cup V = S /\ U \cap V = {}
    OBVIOUS
  <2>2. IsFiniteSet(U) /\ IsFiniteSet(V)
    BY <1>2
  <2> HIDE DEF U, V
  <2>3. Cardinality(U \cup V) = Cardinality(U) + Cardinality(V) - Cardinality(U \cap V)
    BY <2>2, FS_Union
  <2>4. Cardinality({}) = 0 /\ Cardinality(U) \in Nat /\ Cardinality(V) \in Nat
    BY <2>2, FS_EmptySet, FS_CardinalityType
  <2>5. Cardinality(S) = Cardinality(U) + Cardinality(V) - Cardinality({})
    BY <2>1, <2>3, Zenon
  <2>6. Cardinality(S) = Cardinality(U) + Cardinality(V)
    BY <2>4, <2>5
  <2> QED BY <2>4, <2>6 DEF U, V
<1>4. /\ Total(Size, S) = Total(Size, S \cap R) + Total(Size, S \ R)
      /\ Total(Size, S \cap R) \in Int /\ Total(Size, S \ R) \in Int
  BY <1>1, TotalSplit
<1>5. /\ Total(Fees(d), S) = Total(Fees(d), S \cap R) + Total(Fees(d), S \ R)
      /\ Total(Fees(d), S \cap R) \in Int /\ Total(Fees(d), S \ R) \in Int
  BY <1>1, TotalSplit
<1> QED BY <1>3, <1>4, <1>5

LEMMA Single ==
    ASSUME NEW d \in [Txs -> Int], NEW x \in Txs
    PROVE  /\ Cardinality({x}) = 1 /\ IsFiniteSet({x})
           /\ Total(Size, {x}) = Size[x] /\ Total(Fees(d), {x}) = Fee[x] + d[x]
           /\ Size[x] \in Nat \ {0} /\ Fee[x] \in Nat /\ Fee[x] + d[x] \in Int
<1>1. Cardinality({x}) = 1 /\ IsFiniteSet({x})
  BY FS_Singleton
<1>2. Size[x] \in Nat \ {0} /\ Fee[x] \in Nat /\ Fee[x] + d[x] \in Int
      /\ Fees(d)[x] = Fee[x] + d[x]
  BY MempoolAssumption DEF Fees
<1>3. Total(Size, {}) = 0 /\ Total(Fees(d), {}) = 0 /\ {x} \ {x} = {}
  BY FS_EmptySet, TotalChosen
<1>4. Total(Size, {x}) = Size[x] + Total(Size, {})
  <2>1. \A y \in {x} : Size[y] \in Int
    BY <1>2
  <2>2. Total(Size, {x}) = Size[x] + Total(Size, {x} \ {x})
    BY <1>1, <2>1, TotalFacts
  <2> QED BY <1>3, <2>2, Zenon
<1>5. Total(Fees(d), {x}) = Fees(d)[x] + Total(Fees(d), {})
  <2>1. \A y \in {x} : Fees(d)[y] \in Int
    BY <1>2
  <2>2. Total(Fees(d), {x}) = Fees(d)[x] + Total(Fees(d), {x} \ {x})
    BY <1>1, <2>1, TotalFacts
  <2> QED BY <1>3, <2>2, Zenon
<1>6. Total(Size, {x}) = Size[x] /\ Total(Fees(d), {x}) = Fee[x] + d[x]
  BY <1>2, <1>3, <1>4, <1>5
<1> QED BY <1>1, <1>2, <1>6

\* Both forms are of the right type, and only the first is dirty.
LEMMA FormTypes ==
    ASSUME NEW d \in [Txs -> Int], NEW S \in SUBSET Txs, IsFiniteSet(S), NEW t \in S
    PROVE  /\ Own(d, t) \in States /\ Own(d, t).count = 0
           /\ Summed(d, S) \in States /\ Summed(d, S).count # 0
<1>1. Own(d, t) \in States /\ Own(d, t).count = 0
  BY Single DEF Own, States
<1>2. Cardinality(S) \in Nat /\ Cardinality(S) # 0
  BY FS_CardinalityType, FS_EmptySet
<1>3. Total(Size, S) \in Nat
  <2>1. SizeOf({}) <= SizeOf(S) /\ SizeOf(S) \in Int
    BY SizeShrinks
  <2> QED BY <2>1, SizeOfNone, SizeOfTotal
<1>4. Total(Fees(d), S) \in Int
  <2>1. \A x \in S : Fees(d)[x] \in Int
    BY MempoolAssumption DEF Fees
  <2> QED BY <2>1, TotalFacts
<1>5. Summed(d, S) \in States /\ Summed(d, S).count # 0
  BY <1>2, <1>3, <1>4 DEF Summed, States
<1> QED BY <1>1, <1>5

\* The deltas of what is not in S do not matter.
LEMMA SummedSame ==
    ASSUME NEW d \in [Txs -> Int], NEW e \in [Txs -> Int], NEW S \in SUBSET Txs, IsFiniteSet(S),
           \A x \in S : e[x] = d[x]
    PROVE  Summed(e, S) = Summed(d, S)
<1>1. \A x \in S : Fees(d)[x] \in Int /\ Fees(e)[x] = Fees(d)[x]
  BY MempoolAssumption DEF Fees
<1>2. Total(Fees(e), S) = Total(Fees(d), S)
  BY <1>1, TotalSame
<1> QED BY <1>2 DEF Summed

\* The links of the pool.
LEMMA PoolLinks ==
    ASSUME Types, Links
    PROVE  /\ Inside(pool, children) /\ Inside(pool, parents)
           /\ \A p, c \in pool : c \in children[p] <=> p \in parents[c]
           /\ \A t \in pool : t \in Below(t) /\ Below(t) \subseteq pool
<1>1. Inside(pool, children) /\ Inside(pool, parents)
  BY DEF Types, Inside
<1>2. \A p, c \in pool : c \in children[p] <=> p \in parents[c]
  BY DEF Types, Links
<1>3. \A t \in pool : t \in Below(t) /\ Below(t) \subseteq pool
  BY <1>1, ReachFrom DEF Below
<1> QED BY <1>1, <1>2, <1>3

\* RemoveStaged takes what goes out of the totals of what stays.
LEMMA RemovedTotals ==
    ASSUME Types, Links, TotalTypes, Totals, pc # "update", pc' # "update",
           NEW stage \in SUBSET pool, RemoveEntries(stage),
           \/ \A r \in stage : children[r] \subseteq stage
           \/ \A t \in pool \ stage : children[t] \cap stage = {},
           deltas' \in [Txs -> Int], \A t \in pool \ stage : deltas'[t] = deltas[t]
    PROVE  Totals' /\ TotalTypes'
<1>1. /\ pool' = pool \ stage
      /\ children' = [t \in Txs |-> IF t \in stage THEN {}
                                      ELSE children[t] \ {r \in stage : t \in parents[r]}]
      /\ delta' = [t \in Txs |-> IF t \in stage THEN 0 ELSE delta[t]]
  BY DEF RemoveEntries
<1>2. ASSUME NEW t \in Txs
      PROVE  state'[t] = IF t \in stage \/ t \notin pool THEN NoState
                         ELSE LET gone == LeftBehind(t, stage)
                              IN  UpdateState(t, -Cardinality(gone), -SizeOf(gone),
                                              -MapThenSumSet(ModifiedFee, gone))
  BY DEF RemoveEntries
<1>3. pool \subseteq Txs /\ IsFiniteSet(pool) /\ delta \in [Txs -> Int] /\ delta' \in [Txs -> Int]
  BY <1>1 DEF Types, TotalTypes
<1>4. IsFiniteSet(pool') /\ pool' \subseteq Txs
  BY <1>1, <1>3, FS_Subset
<1>5. ASSUME NEW x \in pool \ stage
      PROVE  Below(x)' = Below(x) \ stage /\ LeftBehind(x, stage) = Below(x) \cap stage
  <2>1. \A t \in pool \ stage : children'[t] = children[t] \ stage
    BY <1>1, <1>3, PoolLinks
  <2>2. Below(x)' = Below(x) \ stage
    <3>1. Reach(pool \ stage, {x}, children') = Reach(pool, {x}, children) \ stage
      BY <2>1, PoolLinks, ReachRemoved
    <3> QED BY <1>1, <3>1 DEF Below
  <2>3. ASSUME NEW r \in stage PROVE x \in Closure(parents[r], parents) <=> r \in Below(x)
    <3>1. x \in Reach(pool, parents[r], parents) <=> r \in Reach(pool, {x}, children)
      BY PoolLinks, ReachUp
    <3> QED BY <3>1, ClosureIsReach DEF Below
  <2> QED BY <2>2, <2>3 DEF LeftBehind
<1>6. ASSUME NEW x \in pool'
      PROVE  /\ delta'[x] = deltas'[x] /\ state'[x] \in States
             /\ state'[x] \in {Own(delta', x), Summed(delta', Reckoned(x)')}
  <2> DEFINE B == Below(x)
             R == B \cap stage
             S == B \ stage
  <2>1. /\ x \in pool /\ x \notin stage /\ x \in Txs
        /\ x \in B /\ B \in SUBSET Txs /\ IsFiniteSet(B)
        /\ x \in S /\ S \in SUBSET Txs /\ IsFiniteSet(S) /\ R \in SUBSET Txs /\ IsFiniteSet(R)
        /\ S \subseteq pool \ stage
    BY <1>1, <1>3, <1>5, PoolLinks, FS_Subset
  <2>2. Reckoned(x)' = S /\ Reckoned(x) = B /\ LeftBehind(x, stage) = R
    BY <1>5, <2>1 DEF Reckoned
  <2>3. state'[x] = UpdateState(x, -Cardinality(R), -Total(Size, R), -Total(Fees(delta), R))
    BY <1>2, <2>1, <2>2, SizeOfTotal, FeesTotal
  <2>4. delta'[x] = delta[x] /\ delta[x] = deltas[x] /\ deltas'[x] = deltas[x]
    BY <1>1, <2>1 DEF Totals
  <2>5. state[x] \in {Own(delta, x), Summed(delta, B)}
    BY <2>1, <2>2 DEF Totals
  <2>6. Summed(delta', S) = Summed(delta, S)
    <3>1. \A y \in S : delta'[y] = delta[y]
      BY <1>1, <2>1
    <3> HIDE DEF S
    <3> QED BY <1>3, <2>1, <3>1, SummedSame
  <2>7. Summed(delta', S) \in States /\ Own(delta', x) \in States
    <3> HIDE DEF S
    <3> QED BY <1>3, <2>1, FormTypes
  <2>8. CASE state[x] = Own(delta, x)
    <3>1. state'[x] = Own(delta, x)
      BY <2>3, <2>8 DEF UpdateState, IsDirty, Own
    <3> QED BY <2>4, <2>7, <3>1 DEF Own
  <2>9. CASE state[x] = Summed(delta, B)
    <3>1. ~IsDirty(x)
      <4> HIDE DEF B
      <4> QED BY <1>3, <2>1, <2>9, FormTypes DEF IsDirty
    <3>2. /\ Cardinality(B) = Cardinality(R) + Cardinality(S)
          /\ Cardinality(R) \in Nat /\ Cardinality(S) \in Nat
          /\ Total(Size, B) = Total(Size, R) + Total(Size, S)
          /\ Total(Size, R) \in Int /\ Total(Size, S) \in Int
          /\ Total(Fees(delta), B) = Total(Fees(delta), R) + Total(Fees(delta), S)
          /\ Total(Fees(delta), R) \in Int /\ Total(Fees(delta), S) \in Int
      <4> HIDE DEF B
      <4> QED BY <1>3, <2>1, Parts
    <3> HIDE DEF B, R, S
    <3>3. state'[x] = [count |-> Cardinality(B) + (-Cardinality(R)),
                       size |-> Total(Size, B) + (-Total(Size, R)),
                       fees |-> Total(Fees(delta), B) + (-Total(Fees(delta), R))]
      BY <2>3, <2>9, <3>1 DEF UpdateState, Summed
    <3>4. state'[x] = Summed(delta, S)
      BY <3>2, <3>3 DEF Summed
    <3> QED BY <2>2, <2>4, <2>6, <2>7, <3>4
  <2> QED BY <2>5, <2>8, <2>9
<1>7. \A x \in Txs \ pool' : state'[x] = NoState /\ NoState \in States
  BY <1>1, <1>2 DEF NoState, States
<1>8. state' \in [Txs -> States]
  <2>1. \A x \in Txs : state'[x] \in States
    BY <1>6, <1>7
  <2>2. DOMAIN state' = Txs /\ state' = [x \in Txs |-> state'[x]]
    BY DEF RemoveEntries
  <2> QED BY <2>1, <2>2
<1> QED BY <1>3, <1>4, <1>6, <1>7, <1>8 DEF Totals, TotalTypes

\* addUnchecked adds the transaction to the totals of its ancestors.
LEMMA AddedTotals ==
    ASSUME Types, Links, TotalTypes, Totals, pc # "update", pc' # "update",
           NEW t \in Txs \ pool, NEW points, AddUnchecked(t, points), deltas' = deltas
    PROVE  Totals' /\ TotalTypes'
<1> DEFINE N == MempoolParents(t)
           fee == Fee[t] + deltas[t]
<1>1. /\ pool' = pool \cup {t} /\ delta' = [delta EXCEPT ![t] = deltas[t]]
      /\ children' = [p \in Txs |-> IF p \in N THEN children[p] \cup {t} ELSE children[p]]
      /\ N \in SUBSET pool
  BY DEF AddUnchecked, MempoolParents
<1>2. ASSUME NEW a \in Txs
      PROVE  state'[a] = IF a = t THEN [count |-> 1, size |-> Size[t], fees |-> fee]
                         ELSE IF a \in MempoolAncestors(t) THEN UpdateState(a, 1, Size[t], fee)
                         ELSE state[a]
  BY DEF AddUnchecked
<1> HIDE DEF N
<1>3. /\ pool \subseteq Txs /\ IsFiniteSet(pool)
      /\ delta \in [Txs -> Int] /\ deltas \in [Txs -> Int]
      /\ children[t] = {} /\ delta' \in [Txs -> Int] /\ pool' \subseteq Txs
  BY <1>1 DEF Types, TotalTypes, Links
<1>4. IsFiniteSet(pool')
  BY <1>1, <1>3, FS_AddElement
<1>5. /\ Below(t)' = {t}
      /\ \A a \in pool : Below(a)' = IF Below(a) \cap N # {} THEN Below(a) \cup {t} ELSE Below(a)
  <2>1. \A u \in pool : children'[u] = IF u \in N THEN children[u] \cup {t} ELSE children[u]
    BY <1>1, <1>3
  <2>2. children'[t] = {}
    BY <1>1, <1>3
  <2>3. PICK M : M = children'
    OBVIOUS
  <2>4. PICK Q : Q = pool'
    OBVIOUS
  <2>5. Grown(pool, children, t, N, Q, M)
    BY <1>1, <2>1, <2>2, <2>3, <2>4, PoolLinks DEF Grown
  <2>6. ASSUME NEW a \in pool
        PROVE  /\ Reach(pool, {a}, children) \cap N # {} =>
                      Reach(Q, {a}, M) = Reach(pool, {a}, children) \cup {t}
               /\ Reach(pool, {a}, children) \cap N = {} =>
                      Reach(Q, {a}, M) = Reach(pool, {a}, children)
    BY ONLY <2>5, <2>6, ReachAdded
  <2>7. Reach(Q, {t}, M) = {t}
    <3>1. t \in Q /\ M[t] = {}
      BY <2>5 DEF Grown
    <3> QED BY <3>1 DEF Reach
  <2> QED BY <1>1, <2>3, <2>4, <2>6, <2>7 DEF Below
<1>6. ASSUME NEW a \in pool PROVE a \in MempoolAncestors(t) <=> Below(a) \cap N # {}
  <2>1. MempoolAncestors(t) = Reach(pool, N, parents)
    BY ClosureIsReach DEF MempoolAncestors, N
  <2>2. a \in Reach(pool, N, parents) <=> Reach(pool, {a}, children) \cap N # {}
    BY <1>1, PoolLinks, ReachBack
  <2> QED BY <2>1, <2>2 DEF Below
<1>7. /\ delta'[t] = deltas'[t] /\ state'[t] = Summed(delta', Reckoned(t)') /\ state'[t] \in States
  <2>1. delta'[t] = deltas[t] /\ Reckoned(t)' = {t}
    BY <1>1, <1>3, <1>5 DEF Reckoned
  <2>2. /\ Cardinality({t}) = 1 /\ Total(Size, {t}) = Size[t]
        /\ Total(Fees(delta'), {t}) = Fee[t] + delta'[t] /\ IsFiniteSet({t})
    BY <1>3, Single
  <2>3. state'[t] = Summed(delta', {t})
    BY <1>2, <2>1, <2>2 DEF Summed
  <2>4. Summed(delta', {t}) \in States
    BY <1>3, <2>2, FormTypes
  <2> QED BY <2>1, <2>3, <2>4
<1>8. ASSUME NEW x \in pool
      PROVE  /\ delta'[x] = deltas'[x] /\ state'[x] \in States
             /\ state'[x] \in {Own(delta', x), Summed(delta', Reckoned(x)')}
  <2> DEFINE B == Below(x)
             S == B \cup {t}
  <2>1. /\ x \in Txs /\ x # t /\ x \in B /\ B \in SUBSET Txs /\ IsFiniteSet(B) /\ t \notin B
        /\ S \in SUBSET Txs /\ IsFiniteSet(S) /\ x \in S
    BY <1>3, PoolLinks, FS_Subset, FS_AddElement
  <2>2. Reckoned(x)' = (IF B \cap N # {} THEN S ELSE B) /\ Reckoned(x) = B
    BY <1>5 DEF Reckoned
  <2>3. delta'[x] = delta[x] /\ delta[x] = deltas[x]
    BY <1>1, <1>3, <2>1 DEF Totals
  <2>4. state[x] \in {Own(delta, x), Summed(delta, B)}
    BY <2>2 DEF Totals
  <2>5. Own(delta', x) \in States /\ Summed(delta', B) \in States /\ Summed(delta', S) \in States
    <3> HIDE DEF B, S
    <3> QED BY <1>3, <2>1, FormTypes
  <2>6. Summed(delta', B) = Summed(delta, B) /\ Own(delta', x) = Own(delta, x)
    <3>1. \A y \in B : delta'[y] = delta[y]
      BY <1>1, <1>3, <2>1
    <3> HIDE DEF B
    <3>2. Summed(delta', B) = Summed(delta, B)
      BY <1>3, <2>1, <3>1, SummedSame
    <3> QED BY <2>3, <3>2 DEF Own
  <2>7. state'[x] = IF B \cap N # {} THEN UpdateState(x, 1, Size[t], fee) ELSE state[x]
    BY <1>2, <1>6, <2>1
  <2>8. CASE B \cap N = {}
    BY <2>2, <2>3, <2>4, <2>5, <2>6, <2>7, <2>8
  <2>9. CASE B \cap N # {} /\ state[x] = Own(delta, x)
    <3>1. state'[x] = Own(delta, x)
      BY <2>7, <2>9 DEF UpdateState, IsDirty, Own
    <3> QED BY <2>3, <2>5, <2>6, <3>1
  <2>10. CASE B \cap N # {} /\ state[x] = Summed(delta, B)
    <3>1. ~IsDirty(x)
      <4> HIDE DEF B
      <4> QED BY <1>3, <2>1, <2>10, FormTypes DEF IsDirty
    <3>2. S \cap {t} = {t} /\ S \ {t} = B
      BY <2>1
    <3>3. /\ Cardinality({t}) = 1 /\ Total(Size, {t}) = Size[t]
          /\ Total(Fees(delta'), {t}) = fee /\ Size[t] \in Nat /\ fee \in Int
      <4>1. delta'[t] = deltas[t]
        BY <1>1, <1>3
      <4> QED BY <1>3, <4>1, Single
    <3>4. /\ Cardinality(S) = Cardinality({t}) + Cardinality(B) /\ Cardinality(B) \in Nat
          /\ Total(Size, S) = Total(Size, {t}) + Total(Size, B) /\ Total(Size, B) \in Int
          /\ Total(Fees(delta'), S) = Total(Fees(delta'), {t}) + Total(Fees(delta'), B)
          /\ Total(Fees(delta'), B) \in Int
      <4> HIDE DEF S, B
      <4>1. PICK e, R : e = delta' /\ R = {t}
        OBVIOUS
      <4>2. /\ Cardinality(S) = Cardinality(S \cap R) + Cardinality(S \ R)
            /\ Cardinality(S \ R) \in Nat
            /\ Total(Size, S) = Total(Size, S \cap R) + Total(Size, S \ R)
            /\ Total(Size, S \ R) \in Int
            /\ Total(Fees(e), S) = Total(Fees(e), S \cap R) + Total(Fees(e), S \ R)
            /\ Total(Fees(e), S \ R) \in Int
        <5>1. e \in [Txs -> Int] /\ S \in SUBSET Txs /\ IsFiniteSet(S)
          BY <1>3, <2>1, <4>1
        <5> QED BY ONLY <5>1, Parts
      <4>3. S \cap R = {t} /\ S \ R = B
        BY <3>2, <4>1
      <4> QED BY <4>1, <4>2, <4>3, Zenon
    <3> HIDE DEF B, S, fee
    <3>5. state'[x] = [count |-> Cardinality(B) + 1, size |-> Total(Size, B) + Size[t],
                       fees |-> Total(Fees(delta'), B) + fee]
      BY <2>6, <2>7, <2>10, <3>1 DEF UpdateState, Summed
    <3>6. state'[x] = Summed(delta', S)
      BY <3>3, <3>4, <3>5 DEF Summed
    <3> QED BY <2>2, <2>3, <2>5, <2>10, <3>6
  <2> QED BY <2>4, <2>8, <2>9, <2>10
<1>9. \A x \in Txs \ pool' : state'[x] = NoState /\ NoState \in States
  <2>1. ASSUME NEW x \in Txs \ pool' PROVE x \notin MempoolAncestors(t) /\ x # t /\ x \notin pool
    BY <1>1 DEF MempoolAncestors, Closure
  <2> QED BY <1>2, <2>1 DEF Totals, NoState, States
<1>10. state' \in [Txs -> States]
  <2>1. \A x \in Txs : state'[x] \in States
    BY <1>1, <1>7, <1>8, <1>9
  <2>2. DOMAIN state' = Txs /\ state' = [x \in Txs |-> state'[x]]
    BY DEF AddUnchecked
  <2> QED BY <2>1, <2>2
<1> QED BY <1>1, <1>3, <1>4, <1>7, <1>8, <1>9, <1>10 DEF Totals, TotalTypes

\* prioritisetransaction changes the fees of an entry and of its ancestors.
LEMMA PrioritisedTotals ==
    ASSUME Types, Links, TotalTypes, Totals, pc = "idle", NEW t \in Txs, PrioritiseTransaction(t)
    PROVE  Totals' /\ TotalTypes'
<1>1. PICK sum \in Deltas[t] \ {deltas[t]} : PrioritiseBy(t, sum - deltas[t])
  BY DEF PrioritiseTransaction
<1>2. PICK d : d = sum - deltas[t]
  OBVIOUS
<1>3. UNCHANGED <<pool, children, pc>>
  BY DEF PrioritiseTransaction, linkVars, callVars
<1>4. /\ pool \subseteq Txs /\ IsFiniteSet(pool)
      /\ delta \in [Txs -> Int] /\ deltas \in [Txs -> Int]
      /\ state \in [Txs -> States] /\ d \in Int
  <2>1. sum \in Int
    BY <1>1, MempoolAssumption
  <2> QED BY <1>2, <2>1 DEF Types, TotalTypes
<1>5. deltas' = [deltas EXCEPT ![t] = @ + d] /\ deltas' \in [Txs -> Int]
  BY <1>1, <1>2, <1>4 DEF PrioritiseBy
<1>6. \A x \in pool : Reckoned(x) = Below(x) /\ Reckoned(x)' = Below(x)
  BY <1>3 DEF Reckoned, Below
<1>7. CASE t \notin pool
  <2>1. UNCHANGED <<delta, state>> /\ \A x \in pool : deltas'[x] = deltas[x]
    BY <1>1, <1>2, <1>4, <1>5, <1>7 DEF PrioritiseBy
  <2> QED BY <1>3, <1>4, <1>5, <1>6, <2>1 DEF Totals, TotalTypes
<1>8. CASE t \in pool
  <2>1. delta[t] = deltas[t] /\ delta' = [delta EXCEPT ![t] = deltas[t] + d]
        /\ delta' \in [Txs -> Int]
    BY <1>1, <1>2, <1>4, <1>8 DEF PrioritiseBy, Totals
  <2>2. state' = [a \in Txs |->
           IF a = t THEN [state[t] EXCEPT !.fees = @ + (deltas[t] + d - delta[t])]
           ELSE IF a \in Closure(parents[t], parents) THEN UpdateState(a, 0, 0, d)
           ELSE state[a]]
    BY <1>1, <1>2, <1>8 DEF PrioritiseBy
  <2>3. ASSUME NEW x \in pool, x # t PROVE x \in Closure(parents[t], parents) <=> t \in Below(x)
    <3>1. x \in Reach(pool, parents[t], parents) <=> t \in Reach(pool, {x}, children)
      BY <1>8, <2>3, PoolLinks, ReachUp
    <3> QED BY <3>1, ClosureIsReach DEF Below
  <2>4. ASSUME NEW x \in pool
        PROVE  /\ delta'[x] = deltas'[x] /\ state'[x] \in States
               /\ state'[x] \in {Own(delta', x), Summed(delta', Below(x))}
    <3> DEFINE B == Below(x)
    <3>1. x \in Txs /\ x \in B /\ B \in SUBSET Txs /\ IsFiniteSet(B)
      BY <1>4, PoolLinks, FS_Subset
    <3>2. delta'[x] = deltas'[x] /\ delta'[t] = delta[t] + d /\ (x # t => delta'[x] = delta[x])
      BY <1>4, <1>5, <2>1, <3>1 DEF Totals
    <3>3. state[x] \in {Own(delta, x), Summed(delta, B)} /\ state[x] \in States
      BY <1>4, <1>6, <3>1 DEF Totals
    <3>4. Own(delta', x) \in States /\ Summed(delta', B) \in States
      <4> HIDE DEF B
      <4> QED BY <2>1, <3>1, FormTypes
    <3>5. Total(Fees(delta), B) \in Int
          /\ Total(Fees(delta'), B) = IF t \in B THEN Total(Fees(delta), B) + d
                                      ELSE Total(Fees(delta), B)
      <4> DEFINE U == B \ {t}
      <4> HIDE DEF B
      <4>1. \A y \in B : Fees(delta)[y] \in Int /\ Fees(delta')[y] \in Int
        BY <1>4, <2>1, <3>1, MempoolAssumption DEF Fees
      <4>2. /\ U \in SUBSET Txs /\ IsFiniteSet(U)
            /\ \A y \in U : Fees(delta)[y] \in Int /\ Fees(delta')[y] = Fees(delta)[y]
        <5>1. \A y \in U : delta'[y] = delta[y]
          BY <1>4, <2>1, <3>1
        <5> QED BY <3>1, <4>1, <5>1, FS_Subset DEF Fees
      <4> HIDE DEF U
      <4>3. Total(Fees(delta'), U) = Total(Fees(delta), U)
        BY <4>2, TotalSame
      <4>4. CASE t \in B
        <5>1. /\ Total(Fees(delta), B) = Fees(delta)[t] + Total(Fees(delta), U)
              /\ Total(Fees(delta), B) \in Int
          BY <3>1, <4>1, <4>4, TotalFacts DEF U
        <5>2. Total(Fees(delta'), B) = Fees(delta')[t] + Total(Fees(delta'), U)
          BY <3>1, <4>1, <4>4, TotalFacts DEF U
        <5>3. Total(Fees(delta), U) \in Int
          BY <4>2, TotalFacts
        <5>4. /\ Fees(delta)[t] = Fee[t] + delta[t] /\ Fees(delta')[t] = Fee[t] + (delta[t] + d)
              /\ Fee[t] \in Int /\ delta[t] \in Int
          BY <1>4, <3>2, MempoolAssumption DEF Fees
        <5> QED BY <1>4, <4>3, <4>4, <5>1, <5>2, <5>3, <5>4
      <4>5. CASE t \notin B
        <5>1. U = B
          BY <4>5 DEF U
        <5> QED BY <4>2, <4>3, <4>5, <5>1, TotalFacts
      <4> QED BY <4>4, <4>5
    <3>6. CASE x = t
      <4>1. state'[t] = [state[t] EXCEPT !.fees = state[t].fees + d]
        <5>1. deltas[t] + d - delta[t] = d
          BY <1>4, <2>1
        <5> QED BY <1>4, <2>2, <3>3, <5>1
      <4>2. CASE state[t] = Own(delta, t)
        <5>1. state'[t] = Own(delta', t)
          <6>1. Fee[t] + delta[t] + d = Fee[t] + delta'[t]
            BY <1>4, <3>2, MempoolAssumption
          <6> QED BY <4>1, <4>2, <6>1 DEF Own
        <5> QED BY <3>2, <3>4, <3>6, <5>1
      <4>3. CASE state[t] = Summed(delta, B)
        <5>1. state'[t] = Summed(delta', B)
          <6>1. Total(Fees(delta'), B) = Total(Fees(delta), B) + d
            BY <3>1, <3>5, <3>6
          <6> HIDE DEF B
          <6> QED BY <4>1, <4>3, <6>1 DEF Summed
        <5> QED BY <3>2, <3>4, <3>6, <5>1
      <4> QED BY <3>3, <3>6, <4>2, <4>3
    <3>7. CASE x # t
      <4>1. state'[x] = IF t \in B THEN UpdateState(x, 0, 0, d) ELSE state[x]
        BY <2>2, <2>3, <3>1, <3>7
      <4>2. CASE state[x] = Own(delta, x)
        <5>1. state'[x] = Own(delta, x)
          BY <4>1, <4>2 DEF UpdateState, IsDirty, Own
        <5> QED BY <3>2, <3>4, <3>7, <5>1 DEF Own
      <4>3. CASE state[x] = Summed(delta, B)
        <5>1. ~IsDirty(x)
          <6> HIDE DEF B
          <6> QED BY <1>4, <3>1, <4>3, FormTypes DEF IsDirty
        <5>2. state[x].count \in Nat /\ state[x].size \in Nat
          BY <3>3 DEF States
        <5> HIDE DEF B
        <5>3. /\ state[x].count = Cardinality(B) /\ state[x].size = Total(Size, B)
              /\ state[x].fees = Total(Fees(delta), B)
          BY <4>3 DEF Summed
        <5>4. state'[x] = Summed(delta', B)
          BY <3>5, <4>1, <4>3, <5>1, <5>2, <5>3 DEF UpdateState, Summed
        <5> QED BY <3>2, <3>4, <5>4 DEF B
      <4> QED BY <3>3, <4>2, <4>3
    <3> QED BY <3>6, <3>7
  <2>5. \A x \in Txs \ pool : state'[x] = NoState /\ NoState \in States
    <3>1. ASSUME NEW x \in Txs \ pool PROVE x \notin Closure(parents[t], parents) /\ x # t
      BY <1>8 DEF Closure
    <3> QED BY <2>2, <3>1 DEF Totals, NoState, States
  <2>6. state' \in [Txs -> States]
    <3>1. \A x \in Txs : state'[x] \in States
      BY <2>4, <2>5
    <3> QED BY <2>2, <3>1
  <2> QED BY <1>3, <1>4, <1>5, <1>6, <2>1, <2>4, <2>5, <2>6 DEF Totals, TotalTypes
<1> QED BY <1>7, <1>8

-----------------------------------------------------------------------------
(* The order in which transactions come back and have their turn.          *)

\* In the order of a block none spends a later one, backwards none an earlier one.
Forwards(s) == \A i, j \in 1 .. Len(s) : i < j => s[i] # s[j] /\ ~Spends(s[i], s[j])
Backwards(s) == \A i, j \in 1 .. Len(s) : i < j => s[i] # s[j] /\ ~Spends(s[j], s[i])

\* What has come back has only such children that have too, until it has its turn in
\* UpdateTransactionsFromBlock, after all its children that came back.
Ordered ==
    /\ pc = "resurrect" => /\ Forwards(readded)
                           /\ \A p \in Range(readded) : children[p] \subseteq Range(readded)
    /\ pc = "update" => /\ Range(todo) \subseteq Range(readded) /\ Backwards(todo)
                        /\ \A x \in Range(readded) \ Range(todo), c \in Range(todo) : ~Spends(c, x)

\* What a transaction that came back spends and the pool has came back, too.
LEMMA ParentsCameBack ==
    ASSUME PoolInv, pc \in {"resurrect", "update"}, NEW p \in pool, NEW c \in Range(readded),
           Spends(c, p)
    PROVE  p \in Range(readded)
<1>1. /\ tip \in Blocks \ {Base} /\ coins = Parent[tip]
      /\ Range(readded) \subseteq Range(BlockTxs[tip])
      /\ pool \cap Range(BlockTxs[tip]) \subseteq Range(readded)
  BY DEF PoolInv, Types, Phases
<1>2. Included(tip) = Included(coins) \cup Range(BlockTxs[tip])
  BY <1>1, IncludedStep
<1>3. PICK o \in Ins[c] : o[1] = p
  BY DEF Spends
<1>4. c \in Included(tip)
  BY <1>1, <1>2
<1>5. p \in Included(tip)
  BY <1>1, <1>3, <1>4, IncludedTxs
<1>6. p \notin Included(coins)
  BY DEF PoolInv, Unconfirmed, Settled
<1> QED BY <1>1, <1>2, <1>5, <1>6

\* The turn of t in UpdateTransactionsFromBlock: of F, which came back, Q have not had their
\* turn, and M are the links C with the new children N of t, which were never gone.
Turn(P, C, F, Q, t, N, M) ==
    /\ Inside(P, C) /\ t \in P /\ t \in Q /\ Q \subseteq F
    /\ \A u \in P, c \in F : c \in C[u] => u \in F
    /\ \A u \in F \ Q, c \in Q : u \in P => c \notin C[u]
    /\ N \subseteq P \ F /\ M[t] = C[t] \cup N /\ \A u \in P : u # t => M[u] = C[u]

\* Those that had their turn do not reach t, and of what came back nothing reaches more of
\* what came back.
LEMMA TurnReach ==
    ASSUME NEW P, NEW C, NEW F, NEW Q, NEW t, NEW N, NEW M, Turn(P, C, F, Q, t, N, M), NEW x \in P
    PROVE  /\ Inside(P, M)
           /\ x \notin Q => Reach(P, {x}, M) = Reach(P, {x}, C)
           /\ x \in F => Reach(P, {x}, M) \cap F = Reach(P, {x}, C) \cap F
<1> DEFINE B == Reach(P, {x}, C)
           E == Reach(P, {x}, M)
<1>0. /\ Inside(P, C) /\ t \in P /\ t \in F /\ t \in Q /\ Q \subseteq F
      /\ \A u \in P, c \in F : c \in C[u] => u \in F
      /\ \A u \in F \ Q, c \in Q : u \in P => c \notin C[u]
      /\ N \subseteq P \ F /\ M[t] = C[t] \cup N /\ \A u \in P : u # t => M[u] = C[u]
  BY DEF Turn
<1>1. /\ x \in B /\ B \subseteq P /\ \A u \in B : C[u] \subseteq B
      /\ \A T \in SUBSET P : x \in T /\ (\A u \in T : C[u] \subseteq T) => B \subseteq T
  BY <1>0, ReachFrom
<1>2. Inside(P, M)
  BY <1>0 DEF Inside
<1>3. /\ x \in E /\ E \subseteq P /\ \A u \in E : M[u] \subseteq E
      /\ \A T \in SUBSET P : x \in T /\ (\A u \in T : M[u] \subseteq T) => E \subseteq T
  BY <1>2, ReachFrom
<1>4. ASSUME x \notin Q PROVE E = B
  <2>1. P \ Q \in SUBSET P /\ x \in P \ Q
    BY <1>4
  <2>2. ASSUME NEW u \in P \ Q PROVE C[u] \subseteq P \ Q
    BY <1>0 DEF Inside
  <2>3. B \subseteq P \ Q
    <3> HIDE DEF B
    <3> QED BY <1>1, <2>1, <2>2
  <2>4. \A u \in B : M[u] = C[u]
    BY <1>0, <2>3
  <2>5. PICK S : S = {x}
    OBVIOUS
  <2>6. S \in SUBSET P /\ \A u \in Reach(P, S, C) : M[u] = C[u]
    BY <2>4, <2>5
  <2>7. Reach(P, S, M) = Reach(P, S, C)
    BY ONLY <1>0, <1>2, <2>6, ReachSame
  <2> QED BY <2>5, <2>7
<1> HIDE DEF B, E
<1>5. B \subseteq E
  <2>1. \A u \in E : C[u] \subseteq E
    BY <1>0, <1>3
  <2> QED BY <1>1, <1>3, <2>1
<1>6. E \cap F \subseteq B
  <2> DEFINE T == B \cup (P \ F)
  <2>1. T \in SUBSET P /\ x \in T
    BY <1>1
  <2>2. ASSUME NEW u \in T PROVE M[u] \subseteq T
    <3>1. CASE u = t
      <4>1. u \in B
        BY <1>0, <3>1
      <4> QED BY <1>0, <1>1, <3>1, <4>1
    <3>2. CASE u # t /\ u \in B
      BY <1>0, <1>1, <3>2
    <3>3. CASE u # t /\ u \in P \ F
      <4>1. M[u] = C[u] /\ C[u] \subseteq P
        BY <1>0, <3>3 DEF Inside
      <4> QED BY <1>0, <3>3, <4>1
    <3> QED BY <3>1, <3>2, <3>3
  <2>3. E \subseteq T
    <3> HIDE DEF T
    <3> QED BY <1>3, <2>1, <2>2
  <2> QED BY <2>3
<1> QED BY <1>2, <1>4, <1>5, <1>6 DEF B, E

\* UpdateForDescendants adds to the entry what it now reaches and did not come back.
LEMMA TurnTotals ==
    ASSUME PoolInv, TotalTypes, Totals, Ordered, UpdateTransactionsFromBlock
    PROVE  Totals' /\ TotalTypes' /\ Ordered'
<1>0. PICK t : t = Head(todo)
  OBVIOUS
<1> DEFINE F == Range(readded)
           new == NewChildren(t)
           links == [children EXCEPT ![t] = @ \cup new]
<1>1. /\ pc = "update" /\ pc' = pc /\ todo # <<>> /\ todo' = Tail(todo) /\ readded' = readded
      /\ pool' = pool /\ delta' = delta /\ deltas' = deltas
  BY DEF UpdateTransactionsFromBlock
<1>2. IF t \in pool
      THEN children' = links /\ state' = [state EXCEPT ![t] = UpdateForDescendants(t, links)]
      ELSE children' = children /\ state' = state
  BY <1>0 DEF UpdateTransactionsFromBlock
<1>3. /\ t \in Txs /\ todo \in Seq(Txs) /\ Tail(todo) \in Seq(Txs)
      /\ Range(todo) = {t} \cup Range(Tail(todo)) /\ Range(todo) \subseteq F
  BY <1>0, <1>1, RangeFacts DEF PoolInv, Types, Ordered
<1>4. /\ t \notin Range(Tail(todo)) /\ Backwards(Tail(todo))
      /\ \A c \in Range(Tail(todo)) : ~Spends(c, t)
  <2>1. /\ Backwards(todo) /\ Len(todo) \in Nat \ {0} /\ t = todo[1]
        /\ Len(Tail(todo)) = Len(todo) - 1
        /\ \A i \in 1 .. Len(todo) - 1 : Tail(todo)[i] = todo[i + 1]
    BY <1>0, <1>1, <1>3 DEF Ordered
  <2>2. Range(Tail(todo)) = {Tail(todo)[i] : i \in 1 .. Len(todo) - 1}
    <3>1. PICK s \in Seq(Txs) : s = Tail(todo)
      BY <1>3
    <3>2. Range(s) = {s[i] : i \in 1 .. Len(s)}
      BY RangeFacts
    <3> QED BY <2>1, <3>1, <3>2
  <2>3. ASSUME NEW c \in Range(Tail(todo)) PROVE c # t /\ ~Spends(c, t)
    <3>1. PICK i \in 1 .. Len(todo) - 1 : c = todo[i + 1]
      BY <2>1, <2>2
    <3>2. 1 \in 1 .. Len(todo) /\ i + 1 \in 1 .. Len(todo) /\ 1 < i + 1
      BY <2>1
    <3> QED BY <2>1, <3>1, <3>2 DEF Backwards
  <2>4. Backwards(Tail(todo))
    <3> SUFFICES ASSUME NEW i \in 1 .. Len(Tail(todo)), NEW j \in 1 .. Len(Tail(todo)), i < j
                 PROVE  Tail(todo)[i] # Tail(todo)[j] /\ ~Spends(Tail(todo)[j], Tail(todo)[i])
      BY DEF Backwards
    <3>1. /\ i + 1 \in 1 .. Len(todo) /\ j + 1 \in 1 .. Len(todo) /\ i + 1 < j + 1
          /\ Tail(todo)[i] = todo[i + 1] /\ Tail(todo)[j] = todo[j + 1]
      BY <2>1
    <3> QED BY <2>1, <3>1 DEF Backwards
  <2> QED BY <2>3, <2>4
<1>5. Ordered'
  <2>1. Range(readded)' = F /\ Range(todo)' = Range(Tail(todo))
    BY <1>1 DEF Range
  <2>2. \A p, c : Spends(c, p)' = Spends(c, p)
    BY DEF Spends
  <2>3. Backwards(todo)'
    BY <1>1, <1>4 DEF Backwards, Spends
  <2>4. \A x \in F \ Range(Tail(todo)), c \in Range(Tail(todo)) : ~Spends(c, x)
    BY <1>1, <1>3, <1>4 DEF Ordered
  <2> QED BY <1>1, <1>3, <2>1, <2>2, <2>3, <2>4 DEF Ordered
<1>6. ASSUME NEW x \in pool
      PROVE  /\ Reckoned(x) = IF x \in Range(todo) THEN Below(x) \cap F ELSE Below(x)
             /\ Reckoned(x)' = IF x \in Range(Tail(todo)) THEN Below(x)' \cap F ELSE Below(x)'
  BY <1>1 DEF Reckoned, Range
<1>7. CASE t \notin pool
  <2>1. children' = children /\ state' = state
    BY <1>2, <1>7
  <2>2. ASSUME NEW x \in pool PROVE Reckoned(x)' = Reckoned(x)
    <3>1. Below(x)' = Below(x) /\ x # t
      BY <1>1, <1>7, <2>1 DEF Below
    <3> QED BY <1>3, <1>6, <3>1
  <2>3. Totals' /\ TotalTypes'
    BY <1>1, <2>1, <2>2 DEF Totals, TotalTypes
  <2> QED BY <1>5, <2>3
<1>8. CASE t \in pool
  <2> DEFINE B == Below(t)
             G == Below(t)'
             below == Closure(links[t], links)
             added == below \ F
  <2>1. children' = links /\ state' = [state EXCEPT ![t] = UpdateForDescendants(t, links)]
    BY <1>2, <1>8
  <2>2. /\ pool \subseteq Txs /\ IsFiniteSet(pool) /\ delta \in [Txs -> Int]
        /\ children \in [Txs -> SUBSET pool] /\ state \in [Txs -> States]
    BY DEF PoolInv, Types, TotalTypes
  <2>3. new \subseteq pool \ F
    <3>1. ASSUME NEW u \in new PROVE u \in pool \ F
      <4>1. PICK o \in {t} \X OutIdx[t] : u = next[o] /\ u # None /\ u \notin F
        BY DEF NewChildren
      <4>2. o \in Outpoints
        BY <1>3, OutpointFacts
      <4> QED BY <4>1, <4>2 DEF PoolInv, Types
    <3> QED BY <3>1
  <2>4. PICK M : M = children'
    OBVIOUS
  <2>5. M[t] = children[t] \cup new /\ \A u \in pool : u # t => M[u] = children[u]
    <3> HIDE DEF new
    <3> QED BY <1>8, <2>1, <2>2, <2>4
  <2>6. /\ Inside(pool, children)
        /\ \A u \in pool, c \in F : c \in children[u] => u \in F
        /\ \A u \in F \ Range(todo), c \in Range(todo) : u \in pool => c \notin children[u]
    <3>1. ASSUME NEW u \in pool, NEW c \in children[u] PROVE Spends(c, u)
      BY <2>2 DEF PoolInv, Links
    <3>2. \A u \in pool, c \in F : c \in children[u] => u \in F
      BY <1>1, <3>1, ParentsCameBack
    <3>3. \A u \in F \ Range(todo), c \in Range(todo) : u \in pool => c \notin children[u]
      BY <1>1, <3>1 DEF Ordered
    <3> QED BY <3>2, <3>3, PoolLinks DEF PoolInv
  <2>7. ASSUME NEW x \in pool
        PROVE  /\ Inside(pool, M)
               /\ x \notin Range(todo) => Reach(pool, {x}, M) = Reach(pool, {x}, children)
               /\ x \in F => Reach(pool, {x}, M) \cap F = Reach(pool, {x}, children) \cap F
    <3>1. PICK Q, N : Q = Range(todo) /\ N = new
      OBVIOUS
    <3>2. Turn(pool, children, F, Q, t, N, M)
      BY <1>3, <1>8, <2>3, <2>5, <2>6, <3>1 DEF Turn
    <3> HIDE DEF F
    <3>4. /\ Inside(pool, M)
          /\ x \notin Q => Reach(pool, {x}, M) = Reach(pool, {x}, children)
          /\ x \in F => Reach(pool, {x}, M) \cap F = Reach(pool, {x}, children) \cap F
      BY ONLY <2>7, <3>2, TurnReach
    <3> QED BY <3>1, <3>4
  <2>8. ASSUME NEW x \in pool
        PROVE  /\ x \notin Range(todo) => Below(x)' = Below(x)
               /\ x \in F => Below(x)' \cap F = Below(x) \cap F
    BY <1>1, <2>4, <2>7 DEF Below
  <2>9. ASSUME NEW x \in pool, x # t PROVE Reckoned(x)' = Reckoned(x)
    BY <1>3, <1>6, <2>8, <2>9
  <2>10. /\ G = {t} \cup below /\ t \in G /\ G \subseteq pool
         /\ G \cap F = B \cap F /\ G \ F = added /\ added \in SUBSET Txs /\ IsFiniteSet(added)
         /\ G \in SUBSET Txs /\ IsFiniteSet(G)
    <3>1. Reach(pool, {t}, M) = {t} \cup Reach(pool, M[t], M)
      BY <1>8, <2>7, ReachOne
    <3>2. G = {t} \cup below
      BY <1>1, <2>1, <2>4, <3>1, ClosureIsReach DEF Below
    <3>3. below \subseteq pool
      BY DEF Closure
    <3>4. G \subseteq pool /\ t \in G
      BY <1>8, <3>2, <3>3
    <3>5. G \cap F = B \cap F
      BY <1>3, <1>8, <2>8
    <3> HIDE DEF G, below
    <3>6. G \ F = added
      BY <1>3, <3>2
    <3>7. IsFiniteSet(G) /\ IsFiniteSet(added)
      BY <2>2, <3>4, <3>6, FS_Subset
    <3> QED BY <2>2, <3>2, <3>4, <3>5, <3>6, <3>7
  <2>11. Reckoned(t) = G \cap F /\ Reckoned(t)' = G
    BY <1>3, <1>4, <1>6, <1>8, <2>10
  <2>12. Own(delta, t) \in States /\ Summed(delta, G) \in States
    <3> HIDE DEF G
    <3> QED BY <2>2, <2>10, FormTypes
  <2>13. state'[t] \in {Own(delta, t), Summed(delta, G)}
    <3>1. state'[t] = UpdateForDescendants(t, links)
      BY <1>3, <2>1, <2>2
    <3>2. UpdateForDescendants(t, links) \in
             {Own(delta, t), UpdateState(t, Cardinality(added), Total(Size, added),
                                         Total(Fees(delta), added))}
      BY <2>10, SizeOfTotal, FeesTotal DEF UpdateForDescendants, Own, ModifiedFee
    <3>3. state[t] \in {Own(delta, t), Summed(delta, G \cap F)}
      BY <1>8, <2>11 DEF Totals
    <3> DEFINE after == UpdateState(t, Cardinality(added), Total(Size, added),
                                    Total(Fees(delta), added))
               R == G \cap F
    <3>4. CASE state[t] = Own(delta, t)
      <4>1. after = Own(delta, t)
        BY <3>4 DEF UpdateState, IsDirty, Own
      <4> QED BY <3>1, <3>2, <4>1
    <3>5. CASE state[t] = Summed(delta, R)
      <4>1. ~IsDirty(t)
        <5>1. R \in SUBSET Txs /\ IsFiniteSet(R) /\ t \in R
          BY <1>3, <2>10, FS_Subset
        <5> HIDE DEF R
        <5> QED BY <2>2, <3>5, <5>1, FormTypes DEF IsDirty
      <4>2. /\ Cardinality(G) = Cardinality(R) + Cardinality(added)
            /\ Cardinality(R) \in Nat /\ Cardinality(added) \in Nat
            /\ Total(Size, G) = Total(Size, R) + Total(Size, added)
            /\ Total(Size, R) \in Int /\ Total(Size, added) \in Int
            /\ Total(Fees(delta), G) = Total(Fees(delta), R) + Total(Fees(delta), added)
            /\ Total(Fees(delta), R) \in Int /\ Total(Fees(delta), added) \in Int
        <5>1. R = G \cap F /\ added = G \ F
          BY <2>10
        <5> HIDE DEF R, G, added, F
        <5>2. /\ Cardinality(G) = Cardinality(G \cap F) + Cardinality(G \ F)
              /\ Cardinality(G \cap F) \in Nat /\ Cardinality(G \ F) \in Nat
              /\ Total(Size, G) = Total(Size, G \cap F) + Total(Size, G \ F)
              /\ Total(Size, G \cap F) \in Int /\ Total(Size, G \ F) \in Int
              /\ Total(Fees(delta), G)
                     = Total(Fees(delta), G \cap F) + Total(Fees(delta), G \ F)
              /\ Total(Fees(delta), G \cap F) \in Int /\ Total(Fees(delta), G \ F) \in Int
          <6>1. delta \in [Txs -> Int] /\ G \in SUBSET Txs /\ IsFiniteSet(G)
            BY <2>2, <2>10
          <6> QED BY ONLY <6>1, Parts
        <5> QED BY <5>1, <5>2, Zenon
      <4> HIDE DEF R, G, added
      <4>3. after = Summed(delta, G)
        BY <3>5, <4>1, <4>2 DEF UpdateState, Summed
      <4> QED BY <3>1, <3>2, <4>3
    <3> QED BY <3>3, <3>4, <3>5
  <2>14. ASSUME NEW x \in pool
         PROVE  state'[x] \in {Own(delta, x), Summed(delta, Reckoned(x)')}
    <3>1. CASE x = t
      BY <2>11, <2>13, <3>1
    <3>2. CASE x # t
      <4>1. state'[x] = state[x]
        BY <2>1, <2>2, <3>2
      <4> QED BY <2>9, <3>2, <4>1 DEF Totals
    <3> QED BY <3>1, <3>2
  <2>15. state' \in [Txs -> States] /\ \A x \in Txs \ pool : state'[x] = NoState
    <3>1. state'[t] \in States
      BY <2>12, <2>13
    <3> QED BY <1>8, <2>1, <2>2, <3>1 DEF Totals
  <2>16. Totals' /\ TotalTypes'
    BY <1>1, <2>14, <2>15 DEF Totals, TotalTypes
  <2> QED BY <1>5, <2>16
<1> QED BY <1>7, <1>8

\* Entries go with all their descendants.
LEMMA StagedTotals ==
    ASSUME PoolInv, TotalTypes, Totals, pc # "update", pc' # "update",
           NEW S \in SUBSET pool, RemoveEntries(CalculateDescendants(S)),
           deltas' \in [Txs -> Int],
           \A t \in pool \ CalculateDescendants(S) : deltas'[t] = deltas[t]
    PROVE  Totals' /\ TotalTypes'
<1> DEFINE stage == CalculateDescendants(S)
<1>1. \A t \in pool : children[t] \subseteq pool
  BY DEF PoolInv, Types
<1>2. stage \in SUBSET pool /\ \A t \in stage : children[t] \subseteq stage
  BY <1>1, ClosureFacts DEF CalculateDescendants
<1>3. RemoveEntries(stage) /\ \A t \in pool \ stage : deltas'[t] = deltas[t]
  OBVIOUS
<1> HIDE DEF stage
<1> QED BY <1>2, <1>3, RemovedTotals DEF PoolInv

\* Steps that change neither the entries nor their deltas.
LEMMA QuietTotals ==
    ASSUME TotalTypes, Totals, UNCHANGED <<pool, children, state, delta, deltas>>,
           \/ pc # "update" /\ pc' # "update"
           \/ UNCHANGED <<pc, todo, readded>>
    PROVE  Totals' /\ TotalTypes'
<1>1. ASSUME NEW t \in pool PROVE Reckoned(t)' = Reckoned(t)
  <2>1. Below(t)' = Below(t)
    BY DEF Below
  <2>2. CASE pc # "update" /\ pc' # "update"
    BY <2>1, <2>2 DEF Reckoned
  <2>3. CASE UNCHANGED <<pc, todo, readded>>
    BY <2>1, <2>3 DEF Reckoned, Range
  <2> QED BY <2>2, <2>3
<1> QED BY <1>1 DEF Totals, TotalTypes

\* A transaction of the block goes alone: nothing it spends is in the pool any more.
LEMMA BlockTotals ==
    ASSUME PoolInv, TotalTypes, Totals, RemoveForBlock
    PROVE  Totals' /\ TotalTypes'
<1>0. PICK t : t = Head(todo)
  OBVIOUS
<1>1. /\ pc = "connect" /\ todo # <<>> /\ RemoveEntries(RemovedForBlock(t)) /\ pc' = pc
  BY <1>0 DEF RemoveForBlock, RemoveStaged
<1>2. PICK read \in SUBSET (IF t \in pool THEN {} ELSE Conflicts(t)) :
               deltas' = [u \in Txs |-> IF u \in read \cup {t} THEN 0 ELSE deltas[u]]
  BY <1>0 DEF RemoveForBlock
<1>3. /\ coins \in Blocks \ {Base} /\ Suffix(todo, coins) /\ todo \in Seq(Txs)
      /\ pool \subseteq Txs /\ deltas \in [Txs -> Int]
  BY <1>1 DEF PoolInv, Phases, Types, TotalTypes
<1>4. /\ t \in Txs /\ t \in Range(BlockTxs[coins])
      /\ Range(todo) = {t} \cup Range(Tail(todo)) /\ \A x \in Range(Tail(todo)) : ~Spends(t, x)
  BY <1>0, <1>1, <1>3, SuffixStep
<1>5. deltas' \in [Txs -> Int]
  BY <1>2, <1>3
<1>6. CASE t \in pool
  <2>1. RemoveEntries({t}) /\ {t} \in SUBSET pool
    BY <1>1, <1>6 DEF RemovedForBlock
  <2>2. ASSUME NEW u \in pool \ {t} PROVE children[u] \cap {t} = {}
    <3> SUFFICES ASSUME t \in children[u] PROVE FALSE
      OBVIOUS
    <3>1. Spends(t, u)
      BY <1>6 DEF PoolInv, Links
    <3>2. u \in Included(coins)
      <4>1. t \in Included(coins)
        BY <1>3, <1>4, IncludedStep
      <4> QED BY <1>3, <3>1, <4>1, IncludedTxs DEF Spends
    <3>3. u \notin Included(coins) \ Range(todo)
      BY <1>1 DEF PoolInv, Unconfirmed, Settled
    <3> QED BY <1>4, <3>1, <3>2, <3>3
  <2>3. \A u \in pool \ {t} : deltas'[u] = deltas[u]
    BY <1>2, <1>3, <1>6
  <2> QED BY <1>1, <1>5, <2>1, <2>2, <2>3, RemovedTotals DEF PoolInv
<1>7. CASE t \notin pool
  <2> DEFINE S == Conflicts(t)
  <2>1. RemoveEntries(CalculateDescendants(S))
    BY <1>1, <1>7 DEF RemovedForBlock
  <2>2. S \in SUBSET pool
    <3>1. \A o \in Ins[t] : o \in Outpoints
      BY <1>4, OutpointFacts
    <3> QED BY <3>1 DEF Conflicts, PoolInv, Types
  <2>3. read \subseteq S
    BY <1>7
  <2> HIDE DEF S
  <2>4. S \subseteq CalculateDescendants(S)
    <3>1. \A u \in pool : children[u] \subseteq pool
      BY DEF PoolInv, Types
    <3> QED BY <2>2, <3>1, ClosureFacts DEF CalculateDescendants
  <2>5. \A u \in pool \ CalculateDescendants(S) : deltas'[u] = deltas[u]
    BY <1>2, <1>3, <1>7, <2>3, <2>4
  <2> QED BY <1>1, <1>5, <2>1, <2>2, <2>5, StagedTotals
<1> QED BY <1>6, <1>7

\* A transaction of the disconnected block comes back, or what spends it goes.
LEMMA ReturnTotals ==
    ASSUME PoolInv, TotalTypes, Totals, Ordered, Resurrect
    PROVE  Totals' /\ TotalTypes' /\ Ordered'
<1>0. PICK t : t = Head(todo)
  OBVIOUS
<1>1. pc = "resurrect" /\ pc' = pc /\ todo # <<>> /\ deltas' = deltas /\ todo' = Tail(todo)
  BY DEF Resurrect
<1>2. /\ t \in Txs /\ t \notin pool /\ t \notin Range(readded) /\ readded \in Seq(Txs)
      /\ \A x \in Range(readded) : ~Spends(x, t)
  <2>1. /\ t \in Txs /\ t \notin pool /\ Range(todo) = {t} \cup Range(Tail(todo))
        /\ \A x \in Range(readded) : ~Spends(x, t)
    BY <1>0, <1>1, Returning
  <2>2. Range(readded) \cap Range(todo) = {} /\ readded \in Seq(Txs)
    BY <1>1 DEF PoolInv, Phases, Types
  <2> QED BY <2>1, <2>2
<1>3. /\ Forwards(readded) /\ \A p \in Range(readded) : children[p] \subseteq Range(readded)
      /\ children \in [Txs -> SUBSET pool] /\ pool \subseteq Txs /\ deltas' \in [Txs -> Int]
  BY <1>1 DEF Ordered, PoolInv, Types, TotalTypes
<1>4. Range(readded) \subseteq Txs
  BY <1>2, RangeFacts
<1>5. CASE AddUnchecked(t, CalculateLockPoints(t)) /\ readded' = Append(readded, t)
  <2>1. Totals' /\ TotalTypes'
    <3>1. PICK points : points = CalculateLockPoints(t)
      OBVIOUS
    <3> QED BY <1>1, <1>2, <1>5, <3>1, AddedTotals DEF PoolInv
  <2>2. Forwards(readded)'
    <3> DEFINE r == Append(readded, t)
    <3>1. /\ Len(r) = Len(readded) + 1 /\ Len(readded) \in Nat /\ r[Len(readded) + 1] = t
          /\ \A i \in 1 .. Len(readded) : r[i] = readded[i] /\ r[i] \in Range(readded)
      BY <1>2, RangeFacts
    <3> HIDE DEF r
    <3>2. ASSUME NEW i \in 1 .. Len(r), NEW j \in 1 .. Len(r), i < j
          PROVE  r[i] # r[j] /\ ~Spends(r[i], r[j])
      <4>1. i \in 1 .. Len(readded) /\ (j \in 1 .. Len(readded) \/ j = Len(readded) + 1)
        BY <3>1, <3>2
      <4>2. CASE j \in 1 .. Len(readded)
        BY <1>3, <3>1, <3>2, <4>1, <4>2 DEF Forwards
      <4>3. CASE j = Len(readded) + 1
        BY <1>2, <3>1, <4>1, <4>3
      <4> QED BY <4>1, <4>2, <4>3
    <3>3. readded' = r
      BY <1>5 DEF r
    <3> QED BY <3>2, <3>3 DEF Forwards, Spends
  <2>3. Range(readded') = Range(readded) \cup {t}
    BY <1>2, <1>5, RangeFacts
  <2>4. children' = [p \in Txs |-> IF p \in MempoolParents(t) THEN children[p] \cup {t}
                                   ELSE children[p]]
    BY <1>5 DEF AddUnchecked
  <2>5. children[t] = {} /\ t \notin MempoolParents(t)
    BY <1>2 DEF PoolInv, Links, MempoolParents
  <2>6. \A p \in Range(readded') : children'[p] \subseteq Range(readded')
    BY <1>2, <1>3, <1>4, <2>3, <2>4, <2>5
  <2>7. Range(readded)' = Range(readded')
    BY DEF Range
  <2> QED BY <1>1, <2>1, <2>2, <2>6, <2>7 DEF Ordered
<1>6. CASE RemoveEntries(RecursiveRemoves(t)) /\ readded' = readded
  <2> DEFINE S == {next[o] : o \in {t} \X OutIdx[t]} \ {None}
  <2>1. RemoveEntries(CalculateDescendants(S))
    BY <1>2, <1>6 DEF RecursiveRemoves
  <2>2. S \in SUBSET pool
    <3>1. \A o \in {t} \X OutIdx[t] : o \in Outpoints
      BY <1>2, OutpointFacts
    <3> QED BY <3>1 DEF PoolInv, Types
  <2> HIDE DEF S
  <2>3. Totals' /\ TotalTypes'
    BY <1>1, <1>3, <2>1, <2>2, StagedTotals
  <2>4. \A p \in Txs : children'[p] \subseteq children[p]
    BY <2>1 DEF RemoveEntries
  <2>5. Range(readded)' = Range(readded) /\ Forwards(readded)'
    BY <1>3, <1>6 DEF Range, Forwards, Spends
  <2>6. \A p \in Range(readded) : children'[p] \subseteq Range(readded)
    BY <1>3, <1>4, <2>4
  <2> QED BY <1>1, <2>3, <2>5, <2>6 DEF Ordered
<1> QED BY <1>0, <1>5, <1>6 DEF Resurrect, RemoveStaged

\* All that can come back has: what came back reaches only what came back.
LEMMA ReturnedTotals ==
    ASSUME PoolInv, TotalTypes, Totals, Ordered, Resurrected
    PROVE  Totals' /\ TotalTypes' /\ Ordered'
<1> DEFINE F == Range(readded)
<1>1. /\ pc = "resurrect" /\ pc' = "update" /\ todo' = Reverse(readded) /\ readded' = readded
      /\ UNCHANGED <<pool, children, state, delta, deltas>>
  BY DEF Resurrected, entryVars, linkVars
<1>2. readded \in Seq(Txs) /\ Forwards(readded) /\ \A p \in F : children[p] \subseteq F
  BY <1>1 DEF PoolInv, Types, Ordered
<1>3. Range(todo)' = F /\ Range(readded)' = F
  <2>1. Range(Reverse(readded)) = F
    BY <1>2, ReverseRange
  <2> QED BY <1>1, <2>1 DEF Range
<1>4. Backwards(Reverse(readded))
  <2> DEFINE r == Reverse(readded)
             n == Len(readded)
  <2>1. n \in Nat /\ r = [i \in 1 .. n |-> readded[(n - i) + 1]]
    BY <1>2 DEF Reverse
  <2> HIDE DEF r
  <2>2. Len(r) = n
    BY <1>2, <2>1, ReverseRange
  <2>3. ASSUME NEW i \in 1 .. n, NEW j \in 1 .. n, i < j
        PROVE  r[i] # r[j] /\ ~Spends(r[j], r[i])
    <3>1. /\ (n - i) + 1 \in 1 .. n /\ (n - j) + 1 \in 1 .. n /\ (n - j) + 1 < (n - i) + 1
          /\ r[i] = readded[(n - i) + 1] /\ r[j] = readded[(n - j) + 1]
      BY <2>1, <2>3
    <3> QED BY <1>2, <3>1 DEF Forwards
  <2>4. Backwards(r)
    BY <2>2, <2>3 DEF Backwards
  <2> QED BY <2>4 DEF r
<1>5. Ordered'
  <2>1. Backwards(todo)'
    BY <1>1, <1>4 DEF Backwards, Spends
  <2> QED BY <1>1, <1>3, <2>1 DEF Ordered
<1>6. ASSUME NEW x \in pool PROVE Reckoned(x)' = Reckoned(x)
  <2>1. Below(x)' = Below(x)
    BY <1>1 DEF Below
  <2>2. ASSUME x \in F PROVE Below(x) \subseteq F
    <3> DEFINE B == Reach(pool, {x}, children)
    <3>1. Inside(pool, children)
      BY PoolLinks DEF PoolInv
    <3>2. \A T \in SUBSET pool : x \in T /\ (\A u \in T : children[u] \subseteq T) => B \subseteq T
      BY <3>1, ReachFrom
    <3>3. /\ F \cap pool \in SUBSET pool /\ x \in F \cap pool
          /\ \A u \in F \cap pool : children[u] \subseteq F \cap pool
      BY <1>2, <2>2, <3>1 DEF Inside
    <3>4. B \subseteq F \cap pool
      <4> HIDE DEF B, F
      <4> QED BY <3>2, <3>3
    <3> QED BY <3>4 DEF Below
  <2> QED BY <1>1, <1>3, <2>1, <2>2 DEF Reckoned
<1>7. Totals' /\ TotalTypes'
  BY <1>1, <1>6 DEF Totals, TotalTypes
<1> QED BY <1>5, <1>7

\* When all had their turn, the totals are those of everything below.
LEMMA MovedTotals ==
    ASSUME PoolInv, TotalTypes, Totals, Disconnected
    PROVE  Totals' /\ TotalTypes'
<1>1. /\ pc = "update" /\ todo = <<>> /\ pc' = "moved"
      /\ UNCHANGED <<pool, children, state, delta, deltas>>
  BY DEF Disconnected, entryVars, linkVars
<1>2. Range(todo) = {}
  BY <1>1 DEF Range
<1>3. ASSUME NEW x \in pool PROVE Reckoned(x)' = Reckoned(x)
  <2>1. Below(x)' = Below(x)
    BY <1>1 DEF Below
  <2> QED BY <1>1, <1>2, <2>1 DEF Reckoned
<1> QED BY <1>1, <1>3 DEF Totals, TotalTypes

-----------------------------------------------------------------------------
(* The other types.                                                        *)

Points == [height : Int, block : Blocks]
OtherTypes ==
    /\ undone \subseteq Blocks /\ lp \in [Txs -> Points]
    /\ rolling \in Nat /\ blockSince \in BOOLEAN
    /\ pc \in {"idle", "expire", "trim", "connect", "resurrect", "update", "moved", "reorg"}

\* CalculateLockPoints finds a block of the chain.
LEMMA PointTypes ==
    ASSUME NEW t \in Txs \ Coinbases, tip \in Blocks, coins \in Anc[tip], Provided(t)
    PROVE  CalculateLockPoints(t) \in Points
<1> DEFINE H == InputHeights(t)
           n == Height[tip] + 1
           G == {0} \cup (H \ {n})
<1>1. H \in SUBSET (0 .. n) /\ H # {} /\ Height[tip] \in Nat /\ n \in Nat
  BY HeightFacts
<1>2. Max(H) \in H
  <2> HIDE DEF H, n
  <2> QED BY <1>1, MaxFacts
<1>3. Max(G) \in 0 .. Height[tip]
  <2>1. G \in SUBSET (0 .. Height[tip]) /\ G # {}
    <3>1. ASSUME NEW x \in G PROVE x \in 0 .. Height[tip]
      <4>1. x = 0 \/ (x \in H /\ x # n)
        OBVIOUS
      <4>2. x \in 0 .. n /\ x # n
        <5> HIDE DEF H
        <5> QED BY <1>1, <4>1
      <4> QED BY <1>1, <4>2
    <3>2. 0 \in G
      OBVIOUS
    <3> HIDE DEF G
    <3> QED BY <3>1, <3>2
  <2> HIDE DEF G
  <2>2. Max(G) \in G
    BY <1>1, <2>1, MaxFacts
  <2> QED BY <2>1, <2>2
<1>4. Ancestor(tip, Max(G)) \in Blocks
  <2> HIDE DEF G
  <2>1. PICK h \in 0 .. Height[tip] : h = Max(G)
    BY <1>3
  <2>2. \E a \in Anc[tip] : Height[a] = h
    BY AncFacts
  <2>3. (CHOOSE a \in Anc[tip] : Height[a] = h) \in Anc[tip]
    BY <2>2
  <2> QED BY <2>1, <2>3, AncFacts DEF Ancestor
<1>5. RelLock[t] = NoLock \/ RelLock[t] \in Nat
  BY MempoolAssumption
<1>6. (IF RelLock[t] = NoLock THEN -1 ELSE Max(H) + RelLock[t] - 1) \in Int
  <2> HIDE DEF H, n
  <2>1. Max(H) \in Int
    BY <1>1, <1>2
  <2> QED BY <1>5, <2>1
<1>7. CalculateLockPoints(t)
        = [height |-> IF RelLock[t] = NoLock THEN -1 ELSE Max(H) + RelLock[t] - 1,
           block |-> Ancestor(tip, Max(G))]
  BY DEF CalculateLockPoints
<1> HIDE DEF H, n, G
<1> QED BY <1>4, <1>6, <1>7 DEF Points

LEMMA AddedPoints ==
    ASSUME PoolInv, OtherTypes, NEW t \in Txs, Acceptable(t),
           AddUnchecked(t, CalculateLockPoints(t)), coins \in Anc[tip]
    PROVE  lp' \in [Txs -> Points]
<1>1. tip \in Blocks /\ coins \in Blocks /\ t \in Txs \ Coinbases
  BY DEF PoolInv, Types, Acceptable
<1>2. Provided(t)
  BY <1>1, OutpointFacts, UnspentFacts DEF Provided, Acceptable
<1>3. CalculateLockPoints(t) \in Points
  BY <1>1, <1>2, PointTypes
<1>4. lp' = [lp EXCEPT ![t] = CalculateLockPoints(t)]
  BY DEF AddUnchecked
<1> QED BY <1>3, <1>4 DEF OtherTypes

LEMMA KeptPoints ==
    ASSUME OtherTypes, NEW stage, RemoveStaged(stage)
    PROVE  lp' \in [Txs -> Points]
<1>1. NoPoints \in Points
  BY MempoolAssumption DEF NoPoints, Points
<1>2. lp' = [t \in Txs |-> IF t \in stage THEN NoPoints ELSE lp[t]]
  BY DEF RemoveStaged
<1> QED BY <1>1, <1>2 DEF OtherTypes

LEMMA ReorgPoints ==
    ASSUME ReadyInv, OtherTypes, RemoveForReorg
    PROVE  lp' \in [Txs -> Points]
<1>1. pc = "reorg"
  BY DEF RemoveForReorg
<1>2. PICK stage : lp' = [t \in Txs |-> IF t \in stage THEN NoPoints
                                          ELSE IF t \in pool THEN PointsNow(t) ELSE lp[t]]
  BY DEF RemoveForReorg
<1>3. /\ tip = coins /\ tip \in Blocks /\ coins \in Anc[tip] /\ pool \subseteq Txs
      /\ Settled = Included(coins)
  BY <1>1, Calm, BlockFacts DEF ReadyInv, PoolInv, Phases, Types
<1>4. ASSUME NEW t \in pool PROVE PointsNow(t) \in Points
  <2>1. t \in Txs \ Coinbases /\ Provided(t)
    BY <1>3 DEF ReadyInv, PoolInv, Available, Cached, Provided
  <2>2. CalculateLockPoints(t) \in Points /\ lp[t] \in Points
    BY <1>3, <2>1, PointTypes DEF OtherTypes
  <2> QED BY <2>2 DEF PointsNow
<1>5. NoPoints \in Points
  BY MempoolAssumption DEF NoPoints, Points
<1> QED BY <1>2, <1>4, <1>5 DEF OtherTypes

\* GetMinFee never raises the rolling minimum, TrimToSize never lowers it.
LEMMA DecayedTypes == ASSUME OtherTypes, NEW r \in Decayed PROVE r \in Nat
  BY DEF OtherTypes, Decayed

LEMMA TrimRate ==
    ASSUME PoolInv, TotalTypes, Totals, OtherTypes, pc # "update", TrimToSize
    PROVE  rolling' \in Nat /\ blockSince' \in BOOLEAN
<1>1. PICK t \in LowestScore :
          IF state[t].fees \div state[t].size + MinRelay > rolling
          THEN /\ rolling' = state[t].fees \div state[t].size + MinRelay
               /\ blockSince' = FALSE
          ELSE UNCHANGED feeVars
  BY DEF TrimToSize
<1> DEFINE B == Below(t)
<1>2. /\ t \in pool /\ t \in Txs /\ pool \subseteq Txs /\ delta \in [Txs -> Int]
      /\ rolling \in Nat /\ blockSince \in BOOLEAN /\ MinRelay \in Nat /\ state[t] \in States
  BY MempoolAssumption DEF LowestScore, PoolInv, Types, TotalTypes, OtherTypes
<1>3. t \in B /\ B \in SUBSET Txs /\ IsFiniteSet(B)
  <2>1. t \in B /\ B \subseteq pool
    BY <1>2, PoolLinks DEF PoolInv
  <2> HIDE DEF B
  <2> QED BY <1>2, <2>1, FS_Subset DEF TotalTypes
<1>4. state[t] \in {Own(delta, t), Summed(delta, B)}
  BY <1>2 DEF Totals, Reckoned
<1> HIDE DEF B
<1>5. Size[t] \in Nat \ {0} /\ Total(Size, B) >= Size[t] /\ Total(Size, B) \in Int
  <2>1. SizeOf({t}) <= SizeOf(B) /\ SizeOf(B) \in Int
    BY <1>3, SizeShrinks
  <2>2. Total(Size, {t}) = Size[t] /\ Size[t] \in Nat \ {0}
    BY <1>2, Single
  <2> QED BY <2>1, <2>2, SizeOfTotal
<1>6. state[t].size \in Nat \ {0} /\ state[t].fees \in Int
  <2>1. state[t].size = Size[t] \/ state[t].size = Total(Size, B)
    BY <1>4 DEF Own, Summed
  <2>2. state[t].fees \in Int
    BY <1>2 DEF States
  <2> QED BY <1>5, <2>1, <2>2
<1>7. PICK rate \in Int : rate = state[t].fees \div state[t].size
  BY <1>6
<1>8. /\ rolling' = IF rate + MinRelay > rolling THEN rate + MinRelay ELSE rolling
      /\ blockSince' = FALSE \/ blockSince' = blockSince
  BY <1>1, <1>7 DEF feeVars
<1>9. rolling' \in Nat
  BY <1>2, <1>7, <1>8
<1>10. blockSince' \in BOOLEAN
  BY <1>2, <1>8, Zenon
<1> QED BY <1>9, <1>10

-----------------------------------------------------------------------------
(* All of PoolConsistent.                                                  *)

TotalsInv == ReadyInv /\ TotalTypes /\ Totals /\ Ordered /\ OtherTypes

LEMMA TotalsStep == TotalsInv /\ [Next]_vars => (TotalTypes /\ Totals /\ Ordered /\ OtherTypes)'
<1> SUFFICES ASSUME TotalsInv, [Next]_vars
             PROVE  TotalTypes' /\ Totals' /\ Ordered' /\ OtherTypes'
  OBVIOUS
<1>1. /\ PoolInv /\ ReadyInv /\ TotalTypes /\ Totals /\ Ordered /\ OtherTypes
      /\ tip \in Blocks /\ tip \in Anc[tip] /\ pool \subseteq Txs /\ deltas \in [Txs -> Int]
      /\ mode \in {"none", "accept", "extend", "step", "connect", "invalidate"}
  BY BlockFacts DEF TotalsInv, ReadyInv, PoolInv, Types, TotalTypes, Modes
<1>2. ASSUME pc' \notin {"resurrect", "update"} PROVE Ordered'
  BY <1>2 DEF Ordered
<1>3. ASSUME NEW stage, RemoveStaged(stage) PROVE lp' \in [Txs -> Points] /\ RemoveEntries(stage)
  BY <1>1, <1>3, KeptPoints DEF RemoveStaged
<1>4. ASSUME NEW t \in Txs, AcceptToMemoryPool(t)
      PROVE  TotalTypes' /\ Totals' /\ Ordered' /\ OtherTypes'
  <2>1. /\ pc = "idle" /\ pc' = "expire" /\ Acceptable(t) /\ deltas' = deltas
        /\ AddUnchecked(t, CalculateLockPoints(t)) /\ undone' = undone /\ blockSince' = blockSince
        /\ \E r \in Decayed : rolling' = r
    BY <1>4 DEF AcceptToMemoryPool
  <2>2. t \in Txs \ pool /\ coins = tip
    BY <1>1, <2>1 DEF Acceptable, PoolInv, Phases
  <2>3. PICK points : points = CalculateLockPoints(t)
    OBVIOUS
  <2>4. Totals' /\ TotalTypes'
    BY <1>1, <2>1, <2>2, <2>3, AddedTotals DEF PoolInv
  <2>5. lp' \in [Txs -> Points]
    BY <1>1, <2>1, <2>2, AddedPoints
  <2>6. rolling' \in Nat
    BY <1>1, <2>1, DecayedTypes
  <2> QED BY <1>1, <1>2, <2>1, <2>4, <2>5, <2>6 DEF OtherTypes
<1>5. ASSUME NEW t \in Txs, PrioritiseTransaction(t)
      PROVE  TotalTypes' /\ Totals' /\ Ordered' /\ OtherTypes'
  <2>1. pc = "idle" /\ pc' = pc /\ UNCHANGED <<undone, lp, rolling, blockSince>>
    BY <1>5 DEF PrioritiseTransaction, feeVars, callVars
  <2>2. Totals' /\ TotalTypes'
    BY <1>1, <1>5, <2>1, PrioritisedTotals DEF PoolInv
  <2> QED BY <1>1, <1>2, <2>1, <2>2 DEF OtherTypes
<1>6. CASE GetMinFee
  <2>1. /\ pc = "idle" /\ pc' = pc /\ UNCHANGED <<undone, lp, blockSince>>
        /\ UNCHANGED <<pool, children, state, delta, deltas>> /\ \E r \in Decayed : rolling' = r
    BY <1>6 DEF GetMinFee, entryVars, linkVars, callVars
  <2>2. Totals' /\ TotalTypes'
    BY <1>1, <2>1, QuietTotals
  <2>3. rolling' \in Nat
    BY <1>1, <2>1, DecayedTypes
  <2> QED BY <1>1, <1>2, <2>1, <2>2, <2>3 DEF OtherTypes
<1>7. CASE Expire
  <2>1. PICK old \in SUBSET (pool \ Range(todo)) : RemoveStaged(CalculateDescendants(old))
    BY <1>7 DEF Expire
  <2>2. /\ pc = "expire" /\ pc' = "trim" /\ deltas' = deltas
        /\ UNCHANGED <<undone, rolling, blockSince>>
    BY <1>7 DEF Expire, feeVars
  <2>3. old \in SUBSET pool /\ lp' \in [Txs -> Points] /\ RemoveEntries(CalculateDescendants(old))
    BY <1>3, <2>1
  <2>4. Totals' /\ TotalTypes'
    BY <1>1, <2>2, <2>3, StagedTotals
  <2> QED BY <1>1, <1>2, <2>2, <2>3, <2>4 DEF OtherTypes
<1>8. CASE TrimToSize
  <2>1. PICK t \in LowestScore : RemoveStaged(CalculateDescendants({t}))
    BY <1>8 DEF TrimToSize
  <2>2. pc = "trim" /\ pc' = pc /\ deltas' = deltas /\ undone' = undone
    BY <1>8 DEF TrimToSize, callVars
  <2>3. /\ {t} \in SUBSET pool /\ lp' \in [Txs -> Points]
        /\ RemoveEntries(CalculateDescendants({t}))
    BY <1>3, <2>1 DEF LowestScore
  <2>4. Totals' /\ TotalTypes'
    <3>1. PICK S : S = {t}
      OBVIOUS
    <3> QED BY <1>1, <2>2, <2>3, <3>1, StagedTotals
  <2>5. rolling' \in Nat /\ blockSince' \in BOOLEAN
    BY <1>1, <1>8, <2>2, TrimRate
  <2> QED BY <1>1, <1>2, <2>2, <2>3, <2>4, <2>5 DEF OtherTypes
<1>9. CASE Trimmed
  <2>1. /\ pc = "trim" /\ pc' \in {"reorg", "idle"} /\ undone' \in {undone, {}}
        /\ UNCHANGED <<pool, children, state, delta, deltas, lp, rolling, blockSince>>
    BY <1>9 DEF Trimmed, entryVars, linkVars, feeVars
  <2>2. Totals' /\ TotalTypes'
    BY <1>1, <2>1, QuietTotals
  <2> QED BY <1>1, <1>2, <2>1, <2>2 DEF OtherTypes
<1>10. ASSUME NEW b \in Blocks, ConnectTip(b)
       PROVE  TotalTypes' /\ Totals' /\ Ordered' /\ OtherTypes'
  <2>1. /\ pc \in {"idle", "moved"} /\ pc' = "connect" /\ undone' = undone
        /\ UNCHANGED <<pool, children, state, delta, deltas, lp, rolling, blockSince>>
    BY <1>10 DEF ConnectTip, entryVars, linkVars, feeVars
  <2>2. Totals' /\ TotalTypes'
    BY <1>1, <2>1, QuietTotals
  <2> QED BY <1>1, <1>2, <2>1, <2>2 DEF OtherTypes
<1>11. CASE RemoveForBlock
  <2>1. /\ pc = "connect" /\ pc' = pc /\ UNCHANGED <<undone, rolling, blockSince>>
        /\ RemoveStaged(RemovedForBlock(Head(todo)))
    BY <1>11 DEF RemoveForBlock, feeVars
  <2>2. Totals' /\ TotalTypes' /\ lp' \in [Txs -> Points]
    BY <1>1, <1>3, <1>11, <2>1, BlockTotals
  <2> QED BY <1>1, <1>2, <2>1, <2>2 DEF OtherTypes
<1>12. CASE Connected
  <2>1. /\ pc = "connect" /\ pc' \in {"idle", "moved"} /\ undone' = undone /\ blockSince' = TRUE
        /\ UNCHANGED <<pool, children, state, delta, deltas, lp, rolling>>
    BY <1>12 DEF Connected, entryVars, linkVars
  <2>2. Totals' /\ TotalTypes'
    BY <1>1, <2>1, QuietTotals
  <2> QED BY <1>1, <1>2, <2>1, <2>2 DEF OtherTypes
<1>13. ASSUME NEW caller \in {"step", "invalidate"}, DisconnectTip(caller)
       PROVE  TotalTypes' /\ Totals' /\ Ordered' /\ OtherTypes'
  <2>1. /\ pc \in {"idle", "moved"} /\ pc' = "resurrect" /\ undone' = undone \cup {tip}
        /\ readded' = <<>>
        /\ UNCHANGED <<pool, children, state, delta, deltas, lp, rolling, blockSince>>
    BY <1>13 DEF DisconnectTip, entryVars, linkVars, feeVars
  <2>2. Totals' /\ TotalTypes'
    BY <1>1, <2>1, QuietTotals
  <2>3. Ordered'
    <3>1. Range(readded)' = {} /\ Forwards(readded)'
      BY <2>1 DEF Range, Forwards
    <3> QED BY <2>1, <3>1 DEF Ordered
  <2> QED BY <1>1, <2>1, <2>2, <2>3 DEF OtherTypes
<1>14. CASE Resurrect
  <2>1. /\ pc = "resurrect" /\ pc' = pc /\ todo # <<>> /\ UNCHANGED <<undone, blockSince>>
        /\ \E r \in Decayed : rolling' = r
    BY <1>14 DEF Resurrect
  <2>2. Totals' /\ TotalTypes' /\ Ordered'
    BY <1>1, <1>14, ReturnTotals
  <2>3. rolling' \in Nat
    BY <1>1, <2>1, DecayedTypes
  <2>4. lp' \in [Txs -> Points]
    <3>1. PICK t : t = Head(todo)
      OBVIOUS
    <3>2. CASE Acceptable(t) /\ AddUnchecked(t, CalculateLockPoints(t))
      <4>1. t \in Txs /\ coins = Parent[tip] /\ tip # Base
        BY <1>1, <2>1, <3>1, Returning
      <4>2. coins \in Anc[tip]
        BY <1>1, <4>1, BlockFacts
      <4> QED BY <1>1, <3>2, <4>1, <4>2, AddedPoints
    <3>3. CASE RemoveStaged(RecursiveRemoves(t))
      BY <1>3, <3>3
    <3> QED BY <1>14, <3>1, <3>2, <3>3 DEF Resurrect
  <2> QED BY <1>1, <2>1, <2>2, <2>3, <2>4 DEF OtherTypes
<1>15. CASE Resurrected
  <2>1. pc' = "update" /\ UNCHANGED <<lp, undone, rolling, blockSince>>
    BY <1>15 DEF Resurrected, entryVars, feeVars
  <2>2. Totals' /\ TotalTypes' /\ Ordered'
    BY <1>1, <1>15, ReturnedTotals
  <2> QED BY <1>1, <2>1, <2>2 DEF OtherTypes
<1>16. CASE UpdateTransactionsFromBlock
  <2>1. pc' = pc /\ UNCHANGED <<lp, undone, rolling, blockSince>>
    BY <1>16 DEF UpdateTransactionsFromBlock, feeVars
  <2>2. Totals' /\ TotalTypes' /\ Ordered'
    BY <1>1, <1>16, TurnTotals
  <2> QED BY <1>1, <2>1, <2>2 DEF OtherTypes
<1>17. CASE Disconnected
  <2>1. pc' = "moved" /\ UNCHANGED <<lp, undone, rolling, blockSince>>
    BY <1>17 DEF Disconnected, entryVars, feeVars
  <2>2. Totals' /\ TotalTypes'
    BY <1>1, <1>17, MovedTotals
  <2> QED BY <1>1, <1>2, <2>1, <2>2 DEF OtherTypes
<1>18. CASE CallEnds
  <2>1. /\ pc = "moved" /\ pc' \in {"expire", "reorg"} /\ undone' = undone
        /\ UNCHANGED <<pool, children, state, delta, deltas, lp, rolling, blockSince>>
    BY <1>18 DEF CallEnds, entryVars, linkVars, feeVars
  <2>2. Totals' /\ TotalTypes'
    BY <1>1, <2>1, QuietTotals
  <2> QED BY <1>1, <1>2, <2>1, <2>2 DEF OtherTypes
<1>19. CASE RemoveForReorg
  <2>1. /\ pc = "reorg" /\ pc' \in {"idle", "expire"} /\ undone' \in {undone, {}}
        /\ deltas' = deltas /\ UNCHANGED <<rolling, blockSince>>
        /\ RemoveEntries(CalculateDescendants(Unminable)) /\ Unminable \in SUBSET pool
    BY <1>19 DEF RemoveForReorg, AfterReorg, Unminable, feeVars
  <2>2. Totals' /\ TotalTypes'
    BY <1>1, <2>1, StagedTotals
  <2>3. lp' \in [Txs -> Points]
    BY <1>1, <1>19, ReorgPoints
  <2> QED BY <1>1, <1>2, <2>1, <2>2, <2>3 DEF OtherTypes
<1>20. CASE UNCHANGED vars
  <2>1. /\ UNCHANGED <<pool, children, state, delta, deltas, lp, rolling, blockSince>>
        /\ UNCHANGED <<pc, todo, readded, undone>>
    BY <1>20 DEF vars, entryVars, linkVars, feeVars, callVars
  <2>2. Totals' /\ TotalTypes'
    BY <1>1, <2>1, QuietTotals
  <2>3. Ordered'
    <3>1. /\ Range(readded)' = Range(readded) /\ Range(todo)' = Range(todo)
          /\ Forwards(readded)' = Forwards(readded) /\ Backwards(todo)' = Backwards(todo)
          /\ \A p, c : Spends(c, p)' = Spends(c, p)
      BY <2>1 DEF Range, Forwards, Backwards, Spends
    <3> QED BY <1>1, <2>1, <3>1 DEF Ordered
  <2> QED BY <1>1, <2>1, <2>2, <2>3 DEF OtherTypes
<1> QED BY <1>4, <1>5, <1>6, <1>7, <1>8, <1>9, <1>10, <1>11, <1>12, <1>13, <1>14,
           <1>15, <1>16, <1>17, <1>18, <1>19, <1>20 DEF Next

\* CTxMemPool::check: whatever is accepted, prioritised, evicted, mined or brought back by a
\* disconnected block, mapNextTx and mapLinks are exact, and the count, size and fees that
\* an entry caches are those of everything below it, or the entry is dirty and has its own
\* (PoolConsistent).
THEOREM ConsistentCorrect == Spec => []PoolConsistent
<1>1. Init => TotalsInv
  <2> SUFFICES ASSUME Init PROVE TotalsInv
    OBVIOUS
  <2>1. ReadyInv
    <3>1. Modes /\ Cached /\ RipeWhenDue
      BY DEF Init, Modes, Cached, RipeWhenDue
    <3> QED BY <3>1, PoolInit DEF ReadyInv
  <2>2. TotalTypes /\ Totals
    BY FS_EmptySet DEF Init, TotalTypes, Totals, NoState, States
  <2>3. Ordered /\ OtherTypes
    <3>1. Ordered /\ blockSince \in BOOLEAN
      BY DEF Init, Ordered
    <3>2. NoPoints \in Points
      BY MempoolAssumption DEF NoPoints, Points
    <3> QED BY <3>1, <3>2 DEF Init, OtherTypes
  <2> QED BY <2>1, <2>2, <2>3 DEF TotalsInv
<1>2. TotalsInv /\ [Next]_vars => TotalsInv'
  BY PoolStep, ModesStep, RipeStep, TotalsStep DEF TotalsInv, ReadyInv
<1>3. TotalsInv => PoolConsistent
  <2> SUFFICES ASSUME TotalsInv PROVE TypeOK /\ LinksExact /\ DescendantsExact
    BY DEF PoolConsistent
  <2>1. PoolInv /\ Modes /\ TotalTypes /\ Totals /\ OtherTypes
    BY DEF TotalsInv, ReadyInv
  <2>2. TypeOK
    BY <2>1 DEF TypeOK, PoolInv, Types, Modes, TotalTypes, States, OtherTypes, Points
  <2>3. LinksExact
    BY <2>1, LinksHold
  <2>4. \A t \in pool : delta[t] = deltas[t]
    BY <2>1 DEF Totals
  <2>5. ASSUME Linked, NEW t \in pool,
               NEW all, all = IF IsDirty(t) THEN {t}
                              ELSE Closure({t}, [p \in pool |-> {c \in pool : Spends(c, p)}])
        PROVE  /\ ~IsDirty(t) => state[t].count = Cardinality(all)
               /\ state[t].size = SizeOf(all) /\ state[t].fees = MapThenSumSet(ModifiedFee, all)
    <3>1. /\ t \in Txs /\ pool \subseteq Txs /\ IsFiniteSet(pool) /\ delta \in [Txs -> Int]
          /\ state[t] \in {Own(delta, t), Summed(delta, Below(t))}
          /\ t \in Below(t) /\ Below(t) \in SUBSET Txs /\ IsFiniteSet(Below(t))
      <4>1. t \in Below(t) /\ Below(t) \subseteq pool
        BY <2>1, PoolLinks DEF PoolInv
      <4>2. pool \subseteq Txs /\ IsFiniteSet(pool) /\ delta \in [Txs -> Int]
        BY <2>1 DEF PoolInv, Types, TotalTypes
      <4>3. state[t] \in {Own(delta, t), Summed(delta, Below(t))}
        BY <2>1, <2>5 DEF Totals, Reckoned, Linked
      <4> QED BY <4>1, <4>2, <4>3, FS_Subset
    <3>2. CASE IsDirty(t)
      <4>1. state[t] = Own(delta, t)
        BY <3>1, <3>2, FormTypes DEF IsDirty
      <4>2. all = {t} /\ {t} \in SUBSET Txs
        BY <2>5, <3>1, <3>2
      <4>3. /\ IsFiniteSet({t}) /\ Total(Size, {t}) = Size[t]
            /\ Total(Fees(delta), {t}) = Fee[t] + delta[t]
        BY <3>1, Single
      <4>4. SizeOf(all) = Size[t] /\ MapThenSumSet(ModifiedFee, all) = Fee[t] + delta[t]
        BY <4>2, <4>3, SizeOfTotal, FeesTotal
      <4> QED BY <3>2, <4>1, <4>4 DEF Own
    <3>3. CASE ~IsDirty(t)
      <4> DEFINE M == [p \in pool |-> {c \in pool : Spends(c, p)}]
      <4>1. state[t] = Summed(delta, Below(t))
        BY <3>1, <3>3 DEF IsDirty, Own
      <4>2. Inside(pool, M) /\ \A p \in pool : M[p] = children[p]
        BY <2>3, <2>5 DEF Inside, LinksExact
      <4>3. Inside(pool, children)
        BY <2>1, PoolLinks DEF PoolInv
      <4> HIDE DEF M
      <4>4. PICK S : S = {t}
        OBVIOUS
      <4>5. S \in SUBSET pool /\ \A p \in Reach(pool, S, children) : M[p] = children[p]
        BY <2>5, <4>2, <4>4 DEF Reach
      <4>6. Reach(pool, S, M) = Reach(pool, S, children)
        BY ONLY <4>2, <4>3, <4>5, ReachSame
      <4>7. all = Below(t)
        BY <2>5, <3>3, <4>4, <4>6, ClosureIsReach DEF Below, M
      <4>8. /\ SizeOf(all) = Total(Size, all)
            /\ MapThenSumSet(ModifiedFee, all) = Total(Fees(delta), all)
        BY <3>1, <4>7, SizeOfTotal, FeesTotal
      <4> QED BY <4>1, <4>7, <4>8 DEF Summed
    <3> QED BY <3>2, <3>3
  <2>6. DescendantsExact
    BY <2>4, <2>5 DEF DescendantsExact
  <2> QED BY <2>2, <2>3, <2>6
<1> QED BY <1>1, <1>2, <1>3, PTL DEF Spec

=============================================================================
