--------------------------- MODULE TxRelayProofs ----------------------------
(***************************************************************************)
(* Proofs about TxRelay, for any transactions, peers and limits: the index *)
(* of the orphan cache, its size, the requests to an honest peer, and the  *)
(* filter of rejected transactions.                                        *)
(***************************************************************************)
EXTENDS TxRelay, FiniteSetTheorems, TLAPS

-----------------------------------------------------------------------------
(* The orphan cache.                                                       *)

\* The index of c by previous transaction is exact: PrevIndexExact for any c.
IndexOf(c) ==
    /\ DOMAIN c.byPrev = UNION {Prevs(t) : t \in DOMAIN c.from}
    /\ \A q \in DOMAIN c.byPrev : c.byPrev[q] = {t \in DOMAIN c.from : q \in Prevs(t)}

\* After AddOrphanTx there is at most one orphan more.
LEMMA AddedDomain ==
    ASSUME NEW c, NEW t, NEW p
    PROVE  DOMAIN AddOrphanTx(c, t, p).from \subseteq DOMAIN c.from \cup {t}
BY DEF AddOrphanTx, With

\* AddOrphanTx puts the orphan under each of its previous transactions.
LEMMA AddKeepsIndex ==
    ASSUME NEW c, NEW t, NEW p, IndexOf(c)
    PROVE  IndexOf(AddOrphanTx(c, t, p))
<1>1. CASE t \in DOMAIN c.from \cup Big
  BY <1>1 DEF AddOrphanTx
<1>2. CASE t \notin DOMAIN c.from \cup Big
  <2> DEFINE d == AddOrphanTx(c, t, p)
  <2>1. DOMAIN d.from = DOMAIN c.from \cup {t}
    BY <1>2 DEF AddOrphanTx, With
  <2>2. DOMAIN d.byPrev = DOMAIN c.byPrev \cup Prevs(t)
    BY <1>2 DEF AddOrphanTx
  <2>3. \A q \in DOMAIN d.byPrev :
            d.byPrev[q] = (IF q \in DOMAIN c.byPrev THEN c.byPrev[q] ELSE {})
                              \cup (IF q \in Prevs(t) THEN {t} ELSE {})
    BY <1>2 DEF AddOrphanTx
  <2>4. DOMAIN d.byPrev = UNION {Prevs(u) : u \in DOMAIN d.from}
    BY <2>1, <2>2 DEF IndexOf
  <2>5. \A q \in DOMAIN d.byPrev : d.byPrev[q] = {u \in DOMAIN d.from : q \in Prevs(u)}
    BY <2>1, <2>2, <2>3 DEF IndexOf
  <2> QED BY <2>4, <2>5 DEF IndexOf
<1> QED BY <1>1, <1>2

\* EraseOrphans takes the orphans out of the index as well, and empty sets with them.
LEMMA EraseKeepsIndex ==
    ASSUME NEW c, NEW E, IndexOf(c)
    PROVE  IndexOf(EraseOrphans(c, E))
<1> DEFINE gone == E \cap DOMAIN c.from
           d == EraseOrphans(c, E)
<1>1. DOMAIN d.from = DOMAIN c.from \ gone
  BY DEF EraseOrphans
<1>2. DOMAIN d.byPrev = {q \in DOMAIN c.byPrev : Left(c, q, gone) # {}}
  BY DEF EraseOrphans
<1>3. \A q \in DOMAIN d.byPrev : d.byPrev[q] = Left(c, q, gone)
  BY DEF EraseOrphans
<1>4. \A q \in DOMAIN c.byPrev : Left(c, q, gone) = {t \in DOMAIN d.from : q \in Prevs(t)}
  BY <1>1 DEF Left, IndexOf
<1>5. DOMAIN d.byPrev = UNION {Prevs(t) : t \in DOMAIN d.from}
  <2>1. ASSUME NEW q \in DOMAIN d.byPrev
        PROVE  q \in UNION {Prevs(t) : t \in DOMAIN d.from}
    BY <1>2, <1>4
  <2>2. ASSUME NEW t \in DOMAIN d.from, NEW q \in Prevs(t)
        PROVE  q \in DOMAIN d.byPrev
    BY <1>1, <1>2, <1>4 DEF IndexOf
  <2> QED BY <2>1, <2>2
<1> QED BY <1>2, <1>3, <1>4, <1>5 DEF IndexOf

\* EraseOrphans adds no orphan.
LEMMA ErasedDomain ==
    ASSUME NEW c, NEW E
    PROVE  DOMAIN EraseOrphans(c, E).from = DOMAIN c.from \ E
BY DEF EraseOrphans

\* LimitOrphanTxSize brings the cache down to the limit.
LEMMA LimitedSize ==
    ASSUME NEW c, IsFiniteSet(DOMAIN c.from), NEW d \in LimitOrphanTxSize(c)
    PROVE  IsFiniteSet(DOMAIN d.from) /\ Cardinality(DOMAIN d.from) <= Limit
<1>1. PICK E \in SUBSET DOMAIN c.from :
          Cardinality(E) = Excess(c) /\ d = EraseOrphans(c, E)
  BY DEF LimitOrphanTxSize
<1>2. DOMAIN d.from = DOMAIN c.from \ E
  BY <1>1, ErasedDomain
<1>3. Limit \in Nat /\ Cardinality(DOMAIN c.from) \in Nat
  BY TxRelayAssumption, FS_CardinalityType
<1>4. E \cap DOMAIN c.from = E
  OBVIOUS
<1>5. Cardinality(DOMAIN d.from) = Cardinality(DOMAIN c.from) - Cardinality(E)
  BY <1>2, <1>4, FS_Difference
<1>6. IsFiniteSet(DOMAIN d.from)
  BY <1>2, FS_Difference
<1> QED BY <1>1, <1>3, <1>5, <1>6 DEF Excess

-----------------------------------------------------------------------------
(* What a step does to the cache.                                          *)

\* A step of the loop of the TX handler for one orphan.
OrphanStep(o) ==
    \/ OrphanSkipped(o) \/ OrphanAccepted(o) \/ OrphanWaits(o)
    \/ \E v \in Refusals : OrphanRejected(o, v)

\* An orphan is added and the cache limited, or orphans are erased; no other step
\* touches the cache.
LEMMA CacheSteps ==
    ASSUME [Next]_vars
    PROVE  \/ cache' = cache
           \/ \E t \in Tx, p \in Peers : cache' \in LimitOrphanTxSize(AddOrphanTx(cache, t, p))
           \/ \E E : cache' = EraseOrphans(cache, E)
           \/ \E E, F : cache' = EraseOrphans(EraseOrphans(cache, E), F)
<1>1. CASE UNCHANGED vars
  BY <1>1 DEF vars
<1>2. ASSUME NEW p \in Peers, NEW t \in Announced, InvMessage(p, t)
      PROVE  cache' = cache
  BY <1>2 DEF InvMessage
<1>3. ASSUME NEW p \in Peers, NEW t \in Tx, TxMessage(p, t)
      PROVE  cache' = cache \/ cache' \in LimitOrphanTxSize(AddOrphanTx(cache, t, p))
  BY <1>3 DEF TxMessage, TxAccepted, TxMissingInputs, TxRejected
<1>4. ASSUME NEW p \in Peers, SendMessages(p) \/ DisconnectPeer(p)
      PROVE  cache' = cache
  BY <1>4 DEF SendMessages, DisconnectPeer
<1>5. ASSUME NEW o \in Tx, OrphanStep(o) PROVE cache' = cache
  BY <1>5 DEF OrphanStep, OrphanSkipped, OrphanAccepted, OrphanRejected, OrphanWaits
<1>6. CASE NextWork
  BY <1>6 DEF NextWork
<1>7. CASE FinishTx
  <2>1. PICK old : cache' = EraseOrphans(EraseOrphans(cache, job.erase), old)
    BY <1>7 DEF FinishTx
  <2> QED BY <2>1
<1>8. CASE Tick
  BY <1>8 DEF Tick
<1>9. ASSUME NEW sent \in BOOLEAN, NewTip(sent)
      PROVE  cache' = cache \/ \E E : cache' = EraseOrphans(cache, E)
  <2>1. CASE sent
    <3>1. cache' = EraseOrphans(cache, Tips[tip + 1].last)
      BY <1>9, <2>1 DEF NewTip
    <3> QED BY <3>1
  <2>2. CASE ~sent
    BY <1>9, <2>2 DEF NewTip
  <2> QED BY <2>1, <2>2
<1>10. ASSUME NEW t \in Tx, NEW v, SendRawTransaction(t, v)
       PROVE  cache' = cache
  BY <1>10 DEF SendRawTransaction
<1>11. ASSUME NEW txs \in SUBSET Tx, OtherBlock(txs) PROVE cache' = EraseOrphans(cache, txs)
  BY <1>11 DEF OtherBlock
<1> QED
  BY <1>1, <1>2, <1>3, <1>4, <1>5, <1>6, <1>7, <1>8, <1>9, <1>10, <1>11
     DEF Next, OrphanLoop, OrphanStep

-----------------------------------------------------------------------------
(* The theorems about the cache.                                           *)

\* m_mapOrphanTransactionsByPrev lists exactly the orphans under all they spend from,
\* for any transactions and any limit.
THEOREM IndexCorrect == Spec => []PrevIndexExact
<1>1. PrevIndexExact <=> IndexOf(cache)
  BY DEF PrevIndexExact, IndexOf, Orphans
<1>2. Init => IndexOf(cache)
  BY DEF Init, IndexOf
<1>3. IndexOf(cache) /\ [Next]_vars => IndexOf(cache)'
  <2> SUFFICES ASSUME IndexOf(cache), [Next]_vars PROVE IndexOf(cache')
    BY DEF IndexOf
  <2>1. ASSUME NEW t, NEW p, cache' \in LimitOrphanTxSize(AddOrphanTx(cache, t, p))
        PROVE  IndexOf(cache')
    <3>1. IndexOf(AddOrphanTx(cache, t, p))
      BY AddKeepsIndex
    <3>2. PICK E : cache' = EraseOrphans(AddOrphanTx(cache, t, p), E)
      BY <2>1 DEF LimitOrphanTxSize
    <3> QED BY <3>1, <3>2, EraseKeepsIndex
  <2>2. ASSUME NEW E PROVE IndexOf(EraseOrphans(cache, E))
    BY EraseKeepsIndex
  <2>3. ASSUME NEW E, NEW F PROVE IndexOf(EraseOrphans(EraseOrphans(cache, E), F))
    BY <2>2, EraseKeepsIndex
  <2> QED BY <2>1, <2>2, <2>3, CacheSteps
<1> QED BY <1>1, <1>2, <1>3, PTL DEF Spec

\* The orphans are finitely many, and no more than -maxorphantx.
FiniteAndBounded == IsFiniteSet(Orphans) /\ Cardinality(Orphans) <= Limit

\* The orphan cache never holds more than -maxorphantx transactions when a handler has
\* returned, for every limit and any number of transactions and peers.
THEOREM SizeCorrect == Spec => []OrphansBounded
<1>1. Init => FiniteAndBounded
  <2> SUFFICES ASSUME Init PROVE FiniteAndBounded
    OBVIOUS
  <2>1. Orphans = {}
    BY DEF Init, Orphans
  <2> QED BY <2>1, FS_EmptySet, TxRelayAssumption DEF FiniteAndBounded
<1>2. FiniteAndBounded /\ [Next]_vars => FiniteAndBounded'
  <2> SUFFICES ASSUME FiniteAndBounded, [Next]_vars PROVE FiniteAndBounded'
    OBVIOUS
  <2>1. IsFiniteSet(DOMAIN cache.from) /\ Cardinality(DOMAIN cache.from) <= Limit
    BY DEF FiniteAndBounded, Orphans
  <2>2. SUFFICES IsFiniteSet(DOMAIN cache'.from) /\ Cardinality(DOMAIN cache'.from) <= Limit
    BY DEF FiniteAndBounded, Orphans
  <2>3. ASSUME NEW t, NEW p, cache' \in LimitOrphanTxSize(AddOrphanTx(cache, t, p))
        PROVE  IsFiniteSet(DOMAIN cache'.from) /\ Cardinality(DOMAIN cache'.from) <= Limit
    <3>1. IsFiniteSet(DOMAIN cache.from \cup {t})
      BY <2>1, FS_AddElement
    <3>2. IsFiniteSet(DOMAIN AddOrphanTx(cache, t, p).from)
      BY <3>1, AddedDomain, FS_Subset
    <3> QED BY <2>3, <3>2, LimitedSize
  <2>4. ASSUME DOMAIN cache'.from \subseteq DOMAIN cache.from
        PROVE  IsFiniteSet(DOMAIN cache'.from) /\ Cardinality(DOMAIN cache'.from) <= Limit
    <3>1. /\ IsFiniteSet(DOMAIN cache'.from)
          /\ Cardinality(DOMAIN cache'.from) <= Cardinality(DOMAIN cache.from)
      BY <2>1, <2>4, FS_Subset
    <3>2. /\ Cardinality(DOMAIN cache'.from) \in Nat /\ Cardinality(DOMAIN cache.from) \in Nat
          /\ Limit \in Nat
      BY <2>1, <3>1, FS_CardinalityType, TxRelayAssumption
    <3> QED BY <2>1, <3>1, <3>2
  <2>5. ASSUME NEW E, cache' = EraseOrphans(cache, E)
        PROVE  DOMAIN cache'.from \subseteq DOMAIN cache.from
    BY <2>5, ErasedDomain
  <2>6. ASSUME NEW E, NEW F, cache' = EraseOrphans(EraseOrphans(cache, E), F)
        PROVE  DOMAIN cache'.from \subseteq DOMAIN cache.from
    BY <2>6, ErasedDomain
  <2> QED BY <2>1, <2>3, <2>4, <2>5, <2>6, CacheSteps
<1>3. FiniteAndBounded => OrphansBounded
  BY DEF FiniteAndBounded, OrphansBounded
<1> QED BY <1>1, <1>2, <1>3, PTL DEF Spec

\* The orphan cache is right: its index fits its map, and both are bounded.
THEOREM CacheCorrect == Spec => []CacheExact
<1>1. PrevIndexExact /\ OrphansBounded => CacheExact
  BY DEF CacheExact
<1> QED BY IndexCorrect, SizeCorrect, <1>1, PTL

-----------------------------------------------------------------------------
(* Requests to an honest peer.                                             *)

\* HonestAskedOnce is not inductive alone: a transaction is also scheduled for one
\* time only, so that what SendMessages sends is not scheduled any more.
AskedDomains == DOMAIN setAskFor = Peers /\ DOMAIN mapAskFor = Peers /\ DOMAIN wanted = Peers
ScheduledOnce(p) == \A e, f \in mapAskFor[p] : e[1] = f[1] => e = f
OwedOnce(p) == /\ wanted[p] \cap Pending(p) = {}
               /\ wanted[p] \cup Pending(p) \subseteq setAskFor[p]
AskInv == AskedDomains /\ \A p \in Honest : ScheduledOnce(p) /\ OwedOnce(p)

\* A step that leaves the three tables of p alone.
LEMMA SamePeer ==
    ASSUME NEW p, ScheduledOnce(p), OwedOnce(p), mapAskFor'[p] = mapAskFor[p],
           setAskFor'[p] = setAskFor[p], wanted'[p] = wanted[p]
    PROVE  ScheduledOnce(p)' /\ OwedOnce(p)'
BY DEF ScheduledOnce, OwedOnce, Pending

\* INV schedules only what is not in setAskFor.
LEMMA InvKeepsAsked ==
    ASSUME AskInv, NEW p \in Peers, NEW t \in Announced, InvMessage(p, t)
    PROVE  AskInv'
<1>1. CASE ~(~AlreadyHave(t) /\ MayAskFor(p, t))
  BY <1>1 DEF InvMessage, askVars, AskInv, AskedDomains, ScheduledOnce, OwedOnce, Pending
<1>2. CASE ~AlreadyHave(t) /\ MayAskFor(p, t)
  <2>1. AskFor(p, t)
    BY <1>2 DEF InvMessage
  <2>2. AskedDomains'
    BY <2>1 DEF AskFor, AskInv, AskedDomains
  <2>3. ASSUME NEW h \in Honest PROVE ScheduledOnce(h)' /\ OwedOnce(h)'
    <3>1. h \in Peers /\ ScheduledOnce(h) /\ OwedOnce(h)
      BY TxRelayAssumption DEF AskInv
    <3>2. CASE h # p
      BY <2>1, <3>1, <3>2, SamePeer DEF AskFor, AskInv, AskedDomains
    <3>3. CASE h = p
      <4>1. /\ mapAskFor'[p] = mapAskFor[p] \cup {<<t, RequestTime(t)>>}
            /\ setAskFor'[p] = setAskFor[p] \cup {t}
            /\ wanted'[p] = wanted[p]
        BY <2>1 DEF AskFor, AskInv, AskedDomains
      <4>2. t \notin setAskFor[p]
        BY <1>2 DEF MayAskFor
      <4>3. t \notin Pending(p) /\ t \notin wanted[p]
        BY <3>1, <3>3, <4>2 DEF OwedOnce
      <4>4. Pending(p)' = Pending(p) \cup {t}
        <5> DEFINE new == <<t, RequestTime(t)>>
        <5>1. new[1] = t
          OBVIOUS
        <5> HIDE DEF new
        <5>2. {e[1] : e \in mapAskFor[p] \cup {new}} = {e[1] : e \in mapAskFor[p]} \cup {t}
          BY <5>1
        <5> QED BY <4>1, <5>2 DEF Pending, new
      <4>5. ScheduledOnce(p)'
        <5>1. \A e \in mapAskFor[p] : e[1] # t
          BY <4>3 DEF Pending
        <5>2. ASSUME NEW e \in mapAskFor'[p], NEW f \in mapAskFor'[p], e[1] = f[1]
              PROVE  e = f
          <6> DEFINE new == <<t, RequestTime(t)>>
          <6>1. new[1] = t
            OBVIOUS
          <6> HIDE DEF new
          <6>2. (e \in mapAskFor[p] \/ e = new) /\ (f \in mapAskFor[p] \/ f = new)
            BY <4>1 DEF new
          <6>3. CASE e \in mapAskFor[p] /\ f \in mapAskFor[p]
            BY <3>1, <3>3, <5>2, <6>3 DEF ScheduledOnce
          <6> QED BY <5>1, <5>2, <6>1, <6>2, <6>3
        <5> QED BY <5>2 DEF ScheduledOnce
      <4> QED BY <3>1, <3>3, <4>1, <4>3, <4>4, <4>5 DEF OwedOnce
    <3> QED BY <3>2, <3>3
  <2> QED BY <2>2, <2>3 DEF AskInv
<1> QED BY <1>1, <1>2

\* SendMessages moves what is due from mapAskFor to the peer, or forgets it.
LEMMA SendKeepsAsked ==
    ASSUME AskInv, NEW p \in Peers, SendMessages(p)
    PROVE  AskInv'
<1> DEFINE due == {e[1] : e \in {x \in mapAskFor[p] : x[2] = 0}}
<1>1. AskedDomains'
  BY DEF SendMessages, AskInv, AskedDomains
<1>2. ASSUME NEW h \in Honest PROVE ScheduledOnce(h)' /\ OwedOnce(h)'
  <2>1. h \in Peers /\ ScheduledOnce(h) /\ OwedOnce(h)
    BY TxRelayAssumption DEF AskInv
  <2>2. CASE h # p
    BY <2>1, <2>2, SamePeer DEF SendMessages, AskInv, AskedDomains
  <2>3. CASE h = p
    <3>1. /\ mapAskFor'[p] = {e \in mapAskFor[p] : e[2] # 0}
          /\ setAskFor'[p] = setAskFor[p] \ NotAsked(p, due)
          /\ wanted'[p] = wanted[p] \cup {t \in due : ~AlreadyHave(t)}
      BY DEF SendMessages, AskInv, AskedDomains
    <3>2. due \subseteq Pending(p) /\ Pending(p)' \subseteq Pending(p)
      BY <3>1 DEF Pending
    <3>3. due \cap Pending(p)' = {}
      BY <2>1, <2>3, <3>1 DEF ScheduledOnce, Pending
    <3>4. ScheduledOnce(p)'
      BY <2>1, <2>3, <3>1 DEF ScheduledOnce
    <3>5. NotAsked(p, due) \subseteq due /\ NotAsked(p, due) \cap {t \in due : ~AlreadyHave(t)} = {}
      BY DEF NotAsked
    <3> QED BY <2>1, <2>3, <3>1, <3>2, <3>3, <3>4, <3>5 DEF OwedOnce
  <2> QED BY <2>2, <2>3
<1> QED BY <1>1, <1>2 DEF AskInv

\* An honest peer answers what it owes, which is not scheduled any more.
LEMMA TxKeepsAsked ==
    ASSUME AskInv, NEW p \in Peers, NEW t \in Tx, TxMessage(p, t)
    PROVE  AskInv'
<1>1. Answered(p, t) /\ MaySend(p, t)
  BY DEF TxMessage
<1>2. AskedDomains'
  BY <1>1 DEF Answered, AskInv, AskedDomains
<1>3. ASSUME NEW h \in Honest PROVE ScheduledOnce(h)' /\ OwedOnce(h)'
  <2>1. h \in Peers /\ ScheduledOnce(h) /\ OwedOnce(h)
    BY TxRelayAssumption DEF AskInv
  <2>2. CASE h # p
    BY <1>1, <2>1, <2>2, SamePeer DEF Answered, AskInv, AskedDomains
  <2>3. CASE h = p
    <3>1. /\ mapAskFor' = mapAskFor
          /\ setAskFor'[p] = setAskFor[p] \ {t}
          /\ wanted'[p] = wanted[p] \ {t}
      BY <1>1 DEF Answered, AskInv, AskedDomains
    <3>2. t \in wanted[p]
      BY <1>1, <2>3 DEF MaySend
    <3>3. Pending(p)' = Pending(p) /\ t \notin Pending(p)
      BY <2>1, <2>3, <3>1, <3>2 DEF Pending, OwedOnce
    <3> QED BY <2>1, <2>3, <3>1, <3>3 DEF ScheduledOnce, OwedOnce
  <2> QED BY <2>2, <2>3
<1> QED BY <1>2, <1>3 DEF AskInv

\* The clock changes the times, not what is scheduled.
LEMMA TickKeepsAsked ==
    ASSUME AskInv, Tick
    PROVE  AskInv'
<1>1. AskedDomains'
  BY DEF Tick, AskInv, AskedDomains
<1>2. ASSUME NEW h \in Honest PROVE ScheduledOnce(h)' /\ OwedOnce(h)'
  <2>1. h \in Peers /\ ScheduledOnce(h) /\ OwedOnce(h)
    BY TxRelayAssumption DEF AskInv
  <2> DEFINE less(n) == IF n > 0 THEN n - 1 ELSE 0
  <2>2. mapAskFor'[h] = {<<e[1], less(e[2])>> : e \in mapAskFor[h]}
    BY <2>1 DEF Tick
  <2>3. setAskFor'[h] = setAskFor[h] /\ wanted'[h] = wanted[h]
    BY DEF Tick
  <2> HIDE DEF less
  <2>4. Pending(h)' = Pending(h)
    <3> DEFINE next(e) == <<e[1], less(e[2])>>
    <3>1. \A e : next(e)[1] = e[1]
      OBVIOUS
    <3> HIDE DEF next
    <3>2. {f[1] : f \in {next(e) : e \in mapAskFor[h]}} = {e[1] : e \in mapAskFor[h]}
      BY <3>1
    <3> QED BY <2>2, <3>2 DEF Pending, next
  <2>5. ScheduledOnce(h)'
    <3>1. ASSUME NEW e \in mapAskFor'[h], NEW f \in mapAskFor'[h], e[1] = f[1]
          PROVE  e = f
      <4>1. PICK a \in mapAskFor[h] : e = <<a[1], less(a[2])>>
        BY <2>2
      <4>2. PICK b \in mapAskFor[h] : f = <<b[1], less(b[2])>>
        BY <2>2
      <4>3. a = b
        BY <2>1, <3>1, <4>1, <4>2 DEF ScheduledOnce
      <4> QED BY <4>1, <4>2, <4>3
    <3> QED BY <3>1 DEF ScheduledOnce
  <2> QED BY <2>1, <2>3, <2>4, <2>5 DEF OwedOnce
<1> QED BY <1>1, <1>2 DEF AskInv

\* The tables of a peer that leaves are empty.
LEMMA DisconnectKeepsAsked ==
    ASSUME AskInv, NEW p \in Peers, DisconnectPeer(p)
    PROVE  AskInv'
<1>1. AskedDomains'
  BY DEF DisconnectPeer, AskInv, AskedDomains
<1>2. ASSUME NEW h \in Honest PROVE ScheduledOnce(h)' /\ OwedOnce(h)'
  <2>1. h \in Peers /\ ScheduledOnce(h) /\ OwedOnce(h)
    BY TxRelayAssumption DEF AskInv
  <2>2. CASE h # p
    BY <2>1, <2>2, SamePeer DEF DisconnectPeer, AskInv, AskedDomains
  <2>3. CASE h = p
    <3>1. mapAskFor'[h] = {} /\ setAskFor'[h] = {} /\ wanted'[h] = {}
      BY <2>3 DEF DisconnectPeer, AskInv, AskedDomains
    <3> QED BY <3>1 DEF ScheduledOnce, OwedOnce, Pending
  <2> QED BY <2>2, <2>3
<1> QED BY <1>1, <1>2 DEF AskInv

\* Whatever peers announce, send or withhold, an honest peer is never asked again for
\* what it still owes, for any number of transactions and peers, every limit of the
\* tables and every time between two requests.
THEOREM AskedOnceCorrect == Spec => []HonestAskedOnce
<1>1. Init => AskInv
  <2> SUFFICES ASSUME Init PROVE AskInv
    OBVIOUS
  <2>1. ASSUME NEW h \in Honest PROVE ScheduledOnce(h) /\ OwedOnce(h)
    <3>1. mapAskFor[h] = {} /\ setAskFor[h] = {} /\ wanted[h] = {}
      BY TxRelayAssumption DEF Init
    <3> QED BY <3>1 DEF ScheduledOnce, OwedOnce, Pending
  <2> QED BY <2>1 DEF Init, AskInv, AskedDomains
<1>2. AskInv /\ [Next]_vars => AskInv'
  <2> SUFFICES ASSUME AskInv, [Next]_vars PROVE AskInv'
    OBVIOUS
  <2>1. CASE UNCHANGED askVars
    BY <2>1 DEF askVars, AskInv, AskedDomains, ScheduledOnce, OwedOnce, Pending
  <2>2. CASE UNCHANGED vars
    BY <2>1, <2>2 DEF vars
  <2>3. ASSUME NEW o \in Tx, OrphanStep(o) PROVE UNCHANGED askVars
    BY <2>3 DEF OrphanStep, OrphanSkipped, OrphanAccepted, OrphanRejected, OrphanWaits
  <2>4. CASE NextWork \/ FinishTx
    BY <2>1, <2>4 DEF NextWork, FinishTx
  <2>5. ASSUME NEW sent \in BOOLEAN, NewTip(sent) PROVE UNCHANGED askVars
    BY <2>5 DEF NewTip
  <2>6. ASSUME NEW t \in Tx, NEW v, SendRawTransaction(t, v) PROVE UNCHANGED askVars
    BY <2>6 DEF SendRawTransaction
  <2>7. ASSUME NEW txs \in SUBSET Tx, OtherBlock(txs) PROVE UNCHANGED askVars
    BY <2>7 DEF OtherBlock
  <2> QED
    BY <2>1, <2>2, <2>3, <2>4, <2>5, <2>6, <2>7, InvKeepsAsked, SendKeepsAsked, TxKeepsAsked,
       TickKeepsAsked, DisconnectKeepsAsked DEF Next, OrphanLoop, OrphanStep
<1>3. AskInv => HonestAskedOnce
  BY DEF AskInv, OwedOnce, HonestAskedOnce
<1> QED BY <1>1, <1>2, <1>3, PTL DEF Spec

-----------------------------------------------------------------------------
(* Types, and the filter of rejected transactions.                         *)

\* The types of the chain, the pool and the filter.
ChainTypes ==
    /\ tip \in 1 .. Len(Tips) /\ rejectsTip \in 1 .. tip
    /\ pool \subseteq Tx /\ evicted \subseteq Tx /\ rejects \subseteq Tx /\ passing \subseteq rejects

\* The types of the orphan cache.
CacheTypes ==
    /\ Orphans \subseteq Tx /\ \A t \in Orphans : cache.from[t] \in Peers
    /\ \A q \in DOMAIN cache.byPrev : cache.byPrev[q] \subseteq Tx

\* The types of the tables of requests.
AskTypes ==
    /\ setAskFor \in [Peers -> SUBSET Tx] /\ wanted \in [Peers -> SUBSET Tx]
    /\ DOMAIN mapAskFor = Peers
    /\ \A p \in Peers : mapAskFor[p] \subseteq Tx \X Nat
    /\ DOMAIN asked \subseteq Tx
    /\ \A t \in DOMAIN asked : asked[t] \in Int /\ asked[t] >= -Retry

\* The types of the peers and of the loop of the TX handler.
PeerTypes == connected \subseteq Peers /\ banned \subseteq connected
JobTypes ==
    /\ DOMAIN job = {"work", "i", "todo", "erase", "bad"}
    /\ job.work \in Seq(Tx) /\ job.todo \subseteq Tx /\ job.erase \subseteq Tx

\* Why AcceptToMemoryPool will not take t before the tip changes, or a conflict of it has
\* made room in the pool.
Reason(t) ==
    \/ ~Final(t, tip) \/ HaveCoins(t) \/ t \in BadScript
    \/ \E u \in pool \cup evicted : Spends[u] \cap Spends[t] # {}
    \/ \E o \in Spends[t] : o[1] \notin pool /\ o \notin Unspent(tip) /\ HaveCoins(o[1])

\* RejectsJustified is not inductive: a transaction that was refused stays refused
\* because its reason stays.
Reasoned == \A t \in RejectsNow \ passing : Reason(t)

\* The inductive invariant for the filter.
FilterInv == ChainTypes /\ CacheTypes /\ AskTypes /\ PeerTypes /\ JobTypes /\ Reasoned

\* A transaction with a reason is not accepted, while its conflict is in the pool.
LEMMA ReasonRefuses ==
    ASSUME NEW t, Reason(t)
    PROVE  Verdict(t) # "accepted" \/ \E u \in evicted \ pool : Spends[u] \cap Spends[t] # {}
<1>1. CASE \E o \in Spends[t] : o[1] \notin pool /\ o \notin Unspent(tip) /\ HaveCoins(o[1])
  BY <1>1 DEF Verdict, SpentInputs
<1>2. CASE ~(\E o \in Spends[t] : o[1] \notin pool /\ o \notin Unspent(tip) /\ HaveCoins(o[1]))
  BY <1>2 DEF Reason, Verdict, Unwanted
<1> QED BY <1>1, <1>2

\* One that is refused has a reason, unless it is in the pool.
LEMMA RefusedHasReason ==
    ASSUME NEW t, Verdict(t) \in {"refused", "bad"}, t \notin pool
    PROVE  Reason(t)
<1>1. CASE Unwanted(t)
  BY <1>1 DEF Unwanted, Reason
<1>2. CASE ~Unwanted(t) /\ SpentInputs(t) /\ ~MissingInputs(t)
  <2>1. PICK o \in Spends[t] : o[1] \notin pool /\ o \notin Unspent(tip)
    BY <1>2 DEF SpentInputs
  <2>2. HaveCoins(o[1])
    BY <1>2, <2>1 DEF MissingInputs, Prevs
  <2> QED BY <2>1, <2>2 DEF Reason
<1>3. CASE ~Unwanted(t) /\ ~MissingInputs(t) /\ ~SpentInputs(t)
  BY <1>3 DEF Verdict, Reason
<1> QED BY <1>1, <1>2, <1>3 DEF Verdict

\* What happens to the pool as long as the tip stays: an acceptable transaction joins it,
\* or tries to, and others make room.
PoolMoves ==
    \/ UNCHANGED poolVars
    \/ \E u \in Tx : /\ Verdict(u) = "accepted" /\ pool' \subseteq pool \cup {u}
                     /\ evicted' = evicted \cup (pool \ pool')

\* This is what AcceptToMemoryPool does; what it refuses only makes room.
LEMMA AcceptMoves ==
    ASSUME NEW t \in Tx, NEW v, AcceptToMemoryPool(t, v)
    PROVE  /\ PoolMoves
           /\ v = "accepted" => pool' \subseteq pool \cup {t}
           /\ v # "accepted" => pool' \subseteq pool
           /\ v = "cheap" \/ v = Verdict(t)
<1>1. /\ v = "cheap" \/ v = Verdict(t)
      /\ evicted' = evicted \cup (pool \ pool')
  BY DEF AcceptToMemoryPool
<1>2. CASE Verdict(t) = "accepted"
  BY <1>1, <1>2 DEF AcceptToMemoryPool, Trimmed, PoolMoves
<1>3. CASE Verdict(t) # "accepted"
  BY <1>1, <1>3 DEF AcceptToMemoryPool, PoolMoves, poolVars
<1> QED BY <1>2, <1>3

\* A reason stays while the tip does: what joins the pool is not in the chain, and what
\* leaves it is remembered.
LEMMA ReasonStays ==
    ASSUME NEW t, Reason(t), tip' = tip, PoolMoves
    PROVE  Reason(t)'
<1>1. /\ \A x : HaveCoins(x)' <=> HaveCoins(x)
      /\ \A x, i : Final(x, i)' <=> Final(x, i)
      /\ Unspent(tip)' = Unspent(tip)
  BY DEF HaveCoins, Final, Unspent, Confirmed
<1>2. CASE UNCHANGED poolVars
  BY <1>1, <1>2 DEF Reason, poolVars
<1>3. ASSUME NEW u \in Tx, Verdict(u) = "accepted", pool' \subseteq pool \cup {u},
             evicted' = evicted \cup (pool \ pool')
      PROVE  Reason(t)'
  <2>1. ~HaveCoins(u)
    BY <1>3 DEF Verdict, Unwanted
  <2> QED BY <1>1, <1>3, <2>1 DEF Reason
<1> QED BY <1>2, <1>3 DEF PoolMoves

\* The types of a cache.
Typed(c) ==
    /\ DOMAIN c.from \subseteq Tx /\ \A t \in DOMAIN c.from : c.from[t] \in Peers
    /\ \A q \in DOMAIN c.byPrev : c.byPrev[q] \subseteq Tx

\* Erasing leaves fewer orphans, from the same peers.
LEMMA EraseKeepsTypes ==
    ASSUME NEW c, Typed(c), NEW E
    PROVE  Typed(EraseOrphans(c, E))
BY DEF Typed, EraseOrphans, Left

\* The orphan that is added has its types.
LEMMA AddKeepsTypes ==
    ASSUME NEW c, Typed(c), NEW t \in Tx, NEW p \in Peers
    PROVE  Typed(AddOrphanTx(c, t, p))
BY DEF Typed, AddOrphanTx, With

\* No step breaks the types of the cache.
LEMMA CacheTypesStep ==
    ASSUME CacheTypes, [Next]_vars
    PROVE  CacheTypes'
<1>1. Typed(cache)
  BY DEF CacheTypes, Typed, Orphans
<1>2. SUFFICES Typed(cache')
  BY DEF CacheTypes, Typed, Orphans
<1>3. ASSUME NEW t \in Tx, NEW p \in Peers,
             cache' \in LimitOrphanTxSize(AddOrphanTx(cache, t, p))
      PROVE  Typed(cache')
  <2> DEFINE c == AddOrphanTx(cache, t, p)
  <2>1. Typed(c)
    BY <1>1, AddKeepsTypes
  <2>2. PICK E : cache' = EraseOrphans(c, E)
    BY <1>3 DEF LimitOrphanTxSize
  <2> HIDE DEF c
  <2> QED BY <2>1, <2>2, EraseKeepsTypes
<1> QED BY <1>1, <1>3, EraseKeepsTypes, CacheSteps

\* The times of mapAskFor and mapAlreadyAskedFor.
LEMMA TimeTypes ==
    ASSUME AskTypes, NEW t
    PROVE  RequestTime(t) \in Nat
BY TxRelayAssumption DEF AskTypes, RequestTime

\* INV
LEMMA InvKeepsTypes ==
    ASSUME AskTypes, NEW p \in Peers, NEW t \in Announced, InvMessage(p, t)
    PROVE  AskTypes'
<1>1. CASE UNCHANGED askVars
  BY <1>1 DEF askVars, AskTypes
<1>2. CASE AskFor(p, t)
  <2> DEFINE r == RequestTime(t)
  <2>1. r \in Nat /\ t \in Tx
    BY TimeTypes, TxRelayAssumption
  <2>2. /\ setAskFor' = [setAskFor EXCEPT ![p] = @ \cup {t}]
        /\ mapAskFor' = [mapAskFor EXCEPT ![p] = @ \cup {<<t, r>>}]
        /\ asked' \in Inserted(asked, t, r) /\ wanted' = wanted
    BY <1>2 DEF AskFor
  <2> HIDE DEF r
  <2>3. PICK D \in SUBSET DOMAIN asked : asked' = With([y \in D |-> asked[y]], t, r)
    <3>1. CASE asked' = With(asked, t, r)
      <4>1. asked' = With([y \in DOMAIN asked |-> asked[y]], t, r)
        BY <3>1 DEF With
      <4> QED BY <4>1
    <3>2. CASE \E z : asked' = With([y \in DOMAIN asked \ {z} |-> asked[y]], t, r)
      BY <3>2
    <3> QED BY <2>2, <3>1, <3>2 DEF Inserted
  <2>4. /\ DOMAIN asked' \subseteq Tx
        /\ \A u \in DOMAIN asked' : asked'[u] \in Int /\ asked'[u] >= -Retry
    BY <2>1, <2>3, TxRelayAssumption DEF With, AskTypes
  <2>5. setAskFor' \in [Peers -> SUBSET Tx] /\ wanted' \in [Peers -> SUBSET Tx]
    BY <2>1, <2>2 DEF AskTypes
  <2>6. DOMAIN mapAskFor' = Peers /\ \A q \in Peers : mapAskFor'[q] \subseteq Tx \X Nat
    BY <2>1, <2>2 DEF AskTypes
  <2> QED BY <2>4, <2>5, <2>6 DEF AskTypes
<1> QED BY <1>1, <1>2 DEF InvMessage

\* SendMessages, TX and the end of a connection only take away.
LEMMA SendKeepsTypes ==
    ASSUME AskTypes, NEW p \in Peers, SendMessages(p)
    PROVE  AskTypes'
<1>1. setAskFor' \in [Peers -> SUBSET Tx]
  BY DEF SendMessages, AskTypes
<1>2. wanted' \in [Peers -> SUBSET Tx]
  BY DEF SendMessages, AskTypes
<1>3. DOMAIN mapAskFor' = Peers /\ \A q \in Peers : mapAskFor'[q] \subseteq Tx \X Nat
  BY DEF SendMessages, AskTypes
<1> QED BY <1>1, <1>2, <1>3 DEF SendMessages, AskTypes

\* See SendKeepsTypes.
LEMMA TxKeepsTypes ==
    ASSUME AskTypes, NEW p \in Peers, NEW t \in Tx, TxMessage(p, t) \/ DisconnectPeer(p)
    PROVE  AskTypes'
<1>1. CASE TxMessage(p, t)
  BY <1>1 DEF TxMessage, Answered, AskTypes
<1>2. CASE DisconnectPeer(p)
  BY <1>2 DEF DisconnectPeer, AskTypes
<1> QED BY <1>1, <1>2

\* The clock.
LEMMA TickKeepsTypes ==
    ASSUME AskTypes, Tick
    PROVE  AskTypes'
<1>1. setAskFor' = setAskFor /\ wanted' = wanted
  BY DEF Tick
<1>2. DOMAIN mapAskFor' = Peers /\ \A q \in Peers : mapAskFor'[q] \subseteq Tx \X Nat
  BY DEF Tick, AskTypes
<1>3. /\ DOMAIN asked' \subseteq Tx
      /\ \A u \in DOMAIN asked' : asked'[u] \in Int /\ asked'[u] >= -Retry
  BY TxRelayAssumption DEF Tick, AskTypes
<1> QED BY <1>1, <1>2, <1>3 DEF AskTypes

\* The loop over the orphans, one at a time.

\* No step breaks the types of the tables of requests.
LEMMA AskTypesStep ==
    ASSUME AskTypes, [Next]_vars
    PROVE  AskTypes'
<1>1. CASE UNCHANGED askVars
  BY <1>1 DEF askVars, AskTypes
<1>2. CASE UNCHANGED vars
  BY <1>1, <1>2 DEF vars
<1>3. ASSUME NEW o \in Tx, OrphanStep(o) PROVE UNCHANGED askVars
  BY <1>3 DEF OrphanStep, OrphanSkipped, OrphanAccepted, OrphanRejected, OrphanWaits
<1>4. CASE NextWork \/ FinishTx
  BY <1>1, <1>4 DEF NextWork, FinishTx
<1>5. ASSUME NEW sent \in BOOLEAN, NewTip(sent) PROVE UNCHANGED askVars
  BY <1>5 DEF NewTip
<1>6. ASSUME NEW t \in Tx, NEW v, SendRawTransaction(t, v) PROVE UNCHANGED askVars
  BY <1>6 DEF SendRawTransaction
<1>7. ASSUME NEW p \in Peers, DisconnectPeer(p) PROVE AskTypes'
  BY <1>7 DEF DisconnectPeer, AskTypes
<1>8. ASSUME NEW txs \in SUBSET Tx, OtherBlock(txs) PROVE UNCHANGED askVars
  BY <1>8 DEF OtherBlock
<1> QED
  BY <1>1, <1>2, <1>3, <1>4, <1>5, <1>6, <1>7, <1>8, InvKeepsTypes, SendKeepsTypes, TxKeepsTypes,
     TickKeepsTypes DEF Next, OrphanLoop, OrphanStep

\* No step breaks the types of the peers and of the loop.
LEMMA PeerTypesStep ==
    ASSUME CacheTypes, PeerTypes, JobTypes, [Next]_vars
    PROVE  PeerTypes' /\ JobTypes'
<1>1. CASE UNCHANGED <<peerVars, job>>
  BY <1>1 DEF peerVars, PeerTypes, JobTypes
<1>2. CASE UNCHANGED vars
  BY <1>1, <1>2 DEF vars
<1>3. \A q : FetchByPrev(q) \subseteq Tx
  BY DEF FetchByPrev, CacheTypes
<1>4. ASSUME NEW p \in Peers, NEW t \in Tx, TxMessage(p, t) PROVE PeerTypes' /\ JobTypes'
  <2>1. PeerTypes'
    BY <1>4 DEF TxMessage, TxAccepted, TxMissingInputs, TxRejected, Misbehaving, PeerTypes
  <2>2. JobTypes'
    <3>1. CASE job' = [NoJob EXCEPT !.work = <<t>>, !.i = 1, !.todo = FetchByPrev(t)]
      BY <1>3, <3>1 DEF JobTypes, NoJob
    <3>2. CASE job' = job
      BY <3>2 DEF JobTypes
    <3> QED BY <1>4, <3>1, <3>2 DEF TxMessage, TxAccepted, TxMissingInputs, TxRejected
  <2> QED BY <2>1, <2>2
<1>5. ASSUME NEW o \in Tx, OrphanStep(o) PROVE PeerTypes' /\ JobTypes'
  <2>1. PeerTypes'
    BY <1>5 DEF OrphanStep, OrphanSkipped, OrphanAccepted, OrphanRejected, OrphanWaits,
       Misbehaving, peerVars, PeerTypes
  <2>2. JobTypes'
    <3>1. CASE OrphanSkipped(o) \/ OrphanWaits(o)
      BY <3>1 DEF OrphanSkipped, OrphanWaits, JobTypes
    <3>2. CASE OrphanAccepted(o)
      BY <3>2 DEF OrphanAccepted, JobTypes
    <3>3. ASSUME NEW v \in Refusals, OrphanRejected(o, v) PROVE JobTypes'
      BY <3>3 DEF OrphanRejected, JobTypes
    <3> QED BY <1>5, <3>1, <3>2, <3>3 DEF OrphanStep
  <2> QED BY <2>1, <2>2
<1>6. CASE NextWork
  BY <1>3, <1>6 DEF NextWork, peerVars, PeerTypes, JobTypes
<1>7. CASE FinishTx
  BY <1>7 DEF FinishTx, NoJob, peerVars, PeerTypes, JobTypes
<1>8. ASSUME NEW p \in Peers, DisconnectPeer(p) PROVE PeerTypes' /\ JobTypes'
  BY <1>8 DEF DisconnectPeer, PeerTypes, JobTypes
<1>9. ASSUME NEW p \in Peers, SendMessages(p) PROVE UNCHANGED <<peerVars, job>>
  BY <1>9 DEF SendMessages
<1>10. ASSUME NEW p \in Peers, NEW t \in Announced, InvMessage(p, t)
       PROVE  UNCHANGED <<peerVars, job>>
  BY <1>10 DEF InvMessage
<1>11. CASE Tick
  BY <1>1, <1>11 DEF Tick
<1>12. ASSUME NEW sent \in BOOLEAN, NewTip(sent) PROVE UNCHANGED <<peerVars, job>>
  BY <1>12 DEF NewTip
<1>13. ASSUME NEW t \in Tx, NEW v, SendRawTransaction(t, v) PROVE UNCHANGED <<peerVars, job>>
  BY <1>13 DEF SendRawTransaction
<1>14. ASSUME NEW txs \in SUBSET Tx, OtherBlock(txs) PROVE UNCHANGED <<peerVars, job>>
  BY <1>14 DEF OtherBlock
<1> QED
  BY <1>1, <1>2, <1>4, <1>5, <1>6, <1>7, <1>8, <1>9, <1>10, <1>11, <1>12, <1>13, <1>14
     DEF Next, OrphanLoop, OrphanStep

\* What a step does to the filter as long as the tip stays: it is brought up to date, and
\* a transaction is added that has a reason or is known, by the TX handler or its loop.
Syncs == SyncRejects /\ tip' = tip /\ PoolMoves
Filters(t) ==
    /\ rejects' = RejectsNow \cup {t} /\ rejectsTip' = tip
    /\ passing \cap RejectsNow \subseteq passing'
    /\ passing' \subseteq (passing \cap RejectsNow) \cup {t}
    /\ t \in RejectsNow \cup passing' \/ Reason(t)
    /\ tip' = tip /\ PoolMoves
FiltersOrphan(t) ==
    /\ rejects' = rejects \cup {t} /\ rejectsTip' = rejectsTip
    /\ passing \subseteq passing' /\ passing' \subseteq passing \cup {t}
    /\ t \in passing' \/ Reason(t)
    /\ tip' = tip /\ PoolMoves

\* These are all the steps.
LEMMA FilterSteps ==
    ASSUME ChainTypes, [Next]_vars
    PROVE  \/ Syncs
           \/ UNCHANGED <<rejectVars, tip>> /\ PoolMoves
           \/ \E t \in Tx : Filters(t) \/ FiltersOrphan(t)
           \/ /\ UNCHANGED rejectVars /\ tip' = tip + 1 /\ tip < Len(Tips)
              /\ pool' \subseteq Tx /\ evicted' = {}
<1>1. CASE UNCHANGED vars
  BY <1>1 DEF vars, PoolMoves
<1>2. ASSUME NEW p \in Peers, NEW t \in Announced, InvMessage(p, t) PROVE Syncs
  BY <1>2 DEF InvMessage, Syncs, PoolMoves
<1>3. ASSUME NEW p \in Peers, SendMessages(p) PROVE Syncs
  BY <1>3 DEF SendMessages, Syncs, PoolMoves
<1>4. ASSUME NEW p \in Peers, DisconnectPeer(p)
      PROVE  UNCHANGED <<rejectVars, tip>> /\ PoolMoves
  BY <1>4 DEF DisconnectPeer, PoolMoves
<1>5. ASSUME NEW p \in Peers, NEW t \in Tx, TxMessage(p, t) PROVE Syncs \/ Filters(t)
  <2>1. CASE TxAccepted(p, t) \/ TxMissingInputs(p, t)
    BY <1>5, <2>1, AcceptMoves DEF TxMessage, TxAccepted, TxMissingInputs, Syncs
  <2>2. ASSUME NEW v \in Refusals, TxRejected(p, t, v) PROVE Filters(t)
    <3>1. /\ t \in RejectsNow \cup passing' \/ Reason(t)
          /\ PoolMoves
      <4>1. CASE AlreadyHave(t)
        BY <2>2, <4>1 DEF TxRejected, PoolMoves
      <4>2. CASE ~AlreadyHave(t)
        <5>1. AcceptToMemoryPool(t, v) /\ v \in {"refused", "cheap", "bad"}
          BY <2>2, <4>2 DEF TxRejected
        <5>2. t \notin pool
          BY <4>2 DEF AlreadyHave
        <5>3. PoolMoves /\ (v = "cheap" \/ v = Verdict(t))
          BY <5>1, AcceptMoves
        <5>4. v = "cheap" => t \in RejectsNow \cup passing'
          BY <2>2 DEF TxRejected
        <5> QED BY <5>1, <5>2, <5>3, <5>4, RefusedHasReason
      <4> QED BY <4>1, <4>2
    <3> QED BY <1>5, <2>2, <3>1 DEF TxMessage, TxRejected, Filters
  <2> QED BY <1>5, <2>1, <2>2 DEF TxMessage
<1>6. ASSUME NEW o \in Tx, OrphanStep(o)
      PROVE  (UNCHANGED <<rejectVars, tip>> /\ PoolMoves) \/ FiltersOrphan(o)
  <2>1. CASE OrphanSkipped(o) \/ OrphanWaits(o) \/ OrphanAccepted(o)
    BY <2>1, AcceptMoves DEF OrphanSkipped, OrphanWaits, OrphanAccepted, PoolMoves
  <2>2. ASSUME NEW v \in Refusals, OrphanRejected(o, v) PROVE FiltersOrphan(o)
    <3>1. AcceptToMemoryPool(o, v) /\ v \in {"refused", "cheap", "bad"}
      BY <2>2 DEF OrphanRejected
    <3>2. PoolMoves /\ (v = "cheap" \/ v = Verdict(o))
      BY <3>1, AcceptMoves
    <3>3. o \in passing' \/ Reason(o)
      BY <2>2, <3>1, <3>2, RefusedHasReason DEF OrphanRejected
    <3> QED BY <2>2, <3>2, <3>3 DEF OrphanRejected, FiltersOrphan
  <2> QED BY <1>6, <2>1, <2>2 DEF OrphanStep
<1>7. ASSUME NextWork \/ FinishTx \/ Tick PROVE UNCHANGED <<rejectVars, tip>> /\ PoolMoves
  BY <1>7 DEF NextWork, FinishTx, Tick, PoolMoves
<1>8. ASSUME NEW sent \in BOOLEAN, NewTip(sent)
      PROVE  /\ UNCHANGED rejectVars /\ tip' = tip + 1 /\ tip < Len(Tips)
             /\ pool' \subseteq Tx /\ evicted' = {}
  <2>1. /\ UNCHANGED rejectVars /\ tip' = tip + 1 /\ tip < Len(Tips)
        /\ pool' \subseteq pool \cup Tips[tip].confirmed /\ evicted' = {}
    BY <1>8 DEF NewTip, Stay, Trimmed
  <2>2. Tips[tip].confirmed \subseteq Tx
    <3> DEFINE Tip == [height : Nat, confirmed : SUBSET Tx, last : SUBSET Tx]
    <3>1. \A r \in Tip : r.confirmed \subseteq Tx
      OBVIOUS
    <3>2. Tips \in Seq(Tip) /\ tip \in 1 .. Len(Tips)
      BY TxRelayAssumption DEF ChainTypes
    <3> HIDE DEF Tip
    <3>3. Tips[tip] \in Tip
      BY <3>2
    <3> QED BY <3>1, <3>3
  <2> QED BY <2>1, <2>2 DEF ChainTypes
<1>9. ASSUME NEW t \in Tx, NEW v, SendRawTransaction(t, v)
      PROVE  UNCHANGED <<rejectVars, tip>> /\ PoolMoves
  BY <1>9, AcceptMoves DEF SendRawTransaction
<1>10. ASSUME NEW txs \in SUBSET Tx, OtherBlock(txs)
       PROVE  UNCHANGED <<rejectVars, tip>> /\ PoolMoves
  BY <1>10 DEF OtherBlock, PoolMoves
<1> QED
  BY <1>1, <1>2, <1>3, <1>4, <1>5, <1>6, <1>7, <1>8, <1>9, <1>10 DEF Next, OrphanLoop, OrphanStep

\* They keep the filter justified.
LEMMA FilterStep ==
    ASSUME ChainTypes, Reasoned, [Next]_vars
    PROVE  ChainTypes' /\ Reasoned'
<1>1. CASE Syncs
  <2>1. ChainTypes'
    BY <1>1 DEF Syncs, SyncRejects, RejectsNow, PoolMoves, poolVars, ChainTypes
  <2>2. RejectsNow' = RejectsNow /\ passing' = passing \cap RejectsNow
    BY <1>1 DEF Syncs, SyncRejects, RejectsNow
  <2> QED BY <1>1, <2>1, <2>2, ReasonStays DEF Syncs, Reasoned
<1>2. CASE UNCHANGED <<rejectVars, tip>> /\ PoolMoves
  <2>1. ChainTypes'
    BY <1>2 DEF rejectVars, PoolMoves, poolVars, ChainTypes
  <2>2. RejectsNow' = RejectsNow /\ passing' = passing /\ tip' = tip
    BY <1>2 DEF rejectVars, RejectsNow
  <2> QED BY <1>2, <2>1, <2>2, ReasonStays DEF Reasoned
<1>3. ASSUME NEW t \in Tx, Filters(t) PROVE ChainTypes' /\ Reasoned'
  <2>1. ChainTypes'
    BY <1>3 DEF Filters, RejectsNow, PoolMoves, poolVars, ChainTypes
  <2>2. RejectsNow' = RejectsNow \cup {t} /\ tip' = tip /\ PoolMoves
    BY <1>3 DEF Filters, RejectsNow
  <2>3. ASSUME NEW u \in RejectsNow' \ passing' PROVE Reason(u)
    BY <1>3, <2>2, <2>3 DEF Filters, Reasoned
  <2> QED BY <2>1, <2>2, <2>3, ReasonStays DEF Reasoned
<1>4. ASSUME NEW t \in Tx, FiltersOrphan(t) PROVE ChainTypes' /\ Reasoned'
  <2>1. ChainTypes'
    BY <1>4 DEF FiltersOrphan, PoolMoves, poolVars, ChainTypes
  <2>2. RejectsNow' \subseteq RejectsNow \cup {t} /\ tip' = tip /\ PoolMoves
    BY <1>4 DEF FiltersOrphan, RejectsNow
  <2>3. ASSUME NEW u \in RejectsNow' \ passing' PROVE Reason(u)
    BY <1>4, <2>2, <2>3 DEF FiltersOrphan, Reasoned
  <2> QED BY <2>1, <2>2, <2>3, ReasonStays DEF Reasoned
<1>5. CASE /\ UNCHANGED rejectVars /\ tip' = tip + 1 /\ tip < Len(Tips)
           /\ pool' \subseteq Tx /\ evicted' = {}
  <2>1. ChainTypes'
    BY <1>5, TxRelayAssumption DEF rejectVars, ChainTypes
  <2>2. RejectsNow' = {}
    BY <1>5 DEF rejectVars, RejectsNow, ChainTypes
  <2> QED BY <2>1, <2>2 DEF Reasoned
<1> QED BY <1>1, <1>2, <1>3, <1>4, <1>5, FilterSteps

\* A transaction that was refused for what it is, for the chain or for a conflict is kept
\* from being fetched again only while AcceptToMemoryPool would still refuse it, or its
\* conflict has made room in the pool, for any transactions, tips and peers, and whatever
\* fees and limits refuse and evict; and every variable has its type.
THEOREM RejectsCorrect == Spec => []RejectsJustified
<1>1. Init => FilterInv
  <2> SUFFICES ASSUME Init PROVE FilterInv
    OBVIOUS
  <2>1. ChainTypes /\ Reasoned
    BY TxRelayAssumption DEF Init, ChainTypes, Reasoned, RejectsNow
  <2>2. CacheTypes /\ AskTypes /\ PeerTypes
    BY DEF Init, CacheTypes, Orphans, AskTypes, PeerTypes
  <2>3. JobTypes
    BY DEF Init, NoJob, JobTypes
  <2> QED BY <2>1, <2>2, <2>3 DEF FilterInv
<1>2. FilterInv /\ [Next]_vars => FilterInv'
  BY FilterStep, CacheTypesStep, AskTypesStep, PeerTypesStep DEF FilterInv
<1>3. FilterInv => RejectsJustified
  <2> SUFFICES ASSUME FilterInv PROVE RejectsJustified
    OBVIOUS
  <2>1. TypeOK
    BY DEF FilterInv, ChainTypes, CacheTypes, AskTypes, PeerTypes, JobTypes, TypeOK
  <2> QED BY <2>1, ReasonRefuses DEF FilterInv, Reasoned, RejectsJustified
<1> QED BY <1>1, <1>2, <1>3, PTL DEF Spec

-----------------------------------------------------------------------------
(* The loop of the TX handler over the orphans.                            *)

\* An orphan waits for an entry of vWorkQueue that has been begun ...
Begun(o) == \E k \in 1 .. job.i : job.work[k] \in Prevs(o)

\* ... or for one that comes later.
Ahead(o) == \E k \in job.i + 1 .. Len(job.work) : job.work[k] \in Prevs(o)

\* What became of an orphan that was tried, or why it is tried again.
Tried(o) ==
    \/ o \in job.erase \cup job.todo \/ cache.from[o] \in job.bad
    \/ MissingInputs(o) \/ Ahead(o)

\* The types the loop needs.
LoopTypes ==
    /\ DOMAIN job = {"work", "i", "todo", "erase", "bad"}
    /\ job.work \in Seq(Tx) /\ job.i \in 0 .. Len(job.work)

\* The loop has looked at every orphan that waits for what it has gone through.
LoopInv ==
    /\ LoopTypes /\ PrevIndexExact
    /\ ~Idle => job.i > 0 /\ \A o \in Orphans : Begun(o) => Tried(o)

\* fetchTransactionsByPrev finds all the orphans that wait for q.
LEMMA FetchFinds ==
    ASSUME PrevIndexExact, NEW q, NEW o \in Orphans, q \in Prevs(o)
    PROVE  o \in FetchByPrev(q)
BY DEF PrevIndexExact, FetchByPrev

\* What misses no inputs any more after a transaction was accepted waits for it.
LEMMA AcceptedMoves ==
    ASSUME NEW o, NEW u, tip' = tip, pool' \subseteq pool \cup {u}, MissingInputs(o)
    PROVE  MissingInputs(o)' \/ u \in Prevs(o)
<1>1. \A x : HaveCoins(x)' <=> HaveCoins(x)
  BY DEF HaveCoins, Unspent, Confirmed
<1> QED BY <1>1 DEF MissingInputs

\* A step that leaves tip, cache, vWorkQueue and the place in it alone, and adds nothing
\* to the pool.
LEMMA OneTried ==
    ASSUME LoopInv, ~Idle, tip' = tip, pool' \subseteq pool, cache' = cache, LoopTypes',
           job'.work = job.work, job'.i = job.i, job.bad \subseteq job'.bad,
           NEW o, job.erase \cup (job.todo \ {o}) \subseteq job'.erase \cup job'.todo,
           Tried(o)'
    PROVE  LoopInv'
<1>1. PrevIndexExact'
  BY DEF LoopInv, PrevIndexExact, Orphans
<1>2. /\ \A x : Begun(x)' <=> Begun(x)
      /\ \A x : Ahead(x)' <=> Ahead(x)
      /\ Orphans' = Orphans
  BY DEF Begun, Ahead, Orphans
<1>3. \A x : MissingInputs(x) => MissingInputs(x)'
  BY DEF MissingInputs, HaveCoins, Unspent, Confirmed
<1>4. ASSUME NEW x \in Orphans, Begun(x) PROVE Tried(x)'
  <2>1. CASE x = o
    BY <2>1
  <2>2. CASE x # o
    <3>1. Tried(x)
      BY <1>4 DEF LoopInv
    <3> QED BY <1>2, <1>3, <2>2, <3>1 DEF Tried
  <2> QED BY <2>1, <2>2
<1> QED BY <1>1, <1>2, <1>4 DEF LoopInv

\* The steps of the loop.
LEMMA OrphanStepKeepsLoop ==
    ASSUME LoopInv, ~Idle, NEW o \in Tx, OrphanStep(o)
    PROVE  LoopInv'
<1>1. CASE OrphanSkipped(o) \/ OrphanWaits(o)
  <2>1. /\ tip' = tip /\ pool' = pool /\ cache' = cache
        /\ job' = [job EXCEPT !.todo = @ \ {o}]
        /\ cache.from[o] \in job.bad \/ Verdict(o) = "missing"
    BY <1>1 DEF OrphanSkipped, OrphanWaits, AcceptToMemoryPool, poolVars
  <2>2. /\ job'.work = job.work /\ job'.i = job.i /\ job'.bad = job.bad
        /\ job'.erase = job.erase /\ job'.todo = job.todo \ {o} /\ DOMAIN job' = DOMAIN job
    BY <2>1 DEF LoopInv, LoopTypes
  <2>3. LoopTypes'
    BY <2>2 DEF LoopInv, LoopTypes
  <2>4. Verdict(o) = "missing" => MissingInputs(o)'
    BY <2>1 DEF Verdict, MissingInputs, HaveCoins, Unspent, Confirmed
  <2>5. Tried(o)'
    BY <2>1, <2>2, <2>4 DEF Tried
  <2> QED BY <2>1, <2>2, <2>3, <2>5, OneTried
<1>2. ASSUME NEW v \in Refusals, OrphanRejected(o, v) PROVE LoopInv'
  <2>1. /\ tip' = tip /\ pool' \subseteq pool /\ cache' = cache
        /\ job' = [job EXCEPT !.todo = @ \ {o}, !.erase = @ \cup {o},
                              !.bad = @ \cup (IF v = "bad" THEN {cache.from[o]} ELSE {})]
    BY <1>2, AcceptMoves DEF OrphanRejected
  <2>2. /\ job'.work = job.work /\ job'.i = job.i /\ job.bad \subseteq job'.bad
        /\ job'.erase = job.erase \cup {o} /\ job'.todo = job.todo \ {o}
        /\ DOMAIN job' = DOMAIN job
    BY <2>1 DEF LoopInv, LoopTypes
  <2>3. LoopTypes'
    BY <2>2 DEF LoopInv, LoopTypes
  <2>4. Tried(o)'
    BY <2>2 DEF Tried
  <2> QED BY <2>1, <2>2, <2>3, <2>4, OneTried
<1>3. CASE OrphanAccepted(o)
  <2>1. /\ tip' = tip /\ pool' \subseteq pool \cup {o} /\ cache' = cache
        /\ job' = [job EXCEPT !.todo = @ \ {o}, !.work = Append(@, o), !.erase = @ \cup {o}]
    BY <1>3, AcceptMoves DEF OrphanAccepted
  <2>2. /\ job'.work = Append(job.work, o) /\ job'.i = job.i /\ job'.bad = job.bad
        /\ job'.erase = job.erase \cup {o} /\ job'.todo = job.todo \ {o}
        /\ DOMAIN job' = DOMAIN job
    BY <2>1 DEF LoopInv, LoopTypes
  <2>3. /\ job'.work \in Seq(Tx) /\ Len(job'.work) = Len(job.work) + 1
        /\ \A k \in 1 .. Len(job.work) : job'.work[k] = job.work[k]
        /\ job'.work[Len(job.work) + 1] = o
        /\ job.i \in 0 .. Len(job.work) /\ Len(job.work) \in Nat
    BY <2>2 DEF LoopInv, LoopTypes
  <2>4. LoopTypes'
    BY <2>2, <2>3 DEF LoopInv, LoopTypes
  <2>5. PrevIndexExact' /\ Orphans' = Orphans
    BY <2>1 DEF LoopInv, PrevIndexExact, Orphans
  <2>6. ASSUME NEW x \in Orphans, Begun(x)' PROVE Tried(x)'
    <3>1. Begun(x)
      BY <2>2, <2>3, <2>6 DEF Begun
    <3>2. Tried(x)
      BY <3>1 DEF LoopInv
    <3>3. Ahead(x) \/ o \in Prevs(x) => Ahead(x)'
      BY <2>2, <2>3 DEF Ahead
    <3>4. MissingInputs(x) => MissingInputs(x)' \/ o \in Prevs(x)
      BY <2>1, AcceptedMoves
    <3> QED BY <2>1, <2>2, <3>2, <3>3, <3>4 DEF Tried
  <2>7. job'.i > 0
    BY <2>2 DEF LoopInv
  <2> QED BY <2>4, <2>5, <2>6, <2>7 DEF LoopInv
<1> QED BY <1>1, <1>2, <1>3 DEF OrphanStep

\* Every step of the program.
LEMMA LoopStep ==
    ASSUME LoopInv, PrevIndexExact', [Next]_vars
    PROVE  LoopInv'
<1>1. CASE Idle /\ job' = job
  BY <1>1 DEF LoopInv, LoopTypes, Idle
<1>2. CASE UNCHANGED vars
  <2>1. UNCHANGED <<tip, pool, cache, job>>
    BY <1>2 DEF vars, poolVars
  <2>2. /\ \A x : Begun(x)' <=> Begun(x)
        /\ \A x : Ahead(x)' <=> Ahead(x)
        /\ Orphans' = Orphans
    BY <2>1 DEF Begun, Ahead, Orphans
  <2>3. \A x : MissingInputs(x)' <=> MissingInputs(x)
    BY <2>1 DEF MissingInputs, HaveCoins, Unspent, Confirmed, poolVars
  <2>4. \A x : Tried(x)' <=> Tried(x)
    BY <2>1, <2>2, <2>3 DEF Tried
  <2> QED BY <2>1, <2>2, <2>4 DEF LoopInv, LoopTypes, Idle
<1>3. ASSUME NEW p \in Peers, NEW t \in Announced, InvMessage(p, t) PROVE Idle /\ job' = job
  BY <1>3 DEF InvMessage
<1>4. ASSUME NEW p \in Peers, SendMessages(p) \/ DisconnectPeer(p) PROVE Idle /\ job' = job
  BY <1>4 DEF SendMessages, DisconnectPeer
<1>5. ASSUME NEW sent \in BOOLEAN, NewTip(sent) PROVE Idle /\ job' = job
  BY <1>5 DEF NewTip
<1>6. ASSUME NEW t \in Tx, NEW v, SendRawTransaction(t, v) PROVE Idle /\ job' = job
  BY <1>6 DEF SendRawTransaction
<1>12. ASSUME NEW txs \in SUBSET Tx, OtherBlock(txs) PROVE Idle /\ job' = job
  BY <1>12 DEF OtherBlock
<1>11. CASE Tick
  BY <1>1, <1>11 DEF Tick
<1>7. ASSUME NEW p \in Peers, NEW t \in Tx, TxMessage(p, t) PROVE LoopInv'
  <2>1. CASE job' = job
    BY <1>1, <1>7, <2>1 DEF TxMessage
  <2>2. CASE TxAccepted(p, t)
    <3>1. cache' = cache /\ job' = [NoJob EXCEPT !.work = <<t>>, !.i = 1, !.todo = FetchByPrev(t)]
      BY <2>2 DEF TxAccepted
    <3>2. /\ DOMAIN job' = {"work", "i", "todo", "erase", "bad"}
          /\ job'.work = <<t>> /\ job'.i = 1 /\ job'.todo = FetchByPrev(t)
      BY <3>1 DEF NoJob
    <3>3. ASSUME NEW o \in Orphans', Begun(o)' PROVE Tried(o)'
      <4>1. t \in Prevs(o) /\ o \in Orphans
        BY <3>1, <3>2, <3>3 DEF Begun, Orphans
      <4>2. o \in FetchByPrev(t)
        BY <4>1, FetchFinds DEF LoopInv
      <4> QED BY <3>2, <4>2 DEF Tried
    <3> QED BY <3>2, <3>3 DEF LoopInv, LoopTypes
  <2> QED BY <1>7, <2>1, <2>2 DEF TxMessage, TxMissingInputs, TxRejected
<1>8. ASSUME NEW o \in Tx, OrphanStep(o) PROVE LoopInv'
  <2>1. ~Idle
    <3>1. o \in job.todo
      BY <1>8 DEF OrphanStep, OrphanSkipped, OrphanAccepted, OrphanRejected, OrphanWaits
    <3> QED BY <3>1 DEF Idle, NoJob
  <2> QED BY <1>8, <2>1, OrphanStepKeepsLoop
<1>9. CASE NextWork
  <2> DEFINE next == job.work[job.i + 1]
  <2>1. /\ UNCHANGED <<tip, pool, cache>> /\ ~Idle /\ job.todo = {} /\ job.i < Len(job.work)
        /\ job' = [job EXCEPT !.i = @ + 1, !.todo = FetchByPrev(next)]
    BY <1>9 DEF NextWork, MoreWork, poolVars
  <2>2. /\ job'.work = job.work /\ job'.i = job.i + 1 /\ job'.todo = FetchByPrev(next)
        /\ job'.erase = job.erase /\ job'.bad = job.bad /\ DOMAIN job' = DOMAIN job
        /\ job.i \in 0 .. Len(job.work) /\ Len(job.work) \in Nat
    BY <2>1 DEF LoopInv, LoopTypes
  <2>3. \A x : MissingInputs(x)' <=> MissingInputs(x)
    BY <2>1 DEF MissingInputs, HaveCoins, Unspent, Confirmed, poolVars
  <2>4. ASSUME NEW o \in Orphans', Begun(o)' PROVE Tried(o)'
    <3>1. o \in Orphans
      BY <2>1 DEF Orphans
    <3>2. CASE next \in Prevs(o)
      BY <2>2, <3>1, <3>2, FetchFinds DEF LoopInv, Tried
    <3>3. CASE next \notin Prevs(o)
      <4>1. Begun(o)
        BY <2>2, <2>4, <3>3 DEF Begun
      <4>2. Tried(o)
        BY <2>1, <3>1, <4>1 DEF LoopInv
      <4>3. Ahead(o) => Ahead(o)'
        BY <2>2, <3>3 DEF Ahead
      <4> QED BY <2>1, <2>2, <2>3, <4>2, <4>3 DEF Tried
    <3> QED BY <3>2, <3>3
  <2>5. LoopTypes' /\ job'.i > 0
    BY <2>1, <2>2 DEF LoopInv, LoopTypes
  <2> QED BY <2>4, <2>5 DEF LoopInv
<1>10. CASE FinishTx
  <2>1. job' = NoJob
    BY <1>10 DEF FinishTx
  <2> QED BY <2>1 DEF LoopInv, LoopTypes, Idle, NoJob
<1> QED
  BY <1>1, <1>2, <1>3, <1>4, <1>5, <1>6, <1>7, <1>8, <1>9, <1>10, <1>11, <1>12
     DEF Next, OrphanLoop, OrphanStep

\* The loop ends with FinishTx, when the last entry is gone through.
LEMMA LoopResolves ==
    ASSUME LoopInv, [Next]_vars, ~Idle, job' = NoJob, NEW o \in DOMAIN cache'.from
    PROVE  \/ \A k \in 1 .. Len(job.work) : job.work[k] \notin Prevs(o)
           \/ MissingInputs(o)
           \/ cache.from[o] \in job.bad
<1>1. FinishTx
  <2>1. job' # job /\ job.i > 0
    BY DEF Idle, LoopInv
  <2>2. ASSUME NEW x \in Tx, OrphanStep(x) PROVE FALSE
    <3>1. job'.i = job.i
      BY <2>2 DEF OrphanStep, OrphanSkipped, OrphanAccepted, OrphanRejected, OrphanWaits,
         LoopInv, LoopTypes
    <3> QED BY <2>1, <3>1 DEF NoJob
  <2>3. ASSUME NextWork PROVE FALSE
    <3>1. job'.i = job.i + 1 /\ job.i \in Nat
      BY <2>3 DEF NextWork, LoopInv, LoopTypes
    <3> QED BY <3>1 DEF NoJob
  <2>4. ASSUME NEW p \in Peers, NEW t \in Tx, InvMessage(p, t) \/ TxMessage(p, t) PROVE FALSE
    BY <2>4 DEF InvMessage, TxMessage
  <2>5. ASSUME NEW p \in Peers, SendMessages(p) \/ DisconnectPeer(p) PROVE FALSE
    BY <2>5 DEF SendMessages, DisconnectPeer
  <2>6. ASSUME NEW sent \in BOOLEAN, NewTip(sent) PROVE FALSE
    BY <2>6 DEF NewTip
  <2>7. ASSUME NEW t \in Tx, NEW v, SendRawTransaction(t, v) PROVE FALSE
    BY <2>7 DEF SendRawTransaction
  <2>10. ASSUME NEW txs \in SUBSET Tx, OtherBlock(txs) PROVE FALSE
    BY <2>10 DEF OtherBlock
  <2>8. ~Tick /\ ~(UNCHANGED vars)
    BY <2>1 DEF Tick, vars
  <2>9. Next
    BY <2>8
  <2> QED
    BY <2>2, <2>3, <2>4, <2>5, <2>6, <2>7, <2>8, <2>9, <2>10, TxRelayAssumption
       DEF Next, OrphanLoop, OrphanStep
<1>2. job.todo = {} /\ job.i = Len(job.work) /\ job.i > 0
  BY <1>1 DEF FinishTx, MoreWork, LoopInv, LoopTypes
<1>3. o \in Orphans \ job.erase
  <2>1. PICK E : cache' = EraseOrphans(EraseOrphans(cache, job.erase), E)
    BY <1>1 DEF FinishTx
  <2> QED BY <2>1 DEF EraseOrphans, Orphans
<1>4. CASE Begun(o)
  <2>1. Tried(o)
    BY <1>3, <1>4 DEF LoopInv
  <2>2. ~Ahead(o)
    BY <1>2 DEF Ahead
  <2> QED BY <1>2, <1>3, <2>1, <2>2 DEF Tried
<1>5. CASE ~Begun(o)
  BY <1>2, <1>5 DEF Begun
<1> QED BY <1>4, <1>5

\* When the TX handler returns no orphan is left that waited for a transaction accepted
\* meanwhile and has all its inputs, in whatever order the orphans were tried, for any
\* transactions, any length of vWorkQueue and whatever made room in the pool.
THEOREM ResolvedCorrect == Spec => OrphansResolved
<1>1. Init /\ PrevIndexExact => LoopInv
  BY DEF Init, LoopInv, LoopTypes, Idle, NoJob
<1>2. LoopInv /\ PrevIndexExact' /\ [Next]_vars => LoopInv'
  BY LoopStep
<1>3. LoopInv /\ [Next]_vars =>
         [~Idle /\ job' = NoJob =>
             \A o \in DOMAIN cache'.from :
                \/ \A k \in 1 .. Len(job.work) : job.work[k] \notin Prevs(o)
                \/ MissingInputs(o)
                \/ cache.from[o] \in job.bad]_vars
  BY LoopResolves
<1> QED BY <1>1, <1>2, <1>3, IndexCorrect, PTL DEF Spec, OrphansResolved

=============================================================================
