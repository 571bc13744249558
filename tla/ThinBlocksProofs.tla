-------------------------- MODULE ThinBlocksProofs ---------------------------
(***************************************************************************)
(* Proofs about ThinBlocks, for any peers, transactions and number of      *)
(* messages: thinBlockWaitingForTxns counts what is missing of a block,    *)
(* slots and requests in flight are what is still wanted, and an honest    *)
(* peer is not blamed.                                                     *)
(***************************************************************************)
EXTENDS ThinBlocks, FiniteSetTheorems, TLAPS

-----------------------------------------------------------------------------
(* The tables.                                                             *)

\* What a peer may be asked, a thin block as XBLOCKTX sees it, and dl.
Reqs == [type : {"headers", "xthin", "block", "tx"}, block : Blocks, txs : SUBSET Tx]
Thins == [block : 0 .. Height, missing : SUBSET Tx, right : BOOLEAN]
Tables == [inFlight : [Blocks -> Peers \cup {None}], slot : [Peers -> SUBSET Blocks],
           thin : [Peers -> Thins], waiting : [Peers -> Int],
           timer : [Blocks -> {"none", "running", "over"}], owes : [Peers -> Seq(Reqs)]]

\* The values of thinBlockWaitingForTxns.
Numbers == Int

\* Thin block and count of p are set.
WithThin(d, p, w, t) == [d EXCEPT !.waiting[p] = w, !.thin[p] = t]
\* The timer of b is set.
WithTimer(d, b, v) == [d EXCEPT !.timer[b] = v]
\* b is to come from p, in full or with its slot.
WithAsked(d, p, b, how) ==
    IF how = "xthin" THEN [d EXCEPT !.slot[p] = {b}, !.inFlight[b] = p]
    ELSE [d EXCEPT !.inFlight[b] = p]

\* The requests that have not been answered.
Owed(s) == {s[i] : i \in 1 .. Len(s)}

\* The request r makes b come from p in the end: it is for the whole block, for a thin
\* block that has its slot, or for all that is missing of the thin block there is.
Serves(d, p, b, r) ==
    /\ r.block = b
    /\ \/ r.type = "block"
       \/ r.type = "xthin" /\ b \in d.slot[p]
       \/ /\ r.type = "tx" /\ b \in d.slot[p] /\ d.thin[p].block = b
          /\ d.thin[p].missing # {} /\ d.thin[p].missing \subseteq r.txs

\* The parts of the invariant that are about dl.
Exact(w, t) == w = IF t.missing = {} THEN -1 ELSE Cardinality(t.missing)
CountOK(w, t) ==
    /\ t.right => Exact(w, t)
    /\ w # 0 /\ w <= Cardinality(t.missing)
    /\ t.missing # {} => t.block \in Blocks
Counts(d) == \A p \in Peers : CountOK(d.waiting[p], d.thin[p]) /\ (p \in Honest => d.thin[p].right)
OneSlot(d) == \A p \in Peers : \A b, c \in d.slot[p] : b = c
Wanted(d, S, sub) ==
    \A p \in Peers : \A b \in d.slot[p] : (d.inFlight[b] = p /\ b \notin S) \/ b \in sub
Served(d, p, b) ==
    p \in Honest /\ d.inFlight[b] = p => \E r \in Owed(d.owes[p]) : Serves(d, p, b, r)
AllServed(d) == \A p \in Peers, b \in Blocks : Served(d, p, b)

\* What holds of dl in any case, and what holds of it as long as nothing is confused.
Shape(d) == d \in Tables /\ Counts(d) /\ OneSlot(d)
Fine(d, S, sub) == Wanted(d, S, sub) /\ AllServed(d)

\* All but b are served by p: what is left after p has answered a request for b.
OthersServed(d, p, b) ==
    \A q \in Peers, c \in Blocks : ~(q = p /\ c = b) => Served(d, q, c)

\* Thin blocks.
LEMMA ThinFacts ==
    /\ NoThin \in Thins /\ NoThin.missing = {} /\ NoThin.right
    /\ \A b \in 0 .. Height, m \in SUBSET Tx, r \in BOOLEAN :
          [block |-> b, missing |-> m, right |-> r] \in Thins
    /\ \A t \in Thins : t.block \in 0 .. Height /\ t.missing \in SUBSET Tx
    /\ \A t \in Thins, m \in SUBSET Tx :
          /\ [t EXCEPT !.missing = m] \in Thins /\ [t EXCEPT !.missing = m].missing = m
          /\ [t EXCEPT !.missing = m].block = t.block
          /\ [t EXCEPT !.missing = m].right = t.right
<1>1. NoThin \in Thins /\ NoThin.missing = {} /\ NoThin.right
  BY ThinAssumption DEF NoThin, Thins
<1>2. \A b \in 0 .. Height, m \in SUBSET Tx, r \in BOOLEAN :
          [block |-> b, missing |-> m, right |-> r] \in Thins
  BY DEF Thins
<1>3. \A t \in Thins : t.block \in 0 .. Height /\ t.missing \in SUBSET Tx
  BY DEF Thins
<1>4. \A t \in Thins, m \in SUBSET Tx :
          /\ [t EXCEPT !.missing = m] \in Thins /\ [t EXCEPT !.missing = m].missing = m
          /\ [t EXCEPT !.missing = m].block = t.block
          /\ [t EXCEPT !.missing = m].right = t.right
  BY DEF Thins
<1> QED BY <1>1, <1>2, <1>3, <1>4

\* Requests.
LEMMA AskedFacts ==
    ASSUME NEW type \in {"headers", "xthin", "block", "tx"}, NEW b \in Blocks,
           NEW txs \in SUBSET Tx
    PROVE  /\ Asked(type, b, txs) \in Reqs /\ Asked(type, b, txs).type = type
           /\ Asked(type, b, txs).block = b /\ Asked(type, b, txs).txs = txs
BY DEF Asked, Reqs

\* The fields of dl.
LEMMA TablesFields ==
    ASSUME NEW d \in Tables
    PROVE  /\ d.inFlight \in [Blocks -> Peers \cup {None}] /\ d.slot \in [Peers -> SUBSET Blocks]
           /\ d.thin \in [Peers -> Thins] /\ d.waiting \in [Peers -> Int]
           /\ d.timer \in [Blocks -> {"none", "running", "over"}]
           /\ d.owes \in [Peers -> Seq(Reqs)]
BY DEF Tables

\* A record with these fields is dl.
LEMMA TablesBuilt ==
    ASSUME NEW e,
           e = [inFlight |-> e.inFlight, slot |-> e.slot, thin |-> e.thin,
                waiting |-> e.waiting, timer |-> e.timer, owes |-> e.owes],
           e.inFlight \in [Blocks -> Peers \cup {None}], e.slot \in [Peers -> SUBSET Blocks],
           e.thin \in [Peers -> Thins], e.waiting \in [Peers -> Int],
           e.timer \in [Blocks -> {"none", "running", "over"}],
           e.owes \in [Peers -> Seq(Reqs)]
    PROVE  e \in Tables
BY DEF Tables

\* One request more.
LEMMA OweEffect ==
    ASSUME NEW d \in Tables, NEW p \in Peers, NEW r \in Reqs, NEW e, e = Owe(d, p, r)
    PROVE  /\ e \in Tables /\ e.inFlight = d.inFlight /\ e.slot = d.slot /\ e.thin = d.thin
           /\ e.waiting = d.waiting /\ e.timer = d.timer
           /\ \A q \in Peers : Owed(d.owes[q]) \subseteq Owed(e.owes[q])
           /\ p \in Honest => r \in Owed(e.owes[p])
<1>1. CASE p \notin Honest
  BY <1>1 DEF Owe
<1>2. CASE p \in Honest
  <2>1. e = [d EXCEPT !.owes[p] = Append(@, r)]
    BY <1>2 DEF Owe
  <2>3. /\ e.inFlight = d.inFlight /\ e.slot = d.slot /\ e.thin = d.thin
        /\ e.waiting = d.waiting /\ e.timer = d.timer
        /\ e.owes = [d.owes EXCEPT ![p] = Append(@, r)]
        /\ e = [inFlight |-> e.inFlight, slot |-> e.slot, thin |-> e.thin,
                waiting |-> e.waiting, timer |-> e.timer, owes |-> e.owes]
    BY <2>1 DEF Tables
  <2>4. d.owes[p] \in Seq(Reqs) /\ Append(d.owes[p], r) \in Seq(Reqs)
    BY TablesFields
  <2>2. e \in Tables
    <3>1. e.owes \in [Peers -> Seq(Reqs)]
      BY <2>3, <2>4, TablesFields
    <3> QED BY <2>3, <3>1, TablesFields, TablesBuilt
  <2>5. Owed(d.owes[p]) \cup {r} \subseteq Owed(Append(d.owes[p], r))
    <3> DEFINE s == d.owes[p]
    <3>1. s \in Seq(Reqs)
      BY <2>4
    <3> HIDE DEF s
    <3>2. /\ Len(Append(s, r)) = Len(s) + 1 /\ Append(s, r)[Len(s) + 1] = r
          /\ \A i \in 1 .. Len(s) : Append(s, r)[i] = s[i]
      BY <3>1
    <3>3. Owed(s) \subseteq Owed(Append(s, r))
      BY <3>1, <3>2 DEF Owed
    <3>4. r \in Owed(Append(s, r))
      BY <3>1, <3>2 DEF Owed
    <3> QED BY <3>3, <3>4 DEF s
  <2>6. \A q \in Peers : e.owes[q] = IF q = p THEN Append(d.owes[p], r) ELSE d.owes[q]
    BY <2>3, TablesFields
  <2> QED BY <2>2, <2>3, <2>5, <2>6
<1> QED BY <1>1, <1>2

\* The first request is answered.
LEMMA AnsweredEffect ==
    ASSUME NEW d \in Tables, NEW p \in Peers, NEW e, e = Answered(d, p),
           p \in Honest => d.owes[p] # <<>>
    PROVE  /\ e \in Tables /\ e.inFlight = d.inFlight /\ e.slot = d.slot /\ e.thin = d.thin
           /\ e.waiting = d.waiting /\ e.timer = d.timer
           /\ \A q \in Peers \ {p} : e.owes[q] = d.owes[q]
           /\ p \in Honest => Owed(d.owes[p]) \subseteq Owed(e.owes[p]) \cup {Head(d.owes[p])}
<1>1. CASE p \notin Honest
  BY <1>1 DEF Answered
<1>2. CASE p \in Honest
  <2>1. e = [d EXCEPT !.owes[p] = Tail(@)]
    BY <1>2 DEF Answered
  <2>2. d.owes[p] \in Seq(Reqs) /\ d.owes[p] # <<>>
    BY <1>2, TablesFields
  <2>4. /\ e.inFlight = d.inFlight /\ e.slot = d.slot /\ e.thin = d.thin
        /\ e.waiting = d.waiting /\ e.timer = d.timer
        /\ e.owes = [d.owes EXCEPT ![p] = Tail(@)]
        /\ e = [inFlight |-> e.inFlight, slot |-> e.slot, thin |-> e.thin,
                waiting |-> e.waiting, timer |-> e.timer, owes |-> e.owes]
    BY <2>1 DEF Tables
  <2>3. e \in Tables
    <3>1. Tail(d.owes[p]) \in Seq(Reqs)
      BY <2>2
    <3>2. e.owes \in [Peers -> Seq(Reqs)]
      BY <2>4, <3>1, TablesFields
    <3> QED BY <2>4, <3>2, TablesFields, TablesBuilt
  <2>5. Owed(d.owes[p]) \subseteq Owed(Tail(d.owes[p])) \cup {Head(d.owes[p])}
    <3> DEFINE s == d.owes[p]
    <3>1. s \in Seq(Reqs) /\ s # <<>>
      BY <2>2
    <3> HIDE DEF s
    <3>2. /\ Len(Tail(s)) = Len(s) - 1 /\ Head(s) = s[1] /\ Len(s) \in Nat \ {0}
          /\ \A i \in 1 .. Len(s) - 1 : Tail(s)[i] = s[i + 1]
      BY <3>1
    <3>3. ASSUME NEW i \in 1 .. Len(s), i # 1 PROVE s[i] \in Owed(Tail(s))
      <4>1. i - 1 \in 1 .. Len(s) - 1 /\ s[(i - 1) + 1] = s[i]
        BY <3>2, <3>3
      <4>2. Tail(s)[i - 1] = s[i]
        BY <3>2, <4>1
      <4> QED BY <3>2, <4>1, <4>2 DEF Owed
    <3> QED BY <3>2, <3>3 DEF Owed, s
  <2>6. \A q \in Peers : e.owes[q] = IF q = p THEN Tail(d.owes[p]) ELSE d.owes[q]
    BY <2>4, TablesFields
  <2> QED BY <2>3, <2>4, <2>5, <2>6
<1> QED BY <1>1, <1>2

\* The thin block of a peer is set together with the count.
LEMMA ThinEffect ==
    ASSUME NEW d \in Tables, NEW p \in Peers, NEW w \in Numbers, NEW t \in Thins, NEW e,
           e = WithThin(d, p, w, t)
    PROVE  /\ e \in Tables /\ e.inFlight = d.inFlight /\ e.slot = d.slot
           /\ e.timer = d.timer /\ e.owes = d.owes
           /\ e.thin[p] = t /\ e.waiting[p] = w
           /\ \A q \in Peers \ {p} : e.thin[q] = d.thin[q] /\ e.waiting[q] = d.waiting[q]
<1>1. /\ e.inFlight = d.inFlight /\ e.slot = d.slot /\ e.timer = d.timer /\ e.owes = d.owes
      /\ e.thin = [d.thin EXCEPT ![p] = t] /\ e.waiting = [d.waiting EXCEPT ![p] = w]
      /\ e = [inFlight |-> e.inFlight, slot |-> e.slot, thin |-> e.thin,
              waiting |-> e.waiting, timer |-> e.timer, owes |-> e.owes]
  BY DEF Tables, WithThin
<1>2. e.thin \in [Peers -> Thins] /\ e.waiting \in [Peers -> Int]
  BY <1>1, TablesFields DEF Numbers
<1>3. e \in Tables
  BY <1>1, <1>2, TablesFields, TablesBuilt
<1> QED BY <1>1, <1>3, TablesFields

\* Nothing is wanted of b any more, and no slot has it.
LEMMA HandledEffect ==
    ASSUME NEW d \in Tables, NEW p \in Peers, NEW b \in Blocks, NEW h \in Blocks, NEW e,
           e = Cleared(Received(d, b), p, h)
    PROVE  /\ e \in Tables /\ e.owes = d.owes
           /\ e.inFlight[b] = None /\ \A c \in Blocks \ {b} : e.inFlight[c] = d.inFlight[c]
           /\ \A q \in Peers : e.slot[q] = d.slot[q] \ {h}
           /\ \A q \in Peers : h \in d.slot[q] => e.thin[q] = NoThin /\ e.waiting[q] = -1
           /\ \A q \in Peers : h \notin d.slot[q] =>
                 e.thin[q] = d.thin[q] /\ e.waiting[q] = d.waiting[q]
<1> DEFINE c == Received(d, b)
<1>1. /\ c \in Tables /\ c.slot = d.slot /\ c.thin = d.thin /\ c.waiting = d.waiting
      /\ c.timer = d.timer /\ c.owes = d.owes /\ c.inFlight = [d.inFlight EXCEPT ![b] = None]
  BY DEF Received, Tables
<1>2. e = Cleared(c, p, h)
  OBVIOUS
<1> HIDE DEF c
<1>4. /\ e.owes = c.owes /\ e.inFlight = c.inFlight
      /\ e.slot = [q \in Peers |-> c.slot[q] \ {h}]
      /\ e.waiting = [q \in Peers |-> IF h \in c.slot[q] THEN -1 ELSE c.waiting[q]]
      /\ e.thin = [q \in Peers |-> IF h \in c.slot[q] THEN NoThin ELSE c.thin[q]]
      /\ e.timer = [c.timer EXCEPT ![h] = "none"]
  BY <1>1, <1>2 DEF Cleared, Tables
<1>3. e.inFlight[b] = None /\ \A x \in Blocks \ {b} : e.inFlight[x] = d.inFlight[x]
  BY <1>1, <1>4, TablesFields
<1>5. e \in Tables
  <2>1. /\ e.slot \in [Peers -> SUBSET Blocks] /\ e.waiting \in [Peers -> Int]
        /\ e.thin \in [Peers -> Thins] /\ e.timer \in [Blocks -> {"none", "running", "over"}]
        /\ e.owes \in [Peers -> Seq(Reqs)] /\ e.inFlight \in [Blocks -> Peers \cup {None}]
    BY <1>1, <1>4, ThinFacts, TablesFields
  <2>2. e = [inFlight |-> e.inFlight, slot |-> e.slot, thin |-> e.thin, waiting |-> e.waiting,
             timer |-> e.timer, owes |-> e.owes]
    BY <1>1, <1>2 DEF Cleared, Tables
  <2> QED BY <2>1, <2>2, TablesBuilt
<1> QED BY <1>1, <1>3, <1>4, <1>5

-----------------------------------------------------------------------------
(* What is served stays served.                                            *)

\* A request that was made counts as long as the slot and the thin block it is about are
\* there.
LEMMA ServedKept ==
    ASSUME NEW d, NEW e, NEW q \in Peers, NEW c \in Blocks, Served(d, q, c),
           q \in Honest /\ e.inFlight[c] = q =>
               /\ d.inFlight[c] = q /\ Owed(d.owes[q]) \subseteq Owed(e.owes[q])
               /\ c \in d.slot[q] => c \in e.slot[q]
               /\ c \in d.slot[q] /\ d.thin[q].block = c /\ d.thin[q].missing # {} =>
                     /\ e.thin[q].block = c /\ e.thin[q].missing # {}
                     /\ e.thin[q].missing \subseteq d.thin[q].missing
    PROVE  Served(e, q, c)
<1>1. SUFFICES ASSUME q \in Honest, e.inFlight[c] = q
               PROVE  \E r \in Owed(e.owes[q]) : Serves(e, q, c, r)
  BY DEF Served
<1>2. PICK r \in Owed(d.owes[q]) : Serves(d, q, c, r)
  BY <1>1 DEF Served
<1>3. Serves(e, q, c, r)
  BY <1>1, <1>2 DEF Serves
<1> QED BY <1>1, <1>2, <1>3

\* An answer takes away what its request serves.
LEMMA AnsweredKeeps ==
    ASSUME NEW d \in Tables, NEW p \in Peers, NEW e, e = Answered(d, p),
           p \in Honest => d.owes[p] # <<>>,
           NEW q \in Peers, NEW c \in Blocks, Served(d, q, c),
           q = p /\ p \in Honest => ~Serves(d, p, c, Head(d.owes[p]))
    PROVE  Served(e, q, c)
<1>1. SUFFICES ASSUME q \in Honest, e.inFlight[c] = q
               PROVE  \E r \in Owed(e.owes[q]) : Serves(e, q, c, r)
  BY DEF Served
<1>2. /\ e.inFlight = d.inFlight /\ e.slot = d.slot /\ e.thin = d.thin
      /\ q # p => e.owes[q] = d.owes[q]
      /\ q = p => Owed(d.owes[q]) \subseteq Owed(e.owes[q]) \cup {Head(d.owes[p])}
  BY <1>1, AnsweredEffect
<1>3. PICK r \in Owed(d.owes[q]) : Serves(d, q, c, r)
  BY <1>1, <1>2 DEF Served
<1>4. Serves(e, q, c, r)
  BY <1>2, <1>3 DEF Serves
<1>5. r \in Owed(e.owes[q])
  BY <1>1, <1>2, <1>3
<1> QED BY <1>4, <1>5

\* A thin block is forgotten or begun: only the one Forgets is about loses its
\* request.
LEMMA ThinKeeps ==
    ASSUME NEW d \in Tables, NEW p \in Peers, NEW b \in Blocks, NEW w \in Numbers, NEW t \in Thins,
           NEW e, e = WithThin(d, p, w, t), ~Forgets(d, p, b),
           NEW q \in Peers, NEW c \in Blocks, Served(d, q, c),
           ~(q = p /\ c = b) \/ c \notin d.slot[q]
    PROVE  Served(e, q, c)
<1>1. /\ e.inFlight = d.inFlight /\ e.slot = d.slot /\ e.owes = d.owes
      /\ \A x \in Peers \ {p} : e.thin[x] = d.thin[x]
  BY ThinEffect
<1>2. c \in d.slot[q] /\ d.thin[q].block = c /\ d.thin[q].missing # {} => q # p
  BY DEF Forgets
<1>3. c \in d.slot[q] /\ d.thin[q].block = c /\ d.thin[q].missing # {} => e.thin[q] = d.thin[q]
  BY <1>1, <1>2
<1> QED BY <1>1, <1>3, ServedKept

\* After a block has come the others are served as before.
LEMMA HandledKeeps ==
    ASSUME NEW d \in Tables, NEW p \in Peers, NEW b \in Blocks, NEW e,
           e = Cleared(Received(d, b), p, b), OneSlot(d), OthersServed(d, p, b)
    PROVE  AllServed(e)
<1> SUFFICES ASSUME NEW q \in Peers, NEW c \in Blocks PROVE Served(e, q, c)
  BY DEF AllServed
<1>1. CASE c = b
  <2>1. e.inFlight[b] = None
    BY HandledEffect
  <2> QED BY <1>1, <2>1, ThinAssumption DEF Served
<1>2. CASE c # b
  <2>1. Served(d, q, c)
    BY <1>2 DEF OthersServed
  <2>2. /\ e.inFlight[c] = d.inFlight[c] /\ e.owes = d.owes /\ e.slot[q] = d.slot[q] \ {b}
        /\ b \notin d.slot[q] => e.thin[q] = d.thin[q]
    BY <1>2, HandledEffect
  <2>3. c \in d.slot[q] => b \notin d.slot[q]
    BY <1>2 DEF OneSlot
  <2>4. d.thin[q] \in Thins
    BY TablesFields
  <2> QED BY <1>2, <2>1, <2>2, <2>3, <2>4, ServedKept
<1> QED BY <1>1, <1>2

-----------------------------------------------------------------------------
(* What the operations on dl keep.                                         *)

\* One request more does no harm.
LEMMA OweKeeps ==
    ASSUME NEW d, Shape(d), NEW p \in Peers, NEW r \in Reqs, NEW e, e = Owe(d, p, r),
           NEW S, NEW sub
    PROVE  /\ Shape(e)
           /\ Wanted(d, S, sub) => Wanted(e, S, sub)
           /\ \A q \in Peers, c \in Blocks : Served(d, q, c) => Served(e, q, c)
<1>1. d \in Tables
  BY DEF Shape
<1>2. /\ e \in Tables /\ e.inFlight = d.inFlight /\ e.slot = d.slot /\ e.thin = d.thin
      /\ e.waiting = d.waiting
      /\ \A q \in Peers : Owed(d.owes[q]) \subseteq Owed(e.owes[q])
  <2>1. /\ e \in Tables /\ e.inFlight = d.inFlight /\ e.slot = d.slot /\ e.thin = d.thin
        /\ e.waiting = d.waiting
    BY <1>1, OweEffect
  <2>2. \A q \in Peers : Owed(d.owes[q]) \subseteq Owed(e.owes[q])
    BY <1>1, OweEffect, Zenon
  <2> QED BY <2>1, <2>2
<1>3. Shape(e)
  BY <1>2 DEF Shape, Counts, OneSlot
<1>4. Wanted(d, S, sub) => Wanted(e, S, sub)
  BY <1>2 DEF Wanted
<1>5. ASSUME NEW q \in Peers, NEW c \in Blocks, Served(d, q, c) PROVE Served(e, q, c)
  BY <1>2, <1>5, ServedKept
<1> QED BY <1>3, <1>4, <1>5

\* An answer changes nothing but what is owed.
LEMMA AnsweredShape ==
    ASSUME NEW d, Shape(d), NEW p \in Peers, NEW e, e = Answered(d, p),
           p \in Honest => d.owes[p] # <<>>, NEW S, NEW sub
    PROVE  Shape(e) /\ (Wanted(d, S, sub) => Wanted(e, S, sub))
<1>1. d \in Tables
  BY DEF Shape
<1>2. /\ e \in Tables /\ e.inFlight = d.inFlight /\ e.slot = d.slot /\ e.thin = d.thin
      /\ e.waiting = d.waiting
  BY <1>1, AnsweredEffect
<1> QED BY <1>2 DEF Shape, Counts, OneSlot, Wanted

\* Thin block and count are set together.
LEMMA ThinShape ==
    ASSUME NEW d, Shape(d), NEW p \in Peers, NEW w \in Numbers, NEW t \in Thins, CountOK(w, t),
           p \in Honest => t.right, NEW e, e = WithThin(d, p, w, t), NEW S, NEW sub
    PROVE  Shape(e) /\ (Wanted(d, S, sub) => Wanted(e, S, sub))
<1>1. d \in Tables
  BY DEF Shape
<1>2. /\ e \in Tables /\ e.inFlight = d.inFlight /\ e.slot = d.slot
      /\ e.thin[p] = t /\ e.waiting[p] = w
      /\ \A q \in Peers \ {p} : e.thin[q] = d.thin[q] /\ e.waiting[q] = d.waiting[q]
  BY <1>1, ThinEffect
<1>3. Counts(e)
  <2> SUFFICES ASSUME NEW q \in Peers
               PROVE  CountOK(e.waiting[q], e.thin[q]) /\ (q \in Honest => e.thin[q].right)
    BY DEF Counts
  <2> QED BY <1>2 DEF Shape, Counts
<1> QED BY <1>2, <1>3 DEF Shape, OneSlot, Wanted

\* No thin block, no count.
LEMMA NoThinOK ==
    NoThin \in Thins /\ -1 \in Numbers /\ CountOK(-1, NoThin) /\ NoThin.right
<1>1. Cardinality({}) = 0
  BY FS_EmptySet
<1> QED BY <1>1, ThinFacts DEF Numbers, CountOK, Exact

\* A block has come.
LEMMA HandledShape ==
    ASSUME NEW d, Shape(d), NEW p \in Peers, NEW b \in Blocks, NEW h \in Blocks, NEW e,
           e = Cleared(Received(d, b), p, h)
    PROVE  Shape(e)
<1>1. d \in Tables
  BY DEF Shape
<1>2. /\ e \in Tables /\ \A q \in Peers : e.slot[q] = d.slot[q] \ {h}
      /\ \A q \in Peers : h \in d.slot[q] => e.thin[q] = NoThin /\ e.waiting[q] = -1
      /\ \A q \in Peers : h \notin d.slot[q] =>
                 e.thin[q] = d.thin[q] /\ e.waiting[q] = d.waiting[q]
  BY <1>1, HandledEffect
<1>3. Counts(e)
  <2> SUFFICES ASSUME NEW q \in Peers
               PROVE  CountOK(e.waiting[q], e.thin[q]) /\ (q \in Honest => e.thin[q].right)
    BY DEF Counts
  <2>1. CASE h \in d.slot[q]
    BY <1>2, <2>1, NoThinOK
  <2>2. CASE h \notin d.slot[q]
    BY <1>2, <2>2 DEF Shape, Counts
  <2> QED BY <2>1, <2>2
<1> QED BY <1>2, <1>3 DEF Shape, OneSlot

\* When a block has come nobody is asked for it any more, whether it is stored or not.
LEMMA HandledWanted ==
    ASSUME NEW d, Shape(d), NEW p \in Peers, NEW b \in Blocks, NEW e,
           e = Cleared(Received(d, b), p, b), NEW S, NEW T, NEW sub,
           Wanted(d, S, sub), T \subseteq S \cup {b}
    PROVE  Wanted(e, T, sub)
<1>1. d \in Tables
  BY DEF Shape
<1>2. /\ \A c \in Blocks \ {b} : e.inFlight[c] = d.inFlight[c]
      /\ \A q \in Peers : e.slot[q] = d.slot[q] \ {b} /\ d.slot[q] \subseteq Blocks
  BY <1>1, HandledEffect, TablesFields
<1> QED BY <1>2 DEF Wanted

\* The timer is nobody's concern.
LEMMA TimerKeeps ==
    ASSUME NEW d, Shape(d), NEW b \in Blocks, NEW v \in {"none", "running", "over"}, NEW e,
           e = WithTimer(d, b, v), NEW S, NEW sub
    PROVE  /\ Shape(e) /\ e.inFlight = d.inFlight /\ e.slot = d.slot /\ e.owes = d.owes
           /\ e.thin = d.thin /\ e.waiting = d.waiting
           /\ Fine(d, S, sub) => Fine(e, S, sub)
<1>1. d \in Tables
  BY DEF Shape
<1>2. /\ e.inFlight = d.inFlight /\ e.slot = d.slot /\ e.owes = d.owes /\ e.thin = d.thin
      /\ e.waiting = d.waiting /\ e.timer = [d.timer EXCEPT ![b] = v]
      /\ e = [inFlight |-> e.inFlight, slot |-> e.slot, thin |-> e.thin,
              waiting |-> e.waiting, timer |-> e.timer, owes |-> e.owes]
  BY <1>1 DEF Tables, WithTimer
<1>3. e \in Tables
  <2>1. e.timer \in [Blocks -> {"none", "running", "over"}]
    BY <1>1, <1>2, TablesFields
  <2> QED BY <1>1, <1>2, <2>1, TablesFields, TablesBuilt
<1>4. Shape(e)
  BY <1>2, <1>3 DEF Shape, Counts, OneSlot
<1>5. Fine(d, S, sub) => Fine(e, S, sub)
  BY <1>2 DEF Fine, Wanted, AllServed, Served, Serves
<1> QED BY <1>2, <1>4, <1>5

\* p is asked for b, which nobody else is asked for: as a thin block if that takes the
\* slot, else in full.
LEMMA AskKeeps ==
    ASSUME NEW d, Shape(d), NEW p \in Peers, NEW b \in Blocks, d.inFlight[b] = None,
           NEW S, NEW sub, b \notin S, NEW how \in {"xthin", "block"},
           how = "xthin" => d.slot[p] = {},
           NEW f, f = WithAsked(d, p, b, how), NEW e, e = Owe(f, p, Asked(how, b, {}))
    PROVE  /\ Shape(e) /\ \A c \in Blocks \ {b} : e.inFlight[c] = d.inFlight[c]
           /\ Fine(d, S, sub) => Fine(e, S, sub)
<1>1. d \in Tables
  BY DEF Shape
<1>2. /\ f.inFlight = [d.inFlight EXCEPT ![b] = p]
      /\ f.slot = IF how = "xthin" THEN [d.slot EXCEPT ![p] = {b}] ELSE d.slot
      /\ f.owes = d.owes /\ f.thin = d.thin /\ f.waiting = d.waiting /\ f.timer = d.timer
      /\ f = [inFlight |-> f.inFlight, slot |-> f.slot, thin |-> f.thin,
              waiting |-> f.waiting, timer |-> f.timer, owes |-> f.owes]
  BY <1>1 DEF Tables, WithAsked
<1>3. f \in Tables
  <2>1. f.inFlight \in [Blocks -> Peers \cup {None}] /\ f.slot \in [Peers -> SUBSET Blocks]
    BY <1>1, <1>2, TablesFields
  <2> QED BY <1>1, <1>2, <2>1, TablesFields, TablesBuilt
<1>4. /\ \A c \in Blocks : f.inFlight[c] = IF c = b THEN p ELSE d.inFlight[c]
      /\ \A q \in Peers : f.slot[q] = IF how = "xthin" /\ q = p THEN {b} ELSE d.slot[q]
      /\ \A q \in Peers : d.slot[q] \subseteq Blocks
  BY <1>1, <1>2, TablesFields
<1>5. Shape(f)
  BY <1>2, <1>3, <1>4 DEF Shape, Counts, OneSlot
<1> DEFINE r == Asked(how, b, {})
<1>6. r \in Reqs /\ r.type = how /\ r.block = b
  BY AskedFacts
<1>7. e = Owe(f, p, r)
  OBVIOUS
<1> HIDE DEF r
<1>8. Shape(e) /\ e.inFlight = f.inFlight /\ e.slot = f.slot
  <2>1. Shape(e)
    BY <1>5, <1>6, <1>7, OweKeeps
  <2>2. e.inFlight = f.inFlight /\ e.slot = f.slot
    BY ONLY <1>3, <1>6, <1>7, OweEffect, p \in Peers
  <2> QED BY <2>1, <2>2
<1>9. ASSUME Fine(d, S, sub) PROVE Fine(e, S, sub)
  <2>1. Wanted(f, S, sub)
    <3> SUFFICES ASSUME NEW q \in Peers, NEW c \in f.slot[q]
                 PROVE  (f.inFlight[c] = q /\ c \notin S) \/ c \in sub
      BY DEF Wanted
    <3>1. CASE c \in d.slot[q]
      <4>1. (d.inFlight[c] = q /\ c \notin S) \/ c \in sub
        BY <1>9, <3>1 DEF Fine, Wanted
      <4> QED BY <1>4, <3>1, <4>1, ThinAssumption
    <3>2. CASE c \notin d.slot[q]
      BY <1>4, <3>2
    <3> QED BY <3>1, <3>2
  <2>2. Wanted(e, S, sub)
    BY <1>5, <1>6, <1>7, <2>1, OweKeeps
  <2>3. ASSUME NEW q \in Peers, NEW c \in Blocks PROVE Served(e, q, c)
    <3>1. CASE q = p /\ c = b
      <4>1. p \in Honest => r \in Owed(e.owes[p])
        BY <1>3, <1>6, <1>7, OweEffect
      <4>2. Serves(e, p, b, r)
        BY <1>4, <1>6, <1>8 DEF Serves
      <4> QED BY <3>1, <4>1, <4>2 DEF Served
    <3>2. CASE ~(q = p /\ c = b)
      <4>1. Served(d, q, c)
        BY <1>9 DEF Fine, AllServed
      <4>2. f.inFlight[c] = q => d.inFlight[c] = q
        BY <1>4, <3>2
      <4>3. c \in d.slot[q] => c \in f.slot[q]
        BY <1>4
      <4>4. Served(f, q, c)
        <5>1. f.owes[q] = d.owes[q] /\ f.thin[q] = d.thin[q]
          BY <1>2
        <5> QED BY ONLY <4>1, <4>2, <4>3, <5>1, ServedKept, q \in Peers, c \in Blocks
      <4> QED BY <1>5, <1>6, <1>7, <4>4, OweKeeps
    <3> QED BY <3>1, <3>2
  <2> QED BY <2>2, <2>3 DEF Fine, AllServed
<1> QED BY <1>4, <1>8, <1>9

\* Request, whichever way it goes.
LEMMA RequestKeeps ==
    ASSUME NEW d, Shape(d), NEW p \in Peers, NEW b \in Blocks, d.inFlight[b] = None,
           NEW S, NEW sub, b \notin S, NEW e, e = Request(d, p, b)
    PROVE  /\ Shape(e) /\ \A c \in Blocks \ {b} : e.inFlight[c] = d.inFlight[c]
           /\ Fine(d, S, sub) => Fine(e, S, sub)
<1> DEFINE v == IF d.timer[b] = "none" /\ HaveThinblockNodes THEN "running" ELSE d.timer[b]
           t == WithTimer(d, b, v)
<1>1. v \in {"none", "running", "over"}
  BY TablesFields DEF Shape
<1>2. e = IF p \in capable /\ d.slot[p] = {}
          THEN Owe(WithAsked(t, p, b, "xthin"), p, Asked("xthin", b, {}))
          ELSE IF ThinOnly(d, b) THEN t
          ELSE Owe(WithAsked(t, p, b, "block"), p, Asked("block", b, {}))
  BY DEF Request, WithTimer, WithAsked
<1> HIDE DEF v
<1>3. t = WithTimer(d, b, v)
  OBVIOUS
<1> HIDE DEF t
<1>4. /\ Shape(t) /\ t.inFlight = d.inFlight /\ t.slot = d.slot
      /\ Fine(d, S, sub) => Fine(t, S, sub)
  BY <1>1, <1>3, TimerKeeps
<1>5. CASE e = t
  BY <1>4, <1>5
<1>6. CASE \E how \in {"xthin", "block"} :
               /\ how = "xthin" => d.slot[p] = {}
               /\ e = Owe(WithAsked(t, p, b, how), p, Asked(how, b, {}))
  <2>1. PICK how \in {"xthin", "block"} :
               /\ how = "xthin" => t.slot[p] = {}
               /\ e = Owe(WithAsked(t, p, b, how), p, Asked(how, b, {}))
    BY <1>4, <1>6
  <2>2. t.inFlight[b] = None
    BY <1>4
  <2>3. /\ Shape(e) /\ \A c \in Blocks \ {b} : e.inFlight[c] = t.inFlight[c]
        /\ Fine(t, S, sub) => Fine(e, S, sub)
    BY <1>4, <2>1, <2>2, AskKeeps
  <2> QED BY <1>4, <2>3
<1> QED BY <1>2, <1>5, <1>6

\* submitblock brings b.
LEMMA ReceivedKeeps ==
    ASSUME NEW d, Shape(d), NEW b \in Blocks, NEW S, NEW sub, NEW e, e = Received(d, b)
    PROVE  Shape(e) /\ (Fine(d, S, sub) => Fine(e, S \cup {b}, sub \cup {b}))
<1>1. d \in Tables
  BY DEF Shape
<1>2. /\ e \in Tables /\ e.slot = d.slot /\ e.thin = d.thin /\ e.waiting = d.waiting
      /\ e.owes = d.owes /\ e.inFlight = [d.inFlight EXCEPT ![b] = None]
  BY <1>1 DEF Received, Tables
<1>3. /\ \A c \in Blocks : e.inFlight[c] = IF c = b THEN None ELSE d.inFlight[c]
      /\ \A q \in Peers : d.slot[q] \subseteq Blocks
  BY <1>1, <1>2, TablesFields
<1>4. Shape(e)
  BY <1>2 DEF Shape, Counts, OneSlot
<1>5. ASSUME Fine(d, S, sub) PROVE Fine(e, S \cup {b}, sub \cup {b})
  <2>1. Wanted(e, S \cup {b}, sub \cup {b})
    BY <1>2, <1>3, <1>5 DEF Fine, Wanted
  <2>2. ASSUME NEW q \in Peers, NEW c \in Blocks PROVE Served(e, q, c)
    <3>1. Served(d, q, c)
      BY <1>5 DEF Fine, AllServed
    <3>2. e.inFlight[c] = q => d.inFlight[c] = q
      BY <1>3, ThinAssumption
    <3> QED BY ONLY <1>2, <3>1, <3>2, q \in Peers, c \in Blocks, ServedKept
  <2> QED BY <2>1, <2>2 DEF Fine, AllServed
<1> QED BY <1>4, <1>5

\* FinalizeNode for p.
WithoutPeer(d, p) ==
    [d EXCEPT !.inFlight = [b \in Blocks |-> IF @[b] = p THEN None ELSE @[b]],
              !.slot[p] = {}, !.thin[p] = NoThin, !.waiting[p] = -1, !.owes[p] = <<>>]
LEMMA LeaveKeeps ==
    ASSUME NEW d, Shape(d), NEW p \in Peers, NEW S, NEW sub, NEW e,
           e = WithoutPeer(d, p)
    PROVE  Shape(e) /\ (Fine(d, S, sub) => Fine(e, S, sub))
<1>1. d \in Tables
  BY DEF Shape
<1>2. /\ e.slot = [d.slot EXCEPT ![p] = {}] /\ e.thin = [d.thin EXCEPT ![p] = NoThin]
      /\ e.waiting = [d.waiting EXCEPT ![p] = -1] /\ e.owes = [d.owes EXCEPT ![p] = <<>>]
      /\ e.inFlight = [b \in Blocks |-> IF d.inFlight[b] = p THEN None ELSE d.inFlight[b]]
      /\ e.timer = d.timer
      /\ e = [inFlight |-> e.inFlight, slot |-> e.slot, thin |-> e.thin,
              waiting |-> e.waiting, timer |-> e.timer, owes |-> e.owes]
  BY <1>1 DEF Tables, WithoutPeer
<1>3. e \in Tables
  <2>1. e.slot \in [Peers -> SUBSET Blocks] /\ e.waiting \in [Peers -> Int]
    BY <1>1, <1>2, TablesFields
  <2>2. e.thin \in [Peers -> Thins]
    BY <1>1, <1>2, TablesFields, ThinFacts
  <2>3. e.owes \in [Peers -> Seq(Reqs)]
    BY <1>1, <1>2, TablesFields
  <2>4. e.inFlight \in [Blocks -> Peers \cup {None}]
    BY <1>1, <1>2, TablesFields
  <2> QED BY <1>1, <1>2, <2>1, <2>2, <2>3, <2>4, TablesFields, TablesBuilt
<1>4. /\ e.slot[p] = {} /\ e.thin[p] = NoThin /\ e.waiting[p] = -1
      /\ \A q \in Peers \ {p} : /\ e.slot[q] = d.slot[q] /\ e.thin[q] = d.thin[q]
                              /\ e.waiting[q] = d.waiting[q] /\ e.owes[q] = d.owes[q]
      /\ \A c \in Blocks : e.inFlight[c] = IF d.inFlight[c] = p THEN None ELSE d.inFlight[c]
      /\ \A q \in Peers : d.slot[q] \subseteq Blocks
  BY <1>1, <1>2, TablesFields
<1>5. Shape(e)
  <2>1. Counts(e)
    <3> SUFFICES ASSUME NEW q \in Peers
               PROVE  CountOK(e.waiting[q], e.thin[q]) /\ (q \in Honest => e.thin[q].right)
      BY DEF Counts
    <3> QED BY <1>4, NoThinOK DEF Shape, Counts
  <2> QED BY <1>3, <1>4, <2>1 DEF Shape, OneSlot
<1>6. ASSUME Fine(d, S, sub) PROVE Fine(e, S, sub)
  <2>1. Wanted(e, S, sub)
    BY <1>4, <1>6 DEF Fine, Wanted
  <2>2. ASSUME NEW q \in Peers, NEW c \in Blocks PROVE Served(e, q, c)
    <3>1. Served(d, q, c)
      BY <1>6 DEF Fine, AllServed
    <3>2. e.inFlight[c] = q => d.inFlight[c] = q /\ q # p
      BY <1>4, ThinAssumption
    <3>3. q # p => e.slot[q] = d.slot[q] /\ e.thin[q] = d.thin[q] /\ e.owes[q] = d.owes[q]
      BY <1>4
    <3> QED BY ONLY <3>1, <3>2, <3>3, q \in Peers, c \in Blocks, ServedKept
  <2> QED BY <2>1, <2>2 DEF Fine, AllServed
<1> QED BY <1>5, <1>6

-----------------------------------------------------------------------------
(* The invariant.                                                          *)

\* The variables besides dl.
Types ==
    /\ capable \subseteq Peers /\ status \in [Peers -> {"up", "leaving", "gone"}]
    /\ headers \in 0 .. Height /\ stored \subseteq 1 .. headers
    /\ best \in [Peers -> 0 .. headers] /\ unknown \in [Peers -> 0 .. Height]
    /\ recent \subseteq Blocks /\ others \in 0 .. MaxOther /\ submitted \subseteq stored

\* What makes both properties inductive: the types, the counts, one slot for a peer, and
\* the requests that make wanted blocks come.
ThinInv ==
    /\ Types /\ confused \in BOOLEAN /\ Shape(dl)
    /\ ~confused => Fine(dl, stored, submitted)

\* Headers and stored blocks become only more.
Grows ==
    /\ headers' \in 0 .. Height /\ headers <= headers'
    /\ stored \subseteq stored' /\ stored' \subseteq 1 .. headers'
    /\ status' \in [Peers -> {"up", "leaving", "gone"}]

\* The types, from what a step does.
LEMMA GrowsTypes ==
    ASSUME Types, Grows, capable' = capable, best' = best, unknown' = unknown,
           submitted' = submitted, recent' \subseteq Blocks, others' \in 0 .. MaxOther
    PROVE  Types'
<1>1. best' \in [Peers -> 0 .. headers']
  BY DEF Types, Grows
<1> QED BY <1>1 DEF Types, Grows

\* HandleBlockMessage: the block is stored if it fits, and its request has done its work.
LEMMA HandleKeeps ==
    ASSUME Types, NEW d, Shape(d), NEW p \in Peers, NEW b \in Blocks, NEW right \in BOOLEAN,
           NEW h \in Blocks, HandleBlockMessage(d, p, b, right, h)
    PROVE  /\ Shape(dl') /\ Grows
           /\ h = b /\ Wanted(d, stored, submitted) /\ OthersServed(d, p, b) =>
                 Fine(dl', stored', submitted)
<1>1. /\ dl' = Cleared(Received(d, b), p, h)
      /\ stored' = IF right /\ ParentKnown(b) THEN stored \cup {b} ELSE stored
      /\ headers' = IF right /\ b = headers + 1 THEN b ELSE headers
      /\ status' = IF right THEN status ELSE [status EXCEPT ![p] = "leaving"]
  BY DEF HandleBlockMessage
<1>2. Shape(dl')
  BY <1>1, HandledShape
<1>3. Grows
  <2>1. CASE right
    <3>1. /\ stored' = IF b <= headers + 1 THEN stored \cup {b} ELSE stored
          /\ headers' = IF b = headers + 1 THEN b ELSE headers
          /\ status' = status
      BY <1>1, <2>1, Zenon DEF ParentKnown
    <3> QED BY <3>1, ThinAssumption DEF Types, Grows, Blocks
  <2>2. CASE ~right
    <3>1. stored' = stored /\ headers' = headers /\ status' = [status EXCEPT ![p] = "leaving"]
      BY <1>1, <2>2
    <3> QED BY <3>1, ThinAssumption DEF Types, Grows, Blocks
  <2> QED BY <2>1, <2>2
<1>4. ASSUME h = b, Wanted(d, stored, submitted), OthersServed(d, p, b)
      PROVE  Fine(dl', stored', submitted)
  <2>1. stored' \subseteq stored \cup {b}
    BY <1>1
  <2>2. dl' = Cleared(Received(d, b), p, b)
    BY <1>1, <1>4
  <2>3. Wanted(dl', stored', submitted)
    BY <1>4, <2>1, <2>2, HandledWanted
  <2>4. d \in Tables /\ OneSlot(d)
    BY DEF Shape
  <2>5. AllServed(dl')
    BY <1>4, <2>2, <2>4, HandledKeeps
  <2> QED BY <2>3, <2>5 DEF Fine
<1> QED BY <1>2, <1>3, <1>4

\* ThinKeeps, for all that p is asked for.
LEMMA ThinOthers ==
    ASSUME NEW d, Shape(d), NEW p \in Peers, NEW b \in Blocks, NEW w \in Numbers, NEW t \in Thins,
           NEW e, e = WithThin(d, p, w, t), ~Forgets(d, p, b),
           OthersServed(d, p, b), b \notin d.slot[p] => Served(d, p, b)
    PROVE  OthersServed(e, p, b) /\ (b \notin d.slot[p] => Served(e, p, b))
<1>1. d \in Tables
  BY DEF Shape
<1>2. ASSUME NEW q \in Peers, NEW c \in Blocks, ~(q = p /\ c = b) \/ b \notin d.slot[p]
      PROVE  Served(e, q, c)
  <2>1. Served(d, q, c)
    BY <1>2 DEF OthersServed
  <2> QED BY <1>1, <1>2, <2>1, ThinKeeps
<1> QED BY <1>2 DEF OthersServed

\* The slot of p is given back.
FreeSlot(d, p, b) == [d EXCEPT !.slot[p] = @ \ {b}]
LEMMA FreeSlotKeeps ==
    ASSUME NEW d, Shape(d), NEW p \in Peers, p \notin Honest, NEW b \in Blocks, NEW e,
           e = FreeSlot(d, p, b), NEW S, NEW sub
    PROVE  /\ Shape(e) /\ (Wanted(d, S, sub) => Wanted(e, S, sub))
           /\ OthersServed(d, p, b) => AllServed(e)
<1>1. d \in Tables
  BY DEF Shape
<1>2. /\ e.slot = [d.slot EXCEPT ![p] = @ \ {b}] /\ e.thin = d.thin /\ e.waiting = d.waiting
      /\ e.owes = d.owes /\ e.inFlight = d.inFlight /\ e \in Tables
  BY <1>1 DEF FreeSlot, Tables
<1>3. \A q \in Peers : e.slot[q] = IF q = p THEN d.slot[p] \ {b} ELSE d.slot[q]
  BY <1>1, <1>2, TablesFields
<1>4. Shape(e)
  BY <1>2, <1>3 DEF Shape, Counts, OneSlot
<1>5. Wanted(d, S, sub) => Wanted(e, S, sub)
  BY <1>2, <1>3 DEF Wanted
<1>6. ASSUME OthersServed(d, p, b) PROVE AllServed(e)
  <2> SUFFICES ASSUME NEW q \in Peers, NEW c \in Blocks PROVE Served(e, q, c)
    BY DEF AllServed
  <2>1. CASE q = p
    BY <2>1 DEF Served
  <2>2. CASE q # p
    <3>1. Served(d, q, c)
      BY <1>6, <2>2 DEF OthersServed
    <3> QED BY <1>2, <1>3, <2>2, <3>1 DEF Served, Serves
  <2> QED BY <2>1, <2>2
<1> QED BY <1>4, <1>5, <1>6

\* process(): p was not asked in vain, unless another thin block is forgotten.
LEMMA ProcessKeeps ==
    ASSUME Types, confused \in BOOLEAN, NEW d, Shape(d), NEW p \in Peers, NEW b \in Blocks,
           NEW right \in BOOLEAN, NEW missing \in SUBSET Tx, p \in Honest => right,
           ~confused => /\ Wanted(d, stored, submitted) /\ OthersServed(d, p, b)
                        /\ b \notin d.slot[p] => Served(d, p, b),
           Process(d, p, b, right, missing)
    PROVE  /\ Shape(dl') /\ Grows /\ confused' \in BOOLEAN
           /\ ~confused' => Fine(dl', stored', submitted)
<1>1. confused' = (confused \/ Forgets(d, p, b))
  BY DEF Process
<1>2. confused' \in BOOLEAN
  BY <1>1, Zenon
<1>3. ~confused' => ~confused /\ ~Forgets(d, p, b)
  BY <1>1, Zenon
<1>0. PICK w \in Numbers : w = -1 /\ CountOK(w, NoThin)
  BY NoThinOK
<1> DEFINE e == WithThin(d, p, w, NoThin)
<1>e. e = WithThin(d, p, w, NoThin)
  OBVIOUS
<1> HIDE DEF e
<1>4. Shape(e) /\ (Wanted(d, stored, submitted) => Wanted(e, stored, submitted))
  BY <1>0, <1>e, NoThinOK, ThinShape
<1>5. ~confused' => OthersServed(e, p, b) /\ (b \notin d.slot[p] => Served(e, p, b))
  BY <1>3, <1>e, NoThinOK, ThinOthers
<1>6. e.slot = d.slot /\ e.inFlight = d.inFlight /\ e.owes = d.owes
  BY <1>e, NoThinOK, ThinEffect DEF Shape
<1>7. CASE WrongRoot(d, p, b, right, missing)
  <2>1. dl' = e /\ UNCHANGED <<stored, headers, status>> /\ ~right
    BY <1>0, <1>7, <1>e DEF WrongRoot, WithThin
  <2>2. Grows
    BY <2>1, ThinAssumption DEF Types, Grows, Blocks
  <2>3. p \notin Honest
    BY <2>1
  <2>4. ~confused' => Fine(dl', stored', submitted)
    <3>1. SUFFICES ASSUME ~confused' PROVE Fine(e, stored, submitted)
      BY <2>1
    <3>2. Served(e, p, b)
      BY <2>3 DEF Served
    <3> QED BY <1>3, <1>4, <1>5, <3>1, <3>2 DEF Fine, AllServed, OthersServed
  <2> QED BY <1>2, <1>4, <2>1, <2>2, <2>4
<1>8. CASE Complete(d, p, b, right, missing)
  <2>1. HandleBlockMessage(e, p, b, TRUE, b)
    BY <1>0, <1>8, <1>e DEF Complete, WithThin
  <2>2. /\ Shape(dl') /\ Grows
        /\ Wanted(e, stored, submitted) /\ OthersServed(e, p, b) =>
              Fine(dl', stored', submitted)
    BY <1>4, <2>1, HandleKeeps
  <2> QED BY <1>2, <1>3, <1>4, <1>5, <2>2
<1>9. CASE Incomplete(d, p, b, right, missing)
  <2> DEFINE t == [block |-> b, missing |-> missing, right |-> right]
             r == Asked("tx", b, missing)
  <2>1. t \in Thins /\ t.block = b /\ t.missing = missing /\ t.right = right
    BY ThinFacts, ThinAssumption DEF Blocks
  <2>2. r \in Reqs /\ r.type = "tx" /\ r.block = b /\ r.txs = missing
    BY AskedFacts
  <2>3. PICK x \in Numbers : x = Cardinality(missing)
    BY FS_Subset, FS_CardinalityType, ThinAssumption DEF Numbers
  <2> DEFINE f == WithThin(d, p, x, t)
  <2>4. dl' = Owe(f, p, r) /\ UNCHANGED <<stored, headers, status>> /\ missing # {}
    BY <1>9, <2>3 DEF Incomplete, WithThin
  <2>5. f = WithThin(d, p, x, t)
    OBVIOUS
  <2> HIDE DEF t, r, f
  <2>6. CountOK(x, t) /\ (p \in Honest => t.right)
    <3>1. missing \in SUBSET Tx /\ missing # {}
      BY <2>4
    <3>2. Cardinality(missing) # 0
      BY <3>1, FS_Subset, FS_EmptySet, ThinAssumption
    <3> QED BY <2>1, <2>3, <2>4, <3>2 DEF CountOK, Exact, Numbers
  <2>7. Shape(f) /\ (Wanted(d, stored, submitted) => Wanted(f, stored, submitted))
    BY <2>1, <2>5, <2>6, ThinShape
  <2>8. f \in Tables /\ f.slot = d.slot /\ f.thin[p] = t
    BY <2>1, <2>5, ThinEffect DEF Shape
  <2>9. Shape(dl') /\ (Wanted(f, stored, submitted) => Wanted(dl', stored, submitted))
    BY <2>2, <2>4, <2>7, OweKeeps
  <2>10. Grows
    BY <2>4, ThinAssumption DEF Types, Grows, Blocks
  <2>11. ASSUME ~confused' PROVE Fine(dl', stored', submitted)
    <3>1. OthersServed(f, p, b) /\ (b \notin d.slot[p] => Served(f, p, b))
      BY <1>3, <2>1, <2>5, <2>11, ThinOthers
    <3>2. ASSUME NEW q \in Peers, NEW c \in Blocks PROVE Served(dl', q, c)
      <4>1. CASE q = p /\ c = b /\ b \in d.slot[p]
        <5>1. /\ p \in Honest => r \in Owed(dl'.owes[p])
              /\ dl'.slot = f.slot /\ dl'.thin = f.thin
          BY <2>2, <2>4, <2>8, OweEffect
        <5>2. Serves(dl', p, b, r)
          BY <2>1, <2>2, <2>4, <2>8, <4>1, <5>1 DEF Serves
        <5> QED BY <4>1, <5>1, <5>2 DEF Served
      <4>2. CASE ~(q = p /\ c = b /\ b \in d.slot[p])
        <5>1. Served(f, q, c)
          BY <3>1, <4>2 DEF OthersServed
        <5> QED BY <2>2, <2>4, <2>7, <5>1, OweKeeps
      <4> QED BY <4>1, <4>2
    <3> QED BY <1>3, <2>4, <2>7, <2>9, <2>11, <3>2 DEF Fine, AllServed
  <2> QED BY <1>2, <2>9, <2>10, <2>11
<1>10. CASE OverLimit(d, p, b)
  <2>1. /\ dl' = FreeSlot(e, p, b) /\ UNCHANGED <<stored, headers>> /\ p \notin Honest
        /\ status' \in {status, [status EXCEPT ![p] = "leaving"]}
    BY <1>0, <1>10, <1>e DEF OverLimit, WithThin, FreeSlot, Shape, Tables
  <2>2. Grows
    BY <2>1, ThinAssumption DEF Types, Grows, Blocks
  <2>3. /\ Shape(dl') /\ (Wanted(e, stored, submitted) => Wanted(dl', stored, submitted))
        /\ OthersServed(e, p, b) => AllServed(dl')
    BY <1>4, <2>1, FreeSlotKeeps
  <2> QED BY <1>2, <1>3, <1>4, <1>5, <2>1, <2>2, <2>3 DEF Fine
<1> QED BY <1>7, <1>8, <1>9, <1>10 DEF Process

-----------------------------------------------------------------------------
(* The steps.                                                              *)

\* The bound on messages.
LEMMA SendsTypes ==
    ASSUME Types, NEW p, NEW fits \in BOOLEAN, Sends(p, fits)
    PROVE  others' \in 0 .. MaxOther /\ (p \in Honest => fits)
<1>1. others' = others \/ (others < MaxOther /\ others' = others + 1)
  BY DEF Sends, OneMore
<1>2. p \in Honest => fits
  BY Zenon DEF Sends
<1> QED BY <1>1, <1>2, ThinAssumption DEF Types

\* What an honest peer answers is what it was asked for first.
LEMMA FirstOwed ==
    ASSUME NEW p \in Peers, NEW type \in {"headers", "xthin", "block", "tx"}, NEW b \in Blocks,
           NEW txs \in SUBSET Tx, First(p) = Asked(type, b, txs)
    PROVE  /\ dl.owes[p] # <<>> /\ Head(dl.owes[p]).type = type
           /\ Head(dl.owes[p]).block = b /\ Head(dl.owes[p]).txs = txs
<1>1. dl.owes[p] # <<>>
  BY DEF First, Asked
<1>2. Head(dl.owes[p]) = Asked(type, b, txs)
  BY <1>1 DEF First
<1> QED BY <1>1, <1>2, AskedFacts

\* Nobody has been asked for anything.
LEMMA ThinInit == Init => ThinInv
<1> SUFFICES ASSUME Init PROVE ThinInv
  OBVIOUS
<1>1. Types
  BY ThinAssumption DEF Init, Types, Blocks
<1>2. confused \in BOOLEAN
  BY DEF Init
<1>3. /\ dl.inFlight = [b \in Blocks |-> None] /\ dl.slot = [p \in Peers |-> {}]
      /\ dl.thin = [p \in Peers |-> NoThin] /\ dl.waiting = [p \in Peers |-> -1]
      /\ dl.timer = [b \in Blocks |-> "none"] /\ dl.owes = [p \in Peers |-> <<>>]
      /\ dl = [inFlight |-> dl.inFlight, slot |-> dl.slot, thin |-> dl.thin,
               waiting |-> dl.waiting, timer |-> dl.timer, owes |-> dl.owes]
  BY DEF Init
<1>4. dl \in Tables
  <2>1. dl.thin \in [Peers -> Thins]
    BY <1>3, ThinFacts
  <2>2. dl.owes \in [Peers -> Seq(Reqs)]
    BY <1>3
  <2>3. /\ dl.inFlight \in [Blocks -> Peers \cup {None}] /\ dl.slot \in [Peers -> SUBSET Blocks]
        /\ dl.waiting \in [Peers -> Int] /\ dl.timer \in [Blocks -> {"none", "running", "over"}]
    BY <1>3
  <2> QED BY <1>3, <2>1, <2>2, <2>3, TablesBuilt
<1>5. Counts(dl)
  BY <1>3, NoThinOK DEF Counts
<1>6. OneSlot(dl) /\ Wanted(dl, stored, submitted)
  BY <1>3 DEF OneSlot, Wanted
<1>7. AllServed(dl)
  BY <1>3, ThinAssumption DEF AllServed, Served
<1> QED BY <1>1, <1>2, <1>4, <1>5, <1>6, <1>7 DEF ThinInv, Shape, Fine

\* What is announced is known, or remembered.
LEMMA AvailabilityTypes ==
    ASSUME Types, NEW p \in Peers, NEW b \in Blocks, NEW H \in 0 .. Height, headers <= H,
           UpdateBlockAvailability(p, b, H)
    PROVE  best' \in [Peers -> 0 .. H] /\ unknown' \in [Peers -> 0 .. Height]
<1>1. best[p] \in 0 .. H /\ unknown[p] \in 0 .. Height /\ best \in [Peers -> 0 .. H]
  BY ThinAssumption DEF Types
<1>2. BestKnown(p, H) \in 0 .. H /\ StillUnknown(p, H) \in 0 .. Height
  BY <1>1, ThinAssumption DEF BestKnown, StillUnknown, Max2
<1>3. b \in 1 .. Height
  BY DEF Blocks
<1>4. (IF b <= H THEN Max2(b, BestKnown(p, H)) ELSE BestKnown(p, H)) \in 0 .. H
  BY <1>2, <1>3, ThinAssumption DEF Max2
<1>5. (IF b <= H THEN StillUnknown(p, H) ELSE b) \in 0 .. Height
  BY <1>2, <1>3, ThinAssumption
<1> QED BY <1>1, <1>4, <1>5 DEF Types, UpdateBlockAvailability

\* INV: the block asked for is not known, so nobody has it in a slot.
LEMMA InvStep ==
    ASSUME ThinInv, NEW p \in Peers, NEW b \in Blocks, Inv(p, b)
    PROVE  ThinInv'
<1>1. Types'
  <2>1. best' \in [Peers -> 0 .. headers] /\ unknown' \in [Peers -> 0 .. Height]
    BY ThinAssumption, AvailabilityTypes DEF ThinInv, Types, Inv
  <2>2. others' \in 0 .. MaxOther
    BY SendsTypes DEF ThinInv, Inv
  <2> QED BY <2>1, <2>2 DEF ThinInv, Types, Inv
<1>2. /\ UNCHANGED <<stored, submitted, confused>>
      /\ dl' = IF b <= headers \/ dl.inFlight[b] # None THEN dl
               ELSE Request(Owe(dl, p, Asked("headers", b, {})), p, b)
  BY DEF Inv
<1>3. CASE b <= headers \/ dl.inFlight[b] # None
  BY <1>1, <1>2, <1>3 DEF ThinInv
<1>4. CASE ~(b <= headers \/ dl.inFlight[b] # None)
  <2> DEFINE r == Asked("headers", b, {})
             d == Owe(dl, p, r)
  <2>1. r \in Reqs
    BY AskedFacts
  <2>2. dl' = Request(d, p, b)
    BY <1>2, <1>4
  <2>3. d = Owe(dl, p, r)
    OBVIOUS
  <2> HIDE DEF r, d
  <2>4. /\ Shape(d) /\ (Wanted(dl, stored, submitted) => Wanted(d, stored, submitted))
        /\ \A q \in Peers, c \in Blocks : Served(dl, q, c) => Served(d, q, c)
    BY <2>1, <2>3, OweKeeps DEF ThinInv
  <2>5. d.inFlight = dl.inFlight
    BY <2>1, <2>3, OweEffect DEF ThinInv, Shape
  <2>6. b \notin stored
    BY <1>4, ThinAssumption DEF ThinInv, Types, Blocks
  <2>7. Fine(dl, stored, submitted) => Fine(d, stored, submitted)
    BY <2>4 DEF Fine, AllServed
  <2>8. Shape(dl') /\ (Fine(d, stored, submitted) => Fine(dl', stored, submitted))
    BY <1>4, <2>2, <2>4, <2>5, <2>6, RequestKeeps
  <2> QED BY <1>1, <1>2, <2>7, <2>8 DEF ThinInv
<1> QED BY <1>3, <1>4

\* HEADERS: their request serves no block.
LEMMA HeadersStep ==
    ASSUME ThinInv, NEW p \in Peers, NEW b \in Blocks, Headers(p, b)
    PROVE  ThinInv'
<1>1. /\ headers' = Max2(headers, b) /\ dl' = Answered(dl, p)
      /\ UNCHANGED <<stored, submitted, confused>>
  BY DEF Headers
<1>2. headers' \in 0 .. Height /\ headers <= headers'
  BY <1>1, ThinAssumption DEF ThinInv, Types, Blocks, Max2
<1>3. Types'
  <2>1. best' \in [Peers -> 0 .. headers'] /\ unknown' \in [Peers -> 0 .. Height]
    BY <1>2, AvailabilityTypes DEF ThinInv, Headers
  <2>2. others' \in 0 .. MaxOther
    BY SendsTypes DEF ThinInv, Headers
  <2>3. stored' \subseteq 1 .. headers'
    BY <1>1, <1>2, ThinAssumption DEF ThinInv, Types
  <2> QED BY <1>1, <1>2, <2>1, <2>2, <2>3 DEF ThinInv, Types, Headers
<1>4. p \in Honest => First(p) = Asked("headers", b, {})
  BY SendsTypes DEF ThinInv, Headers
<1>5. p \in Honest => dl.owes[p] # <<>> /\ Head(dl.owes[p]).type = "headers"
  BY <1>4, FirstOwed
<1>6. Shape(dl') /\ (Wanted(dl, stored, submitted) => Wanted(dl', stored, submitted))
  BY <1>1, <1>5, AnsweredShape DEF ThinInv
<1>7. ASSUME AllServed(dl) PROVE AllServed(dl')
  <2> SUFFICES ASSUME NEW q \in Peers, NEW c \in Blocks PROVE Served(dl', q, c)
    BY DEF AllServed
  <2>1. p \in Honest => ~Serves(dl, p, c, Head(dl.owes[p]))
    BY <1>5 DEF Serves
  <2> QED BY <1>1, <1>5, <1>7, <2>1, AnsweredKeeps DEF ThinInv, Shape, AllServed
<1> QED BY <1>1, <1>3, <1>6, <1>7 DEF ThinInv, Fine

\* What answers a request of p for b leaves.
LEMMA AnsweredOthers ==
    ASSUME NEW d, Shape(d), NEW p \in Peers, NEW b \in Blocks, NEW e, e = Answered(d, p),
           p \in Honest => d.owes[p] # <<>> /\ Head(d.owes[p]).block = b, AllServed(d)
    PROVE  OthersServed(e, p, b)
<1> SUFFICES ASSUME NEW q \in Peers, NEW c \in Blocks, ~(q = p /\ c = b) PROVE Served(e, q, c)
  BY DEF OthersServed
<1>1. q = p /\ p \in Honest => ~Serves(d, p, c, Head(d.owes[p]))
  BY DEF Serves
<1> QED BY <1>1, AnsweredKeeps DEF Shape, AllServed

\* XTHINBLOCK: dropped only if it has no slot, and then it served nothing.
LEMMA XThinBlockStep ==
    ASSUME ThinInv, NEW p \in Peers, NEW b \in Blocks, NEW right \in BOOLEAN,
           NEW missing \in SUBSET Tx, XThinBlock(p, b, right, missing)
    PROVE  ThinInv'
<1> DEFINE d == Answered(dl, p)
           fits == right /\ First(p) = Asked("xthin", b, {})
<1>1. others' \in 0 .. MaxOther /\ (p \in Honest => fits)
  <2>1. fits \in BOOLEAN
    BY Zenon
  <2>2. Sends(p, fits)
    BY DEF XThinBlock
  <2> HIDE DEF fits
  <2> QED BY <2>1, <2>2, SendsTypes DEF ThinInv
<1>2. p \in Honest => right
  BY <1>1, Zenon
<1>3. p \in Honest => First(p) = Asked("xthin", b, {})
  BY <1>1, Zenon
<1>4. p \in Honest => /\ dl.owes[p] # <<>> /\ Head(dl.owes[p]).type = "xthin"
                      /\ Head(dl.owes[p]).block = b
  BY <1>3, FirstOwed
<1>5. /\ capable' = capable /\ best' = best /\ unknown' = unknown /\ submitted' = submitted
      /\ recent' \subseteq Blocks
  BY DEF ThinInv, Types, XThinBlock
<1>d. d = Answered(dl, p)
  OBVIOUS
<1>x. IF Beaten(p, b) THEN dl' = d /\ UNCHANGED <<stored, headers, status, confused>>
      ELSE Process(d, p, b, right, missing)
  BY DEF XThinBlock
<1> HIDE DEF d, fits
<1>6. Shape(d) /\ (Wanted(dl, stored, submitted) => Wanted(d, stored, submitted))
  BY <1>4, <1>d, AnsweredShape DEF ThinInv
<1>7. AllServed(dl) => OthersServed(d, p, b) /\ (b \notin d.slot[p] => Served(d, p, b))
  <2> SUFFICES ASSUME AllServed(dl)
               PROVE  OthersServed(d, p, b) /\ (b \notin d.slot[p] => Served(d, p, b))
    OBVIOUS
  <2>1. OthersServed(d, p, b)
    BY <1>4, <1>d, AnsweredOthers DEF ThinInv
  <2>2. ASSUME b \notin d.slot[p] PROVE Served(d, p, b)
    <3>1. d.slot = dl.slot
      BY <1>4, <1>d, AnsweredEffect DEF ThinInv, Shape
    <3>2. p \in Honest => ~Serves(dl, p, b, Head(dl.owes[p]))
      BY <1>4, <2>2, <3>1 DEF Serves
    <3> QED BY <1>4, <1>d, <3>2, AnsweredKeeps DEF ThinInv, Shape, AllServed
  <2> QED BY <2>1, <2>2
<1>8. CASE Beaten(p, b)
  <2>1. dl' = d /\ UNCHANGED <<stored, headers, status, confused>>
    BY <1>8, <1>x
  <2>2. Grows
    BY <2>1, ThinAssumption DEF ThinInv, Types, Grows, Blocks
  <2>3. b \notin d.slot[p]
    BY <1>4, <1>8, <1>d, AnsweredEffect DEF ThinInv, Shape, Beaten
  <2>4. ~confused => Fine(d, stored, submitted)
    BY <1>6, <1>7, <2>3 DEF ThinInv, Fine, OthersServed, AllServed
  <2> QED BY <1>1, <1>5, <1>6, <2>1, <2>2, <2>4, GrowsTypes DEF ThinInv
<1>9. CASE ~Beaten(p, b)
  <2>1. Process(d, p, b, right, missing)
    BY <1>9, <1>x
  <2>2. /\ Shape(dl') /\ Grows /\ confused' \in BOOLEAN
        /\ ~confused' => Fine(dl', stored', submitted)
    BY <1>2, <1>6, <1>7, <2>1, ProcessKeeps DEF ThinInv, Fine
  <2> QED BY <1>1, <1>5, <2>2, GrowsTypes DEF ThinInv
<1> QED BY <1>8, <1>9

\* XPEDITEDBLK: it answers no request.
LEMMA XpeditedBlkStep ==
    ASSUME ThinInv, NEW p \in Peers, NEW b \in Blocks, NEW right \in BOOLEAN,
           NEW missing \in SUBSET Tx, XpeditedBlk(p, b, right, missing)
    PROVE  ThinInv'
<1>1. /\ capable' = capable /\ best' = best /\ unknown' = unknown /\ submitted' = submitted
      /\ recent' \subseteq Blocks /\ others' \in 0 .. MaxOther
  BY ThinAssumption DEF ThinInv, Types, XpeditedBlk, OneMore
<1>2. p \in Honest => right
  BY Zenon DEF XpeditedBlk
<1>3. CASE b \in recent \cup stored
  <2>1. UNCHANGED <<dl, stored, headers, status, confused>>
    BY <1>3 DEF XpeditedBlk
  <2>2. Grows
    BY <2>1, ThinAssumption DEF ThinInv, Types, Grows, Blocks
  <2> QED BY <1>1, <2>1, <2>2, GrowsTypes DEF ThinInv
<1>4. CASE b \notin recent \cup stored
  <2>1. Process(dl, p, b, right, missing)
    BY <1>4 DEF XpeditedBlk
  <2>2. ~confused => /\ Wanted(dl, stored, submitted) /\ OthersServed(dl, p, b)
                     /\ Served(dl, p, b)
    BY DEF ThinInv, Fine, AllServed, OthersServed
  <2>3. /\ Shape(dl') /\ Grows /\ confused' \in BOOLEAN
        /\ ~confused' => Fine(dl', stored', submitted)
    BY <1>2, <2>1, <2>2, ProcessKeeps DEF ThinInv
  <2> QED BY <1>1, <2>3, GrowsTypes DEF ThinInv
<1> QED BY <1>3, <1>4

\* BLOCK: the other requests still serve.
LEMMA BlockStep ==
    ASSUME ThinInv, NEW p \in Peers, NEW b \in Blocks, NEW right \in BOOLEAN, Block(p, b, right)
    PROVE  ThinInv'
<1> DEFINE d == Answered(dl, p)
           fits == right /\ First(p) \in {Asked("block", b, {}), Asked("xthin", b, {})}
<1>1. others' \in 0 .. MaxOther /\ (p \in Honest => fits)
  <2>1. fits \in BOOLEAN
    BY Zenon
  <2>2. Sends(p, fits)
    BY DEF Block
  <2> HIDE DEF fits
  <2> QED BY <2>1, <2>2, SendsTypes DEF ThinInv
<1>2. p \in Honest => \E type \in {"block", "xthin"} : First(p) = Asked(type, b, {})
  BY <1>1, Zenon
<1>3. p \in Honest => dl.owes[p] # <<>> /\ Head(dl.owes[p]).block = b
  <2> SUFFICES ASSUME p \in Honest PROVE dl.owes[p] # <<>> /\ Head(dl.owes[p]).block = b
    OBVIOUS
  <2>1. PICK type \in {"block", "xthin"} : First(p) = Asked(type, b, {})
    BY <1>2
  <2> QED BY <2>1, FirstOwed
<1>4. /\ capable' = capable /\ best' = best /\ unknown' = unknown /\ submitted' = submitted
      /\ recent' \subseteq Blocks /\ confused' = confused
  BY DEF ThinInv, Types, Block
<1>5. HandleBlockMessage(d, p, b, right, b) /\ d = Answered(dl, p)
  BY DEF Block
<1> HIDE DEF d, fits
<1>6. Shape(d) /\ (Wanted(dl, stored, submitted) => Wanted(d, stored, submitted))
  BY <1>3, <1>5, AnsweredShape DEF ThinInv
<1>7. AllServed(dl) => OthersServed(d, p, b)
  BY <1>3, <1>5, AnsweredOthers DEF ThinInv
<1>8. /\ Shape(dl') /\ Grows
      /\ Wanted(d, stored, submitted) /\ OthersServed(d, p, b) => Fine(dl', stored', submitted)
  BY <1>5, <1>6, HandleKeeps DEF ThinInv
<1> QED BY <1>1, <1>4, <1>6, <1>7, <1>8, GrowsTypes DEF ThinInv, Fine

\* What came of m, and what is left of it.
Taken(m, txs, null, got) ==
    /\ Cardinality(m) - Cardinality(got) = Cardinality(m \ txs)
    /\ Cardinality(m \ txs) \in Nat /\ Cardinality(m) \in Nat /\ Cardinality(got) \in Nat
    /\ Cardinality(m \ txs) = 0 <=> m \subseteq txs
    /\ Cardinality(m \ txs) <= Cardinality(m \ (txs \ null))
    /\ Cardinality(m \ (txs \ null)) \in Nat
    /\ got = {} => Cardinality(got) = 0

\* The transactions that come are taken out of what is missing unless they are null, and
\* out of the count in any case.
LEMMA GotSome ==
    ASSUME NEW m \in SUBSET Tx, NEW txs \in SUBSET Tx, NEW null \in SUBSET Tx, NEW got, got = m \cap txs
    PROVE  Taken(m, txs, null, got)
<1>1. IsFiniteSet(m) /\ IsFiniteSet(m \ txs)
  BY FS_Subset, ThinAssumption
<1>2. Cardinality(m \ txs) = Cardinality(m) - Cardinality(got)
  BY <1>1, FS_Difference
<1>3. Cardinality(m \ txs) \in Nat /\ Cardinality(m) \in Nat /\ Cardinality(got) \in Nat
  BY <1>1, FS_CardinalityType, FS_Subset
<1>4. Cardinality(m \ txs) = 0 <=> m \ txs = {}
  BY <1>1, FS_EmptySet
<1>5. /\ Cardinality(m \ txs) <= Cardinality(m \ (txs \ null))
      /\ Cardinality(m \ (txs \ null)) \in Nat
  <2>1. IsFiniteSet(m \ (txs \ null)) /\ m \ txs \subseteq m \ (txs \ null)
    BY <1>1, FS_Subset
  <2> QED BY <2>1, FS_Subset, FS_CardinalityType
<1>6. got = {} => Cardinality(got) = 0
  BY FS_EmptySet
<1> QED BY <1>2, <1>3, <1>4, <1>5, <1>6 DEF Taken

\* XBLOCKTX: what fills the thin block ends it, what does not leaves the request that will.
LEMMA XBlockTxStep ==
    ASSUME ThinInv, NEW p \in Peers, NEW h \in Blocks, NEW txs \in SUBSET Tx,
           NEW null \in SUBSET NullIn(p, txs), XBlockTx(p, h, txs, null)
    PROVE  ThinInv'
<1> DEFINE d == Answered(dl, p)
           thin == dl.thin[p]
           got == thin.missing \cap txs
           left == dl.waiting[p] - Cardinality(got)
<1>1. others' \in 0 .. MaxOther /\ (p \in Honest => First(p) = Asked("tx", h, txs))
  BY SendsTypes DEF XBlockTx, ThinInv
<1>2. p \in Honest => /\ dl.owes[p] # <<>> /\ Head(dl.owes[p]).type = "tx"
                      /\ Head(dl.owes[p]).block = h /\ Head(dl.owes[p]).txs = txs
  BY <1>1, FirstOwed
<1>3. /\ capable' = capable /\ best' = best /\ unknown' = unknown /\ submitted' = submitted
      /\ recent' \subseteq Blocks
  BY DEF ThinInv, Types, XBlockTx
<1>4. thin \in Thins /\ thin.missing \in SUBSET Tx /\ CountOK(dl.waiting[p], thin)
      /\ dl.waiting[p] \in Int /\ (p \in Honest => thin.right)
  BY ThinFacts, TablesFields DEF ThinInv, Shape, Counts
<1>n. null \in SUBSET Tx /\ (thin.right => null = {})
  BY <1>4 DEF NullIn
<1>5. IF thin.missing = {} \/ h \notin dl.slot[p]
      THEN dl' = d /\ UNCHANGED <<stored, headers, status, confused>>
      ELSE /\ confused' = (confused \/ (thin.block # h /\ got # {}))
           /\ IF left = 0
              THEN HandleBlockMessage([d EXCEPT !.waiting[p] = -1, !.thin[p] = NoThin],
                                      p, thin.block, thin.right, h)
              ELSE /\ dl' = [d EXCEPT !.waiting[p] = left, !.thin[p].missing = @ \ (txs \ null)]
                   /\ UNCHANGED <<stored, headers, status>>
  BY DEF XBlockTx
<1>d. d = Answered(dl, p)
  OBVIOUS
<1>g. got = thin.missing \cap txs
  OBVIOUS
<1>l. left = dl.waiting[p] - Cardinality(got)
  OBVIOUS
<1>t. thin = dl.thin[p]
  OBVIOUS
<1> HIDE DEF d, thin, got, left
<1>6. Shape(d) /\ (Wanted(dl, stored, submitted) => Wanted(d, stored, submitted))
  BY <1>2, <1>d, AnsweredShape DEF ThinInv
<1>7. d.inFlight = dl.inFlight /\ d.slot = dl.slot /\ d.thin = dl.thin
  BY <1>2, <1>d, AnsweredEffect DEF ThinInv, Shape
\* Looked at only when it can fill the thin block.
<1>8. ASSUME AllServed(dl),
             thin.missing = {} \/ h \notin dl.slot[p]
                \/ (p \in Honest => ~(thin.missing \subseteq txs))
      PROVE  AllServed(d)
  <2> SUFFICES ASSUME NEW q \in Peers, NEW c \in Blocks PROVE Served(d, q, c)
    BY DEF AllServed
  <2>1. p \in Honest => ~Serves(dl, p, c, Head(dl.owes[p]))
    BY <1>2, <1>8, <1>t DEF Serves
  <2> QED BY <1>2, <1>8, <1>d, <2>1, AnsweredKeeps DEF ThinInv, Shape, AllServed
<1>9. CASE thin.missing = {} \/ h \notin dl.slot[p]
  <2>1. dl' = d /\ UNCHANGED <<stored, headers, status, confused>>
    BY <1>5, <1>9
  <2>2. Grows
    BY <2>1, ThinAssumption DEF ThinInv, Types, Grows, Blocks
  <2>3. ~confused => Fine(d, stored, submitted)
    BY <1>6, <1>8, <1>9 DEF ThinInv, Fine
  <2> QED BY <1>1, <1>3, <1>6, <2>1, <2>2, <2>3, GrowsTypes DEF ThinInv
<1>10. CASE ~(thin.missing = {} \/ h \notin dl.slot[p])
  <2>1. confused' = (confused \/ (thin.block # h /\ got # {}))
    BY <1>5, <1>10
  <2>2. confused' \in BOOLEAN
    BY <2>1, Zenon
  <2>3. ~confused' => ~confused /\ (thin.block = h \/ got = {})
    BY <2>1, Zenon
  <2>4. /\ thin.block \in Blocks /\ thin.missing # {} /\ left \in Numbers
        /\ thin.right => left = Cardinality(thin.missing \ txs)
        /\ thin.right /\ left # 0 => ~(thin.missing \subseteq txs)
        /\ left <= Cardinality(thin.missing \ (txs \ null))
        /\ left = 0 => got # {}
    <3> DEFINE m == thin.missing
               w == dl.waiting[p]
    <3>1. m \in SUBSET Tx /\ m # {} /\ got = m \cap txs
      BY <1>4, <1>10, <1>g
    <3>2. thin.block \in Blocks /\ w \in Int /\ w # 0 /\ w <= Cardinality(m)
          /\ (thin.right => w = Cardinality(m))
      BY <1>4, <1>10 DEF CountOK, Exact
    <3>l. left = w - Cardinality(got)
      BY <1>l
    <3> HIDE DEF m, w
    <3>3. Taken(m, txs, null, got)
      <4>1. m \in SUBSET Tx /\ txs \in SUBSET Tx /\ null \in SUBSET Tx /\ got = m \cap txs
        BY <1>n, <3>1
      <4> QED BY ONLY <4>1, GotSome
    <3>4. /\ left \in Numbers /\ (thin.right => left = Cardinality(m \ txs))
          /\ left <= Cardinality(m \ (txs \ null)) /\ (left = 0 => got # {})
      BY <3>2, <3>3, <3>l DEF Numbers, Taken
    <3> QED BY <3>1, <3>2, <3>3, <3>4 DEF m, Taken
  <2>5. CASE left = 0
    <3>0. PICK w \in Numbers : w = -1 /\ CountOK(w, NoThin)
      BY NoThinOK
    <3> DEFINE e == WithThin(d, p, w, NoThin)
               right == thin.right
    <3>1. HandleBlockMessage(e, p, thin.block, right, h)
      BY <1>5, <1>10, <2>5, <3>0 DEF WithThin
    <3>2. right \in BOOLEAN
      BY <1>4, Zenon DEF Thins
    <3>e. e = WithThin(d, p, w, NoThin)
      OBVIOUS
    <3> HIDE DEF e, right
    <3>3. Shape(e) /\ (Wanted(d, stored, submitted) => Wanted(e, stored, submitted))
      BY <1>6, <3>0, <3>e, NoThinOK, ThinShape
    <3>4. /\ Shape(dl') /\ Grows
          /\ h = thin.block /\ Wanted(e, stored, submitted) /\ OthersServed(e, p, h) =>
                Fine(dl', stored', submitted)
      BY <2>4, <3>1, <3>2, <3>3, HandleKeeps DEF ThinInv
    <3>5. ASSUME ~confused' PROVE Fine(dl', stored', submitted)
      <4>1. thin.block = h
        BY <2>3, <2>4, <2>5, <3>5
      <4>2. OthersServed(d, p, h)
        BY <1>2, <1>d, <2>3, <3>5, AnsweredOthers DEF ThinInv, Fine
      <4>3. ~Forgets(d, p, h)
        BY <1>7, <1>t, <4>1 DEF Forgets
      <4>4. h \in d.slot[p]
        BY <1>7, <1>10
      <4>5. OthersServed(e, p, h)
        BY <1>6, <3>0, <3>e, <4>2, <4>3, <4>4, NoThinOK, ThinOthers
      <4> QED BY <1>6, <2>3, <3>3, <3>4, <3>5, <4>1, <4>5 DEF ThinInv, Fine
    <3> QED BY <1>1, <1>3, <2>2, <3>4, <3>5, GrowsTypes DEF ThinInv
  <2>6. CASE left # 0
    <3> DEFINE t == [thin EXCEPT !.missing = @ \ (txs \ null)]
    <3>1. t \in Thins /\ t.missing = thin.missing \ (txs \ null) /\ t.block = thin.block
          /\ t.right = thin.right
      BY <1>4, ThinFacts
    <3>2. dl' = WithThin(d, p, left, t) /\ UNCHANGED <<stored, headers, status>>
      BY <1>5, <1>7, <1>10, <1>t, <2>6 DEF WithThin
    <3> HIDE DEF t
    <3>3. CountOK(left, t) /\ (p \in Honest => t.right)
      <4>1. thin.right => t.missing = thin.missing \ txs /\ t.missing # {}
        BY <1>n, <2>4, <2>6, <3>1
      <4>2. thin.right => Exact(left, t)
        BY <2>4, <4>1 DEF Exact
      <4> QED BY <1>4, <2>4, <2>6, <3>1, <4>2 DEF CountOK
    <3>4. Shape(dl') /\ (Wanted(d, stored, submitted) => Wanted(dl', stored, submitted))
      BY <1>6, <2>4, <3>1, <3>2, <3>3, ThinShape
    <3>5. Grows
      BY <3>2, ThinAssumption DEF ThinInv, Types, Grows, Blocks
    <3>6. ASSUME ~confused' PROVE AllServed(dl')
      <4>1. AllServed(d)
        <5>1. p \in Honest => ~(thin.missing \subseteq txs)
          BY <1>4, <2>4, <2>6
        <5> QED BY <1>8, <2>3, <3>6, <5>1 DEF ThinInv, Fine
      <4>2. /\ dl'.inFlight = d.inFlight /\ dl'.slot = d.slot /\ dl'.owes = d.owes
            /\ dl'.thin[p] = t /\ \A q \in Peers \ {p} : dl'.thin[q] = d.thin[q]
        <5>1. d \in Tables /\ left \in Numbers
          BY <1>6, <2>4 DEF Shape
        <5> QED BY ONLY <3>1, <3>2, <5>1, ThinEffect, p \in Peers
      <4>3. t.missing \subseteq d.thin[p].missing /\ t.block = d.thin[p].block
            /\ (p \in Honest => t.missing # {})
        BY <1>4, <1>7, <1>n, <1>t, <2>4, <2>6, <3>1
      <4> SUFFICES ASSUME NEW q \in Peers, NEW c \in Blocks PROVE Served(dl', q, c)
        BY DEF AllServed
      <4>4. Served(d, q, c)
        BY <4>1 DEF AllServed
      <4>5. CASE q = p /\ p \in Honest
        BY ONLY <4>2, <4>3, <4>4, <4>5, ServedKept, p \in Peers, c \in Blocks
      <4>7. CASE q \notin Honest
        BY <4>7 DEF Served
      <4>6. CASE q # p
        <5>1. dl'.thin[q] = d.thin[q]
          BY <4>2, <4>6
        <5> QED BY ONLY <4>2, <4>4, <5>1, ServedKept, q \in Peers, c \in Blocks
      <4> QED BY <4>5, <4>6, <4>7
    <3>7. ASSUME ~confused' PROVE Fine(dl', stored', submitted)
      BY <1>6, <2>3, <3>2, <3>4, <3>6, <3>7 DEF ThinInv, Fine
    <3> QED BY <1>1, <1>3, <2>2, <3>4, <3>5, <3>7, GrowsTypes DEF ThinInv
  <2> QED BY <2>5, <2>6
<1> QED BY <1>9, <1>10

\* submitblock: the block is in flight from nobody any more.
LEMMA SubmitBlockStep ==
    ASSUME ThinInv, NEW b \in Blocks, SubmitBlock(b)
    PROVE  ThinInv'
<1>1. /\ dl' = Received(dl, b) /\ stored' = stored \cup {b} /\ submitted' = submitted \cup {b}
      /\ headers' = Max2(headers, b) /\ b <= headers + 1 /\ confused' = confused
      /\ others < MaxOther /\ others' = others + 1
      /\ UNCHANGED <<capable, status, best, unknown, recent>>
  BY DEF SubmitBlock, ParentKnown, OneMore
<1>2. headers' \in 0 .. Height /\ headers <= headers' /\ b <= headers' /\ b \in 1 .. Height
  BY <1>1, ThinAssumption DEF ThinInv, Types, Blocks, Max2
<1>3. Types'
  <2>1. best' \in [Peers -> 0 .. headers'] /\ stored' \subseteq 1 .. headers'
    BY <1>1, <1>2, ThinAssumption DEF ThinInv, Types
  <2>2. others' \in 0 .. MaxOther
    BY <1>1, ThinAssumption DEF ThinInv, Types
  <2> QED BY <1>1, <1>2, <2>1, <2>2 DEF ThinInv, Types
<1>4. Shape(dl') /\ (Fine(dl, stored, submitted) => Fine(dl', stored', submitted'))
  BY <1>1, ReceivedKeeps DEF ThinInv
<1> QED BY <1>1, <1>3, <1>4 DEF ThinInv

\* SendMessages: one request after the other.
LEMMA SendMessagesStep ==
    ASSUME ThinInv, NEW p \in Peers, SendMessages(p)
    PROVE  ThinInv'
<1> DEFINE next == {b \in 1 .. BestKnown(p, headers) : b \notin stored /\ dl.inFlight[b] = None}
           d == IF 1 \in next THEN Request(dl, p, 1) ELSE dl
<1>1. /\ dl' = IF 2 \in next THEN Request(d, p, 2) ELSE d
      /\ UNCHANGED <<others, capable, status, headers, stored, best, unknown, recent, confused,
                     submitted>>
  BY DEF SendMessages
<1>2. Types'
  BY <1>1 DEF ThinInv, Types
<1>3. \A b \in next : b \in Blocks /\ b \notin stored /\ dl.inFlight[b] = None
  <2>1. best[p] \in 0 .. headers /\ headers \in 0 .. Height
    BY DEF ThinInv, Types
  <2>2. BestKnown(p, headers) \in 0 .. Height
    BY <2>1, ThinAssumption DEF BestKnown, Max2
  <2> QED BY <2>2, ThinAssumption DEF Blocks
<1>d. d = IF 1 \in next THEN Request(dl, p, 1) ELSE dl
  OBVIOUS
<1> HIDE DEF next, d
<1>4. /\ Shape(d) /\ (Fine(dl, stored, submitted) => Fine(d, stored, submitted))
      /\ \A c \in Blocks \ {1} : d.inFlight[c] = dl.inFlight[c]
  <2>1. CASE 1 \in next
    <3>1. PICK b \in Blocks : b = 1 /\ b \notin stored /\ dl.inFlight[b] = None
      BY <1>3, <2>1
    <3>2. d = Request(dl, p, b)
      BY <1>d, <2>1, <3>1
    <3>3. /\ Shape(d) /\ (Fine(dl, stored, submitted) => Fine(d, stored, submitted))
          /\ \A c \in Blocks \ {b} : d.inFlight[c] = dl.inFlight[c]
      BY <3>1, <3>2, RequestKeeps DEF ThinInv
    <3> QED BY <3>1, <3>3
  <2>2. CASE 1 \notin next
    BY <1>d, <2>2 DEF ThinInv
  <2> QED BY <2>1, <2>2
<1>5. Shape(dl') /\ (Fine(d, stored, submitted) => Fine(dl', stored, submitted))
  <2>1. CASE 2 \in next
    <3>1. PICK b \in Blocks : b = 2 /\ b \notin stored /\ d.inFlight[b] = None
      BY <1>3, <1>4, <2>1
    <3> QED BY <1>1, <1>4, <2>1, <3>1, RequestKeeps
  <2>2. CASE 2 \notin next
    BY <1>1, <1>4, <2>2
  <2> QED BY <2>1, <2>2
<1> QED BY <1>1, <1>2, <1>4, <1>5 DEF ThinInv

\* The timer.
LEMMA TimerOverStep ==
    ASSUME ThinInv, NEW b \in Blocks, TimerOver(b)
    PROVE  ThinInv'
<1>1. /\ dl' = WithTimer(dl, b, "over")
      /\ UNCHANGED <<others, capable, status, headers, stored, best, unknown, recent, confused,
                     submitted>>
  BY DEF TimerOver, WithTimer
<1>2. Types'
  BY <1>1 DEF ThinInv, Types
<1>3. PICK v \in {"none", "running", "over"} : dl' = WithTimer(dl, b, v)
  BY <1>1
<1>4. Shape(dl') /\ (Fine(dl, stored, submitted) => Fine(dl', stored, submitted))
  BY <1>3, TimerKeeps DEF ThinInv
<1> QED BY <1>1, <1>2, <1>4 DEF ThinInv

\* A peer is to leave, or leaves and takes all that was asked of it along.
LEMMA EndSteps ==
    ASSUME ThinInv, NEW p \in Peers, Timeout(p) \/ Leave(p)
    PROVE  ThinInv'
<1>1. CASE Timeout(p)
  <2>1. /\ status' = [status EXCEPT ![p] = "leaving"]
        /\ UNCHANGED <<others, capable, headers, stored, best, unknown, recent, dl, confused,
                       submitted>>
    BY <1>1 DEF Timeout
  <2>2. Types'
    BY <2>1 DEF ThinInv, Types
  <2> QED BY <2>1, <2>2 DEF ThinInv
<1>3. CASE Leave(p)
  <2>1. /\ status' = [status EXCEPT ![p] = "gone"]
        /\ best' = [best EXCEPT ![p] = 0] /\ unknown' = [unknown EXCEPT ![p] = 0]
        /\ UNCHANGED <<others, capable, headers, stored, recent, confused, submitted>>
    BY <1>3 DEF Leave
  <2>2. Types'
    BY <2>1, ThinAssumption DEF ThinInv, Types
  <2>3. Shape(dl') /\ (Fine(dl, stored, submitted) => Fine(dl', stored, submitted))
    <3>1. dl' = WithoutPeer(dl, p)
      BY <1>3 DEF Leave, WithoutPeer
    <3> QED BY <3>1, LeaveKeeps DEF ThinInv
  <2> QED BY <2>1, <2>2, <2>3 DEF ThinInv
<1> QED BY <1>1, <1>3

\* Every step keeps the invariant.
LEMMA ThinNext == ThinInv /\ [Next]_vars => ThinInv'
<1> SUFFICES ASSUME ThinInv, [Next]_vars PROVE ThinInv'
  OBVIOUS
<1>t. \A b \in Blocks, right \in BOOLEAN :
         SUBSET (IF right THEN Txs[b] ELSE Tx) \subseteq SUBSET Tx
  <2> SUFFICES ASSUME NEW b \in Blocks, NEW right \in BOOLEAN
               PROVE  (IF right THEN Txs[b] ELSE Tx) \subseteq Tx
    BY Zenon
  <2>1. Txs[b] \subseteq Tx
    BY Zenon DEF Tx
  <2> QED BY <2>1, Zenon
<1>1. CASE \E p \in Peers : Answer(p)
  <2>1. PICK p \in Peers, b \in Blocks :
            \/ Headers(p, b)
            \/ \E right \in BOOLEAN : Block(p, b, right)
            \/ \E right \in BOOLEAN : \E missing \in SUBSET (IF right THEN Txs[b] ELSE Tx) :
                  XThinBlock(p, b, right, missing)
            \/ \E txs \in SUBSET Tx : \E null \in SUBSET NullIn(p, txs) :
                  XBlockTx(p, b, txs, null)
    BY <1>1, Zenon DEF Answer
  <2>2. CASE Headers(p, b)
    BY <2>2, HeadersStep
  <2>3. CASE \E right \in BOOLEAN : Block(p, b, right)
    BY <2>3, BlockStep, Zenon
  <2>4. CASE \E right \in BOOLEAN : \E missing \in SUBSET (IF right THEN Txs[b] ELSE Tx) :
                 XThinBlock(p, b, right, missing)
    <3>1. PICK right \in BOOLEAN : \E missing \in SUBSET (IF right THEN Txs[b] ELSE Tx) :
                 XThinBlock(p, b, right, missing)
      BY <2>4, Zenon
    <3>2. PICK missing \in SUBSET (IF right THEN Txs[b] ELSE Tx) : XThinBlock(p, b, right, missing)
      BY <3>1, Zenon
    <3>3. missing \in SUBSET Tx
      BY <1>t, <3>2, Zenon
    <3> QED BY <3>2, <3>3, XThinBlockStep, Zenon
  <2>5. CASE \E txs \in SUBSET Tx : \E null \in SUBSET NullIn(p, txs) :
                  XBlockTx(p, b, txs, null)
    BY <2>5, XBlockTxStep, Zenon
  <2> QED BY <2>1, <2>2, <2>3, <2>4, <2>5
<1>2. CASE \E p \in Peers, b \in Blocks : Inv(p, b)
  BY <1>2, InvStep
<1>3. CASE \E p \in Peers, b \in Blocks, right \in BOOLEAN :
               \E missing \in SUBSET (IF right THEN Txs[b] ELSE Tx) :
                   XpeditedBlk(p, b, right, missing)
  <2>1. PICK p \in Peers, b \in Blocks, right \in BOOLEAN :
               \E missing \in SUBSET (IF right THEN Txs[b] ELSE Tx) :
                   XpeditedBlk(p, b, right, missing)
    BY <1>3, Zenon
  <2>2. PICK missing \in SUBSET (IF right THEN Txs[b] ELSE Tx) : XpeditedBlk(p, b, right, missing)
    BY <2>1, Zenon
  <2>3. missing \in SUBSET Tx
    BY <1>t, <2>2, Zenon
  <2> QED BY <2>2, <2>3, XpeditedBlkStep, Zenon
<1>4. CASE \E p \in Peers : SendMessages(p)
  BY <1>4, SendMessagesStep
<1>5. CASE \E p \in Peers : Timeout(p) \/ Leave(p)
  BY <1>5, EndSteps
<1>6. CASE \E b \in Blocks : SubmitBlock(b)
  BY <1>6, SubmitBlockStep
<1>7. CASE \E b \in Blocks : TimerOver(b)
  BY <1>7, TimerOverStep
<1>8. CASE UNCHANGED vars
  BY <1>8 DEF ThinInv, Types, vars
<1> QED BY <1>1, <1>2, <1>3, <1>4, <1>5, <1>6, <1>7, <1>8, Zenon DEF Next

-----------------------------------------------------------------------------
(* The theorems.                                                           *)

\* The invariant holds always.
LEMMA ThinInvariant == Spec => []ThinInv
BY ThinInit, ThinNext, PTL DEF Spec

\* As long as the hashes are those of the block, thinBlockWaitingForTxns is the number of
\* null entries of the thin block: XBLOCKTX never hands it on with holes, and never misses
\* that it is complete.  With any other hashes, and null transactions for them, it may be
\* too low but is never too high, and never rests at 0.
THEOREM WaitingCorrect == Spec => []WaitingExact
<1>1. ThinInv => WaitingExact
  <2> SUFFICES ASSUME ThinInv PROVE WaitingExact
    OBVIOUS
  <2>1. /\ dl.inFlight \in [Blocks -> Peers \cup {None}] /\ dl.slot \in [Peers -> SUBSET Blocks]
        /\ dl.thin \in [Peers -> Thins] /\ dl.waiting \in [Peers -> Int]
        /\ dl.timer \in [Blocks -> {"none", "running", "over"}]
        /\ dl.owes \in [Peers -> Seq(Reqs)]
    BY TablesFields DEF ThinInv, Shape
  <2>2. \A p \in Peers :
           /\ dl.thin[p].right => dl.waiting[p] = IF dl.thin[p].missing = {} THEN -1
                                                  ELSE Cardinality(dl.thin[p].missing)
           /\ dl.waiting[p] # 0 /\ dl.waiting[p] <= Cardinality(dl.thin[p].missing)
    BY DEF ThinInv, Shape, Counts, CountOK, Exact
  <2>4. \A p \in Peers : \A i \in DOMAIN dl.owes[p] : dl.owes[p][i].block \in Blocks
    <3> SUFFICES ASSUME NEW p \in Peers, NEW i \in DOMAIN dl.owes[p]
                 PROVE  dl.owes[p][i].block \in Blocks
      OBVIOUS
    <3>1. dl.owes[p] \in Seq(Reqs)
      BY <2>1
    <3>2. dl.owes[p][i] \in Reqs
      BY <3>1
    <3> QED BY <3>2 DEF Reqs
  <2>5. dl.thin \in [Peers -> [block : 0 .. Height, missing : SUBSET Tx, right : BOOLEAN]]
    BY <2>1 DEF Thins
  <2>6. TypeOK
    BY <2>1, <2>4, <2>5, Zenon DEF ThinInv, Types, TypeOK
  <2> QED BY <2>2, <2>6, Zenon DEF WaitingExact
<1> QED BY <1>1, ThinInvariant, PTL

\* Slots and requests in flight are what is still wanted from a peer, and an honest peer
\* with a block in flight has a request it has not answered: it is not disconnected for
\* what the node has dropped or not asked for.
THEOREM JustifiedCorrect == Spec => []RequestsJustified
<1>1. ThinInv => RequestsJustified
  <2> SUFFICES ASSUME ThinInv PROVE RequestsJustified
    OBVIOUS
  <2>1. SlotJustified
    BY DEF ThinInv, Fine, Wanted, SlotJustified
  <2>2. HonestNotBlamed
    <3> SUFFICES ASSUME ~confused, NEW p \in Honest, NEW b \in Blocks, dl.inFlight[b] = p
                 PROVE  \E i \in DOMAIN dl.owes[p] :
                            /\ dl.owes[p][i].block = b
                            /\ dl.owes[p][i].type \in {"xthin", "block", "tx"}
      BY DEF HonestNotBlamed
    <3>1. p \in Peers
      BY ThinAssumption
    <3>2. PICK r \in Owed(dl.owes[p]) : Serves(dl, p, b, r)
      BY <3>1 DEF ThinInv, Fine, AllServed, Served
    <3>3. PICK i \in 1 .. Len(dl.owes[p]) : r = dl.owes[p][i]
      BY <3>2 DEF Owed
    <3>4. dl.owes[p] \in Seq(Reqs)
      BY <3>1, TablesFields DEF ThinInv, Shape
    <3>5. DOMAIN dl.owes[p] = 1 .. Len(dl.owes[p])
      BY <3>4
    <3> QED BY <3>2, <3>3, <3>5 DEF Serves
  <2> QED BY <2>1, <2>2 DEF RequestsJustified
<1> QED BY <1>1, ThinInvariant, PTL

=============================================================================
