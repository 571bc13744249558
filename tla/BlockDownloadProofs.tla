------------------------ MODULE BlockDownloadProofs ------------------------
(***************************************************************************)
(* Proofs about BlockDownload for any tree of blocks, any finite set of    *)
(* peers and any limits: the requests are counted exactly, and a peer that *)
(* is timed as stalling owes a block.  Both follow from FullInv.           *)
(*                                                                         *)
(* In this order: natural numbers; chains have one block per height, and   *)
(* InOrder lists a part of a chain by height; taking from and appending to *)
(* a queue; what MarkBlockAsReceived and MarkBlockAsInFlight keep; folds   *)
(* as sequences of steps; the requests of one message and the walk of      *)
(* FindNextBlocksToDownload; peers that come, stall and leave; the         *)
(* invariant, each message, and the theorems.                              *)
(***************************************************************************)
EXTENDS BlockDownload, SequenceTheorems, FiniteSetTheorems, WellFoundedInduction, TLAPS

-----------------------------------------------------------------------------
(* Natural numbers.                                                        *)

\* Every nonempty set of natural numbers has a least element.
LEMMA LeastNatural ==
    ASSUME NEW S \in SUBSET Nat, S # {}
    PROVE  \E n \in S : \A m \in S : n <= m
<1> DEFINE R == {ss \in Nat \X Nat : ss[1] < ss[2]}
<1>1. IsWellFoundedOn(R, Nat)
  BY NatLessThanWellFounded DEF OpToRel
<1> HIDE DEF R
<1>2. PICK n \in S : \A m \in S : ~(<<m, n>> \in R)
  BY <1>1, WFMin
<1>3. \A m \in S : ~(m < n)
  BY <1>2 DEF R
<1> QED BY <1>3

\* A nonempty set of natural numbers with a bound has a greatest element.
LEMMA GreatestNatural ==
    ASSUME NEW S \in SUBSET Nat, S # {}, NEW n \in Nat, \A x \in S : x <= n
    PROVE  \E m \in S : \A x \in S : x <= m
<1> DEFINE D == {n - x : x \in S}
<1> \A x \in S : x \in Nat /\ n - x \in Nat
  OBVIOUS
<1>1. D \in SUBSET Nat /\ D # {}
  OBVIOUS
<1>2. PICK d \in D : \A m \in D : d <= m
  BY <1>1, LeastNatural
<1>3. PICK m \in S : d = n - m
  BY <1>2
<1>4. \A x \in S : n - x \in D
  OBVIOUS
<1> HIDE DEF D
<1>5. \A x \in S : n - m <= n - x
  BY <1>2, <1>3, <1>4
<1>6. \A x \in S : x \in Nat
  OBVIOUS
<1> QED BY <1>3, <1>5, <1>6

\* A set of natural numbers that holds 0 and, below n, the successor of each of its
\* members, holds all numbers up to n.
LEMMA UpTo ==
    ASSUME NEW n \in Nat, NEW P, 0 \in P, \A k \in 0 .. n - 1 : k \in P => k + 1 \in P
    PROVE  0 .. n \subseteq P
<1> DEFINE Bad == {k \in 0 .. n : k \notin P}
<1> SUFFICES ASSUME Bad # {} PROVE FALSE
  OBVIOUS
<1>1. Bad \in SUBSET Nat
  OBVIOUS
<1>2. PICK k \in Bad : \A m \in Bad : k <= m
  BY <1>1, LeastNatural
<1>3. k \in Nat /\ k # 0 /\ k <= n
  BY <1>2
<1>4. k - 1 \in 0 .. n - 1 /\ k - 1 \notin Bad
  BY <1>2, <1>3
<1>5. (k - 1) + 1 \in P
  BY <1>4, <1>3
<1> QED BY <1>2, <1>3, <1>5

-----------------------------------------------------------------------------
(* The tree of blocks.                                                     *)

\* What the ancestors of b are like.
Chain(b) ==
    /\ IsFiniteSet(Anc[b])
    /\ b \in Anc[b] /\ Genesis \in Anc[b]
    /\ \A x \in Anc[b] : Height[x] <= Height[b] /\ Anc[x] \subseteq Anc[b]
    /\ \A x, y \in Anc[b] : Height[x] = Height[y] => x = y
    /\ \A h \in 0 .. Height[b] : \E x \in Anc[b] : Height[x] = h

\* The ancestors of every block are a chain from the genesis block: one block of each
\* height.
LEMMA Chains == \A b \in Blocks : Chain(b)
<1> DEFINE Bad == {b \in Blocks : ~Chain(b)}
           H == {Height[b] : b \in Bad}
<1> SUFFICES ASSUME Bad # {} PROVE FALSE
  OBVIOUS
<1>1. \A b \in Blocks : Height[b] \in Nat
  BY DownloadAssumption
<1>2. H \in SUBSET Nat /\ H # {}
  BY <1>1
<1>3. PICK h \in H : \A m \in H : h <= m
  BY <1>2, LeastNatural
<1>4. PICK b \in Bad : h = Height[b]
  BY <1>3
<1>5. \A x \in Bad : Height[b] <= Height[x]
  BY <1>3, <1>4
<1>6. b \in Blocks /\ ~Chain(b)
  BY <1>4
<1>7. CASE b = Genesis
  <2>1. Anc[b] = {Genesis} /\ Height[b] = 0 /\ IsFiniteSet({Genesis})
    BY <1>7, DownloadAssumption, FS_Singleton
  <2>2. \A x \in Anc[b] : Height[x] <= Height[b] /\ Anc[x] \subseteq Anc[b]
    BY <1>7, <2>1
  <2>3. \A x, y \in Anc[b] : Height[x] = Height[y] => x = y
    BY <2>1
  <2>4. \A k \in 0 .. Height[b] : \E x \in Anc[b] : Height[x] = k
    BY <1>7, <2>1
  <2> QED BY <1>6, <1>7, <2>1, <2>2, <2>3, <2>4 DEF Chain
<1>8. CASE b # Genesis
  <2> DEFINE a == Parent[b]
  <2>1. a \in Blocks /\ Anc[b] = {b} \cup Anc[a] /\ Height[b] = Height[a] + 1
    BY <1>6, <1>8, DownloadAssumption
  <2>2. Height[a] \in Nat /\ Height[b] \in Nat
    BY <1>1, <1>6, <2>1
  <2>3. Chain(a)
    <3>1. a \notin Bad
      <4> HIDE DEF Bad, a
      <4> QED BY <1>5, <2>1, <2>2
    <3> QED BY <2>1, <3>1
  <2> HIDE DEF a
  <2>4. Anc[a] \subseteq Blocks
    BY <2>1, DownloadAssumption
  <2>5. \A x \in Anc[a] : Height[x] \in Nat /\ Height[x] <= Height[a]
    BY <1>1, <2>3, <2>4 DEF Chain
  <2>6. IsFiniteSet(Anc[b])
    <3>1. IsFiniteSet(Anc[a] \cup {b})
      BY <2>3, FS_AddElement DEF Chain
    <3>2. Anc[b] = Anc[a] \cup {b}
      BY <2>1
    <3> QED BY <3>1, <3>2
  <2>7. \A x \in Anc[b] : Height[x] <= Height[b] /\ Anc[x] \subseteq Anc[b]
    <3>1. \A x \in Anc[a] : Height[x] <= Height[b]
      BY <2>1, <2>2, <2>5
    <3>2. \A x \in Anc[a] : Anc[x] \subseteq Anc[b]
      BY <2>1, <2>3 DEF Chain
    <3>3. Height[b] <= Height[b]
      BY <2>2
    <3> QED BY <2>1, <3>1, <3>2, <3>3
  <2>8. \A x, y \in Anc[b] : Height[x] = Height[y] => x = y
    <3>1. \A x \in Anc[a] : Height[x] # Height[b]
      BY <2>1, <2>2, <2>5
    <3> QED BY <2>1, <2>3, <3>1 DEF Chain
  <2>9. ASSUME NEW k \in 0 .. Height[b] PROVE \E x \in Anc[b] : Height[x] = k
    <3>1. k \in 0 .. Height[a] \/ k = Height[b]
      BY <2>1, <2>2
    <3> QED BY <2>1, <2>3, <3>1 DEF Chain
  <2> QED BY <1>6, <2>1, <2>3, <2>6, <2>7, <2>8, <2>9 DEF Chain
<1> QED BY <1>7, <1>8

\* What two blocks share has a last block.
LEMMA LastCommon ==
    ASSUME NEW a \in Blocks, NEW b \in Blocks
    PROVE  LastCommonAncestor(a, b) \in Anc[a] \cap Anc[b]
<1> DEFINE B == Anc[a] \cap Anc[b]
           H == {Height[x] : x \in B}
<1>1. Chain(a) /\ Chain(b) /\ B \subseteq Blocks
  BY Chains, DownloadAssumption
<1>2. Genesis \in B
  BY <1>1 DEF Chain
<1>3. \A x \in B : Height[x] \in Nat /\ Height[x] <= Height[a]
  BY <1>1, DownloadAssumption DEF Chain
<1>4. Height[a] \in Nat
  BY DownloadAssumption
<1>5. H \in SUBSET Nat /\ H # {} /\ \A h \in H : h <= Height[a]
  BY <1>2, <1>3
<1>6. PICK m \in H : \A h \in H : h <= m
  <2> HIDE DEF H
  <2> QED BY <1>4, <1>5, GreatestNatural
<1>7. PICK x \in B : m = Height[x]
  BY <1>6
<1>8. \A y \in B : Height[y] <= Height[x]
  BY <1>6, <1>7
<1>9. x \in Best(B)
  BY <1>7, <1>8 DEF Best
<1>10. LastCommonAncestor(a, b) = CHOOSE y \in B : y \in Best(B)
  BY DEF LastCommonAncestor
<1> HIDE DEF B
<1>11. LastCommonAncestor(a, b) \in B
  BY <1>7, <1>9, <1>10
<1> QED BY <1>11 DEF B

\* Blocks of one chain can be put in order: the sequence has all of them.
LEMMA Ordered ==
    ASSUME NEW b \in Blocks, NEW B \in SUBSET Anc[b]
    PROVE  /\ InOrder(B) \in Seq(B)
           /\ Len(InOrder(B)) = Cardinality(B)
           /\ Cardinality(B) \in Nat
<1> DEFINE n == Cardinality(B)
           Below(x) == {c \in B : Height[c] < Height[x]}
           rank == [x \in B |-> Cardinality(Below(x)) + 1]
<1>1. Chain(b) /\ B \subseteq Blocks
  BY Chains, DownloadAssumption
<1>2. IsFiniteSet(B) /\ n \in Nat
  BY <1>1, FS_Subset, FS_CardinalityType DEF Chain
<1>3. \A x \in B : Height[x] \in Nat
  BY <1>1, DownloadAssumption
<1>4. ASSUME NEW x \in B PROVE /\ IsFiniteSet(Below(x)) /\ Cardinality(Below(x)) \in Nat
                               /\ Cardinality(Below(x)) < n
  <2>1. Below(x) \in SUBSET B /\ x \notin Below(x)
    BY <1>3
  <2>2. IsFiniteSet(Below(x)) /\ Cardinality(Below(x)) <= n
    <3> HIDE DEF Below
    <3> QED BY <1>2, <2>1, FS_Subset
  <2>3. Cardinality(Below(x)) # n
    <3> HIDE DEF Below
    <3> QED BY <1>2, <2>1, FS_Subset
  <2>4. Cardinality(Below(x)) \in Nat
    <3> HIDE DEF Below
    <3> QED BY <2>2, FS_CardinalityType
  <2> HIDE DEF Below
  <2> QED BY <1>2, <2>2, <2>3, <2>4
<1>5. ASSUME NEW x \in B, NEW y \in B, Height[x] < Height[y]
      PROVE  Cardinality(Below(x)) < Cardinality(Below(y))
  <2>1. Below(x) \in SUBSET Below(y) /\ x \in Below(y) /\ x \notin Below(x)
    BY <1>3, <1>5
  <2>2. IsFiniteSet(Below(y)) /\ Cardinality(Below(y)) \in Nat /\ Cardinality(Below(x)) \in Nat
    BY <1>4
  <2> HIDE DEF Below
  <2>3. Cardinality(Below(x)) <= Cardinality(Below(y)) /\ Cardinality(Below(x)) # Cardinality(Below(y))
    BY <2>1, <2>2, FS_Subset
  <2> QED BY <2>2, <2>3
<1>6. \A x, y \in B : rank[x] = rank[y] => x = y
  <2> SUFFICES ASSUME NEW x \in B, NEW y \in B, rank[x] = rank[y] PROVE x = y
    OBVIOUS
  <2>1. Cardinality(Below(x)) = Cardinality(Below(y))
    <3>1. Cardinality(Below(x)) \in Nat /\ Cardinality(Below(y)) \in Nat
      BY <1>4
    <3> QED BY <3>1
  <2>2. ~(Height[x] < Height[y]) /\ ~(Height[y] < Height[x])
    <3>1. Cardinality(Below(x)) \in Nat
      BY <1>4
    <3> HIDE DEF Below
    <3> QED BY <1>5, <2>1, <3>1
  <2>3. Height[x] = Height[y]
    BY <1>3, <2>2
  <2> QED BY <1>1, <2>3 DEF Chain
<1>7. rank \in Injection(B, 1 .. n)
  <2>1. rank \in [B -> 1 .. n]
    <3> SUFFICES ASSUME NEW x \in B PROVE Cardinality(Below(x)) + 1 \in 1 .. n
      OBVIOUS
    <3> HIDE DEF Below
    <3> QED BY <1>2, <1>4
  <2> HIDE DEF rank
  <2> QED BY <1>6, <2>1 DEF Injection, IsInjective
<1>8. rank \in Surjection(B, 1 .. n)
  <2>1. IsFiniteSet(1 .. n) /\ Cardinality(1 .. n) = n
    BY <1>2, FS_Interval
  <2> HIDE DEF rank
  <2> QED BY <1>7, <2>1, FS_Injection
<1>9. ASSUME NEW i \in 1 .. n PROVE \E x \in B : Cardinality(Below(x)) = i - 1
  <2>1. PICK x \in B : rank[x] = i
    <3> HIDE DEF rank
    <3> QED BY <1>8 DEF Surjection
  <2>2. Cardinality(Below(x)) + 1 = i /\ Cardinality(Below(x)) \in Nat
    BY <1>4, <2>1
  <2> HIDE DEF Below
  <2>3. Cardinality(Below(x)) = i - 1
    BY <2>2
  <2> QED BY <2>3
<1>10. InOrder(B) = [i \in 1 .. n |-> CHOOSE x \in B : Cardinality(Below(x)) = i - 1]
  BY DEF InOrder
<1>11. \A i \in 1 .. n : InOrder(B)[i] \in B
  <2> SUFFICES ASSUME NEW i \in 1 .. n PROVE InOrder(B)[i] \in B
    OBVIOUS
  <2>1. InOrder(B)[i] = CHOOSE x \in B : Cardinality(Below(x)) = i - 1
    BY <1>10
  <2> HIDE DEF Below
  <2> QED BY <1>9, <2>1
<1>12. InOrder(B) \in [1 .. n -> B]
  <2> HIDE DEF Below
  <2> QED BY <1>10, <1>11
<1>13. InOrder(B) \in Seq(B) /\ Len(InOrder(B)) = n
  <2> HIDE DEF n
  <2> QED BY <1>2, <1>12
<1> QED BY <1>2, <1>13

-----------------------------------------------------------------------------
(* The queue of a peer.                                                    *)

Request == [hash : Blocks, valid : {0, 1}]

\* The requests for blocks whose header was known.
ValidAt(q) == {i \in DOMAIN q : q[i].valid = 1}

\* They can be counted.
LEMMA ValidFinite ==
    ASSUME NEW q \in Seq(Request)
    PROVE  /\ IsFiniteSet(ValidAt(q)) /\ Cardinality(ValidAt(q)) \in Nat
           /\ Cardinality(ValidAt(q)) <= Len(q)
<1>1. IsFiniteSet(1 .. Len(q)) /\ Cardinality(1 .. Len(q)) = Len(q)
  <2>1. Len(q) \in Nat /\ 1 \in Int
    OBVIOUS
  <2>2. IsFiniteSet(1 .. Len(q))
          /\ Cardinality(1 .. Len(q)) = IF 1 > Len(q) THEN 0 ELSE Len(q) - 1 + 1
    BY <2>1, FS_Interval
  <2> QED BY <2>1, <2>2
<1>2. ValidAt(q) \in SUBSET (1 .. Len(q))
  BY DEF ValidAt
<1> QED BY <1>1, <1>2, FS_Subset, FS_CardinalityType

\* RemoveAt moves what comes after k one place to the front.
LEMMA RemoveAtIs ==
    ASSUME NEW q \in Seq(Request), NEW k \in 1 .. Len(q)
    PROVE  /\ RemoveAt(q, k) \in Seq(Request)
           /\ Len(RemoveAt(q, k)) = Len(q) - 1
           /\ \A j \in 1 .. Len(q) - 1 : RemoveAt(q, k)[j] = IF j < k THEN q[j] ELSE q[j + 1]
<1> DEFINE a == SubSeq(q, 1, k - 1)
           z == SubSeq(q, k + 1, Len(q))
<1>1. a \in Seq(Request) /\ Len(a) = k - 1 /\ \A j \in 1 .. k - 1 : a[j] = q[j]
  OBVIOUS
<1>2. z \in Seq(Request) /\ Len(z) = Len(q) - k
         /\ \A j \in 1 .. Len(q) - k : z[j] = q[k + j]
  OBVIOUS
<1>3. RemoveAt(q, k) = a \o z
  BY DEF RemoveAt
<1> HIDE DEF a, z
<1>4. Len(q) \in Nat
  OBVIOUS
<1>5. a \o z \in Seq(Request) /\ Len(a \o z) = Len(q) - 1
  <2>1. a \o z \in Seq(Request) /\ Len(a \o z) = Len(a) + Len(z)
    BY <1>1, <1>2, ConcatProperties
  <2> QED BY <1>1, <1>2, <1>4, <2>1
<1>6. ASSUME NEW j \in 1 .. Len(q) - 1
      PROVE  (a \o z)[j] = IF j < k THEN q[j] ELSE q[j + 1]
  <2>1. CASE j < k
    BY <1>1, <1>2, <1>4, <2>1
  <2>2. CASE ~(j < k)
    <3>1. (a \o z)[j] = z[j - (k - 1)]
      BY <1>1, <1>2, <1>4, <2>2
    <3>2. j - (k - 1) \in 1 .. Len(q) - k /\ k + (j - (k - 1)) = j + 1
      BY <1>4, <2>2
    <3> QED BY <1>2, <2>2, <3>1, <3>2
  <2> QED BY <2>1, <2>2
<1> QED BY <1>3, <1>5, <1>6

\* Removing a request removes it from the count.
LEMMA RemoveCount ==
    ASSUME NEW q \in Seq(Request), NEW k \in 1 .. Len(q)
    PROVE  Cardinality(ValidAt(RemoveAt(q, k))) = Cardinality(ValidAt(q)) - q[k].valid
<1> DEFINE r == RemoveAt(q, k)
           n == Len(q)
           V == ValidAt(q) \ {k}
           f == [i \in V |-> IF i < k THEN i ELSE i - 1]
<1>1. r \in Seq(Request) /\ Len(r) = n - 1 /\ n \in Nat
        /\ \A j \in 1 .. n - 1 : r[j] = IF j < k THEN q[j] ELSE q[j + 1]
  <2>1. n \in Nat
    OBVIOUS
  <2> QED BY <2>1, RemoveAtIs
<1> HIDE DEF r
<1>2. ValidAt(r) = {j \in 1 .. n - 1 : r[j].valid = 1} /\ ValidAt(q) = {i \in 1 .. n : q[i].valid = 1}
  BY <1>1 DEF ValidAt
<1>3. \A i \in V : i \in 1 .. n /\ i # k /\ q[i].valid = 1
  BY <1>2
<1>4. f \in Injection(V, ValidAt(r))
  <2>1. ASSUME NEW i \in V PROVE f[i] \in ValidAt(r)
    <3>1. i \in 1 .. n /\ i # k /\ q[i].valid = 1
      BY <1>3
    <3>2. CASE i < k
      <4>1. f[i] = i /\ i \in 1 .. n - 1 /\ r[i] = q[i]
        BY <1>1, <3>1, <3>2
      <4> QED BY <1>2, <3>1, <4>1
    <3>3. CASE ~(i < k)
      <4>1. f[i] = i - 1 /\ i - 1 \in 1 .. n - 1 /\ ~(i - 1 < k) /\ (i - 1) + 1 = i
        BY <1>1, <3>1, <3>3
      <4>2. r[i - 1] = q[i]
        BY <1>1, <4>1
      <4> QED BY <1>2, <3>1, <4>1, <4>2
    <3> QED BY <3>2, <3>3
  <2>2. \A i, j \in V : f[i] = f[j] => i = j
    BY <1>3
  <2>3. f \in [V -> ValidAt(r)]
    BY <2>1
  <2> HIDE DEF f
  <2> QED BY <2>2, <2>3 DEF Injection, IsInjective
<1>5. \A j \in ValidAt(r) : \E i \in V : f[i] = j
  <2> SUFFICES ASSUME NEW j \in ValidAt(r) PROVE \E i \in V : f[i] = j
    OBVIOUS
  <2>1. j \in 1 .. n - 1 /\ r[j].valid = 1
    BY <1>2
  <2>2. CASE j < k
    <3>1. r[j] = q[j] /\ j \in V
      BY <1>1, <1>2, <2>1, <2>2
    <3> QED BY <2>2, <3>1
  <2>3. CASE ~(j < k)
    <3>1. r[j] = q[j + 1] /\ j + 1 \in 1 .. n
      BY <1>1, <2>1, <2>3
    <3>2. j + 1 \in V /\ ~(j + 1 < k) /\ (j + 1) - 1 = j
      BY <1>2, <2>1, <2>3, <3>1
    <3> QED BY <3>2
  <2> QED BY <2>2, <2>3
<1>6. f \in Surjection(V, ValidAt(r))
  <2> HIDE DEF f, V
  <2> QED BY <1>4, <1>5 DEF Injection, Surjection
<1>7. IsFiniteSet(ValidAt(q)) /\ Cardinality(ValidAt(q)) \in Nat
  BY ValidFinite
<1>8. IsFiniteSet(V) /\ Cardinality(V) = IF k \in ValidAt(q) THEN Cardinality(ValidAt(q)) - 1
                                         ELSE Cardinality(ValidAt(q))
  BY <1>7, FS_RemoveElement
<1>9. Cardinality(ValidAt(r)) = Cardinality(V)
  <2> HIDE DEF f, V
  <2> QED BY <1>4, <1>6, <1>8, FS_Surjection
<1>10. q[k].valid \in {0, 1} /\ (k \in ValidAt(q) <=> q[k].valid = 1)
  <2>1. q[k] \in Request
    OBVIOUS
  <2> QED BY <1>1, <1>2, <2>1 DEF Request
<1> QED BY <1>7, <1>8, <1>9, <1>10 DEF r

\* Adding one adds it.
LEMMA AppendCount ==
    ASSUME NEW q \in Seq(Request), NEW x \in Request
    PROVE  Cardinality(ValidAt(Append(q, x))) = Cardinality(ValidAt(q)) + x.valid
<1> DEFINE n == Len(q)
           z == Append(q, x)
<1>1. z \in Seq(Request) /\ Len(z) = n + 1 /\ n \in Nat /\ z[n + 1] = x
        /\ \A i \in 1 .. n : z[i] = q[i]
  OBVIOUS
<1> HIDE DEF z
<1>2. ValidAt(z) = {j \in 1 .. n + 1 : z[j].valid = 1} /\ ValidAt(q) = {i \in 1 .. n : q[i].valid = 1}
  BY <1>1 DEF ValidAt
<1>3. IsFiniteSet(ValidAt(q)) /\ Cardinality(ValidAt(q)) \in Nat
  BY ValidFinite
<1>4. CASE x.valid = 1
  <2>1. ValidAt(z) = ValidAt(q) \cup {n + 1} /\ n + 1 \notin ValidAt(q)
    BY <1>1, <1>2, <1>4
  <2>2. Cardinality(ValidAt(q) \cup {n + 1}) = Cardinality(ValidAt(q)) + 1
    BY <1>3, <2>1, FS_AddElement
  <2> QED BY <1>4, <2>1, <2>2 DEF z
<1>5. CASE x.valid = 0
  <2>1. ValidAt(z) = ValidAt(q)
    BY <1>1, <1>2, <1>5
  <2> QED BY <1>3, <1>5, <2>1 DEF z
<1> QED BY <1>4, <1>5 DEF Request

\* An empty queue has none.
LEMMA EmptyCount == Cardinality(ValidAt(<<>>)) = 0
<1>1. ValidAt(<<>>) = {}
  BY DEF ValidAt
<1> QED BY <1>1, FS_EmptySet

-----------------------------------------------------------------------------
(* The requests.                                                           *)

Downloads ==
    [inFlight : [Blocks -> Peers \cup {None}], queue : [Peers -> Seq(Request)],
     nBlocks : [Peers -> Nat], nValid : [Peers -> Nat], peers : Nat,
     stalling : SUBSET Peers]

\* mapBlocksInFlight and the queues say the same.
Matching(d) ==
    /\ \A p \in Peers : \A i \in 1 .. Len(d.queue[p]) : d.inFlight[d.queue[p][i].hash] = p
    /\ \A p \in Peers : \A i, j \in 1 .. Len(d.queue[p]) :
          d.queue[p][i].hash = d.queue[p][j].hash => i = j
    /\ \A b \in Blocks : d.inFlight[b] # None =>
          \E i \in 1 .. Len(d.queue[d.inFlight[b]]) : d.queue[d.inFlight[b]][i].hash = b

\* The counters of the peers are right.
Counted(d) ==
    \A p \in Peers : /\ d.nBlocks[p] = Len(d.queue[p])
                     /\ d.nValid[p] = Cardinality(ValidAt(d.queue[p]))

\* The peers of L with a validated request, f being the counters.
Loading(f, L) == {p \in L : f[p] > 0}

\* Requests of the peers of L, all that is kept about them being right.
Sound(d, L) ==
    /\ d \in Downloads
    /\ Matching(d) /\ Counted(d)
    /\ \A b \in Blocks : d.inFlight[b] \in L \cup {None}
    /\ d.peers = Cardinality(Loading(d.nValid, L))
    /\ \A p \in d.stalling : d.queue[p] # <<>>

\* The number of peers with a validated request when that of one peer changes.
LEMMA LoadingChange ==
    ASSUME NEW f \in [Peers -> Nat], NEW L \in SUBSET Peers, NEW p \in L,
           NEW g \in [Peers -> Nat], \A x \in L : x # p => g[x] = f[x]
    PROVE  /\ Cardinality(Loading(f, L)) \in Nat
           /\ f[p] > 0 /\ g[p] = 0 =>
                 Cardinality(Loading(g, L)) = Cardinality(Loading(f, L)) - 1
           /\ f[p] = 0 /\ g[p] > 0 =>
                 Cardinality(Loading(g, L)) = Cardinality(Loading(f, L)) + 1
           /\ (f[p] = 0 /\ g[p] = 0) \/ (f[p] > 0 /\ g[p] > 0) =>
                 Cardinality(Loading(g, L)) = Cardinality(Loading(f, L))
           /\ f[p] > 0 => Cardinality(Loading(f, L)) > 0
<1>1. IsFiniteSet(L)
  BY DownloadAssumption, FS_Subset
<1>2. IsFiniteSet(Loading(f, L))
  BY <1>1, FS_Subset DEF Loading
<1>3. Cardinality(Loading(f, L)) \in Nat
  BY <1>2, FS_CardinalityType
<1>4. p \in Peers /\ f[p] \in Nat /\ g[p] \in Nat
        /\ \A q \in L : q # p => g[q] = f[q]
  OBVIOUS
<1>5. f[p] > 0 => Cardinality(Loading(f, L)) > 0
  <2> SUFFICES ASSUME f[p] > 0 PROVE Cardinality(Loading(f, L)) > 0
    OBVIOUS
  <2>1. p \in Loading(f, L)
    BY DEF Loading
  <2>2. Cardinality(Loading(f, L)) # 0
    BY <1>2, <2>1, FS_EmptySet
  <2> QED BY <1>3, <2>2
<1>6. CASE f[p] > 0 /\ g[p] = 0
  <2>1. Loading(g, L) = Loading(f, L) \ {p} /\ p \in Loading(f, L)
    BY <1>4, <1>6 DEF Loading
  <2>2. Cardinality(Loading(f, L) \ {p}) = Cardinality(Loading(f, L)) - 1
    BY <1>2, <2>1, FS_RemoveElement
  <2>3. Cardinality(Loading(g, L)) = Cardinality(Loading(f, L)) - 1
    BY ONLY <2>1, <2>2
  <2> QED BY ONLY <1>3, <1>4, <1>5, <1>6, <2>3
<1>7. CASE f[p] = 0 /\ g[p] > 0
  <2>1. Loading(g, L) = Loading(f, L) \cup {p} /\ p \notin Loading(f, L)
    BY <1>4, <1>7 DEF Loading
  <2>2. Cardinality(Loading(f, L) \cup {p}) = Cardinality(Loading(f, L)) + 1
    BY <1>2, <2>1, FS_AddElement
  <2>3. Cardinality(Loading(g, L)) = Cardinality(Loading(f, L)) + 1
    BY ONLY <2>1, <2>2
  <2> QED BY ONLY <1>3, <1>4, <1>5, <1>7, <2>3
<1>8. CASE (f[p] = 0 /\ g[p] = 0) \/ (f[p] > 0 /\ g[p] > 0)
  <2>1. Loading(g, L) = Loading(f, L)
    BY <1>4, <1>8 DEF Loading
  <2> QED BY <1>3, <1>5, <1>8, <2>1
<1> QED BY <1>4, <1>6, <1>7, <1>8

\* What the fields are.
LEMMA SoundTypes ==
    ASSUME NEW d, NEW L, Sound(d, L)
    PROVE  /\ d.inFlight \in [Blocks -> Peers \cup {None}]
           /\ d.queue \in [Peers -> Seq(Request)]
           /\ d.nBlocks \in [Peers -> Nat] /\ d.nValid \in [Peers -> Nat]
           /\ d.peers \in Nat /\ d.stalling \in SUBSET Peers
BY DEF Sound, Downloads

\* MarkBlockAsReceived takes the block out of the requests and leaves all right.
LEMMA ReceivedSound ==
    ASSUME NEW L \in SUBSET Peers, NEW d, Sound(d, L), NEW b \in Blocks
    PROVE  LET e == MarkBlockAsReceived(d, b)
           IN  /\ Sound(e, L)
               /\ e.inFlight = [d.inFlight EXCEPT ![b] = None]
               /\ \A q \in Peers : Len(e.queue[q]) <= Len(d.queue[q])
<1> DEFINE p == d.inFlight[b]
           q == d.queue[p]
           n == Len(q)
           i == CHOOSE i \in DOMAIN q : q[i].hash = b
           v == q[i].valid
           e == MarkBlockAsReceived(d, b)
<1>1. /\ d.inFlight \in [Blocks -> Peers \cup {None}]
      /\ d.queue \in [Peers -> Seq(Request)]
      /\ d.nBlocks \in [Peers -> Nat] /\ d.nValid \in [Peers -> Nat]
      /\ d.peers \in Nat /\ d.stalling \in SUBSET Peers
  BY SoundTypes
<1>2. None \notin Peers /\ \A x \in Peers : d.queue[x] \in Seq(Request) /\ Len(d.queue[x]) \in Nat
  BY <1>1, DownloadAssumption
<1>3. CASE p = None
  <2>1. e = d
    BY <1>3 DEF MarkBlockAsReceived
  <2>2. d.inFlight = [d.inFlight EXCEPT ![b] = None]
    BY <1>1, <1>3
  <2>3. \A x \in Peers : Len(d.queue[x]) <= Len(d.queue[x])
    BY <1>2
  <2> HIDE DEF e
  <2> QED BY <2>1, <2>2, <2>3 DEF e
<1>4. CASE p # None
  <2>1. p \in L /\ p \in Peers /\ q \in Seq(Request) /\ n \in Nat /\ DOMAIN q = 1 .. n
    BY <1>1, <1>2, <1>4 DEF Sound
  <2>2. \E j \in 1 .. n : q[j].hash = b
    BY <1>4 DEF Sound, Matching
  <2>3. i \in 1 .. n /\ q[i].hash = b
    <3> HIDE DEF q, n
    <3> QED BY <2>1, <2>2
  <2>4. v \in {0, 1} /\ q[i] \in Request
    <3>1. q[i] \in Request
      <4> HIDE DEF q, n, i
      <4> QED BY <2>1, <2>3
    <3> QED BY <3>1 DEF Request
  <2>5. e = [d EXCEPT !.nValid[p] = @ - v,
                      !.peers = IF v = 1 /\ d.nValid[p] = 1 THEN @ - 1 ELSE @,
                      !.queue[p] = RemoveAt(@, i),
                      !.nBlocks[p] = @ - 1,
                      !.stalling = @ \ {p},
                      !.inFlight[b] = None]
    BY <1>4 DEF MarkBlockAsReceived
  <2> HIDE DEF i, v, q, n, p
  <2> HIDE DEF e
  <2>6. q = d.queue[p] /\ n = Len(q) /\ p = d.inFlight[b] /\ v = q[i].valid
    BY DEF p, q, n, v
  <2> DEFINE r == RemoveAt(q, i)
  <2>7. r \in Seq(Request) /\ Len(r) = n - 1
          /\ \A j \in 1 .. n - 1 : r[j] = IF j < i THEN q[j] ELSE q[j + 1]
    BY <2>1, <2>3, <2>6, RemoveAtIs
  <2>8. Cardinality(ValidAt(r)) = Cardinality(ValidAt(q)) - v
    BY <2>1, <2>3, <2>6, RemoveCount
  <2> HIDE DEF r
  <2>9. d \in Downloads
    BY DEF Sound
  <2>10. /\ e.inFlight = [d.inFlight EXCEPT ![b] = None]
         /\ e.queue = [d.queue EXCEPT ![p] = r]
         /\ e.nBlocks = [d.nBlocks EXCEPT ![p] = @ - 1]
         /\ e.nValid = [d.nValid EXCEPT ![p] = @ - v]
         /\ e.peers = IF v = 1 /\ d.nValid[p] = 1 THEN d.peers - 1 ELSE d.peers
         /\ e.stalling = d.stalling \ {p}
    BY <2>5, <2>6, <2>9 DEF Downloads, r
  <2>11. d.nBlocks[p] = n /\ d.nValid[p] = Cardinality(ValidAt(q)) /\ d.nValid[p] \in Nat
           /\ Cardinality(ValidAt(r)) \in Nat /\ n - 1 \in Nat
    <3>1. n - 1 \in Nat
      BY <2>1, <2>3
    <3>2. Cardinality(ValidAt(r)) \in Nat
      BY <2>7, ValidFinite
    <3>3. d.nBlocks[p] = n /\ d.nValid[p] = Cardinality(ValidAt(q))
      BY <2>1, <2>6 DEF Sound, Counted
    <3> QED BY <1>1, <2>1, <3>1, <3>2, <3>3
  <2>12. e.nValid[p] = Cardinality(ValidAt(r)) /\ e.nBlocks[p] = Len(r) /\ e.queue[p] = r
    BY <1>1, <2>1, <2>7, <2>8, <2>10, <2>11
  <2>13. \A x \in Peers : x # p => /\ e.nValid[x] = d.nValid[x] /\ e.nBlocks[x] = d.nBlocks[x]
                                   /\ e.queue[x] = d.queue[x]
    BY <1>1, <2>10
  <2>14. Counted(e)
    BY <2>12, <2>13 DEF Sound, Counted
  <2>15. e.peers = Cardinality(Loading(e.nValid, L)) /\ e.peers \in Nat
    <3>1. e.nValid = [d.nValid EXCEPT ![p] = Cardinality(ValidAt(r))]
      BY <1>1, <2>1, <2>8, <2>10, <2>11
    <3>2. d.peers = Cardinality(Loading(d.nValid, L))
      BY DEF Sound
    <3> DEFINE m == Cardinality(ValidAt(r))
    <3>3. /\ Cardinality(Loading(d.nValid, L)) \in Nat
          /\ d.nValid[p] > 0 /\ m = 0 =>
                 Cardinality(Loading(e.nValid, L)) = Cardinality(Loading(d.nValid, L)) - 1
          /\ (d.nValid[p] = 0 /\ m = 0) \/ (d.nValid[p] > 0 /\ m > 0) =>
                 Cardinality(Loading(e.nValid, L)) = Cardinality(Loading(d.nValid, L))
          /\ d.nValid[p] > 0 => Cardinality(Loading(d.nValid, L)) > 0
      <4> HIDE DEF m
      <4>1. m \in Nat /\ e.nValid = [d.nValid EXCEPT ![p] = m]
        BY <2>11, <3>1 DEF m
      <4>2. d.nValid \in [Peers -> Nat]
        BY <1>1
      <4>3. PICK f, g : f = d.nValid /\ g = e.nValid
        OBVIOUS
      <4>4. f \in [Peers -> Nat] /\ g \in [Peers -> Nat] /\ g[p] = m
              /\ \A x \in L : x # p => g[x] = f[x]
        BY <2>1, <4>1, <4>2, <4>3
      <4>5. /\ Cardinality(Loading(f, L)) \in Nat
            /\ f[p] > 0 /\ m = 0 => Cardinality(Loading(g, L)) = Cardinality(Loading(f, L)) - 1
            /\ (f[p] = 0 /\ m = 0) \/ (f[p] > 0 /\ m > 0) => Cardinality(Loading(g, L)) = Cardinality(Loading(f, L))
            /\ f[p] > 0 => Cardinality(Loading(f, L)) > 0
        BY ONLY L \in SUBSET Peers, <2>1, <4>4, LoadingChange
      <4> QED BY ONLY <4>3, <4>5
    <3>4. m = d.nValid[p] - v /\ m \in Nat
      BY <2>8, <2>11
    <3> HIDE DEF m
    <3>5. d.peers \in Nat /\ d.nValid[p] \in Nat
      BY <2>11, <3>2, <3>3
    <3>6. CASE v = 1 /\ d.nValid[p] = 1
      BY <2>10, <3>2, <3>3, <3>4, <3>5, <3>6
    <3>7. CASE ~(v = 1 /\ d.nValid[p] = 1)
      <4>1. (d.nValid[p] = 0 /\ m = 0) \/ (d.nValid[p] > 0 /\ m > 0)
        BY <2>4, <3>4, <3>5, <3>7
      <4> QED BY <2>10, <3>2, <3>3, <3>5, <3>7, <4>1
    <3> QED BY <3>6, <3>7
  <2>16. e \in Downloads
    <3>1. e.inFlight \in [Blocks -> Peers \cup {None}]
      BY <1>1, <2>10
    <3>2. e.queue \in [Peers -> Seq(Request)]
      <4>1. \A f \in [Peers -> Seq(Request)] : [f EXCEPT ![p] = r] \in [Peers -> Seq(Request)]
        BY <2>7
      <4> QED BY <1>1, <2>10, <4>1
    <3>3. e.nBlocks \in [Peers -> Nat] /\ e.nValid \in [Peers -> Nat]
      <4>1. d.nBlocks[p] - 1 \in Nat /\ d.nValid[p] - v \in Nat
        BY <2>8, <2>11
      <4>2. \A x \in Peers : e.nBlocks[x] \in Nat /\ e.nValid[x] \in Nat
        BY <1>1, <2>10, <4>1
      <4>3. e.nBlocks = [x \in Peers |-> e.nBlocks[x]] /\ e.nValid = [x \in Peers |-> e.nValid[x]]
        BY <1>1, <2>10
      <4> QED BY <4>2, <4>3
    <3>4. e.stalling \in SUBSET Peers
      BY <1>1, <2>10
    <3>5. e = [inFlight |-> e.inFlight, queue |-> e.queue, nBlocks |-> e.nBlocks,
               nValid |-> e.nValid, peers |-> e.peers, stalling |-> e.stalling]
      BY <2>5, <2>9 DEF Downloads
    <3> QED BY <2>15, <3>1, <3>2, <3>3, <3>4, <3>5 DEF Downloads
  <2>17. ASSUME NEW j \in 1 .. n - 1
         PROVE  \E m \in 1 .. n : /\ m # i /\ r[j] = q[m] /\ m = IF j < i THEN j ELSE j + 1
    <3>1. CASE j < i
      BY <2>1, <2>3, <2>7, <3>1
    <3>2. CASE ~(j < i)
      BY <2>1, <2>3, <2>7, <3>2
    <3> QED BY <3>1, <3>2
  <2>18. \A j, m \in 1 .. n : q[j].hash = q[m].hash => j = m
    BY <2>1, <2>6 DEF Sound, Matching
  <2>19. Matching(e)
    <3>1. ASSUME NEW x \in Peers, NEW j \in 1 .. Len(e.queue[x])
          PROVE  e.inFlight[e.queue[x][j].hash] = x
      <4>1. CASE x = p
        <5>1. j \in 1 .. n - 1 /\ e.queue[x][j] = r[j]
          BY <2>7, <2>12, <4>1
        <5>2. PICK m \in 1 .. n : m # i /\ r[j] = q[m]
          BY <2>17, <5>1
        <5>3. q[m].hash # b /\ q[m].hash \in Blocks
          <6>1. q[m] \in Request
            BY <2>1, <5>2
          <6> QED BY <2>3, <2>18, <5>2, <6>1 DEF Request
        <5>4. d.inFlight[q[m].hash] = p
          BY <2>1, <2>6, <5>2 DEF Sound, Matching
        <5> QED BY <1>1, <2>10, <4>1, <5>1, <5>2, <5>3, <5>4
      <4>2. CASE x # p
        <5>1. j \in 1 .. Len(d.queue[x]) /\ e.queue[x][j] = d.queue[x][j]
          BY <2>13, <4>2
        <5>2. d.inFlight[d.queue[x][j].hash] = x
          BY <5>1 DEF Sound, Matching
        <5>3. d.queue[x][j].hash \in Blocks
          <6>1. d.queue[x][j] \in Request
            BY <1>2, <5>1
          <6> QED BY <6>1 DEF Request
        <5> QED BY <1>1, <2>6, <2>10, <4>2, <5>1, <5>2, <5>3
      <4> QED BY <4>1, <4>2
    <3>2. ASSUME NEW x \in Peers, NEW j \in 1 .. Len(e.queue[x]), NEW k \in 1 .. Len(e.queue[x]),
                 e.queue[x][j].hash = e.queue[x][k].hash
          PROVE  j = k
      <4>1. CASE x = p
        <5>1. j \in 1 .. n - 1 /\ k \in 1 .. n - 1 /\ r[j].hash = r[k].hash
          BY <2>7, <2>12, <3>2, <4>1
        <5>2. PICK m \in 1 .. n : r[j] = q[m] /\ m = IF j < i THEN j ELSE j + 1
          BY <2>17, <5>1
        <5>3. PICK l \in 1 .. n : r[k] = q[l] /\ l = IF k < i THEN k ELSE k + 1
          BY <2>17, <5>1
        <5>4. m = l
          BY <2>18, <5>1, <5>2, <5>3
        <5> QED BY <2>1, <2>3, <5>1, <5>2, <5>3, <5>4
      <4>2. CASE x # p
        BY <2>13, <3>2, <4>2 DEF Sound, Matching
      <4> QED BY <4>1, <4>2
    <3>3. ASSUME NEW c \in Blocks, e.inFlight[c] # None
          PROVE  \E j \in 1 .. Len(e.queue[e.inFlight[c]]) : e.queue[e.inFlight[c]][j].hash = c
      <4>1. c # b /\ e.inFlight[c] = d.inFlight[c]
        BY <1>1, <2>10, <3>3
      <4>2. PICK x : x = d.inFlight[c] /\ x \in Peers
        BY <1>1, <3>3, <4>1
      <4>3. PICK m \in 1 .. Len(d.queue[x]) : d.queue[x][m].hash = c
        BY <3>3, <4>1, <4>2 DEF Sound, Matching
      <4>4. CASE x = p
        <5>1. m \in 1 .. n /\ m # i /\ q[m].hash = c
          BY <2>3, <2>6, <4>1, <4>3, <4>4
        <5>2. PICK j \in 1 .. n - 1 : m = IF j < i THEN j ELSE j + 1
          <6>1. CASE m < i
            BY <2>1, <2>3, <5>1, <6>1
          <6>2. CASE ~(m < i)
            <7>1. m - 1 \in 1 .. n - 1 /\ ~(m - 1 < i) /\ (m - 1) + 1 = m
              BY <2>1, <2>3, <5>1, <6>2
            <7> QED BY <7>1
          <6> QED BY <6>1, <6>2
        <5>3. r[j] = q[m]
          BY <2>7, <5>2
        <5>4. j \in 1 .. Len(e.queue[x]) /\ e.queue[x][j].hash = c
          BY <2>7, <2>12, <4>4, <5>1, <5>2, <5>3
        <5> QED BY <4>1, <4>2, <5>4
      <4>5. CASE x # p
        BY <2>13, <4>1, <4>2, <4>3, <4>5
      <4> QED BY <4>4, <4>5
    <3> QED BY <3>1, <3>2, <3>3 DEF Matching
  <2>20. \A c \in Blocks : e.inFlight[c] \in L \cup {None}
    BY <1>1, <2>10 DEF Sound
  <2>21. \A x \in e.stalling : e.queue[x] # <<>>
    BY <1>1, <2>10, <2>13 DEF Sound
  <2>22. Sound(e, L)
    BY <2>14, <2>15, <2>16, <2>19, <2>20, <2>21 DEF Sound
  <2>23. \A x \in Peers : Len(e.queue[x]) <= Len(d.queue[x])
    BY <1>2, <2>1, <2>6, <2>7, <2>12, <2>13
  <2> QED BY <2>10, <2>22, <2>23 DEF e
<1> QED BY <1>3, <1>4

\* How e comes from d by a request for b from p.
Requested(d, p, b, L, e) ==
    /\ Sound(e, L)
    /\ e.inFlight = [d.inFlight EXCEPT ![b] = p]
    /\ \A x \in Peers : x # p => Len(e.queue[x]) <= Len(d.queue[x])
    /\ Len(e.queue[p]) <= Len(d.queue[p]) + 1

\* MarkBlockAsInFlight leaves all right, adds the block to the requests of p and takes
\* it from those of another peer.
LEMMA InFlightSound ==
    ASSUME NEW L \in SUBSET Peers, NEW d, Sound(d, L), NEW p \in L, NEW b \in Blocks,
           NEW v \in {0, 1}
    PROVE  Requested(d, p, b, L, MarkBlockAsInFlight(d, p, b, v))
<1> DEFINE r == MarkBlockAsReceived(d, b)
           e == MarkBlockAsInFlight(d, p, b, v)
           new == [hash |-> b, valid |-> v]
<1>1. /\ Sound(r, L)
      /\ r.inFlight = [d.inFlight EXCEPT ![b] = None]
      /\ \A q \in Peers : Len(r.queue[q]) <= Len(d.queue[q])
  BY ReceivedSound
<1>2. e = [r EXCEPT !.queue[p] = Append(@, new),
                    !.nBlocks[p] = @ + 1,
                    !.nValid[p] = @ + v,
                    !.peers = IF v = 1 /\ r.nValid[p] = 0 THEN @ + 1 ELSE @,
                    !.inFlight[b] = p]
  BY DEF MarkBlockAsInFlight
<1> HIDE DEF r, e
<1>3. /\ r.inFlight \in [Blocks -> Peers \cup {None}]
      /\ r.queue \in [Peers -> Seq(Request)]
      /\ r.nBlocks \in [Peers -> Nat] /\ r.nValid \in [Peers -> Nat]
      /\ r.peers \in Nat /\ r.stalling \in SUBSET Peers
  BY <1>1, SoundTypes
<1>4. None \notin Peers /\ p \in Peers /\ new \in Request /\ new.hash = b /\ new.valid = v
        /\ \A x \in Peers : r.queue[x] \in Seq(Request) /\ Len(r.queue[x]) \in Nat
  <2>1. None \notin Peers /\ p \in Peers
    BY DownloadAssumption
  <2>2. new \in Request /\ new.hash = b /\ new.valid = v
    BY DEF Request
  <2>3. \A x \in Peers : r.queue[x] \in Seq(Request) /\ Len(r.queue[x]) \in Nat
    BY <1>3
  <2> HIDE DEF new
  <2> QED BY <2>1, <2>2, <2>3
<1>5. r \in Downloads
  BY <1>1 DEF Sound
<1>6. d.inFlight \in [Blocks -> Peers \cup {None}] /\ d.queue \in [Peers -> Seq(Request)]
  BY SoundTypes
<1> HIDE DEF new
<1> DEFINE q == r.queue[p]
           n == Len(q)
           z == Append(q, new)
<1>7. /\ e.inFlight = [r.inFlight EXCEPT ![b] = p]
      /\ e.queue = [r.queue EXCEPT ![p] = z]
      /\ e.nBlocks = [r.nBlocks EXCEPT ![p] = @ + 1]
      /\ e.nValid = [r.nValid EXCEPT ![p] = @ + v]
      /\ e.peers = IF v = 1 /\ r.nValid[p] = 0 THEN r.peers + 1 ELSE r.peers
      /\ e.stalling = r.stalling
  BY <1>2, <1>5 DEF Downloads
<1>8. q \in Seq(Request) /\ n \in Nat
  BY <1>4
<1>9. z \in Seq(Request) /\ Len(z) = n + 1 /\ z[n + 1] = new /\ z # <<>>
        /\ \A j \in 1 .. n : z[j] = q[j]
  <2>1. new \in Request
    BY <1>4
  <2> HIDE DEF q
  <2> QED BY <1>8, <2>1
<1>10. Cardinality(ValidAt(z)) = Cardinality(ValidAt(q)) + v
  <2> HIDE DEF q
  <2> QED BY <1>4, <1>8, AppendCount
<1>11. r.nBlocks[p] = n /\ r.nValid[p] = Cardinality(ValidAt(q)) /\ r.nValid[p] \in Nat
  BY <1>1, <1>3, <1>4 DEF Sound, Counted
<1>12. q = r.queue[p]
  OBVIOUS
<1> HIDE DEF q, n, z
<1>13. n = Len(q)
  BY DEF n
<1>14. e.nValid[p] = Cardinality(ValidAt(z)) /\ e.nBlocks[p] = Len(z) /\ e.queue[p] = z
  BY <1>3, <1>4, <1>7, <1>9, <1>10, <1>11
<1>15. \A x \in Peers : x # p => /\ e.nValid[x] = r.nValid[x] /\ e.nBlocks[x] = r.nBlocks[x]
                                 /\ e.queue[x] = r.queue[x]
  BY <1>3, <1>7
<1>16. Counted(e)
  BY <1>1, <1>14, <1>15 DEF Sound, Counted
<1>17. e.nBlocks \in [Peers -> Nat] /\ e.nValid \in [Peers -> Nat]
  <2>1. e.nBlocks[p] \in Nat /\ e.nValid[p] \in Nat
    BY <1>8, <1>9, <1>10, <1>11, <1>14
  <2>2. \A x \in Peers : e.nBlocks[x] \in Nat /\ e.nValid[x] \in Nat
    BY <1>3, <1>15, <2>1
  <2>3. e.nBlocks = [x \in Peers |-> e.nBlocks[x]] /\ e.nValid = [x \in Peers |-> e.nValid[x]]
    BY <1>3, <1>7
  <2> QED BY <2>2, <2>3
<1>18. e.peers = Cardinality(Loading(e.nValid, L)) /\ e.peers \in Nat
  <2>1. PICK f, g : f = r.nValid /\ g = e.nValid
    OBVIOUS
  <2>2. f \in [Peers -> Nat] /\ g \in [Peers -> Nat] /\ g[p] = f[p] + v
          /\ \A x \in L : x # p => g[x] = f[x]
    BY <1>3, <1>4, <1>10, <1>11, <1>14, <1>15, <1>17, <2>1
  <2>3. /\ Cardinality(Loading(f, L)) \in Nat
        /\ f[p] = 0 /\ g[p] > 0 => Cardinality(Loading(g, L)) = Cardinality(Loading(f, L)) + 1
        /\ (f[p] = 0 /\ g[p] = 0) \/ (f[p] > 0 /\ g[p] > 0) =>
              Cardinality(Loading(g, L)) = Cardinality(Loading(f, L))
    BY ONLY L \in SUBSET Peers, p \in L, <2>2, LoadingChange
  <2>4. r.peers = Cardinality(Loading(f, L))
    BY <1>1, <2>1 DEF Sound
  <2>5. f[p] \in Nat
    BY <1>4, <2>2
  <2>6. CASE v = 1 /\ f[p] = 0
    BY <1>7, <2>1, <2>2, <2>3, <2>4, <2>6
  <2>7. CASE ~(v = 1 /\ f[p] = 0)
    <3>1. (f[p] = 0 /\ g[p] = 0) \/ (f[p] > 0 /\ g[p] > 0)
      BY <2>2, <2>5, <2>7
    <3> QED BY <1>7, <2>1, <2>3, <2>4, <2>7, <3>1
  <2> QED BY <2>6, <2>7
<1>19. e \in Downloads
  <2>1. e.inFlight \in [Blocks -> Peers \cup {None}]
    BY <1>3, <1>4, <1>7
  <2>2. e.queue \in [Peers -> Seq(Request)]
    <3>1. \A f \in [Peers -> Seq(Request)] : [f EXCEPT ![p] = z] \in [Peers -> Seq(Request)]
      BY <1>9
    <3> QED BY <1>3, <1>7, <3>1
  <2>3. e.stalling \in SUBSET Peers
    BY <1>3, <1>7
  <2>4. e = [inFlight |-> e.inFlight, queue |-> e.queue, nBlocks |-> e.nBlocks,
             nValid |-> e.nValid, peers |-> e.peers, stalling |-> e.stalling]
    BY <1>2, <1>5 DEF Downloads
  <2> QED BY <1>17, <1>18, <2>1, <2>2, <2>3, <2>4 DEF Downloads
<1>20. ASSUME NEW x \in Peers, NEW j \in 1 .. Len(r.queue[x])
       PROVE  /\ r.queue[x][j].hash \in Blocks /\ r.queue[x][j].hash # b
              /\ r.inFlight[r.queue[x][j].hash] = x
  <2>1. r.queue[x][j] \in Request
    BY <1>4
  <2>2. r.inFlight[r.queue[x][j].hash] = x
    BY <1>1 DEF Sound, Matching
  <2>3. r.inFlight[b] = None
    BY <1>1, <1>6
  <2> QED BY <1>4, <2>1, <2>2, <2>3 DEF Request
<1>21. Matching(e)
  <2>1. ASSUME NEW x \in Peers, NEW j \in 1 .. Len(e.queue[x])
        PROVE  e.inFlight[e.queue[x][j].hash] = x
    <3>1. CASE x = p /\ j = n + 1
      BY <1>3, <1>4, <1>7, <1>9, <1>14, <3>1
    <3>2. CASE x = p /\ j # n + 1
      <4>1. j \in 1 .. n /\ e.queue[x][j] = r.queue[x][j]
        BY <1>8, <1>9, <1>12, <1>14, <3>2
      <4> QED BY <1>3, <1>7, <1>12, <1>13, <1>20, <3>2, <4>1
    <3>3. CASE x # p
      BY <1>3, <1>7, <1>15, <1>20, <3>3
    <3> QED BY <3>1, <3>2, <3>3
  <2>2. ASSUME NEW x \in Peers, NEW j \in 1 .. Len(e.queue[x]), NEW k \in 1 .. Len(e.queue[x]),
               e.queue[x][j].hash = e.queue[x][k].hash
        PROVE  j = k
    <3>1. CASE x = p
      <4>1. \A m \in 1 .. Len(e.queue[x]) : m \in 1 .. n + 1
        BY <1>9, <1>14, <3>1
      <4>2. \A m \in 1 .. n : e.queue[x][m].hash = r.queue[x][m].hash /\ r.queue[x][m].hash # b
        BY <1>9, <1>12, <1>13, <1>14, <1>20, <3>1
      <4>3. e.queue[x][n + 1].hash = b
        BY <1>4, <1>9, <1>14, <3>1
      <4>4. \A m, l \in 1 .. n : r.queue[x][m].hash = r.queue[x][l].hash => m = l
        BY <1>1, <1>12, <1>13, <3>1 DEF Sound, Matching
      <4>5. \A m \in 1 .. n + 1 : m \in 1 .. n \/ m = n + 1
        BY <1>8
      <4>6. (j \in 1 .. n \/ j = n + 1) /\ (k \in 1 .. n \/ k = n + 1)
        BY <4>1, <4>5
      <4> QED BY <2>2, <4>2, <4>3, <4>4, <4>6
    <3>2. CASE x # p
      <4>1. e.queue[x] = r.queue[x]
        BY <1>15, <3>2
      <4>2. \A m, l \in 1 .. Len(r.queue[x]) :
               r.queue[x][m].hash = r.queue[x][l].hash => m = l
        BY <1>1 DEF Sound, Matching
      <4> QED BY <2>2, <4>1, <4>2
    <3> QED BY <3>1, <3>2
  <2>3. ASSUME NEW c \in Blocks, e.inFlight[c] # None
        PROVE  \E j \in 1 .. Len(e.queue[e.inFlight[c]]) : e.queue[e.inFlight[c]][j].hash = c
    <3>1. CASE c = b
      <4>1. e.inFlight[c] = p /\ n + 1 \in 1 .. Len(e.queue[p]) /\ e.queue[p][n + 1].hash = c
        BY <1>3, <1>4, <1>7, <1>8, <1>9, <1>14, <3>1
      <4> QED BY <4>1
    <3>2. CASE c # b
      <4>1. PICK x \in Peers : x = e.inFlight[c] /\ x = r.inFlight[c]
        BY <1>3, <1>7, <2>3, <3>2
      <4>2. PICK j \in 1 .. Len(r.queue[x]) : r.queue[x][j].hash = c
        BY <1>1, <2>3, <4>1 DEF Sound, Matching
      <4>3. j \in 1 .. Len(e.queue[x]) /\ e.queue[x][j].hash = c
        <5>1. CASE x = p
          BY <1>8, <1>9, <1>12, <1>13, <1>14, <4>2, <5>1
        <5>2. CASE x # p
          BY <1>15, <4>2, <5>2
        <5> QED BY <5>1, <5>2
      <4> QED BY <4>1, <4>3
    <3> QED BY <3>1, <3>2
  <2> QED BY <2>1, <2>2, <2>3 DEF Matching
<1>22. \A c \in Blocks : e.inFlight[c] \in L \cup {None}
  BY <1>1, <1>3, <1>7 DEF Sound
<1>23. \A x \in e.stalling : e.queue[x] # <<>>
  <2> SUFFICES ASSUME NEW x \in r.stalling PROVE e.queue[x] # <<>>
    BY <1>7
  <2>1. r.queue[x] # <<>> /\ x \in Peers
    BY <1>1, <1>3 DEF Sound
  <2> QED BY <1>9, <1>14, <1>15, <2>1
<1>24. Sound(e, L)
  BY <1>16, <1>18, <1>19, <1>21, <1>22, <1>23 DEF Sound
<1>25. e.inFlight = [d.inFlight EXCEPT ![b] = p]
  BY <1>1, <1>6, <1>7
<1>26. \A x \in Peers : x # p => Len(e.queue[x]) <= Len(d.queue[x])
  BY <1>1, <1>15
<1>27. Len(e.queue[p]) <= Len(d.queue[p]) + 1
  <2>1. Len(q) <= Len(d.queue[p]) /\ Len(d.queue[p]) \in Nat
    BY <1>1, <1>4, <1>6, <1>12
  <2> QED BY <1>8, <1>9, <1>13, <1>14, <2>1
<1>28. Requested(d, p, b, L, e)
  BY <1>24, <1>25, <1>26, <1>27 DEF Requested
<1> QED BY <1>28 DEF e

-----------------------------------------------------------------------------
(* The folds: a fold is the last of a sequence of results in which each    *)
(* comes from the one before.                                              *)

\* The steps that are folded: k says which, and what else it is given.
Apply(k, w, x) ==
    IF k[1] = "request" THEN MarkBlockAsInFlight(w, k[2], x, 1)
    ELSE WalkStep(k[2], k[3], k[4], w, x)

\* The results one after the other.
Results(k, base, s, tr) ==
    /\ DOMAIN tr = 0 .. Len(s)
    /\ tr[0] = base
    /\ \A i \in 1 .. Len(s) : tr[i] = Apply(k, tr[i - 1], s[i])

\* What FoldLeft is defined by: a function on the sets of positions up to n.
Iterates(k, base, s, n, g) ==
    g = [u \in SUBSET (1 .. n) |->
            IF u = {} THEN base ELSE Apply(k, g[u \ {Max(u)}], s[Max(u)])]

\* The greatest of some positions.
LEMMA MaxOf ==
    ASSUME NEW n \in Nat, NEW u \in SUBSET (1 .. n), u # {}
    PROVE  Max(u) \in u /\ \A y \in u : y <= Max(u)
<1>1. u \in SUBSET Nat /\ \A x \in u : x <= n
  OBVIOUS
<1>2. PICK m \in u : \A y \in u : y <= m
  BY <1>1, GreatestNatural
<1>3. \A y \in u : m >= y
  BY <1>1, <1>2
<1>4. Max(u) \in u /\ \A y \in u : Max(u) >= y
  BY <1>2, <1>3 DEF Max
<1>5. PICK k : k = Max(u)
  OBVIOUS
<1>6. k \in Nat /\ \A y \in u : y \in Nat /\ k >= y
  BY ONLY <1>1, <1>4, <1>5
<1>7. \A y \in u : y <= k
  BY ONLY <1>6
<1> QED BY ONLY <1>4, <1>5, <1>7

\* The function exists.
LEMMA IteratesExists ==
    ASSUME NEW k, NEW base, NEW s, NEW n \in Nat
    PROVE  \E g : Iterates(k, base, s, n, g)
<1> DEFINE P == {m \in 0 .. n : \E g : Iterates(k, base, s, m, g)}
<1>1. 0 \in P
  <2> DEFINE g == [u \in SUBSET (1 .. 0) |-> base]
  <2>1. SUBSET (1 .. 0) = {{}}
    OBVIOUS
  <2>2. g = [u \in SUBSET (1 .. 0) |->
            IF u = {} THEN base ELSE Apply(k, g[u \ {Max(u)}], s[Max(u)])]
    BY <2>1
  <2> HIDE DEF g
  <2>3. Iterates(k, base, s, 0, g)
    BY <2>2 DEF Iterates
  <2> QED BY <2>3
<1>2. ASSUME NEW m \in 0 .. n - 1, m \in P PROVE m + 1 \in P
  <2>1. PICK g : Iterates(k, base, s, m, g)
    BY <1>2
  <2> DEFINE h == [u \in SUBSET (1 .. m + 1) |->
                      IF m + 1 \in u THEN Apply(k, g[u \ {m + 1}], s[m + 1]) ELSE g[u]]
             Val(f, u) == IF u = {} THEN base ELSE Apply(k, f[u \ {Max(u)}], s[Max(u)])
  <2>2. \A u \in SUBSET (1 .. m) : g[u] = Val(g, u)
    BY <2>1 DEF Iterates
  <2>3. \A u \in SUBSET (1 .. m) : h[u] = g[u]
    OBVIOUS
  <2>4. ASSUME NEW u \in SUBSET (1 .. m + 1) PROVE h[u] = Val(h, u)
    <3>1. CASE m + 1 \in u
      <4>1. Max(u) = m + 1
        <5>1. m + 1 \in Nat /\ u # {}
          BY <3>1
        <5>2. Max(u) \in u /\ m + 1 <= Max(u)
          BY <3>1, <5>1, MaxOf
        <5>3. Max(u) \in 1 .. m + 1
          BY <5>2
        <5> QED BY <5>2, <5>3
      <4>2. u \ {m + 1} \in SUBSET (1 .. m)
        OBVIOUS
      <4>3. h[u \ {m + 1}] = g[u \ {m + 1}]
        BY <4>2, <2>3
      <4>4. h[u] = Apply(k, g[u \ {m + 1}], s[m + 1])
        BY <3>1
      <4> HIDE DEF h
      <4> QED BY <3>1, <4>1, <4>3, <4>4
    <3>2. CASE m + 1 \notin u
      <4>1. u \in SUBSET (1 .. m)
        BY <3>2
      <4>2. h[u] = Val(g, u)
        BY <4>1, <2>2, <2>3
      <4>3. u \ {Max(u)} \in SUBSET (1 .. m)
        BY <4>1
      <4>4. h[u \ {Max(u)}] = g[u \ {Max(u)}]
        BY <4>3, <2>3
      <4> HIDE DEF h
      <4> QED BY <4>2, <4>4
    <3> QED BY <3>1, <3>2
  <2>5. h = [u \in SUBSET (1 .. m + 1) |-> Val(h, u)]
    <3> DEFINE v == [u \in SUBSET (1 .. m + 1) |-> Val(h, u)]
    <3>1. \A u \in SUBSET (1 .. m + 1) : h[u] = v[u]
      <4> HIDE DEF h
      <4> QED BY <2>4
    <3>2. DOMAIN h = SUBSET (1 .. m + 1) /\ h = [u \in DOMAIN h |-> h[u]]
      OBVIOUS
    <3>3. DOMAIN v = SUBSET (1 .. m + 1) /\ v = [u \in DOMAIN v |-> v[u]]
      OBVIOUS
    <3> HIDE DEF h, v
    <3>4. h = v
      BY <3>1, <3>2, <3>3
    <3> QED BY <3>4 DEF v
  <2> HIDE DEF h
  <2>6. Iterates(k, base, s, m + 1, h)
    BY <2>5 DEF Iterates
  <2> QED BY <2>6
<1>3. n \in P
  <2> HIDE DEF P
  <2>1. 0 .. n \subseteq P
    BY <1>1, <1>2, UpTo
  <2> QED BY <2>1
<1> QED BY <1>3

\* Its values on the first positions are the results.
LEMMA IteratesResults ==
    ASSUME NEW k, NEW base, NEW s, Len(s) \in Nat, NEW g, Iterates(k, base, s, Len(s), g)
    PROVE  Results(k, base, s, [i \in 0 .. Len(s) |-> g[1 .. i]])
<1> DEFINE n == Len(s)
           tr == [i \in 0 .. n |-> g[1 .. i]]
<1>1. \A u \in SUBSET (1 .. n) :
        g[u] = IF u = {} THEN base ELSE Apply(k, g[u \ {Max(u)}], s[Max(u)])
  BY DEF Iterates
<1>2. tr[0] = base
  <2>1. 1 .. 0 = {}
    OBVIOUS
  <2>2. g[{}] = base
    BY <1>1
  <2> QED BY <2>1, <2>2
<1>3. ASSUME NEW i \in 1 .. n PROVE tr[i] = Apply(k, tr[i - 1], s[i])
  <2>1. 1 .. i \in SUBSET (1 .. n) /\ i \in 1 .. i /\ 1 .. i # {}
    OBVIOUS
  <2>2. Max(1 .. i) = i
    <3>1. Max(1 .. i) \in 1 .. i /\ i <= Max(1 .. i)
      BY <2>1, MaxOf
    <3> QED BY <3>1
  <2>3. (1 .. i) \ {i} = 1 .. i - 1
    OBVIOUS
  <2>4. g[1 .. i] = Apply(k, g[(1 .. i) \ {Max(1 .. i)}], s[Max(1 .. i)])
    BY <1>1, <2>1
  <2>5. g[1 .. i] = Apply(k, g[1 .. i - 1], s[i])
    BY <2>2, <2>3, <2>4
  <2> QED BY <2>5
<1>4. DOMAIN tr = 0 .. n
  OBVIOUS
<1> HIDE DEF tr
<1>5. Results(k, base, s, tr)
  BY <1>2, <1>3, <1>4 DEF Results
<1> QED BY <1>5 DEF tr

\* The blocks are requested one after the other.
LEMMA RequestFold ==
    ASSUME NEW base, NEW p, NEW s, Len(s) \in Nat, DOMAIN s = 1 .. Len(s)
    PROVE  \E tr : Results(<<"request", p>>, base, s, tr) /\ RequestAll(base, p, s) = tr[Len(s)]
<1> DEFINE k == <<"request", p>>
           Q(g) == g = [u \in SUBSET (DOMAIN s) |->
                           IF u = {} THEN base
                           ELSE MarkBlockAsInFlight(g[u \ {Max(u)}], p, s[Max(u)], 1)]
           it == CHOOSE g : Q(g)
<1>1. RequestAll(base, p, s) = it[DOMAIN s]
  BY DEF RequestAll, FoldLeft, MapThenFoldSet
<1>2. \A w, x : Apply(k, w, x) = MarkBlockAsInFlight(w, p, x, 1)
  BY DEF Apply
<1> HIDE DEF k
<1>3. \A g : Iterates(k, base, s, Len(s), g) <=> Q(g)
  BY <1>2 DEF Iterates
<1>4. Q(it)
  <2>1. PICK g : Iterates(k, base, s, Len(s), g)
    BY IteratesExists
  <2>2. Q(g)
    BY <1>3, <2>1
  <2> HIDE DEF Q
  <2> QED BY <2>2
<1> HIDE DEF it, Q
<1>5. Results(k, base, s, [i \in 0 .. Len(s) |-> it[1 .. i]])
  BY <1>3, <1>4, IteratesResults
<1> DEFINE tr == [i \in 0 .. Len(s) |-> it[1 .. i]]
<1>6. tr[Len(s)] = it[DOMAIN s]
  OBVIOUS
<1> HIDE DEF tr
<1> QED BY <1>1, <1>5, <1>6 DEF tr, k

\* FindNextBlocksToDownload looks at one block after the other.
LEMMA WalkFold ==
    ASSUME NEW p, NEW to, NEW from, NEW count, NEW s, NEW base,
           s = InOrder(Ahead(to, from)), base = NewWalk(from), Len(s) \in Nat, DOMAIN s = 1 .. Len(s)
    PROVE  \E tr : /\ Results(<<"walk", p, from, count>>, base, s, tr)
                   /\ Walk(p, to, from, count) = tr[Len(s)]
<1> DEFINE k == <<"walk", p, from, count>>
           Q(g) == g = [u \in SUBSET (DOMAIN s) |->
                           IF u = {} THEN base
                           ELSE WalkStep(p, from, count, g[u \ {Max(u)}], s[Max(u)])]
           it == CHOOSE g : Q(g)
<1>1. Walk(p, to, from, count) = it[DOMAIN s]
  BY DEF Walk, FoldLeft, MapThenFoldSet
<1>2. \A w, x : Apply(k, w, x) = WalkStep(p, from, count, w, x)
  BY DEF Apply
<1> HIDE DEF k
<1>3. \A g : Iterates(k, base, s, Len(s), g) <=> Q(g)
  BY ONLY <1>2, DOMAIN s = 1 .. Len(s) DEF Iterates
<1>4. Q(it)
  <2>1. PICK g : Iterates(k, base, s, Len(s), g)
    BY IteratesExists
  <2>2. Q(g)
    BY <1>3, <2>1
  <2> HIDE DEF Q
  <2> QED BY <2>2
<1> HIDE DEF it, Q
<1>5. Results(k, base, s, [i \in 0 .. Len(s) |-> it[1 .. i]])
  BY ONLY <1>3, <1>4, Len(s) \in Nat, IteratesResults
<1> DEFINE tr == [i \in 0 .. Len(s) |-> it[1 .. i]]
<1>6. tr[Len(s)] = it[DOMAIN s]
  OBVIOUS
<1> HIDE DEF tr
<1> QED BY <1>1, <1>5, <1>6 DEF tr, k

\* How e comes from d by at most n requests from p, for blocks that are not in H.
AllRequested(d, p, n, H, L, e) ==
    /\ Sound(e, L)
    /\ \A b \in Blocks \cap H : e.inFlight[b] = d.inFlight[b]
    /\ \A x \in Peers : x # p => Len(e.queue[x]) <= Len(d.queue[x])
    /\ Len(e.queue[p]) <= Len(d.queue[p]) + n

\* Requesting several blocks leaves all right; no block of H is requested, and p gets no
\* more requests than there are blocks.
LEMMA RequestAllSound ==
    ASSUME NEW L \in SUBSET Peers, NEW d, Sound(d, L), NEW p \in L, NEW H,
           NEW s \in Seq(Blocks \ H)
    PROVE  AllRequested(d, p, Len(s), H, L, RequestAll(d, p, s))
<1> DEFINE n == Len(s)
           Good(e, m) == AllRequested(d, p, m, H, L, e)
<1> USE DEF AllRequested
<1>1. n \in Nat /\ DOMAIN s = 1 .. n /\ \A i \in 1 .. n : s[i] \in Blocks \ H
  OBVIOUS
<1>2. PICK tr : Results(<<"request", p>>, d, s, tr) /\ RequestAll(d, p, s) = tr[n]
  BY <1>1, RequestFold
<1>3. tr[0] = d /\ \A i \in 1 .. n : tr[i] = MarkBlockAsInFlight(tr[i - 1], p, s[i], 1)
  BY <1>2 DEF Results, Apply
<1>4. \A e : Sound(e, L) => \A x \in Peers : Len(e.queue[x]) \in Nat
  <2> SUFFICES ASSUME NEW e, Sound(e, L), NEW x \in Peers PROVE Len(e.queue[x]) \in Nat
    OBVIOUS
  <2>1. e.queue \in [Peers -> Seq(Request)]
    BY SoundTypes
  <2> QED BY <2>1
<1> DEFINE P == {i \in 0 .. n : Good(tr[i], i)}
<1>5. 0 \in P
  BY <1>1, <1>3, <1>4
<1>6. ASSUME NEW i \in 0 .. n - 1, i \in P PROVE i + 1 \in P
  <2>1. i + 1 \in 1 .. n /\ (i + 1) - 1 = i /\ i + 1 \in 0 .. n /\ i \in Nat
    BY <1>1
  <2>2. PICK b : b = s[i + 1] /\ b \in Blocks \ H
    BY <1>1, <2>1
  <2>3. PICK w : w = tr[i] /\ Good(w, i)
    BY <1>6
  <2>4. tr[i + 1] = MarkBlockAsInFlight(w, p, b, 1)
    BY <1>3, <2>1, <2>2, <2>3
  <2>5. PICK e : e = MarkBlockAsInFlight(w, p, b, 1)
    OBVIOUS
  <2>6. /\ Sound(e, L)
        /\ e.inFlight = [w.inFlight EXCEPT ![b] = p]
        /\ \A x \in Peers : x # p => Len(e.queue[x]) <= Len(w.queue[x])
        /\ Len(e.queue[p]) <= Len(w.queue[p]) + 1
    <3> HIDE DEF P, n
    <3>1. Sound(w, L) /\ b \in Blocks
      BY <2>2, <2>3
    <3>2. PICK v : v = 1
      OBVIOUS
    <3>3. v \in {0, 1} /\ e = MarkBlockAsInFlight(w, p, b, v)
      BY <2>5, <3>2
    <3>4. Requested(w, p, b, L, MarkBlockAsInFlight(w, p, b, v))
      BY ONLY L \in SUBSET Peers, p \in L, <3>1, <3>3, InFlightSound
    <3>5. Requested(w, p, b, L, e)
      BY <3>3, <3>4
    <3> QED BY ONLY <3>5 DEF Requested
  <2>7. \A c \in Blocks \cap H : e.inFlight[c] = d.inFlight[c]
    <3>1. w.inFlight \in [Blocks -> Peers \cup {None}]
      BY <2>3, SoundTypes
    <3> QED BY <2>2, <2>3, <2>6, <3>1
  <2>8. /\ \A x \in Peers : /\ Len(e.queue[x]) \in Nat /\ Len(w.queue[x]) \in Nat
                            /\ Len(d.queue[x]) \in Nat
        /\ p \in Peers
    BY <1>4, <2>3, <2>6
  <2>9. \A x \in Peers : x # p => Len(e.queue[x]) <= Len(d.queue[x])
    <3>1. \A x \in Peers : x # p => Len(w.queue[x]) <= Len(d.queue[x])
      BY <2>3
    <3> SUFFICES ASSUME NEW x \in Peers, x # p PROVE Len(e.queue[x]) <= Len(d.queue[x])
      OBVIOUS
    <3>2. Len(e.queue[x]) <= Len(w.queue[x]) /\ Len(w.queue[x]) <= Len(d.queue[x])
      BY <2>6, <3>1
    <3>3. Len(e.queue[x]) \in Nat /\ Len(w.queue[x]) \in Nat /\ Len(d.queue[x]) \in Nat
      BY <2>8
    <3> QED BY ONLY <3>2, <3>3
  <2>10. Len(e.queue[p]) <= Len(d.queue[p]) + (i + 1)
    <3>1. Len(w.queue[p]) <= Len(d.queue[p]) + i
      BY <2>3
    <3>2. Len(e.queue[p]) <= Len(w.queue[p]) + 1
      BY <2>6
    <3>3. Len(e.queue[p]) \in Nat /\ Len(w.queue[p]) \in Nat /\ Len(d.queue[p]) \in Nat
      BY <2>8
    <3>4. \A j, l, m, k \in Nat : j <= l + 1 /\ l <= m + k => j <= m + (k + 1)
      OBVIOUS
    <3> QED BY <2>1, <3>1, <3>2, <3>3, <3>4
  <2>11. Good(e, i + 1)
    BY <2>6, <2>7, <2>9, <2>10
  <2> HIDE DEF Good
  <2> QED BY <2>1, <2>4, <2>5, <2>11
<1>7. n \in P
  <2> HIDE DEF P, n
  <2>1. 0 .. n \subseteq P
    BY <1>1, <1>5, <1>6, UpTo
  <2> QED BY <1>1, <2>1
<1> QED BY <1>2, <1>7

\* The peers that owe a block.
Owing == {q \in Peers : dl.queue[q] # <<>>}

\* What FindNextBlocksToDownload has found up to some block on the way to to.
Walks(to) ==
    [fetch : Seq(Blocks \ have), common : Anc[to], waitingfor : Owing \cup {None},
     staller : Owing \cup {None}, done : BOOLEAN]

\* One block of it.
LEMMA WalkStepSound ==
    ASSUME NEW L, Sound(dl, L), NEW p, NEW to \in Blocks, NEW from, NEW count \in Nat,
           NEW w \in Walks(to), w.done \/ Len(w.fetch) < count, Len(w.fetch) <= count,
           NEW x \in Anc[to]
    PROVE  LET v == WalkStep(p, from, count, w, x)
           IN  /\ v \in Walks(to)
               /\ v.done \/ Len(v.fetch) < count
               /\ Len(v.fetch) <= count
<1> DEFINE v == WalkStep(p, from, count, w, x)
<1>1. CASE w.done
  BY <1>1 DEF WalkStep
<1>2. CASE ~w.done /\ x \in have \cup Anc[tip]
  <2>1. v = [w EXCEPT !.common = IF Linked(x) THEN x ELSE @]
    BY <1>2 DEF WalkStep
  <2>2. (IF Linked(x) THEN x ELSE w.common) \in Anc[to]
    BY DEF Walks
  <2>3. v \in Walks(to) /\ v.done = w.done /\ v.fetch = w.fetch
    BY <2>1, <2>2 DEF Walks
  <2> QED BY <2>3
<1>3. CASE ~w.done /\ x \notin have \cup Anc[tip] /\ dl.inFlight[x] # None
  <2>1. v = [w EXCEPT !.waitingfor = IF @ = None THEN dl.inFlight[x] ELSE @]
    BY <1>3 DEF WalkStep
  <2>2. dl.inFlight[x] \in Owing
    <3>1. x \in Blocks
      BY DownloadAssumption
    <3>2. dl.inFlight[x] \in Peers /\ dl.queue[dl.inFlight[x]] \in Seq(Request)
      BY <1>3, <3>1, SoundTypes
    <3>3. PICK i \in 1 .. Len(dl.queue[dl.inFlight[x]]) : dl.queue[dl.inFlight[x]][i].hash = x
      BY <1>3, <3>1 DEF Sound, Matching
    <3>4. dl.queue[dl.inFlight[x]] # <<>>
      BY <3>2, <3>3
    <3> QED BY <3>2, <3>4 DEF Owing
  <2>3. v \in Walks(to) /\ v.done = w.done /\ v.fetch = w.fetch
    BY <2>1, <2>2 DEF Walks
  <2> QED BY <2>3
<1>4. CASE /\ ~w.done /\ x \notin have \cup Anc[tip] /\ dl.inFlight[x] = None
           /\ BeyondWindow(x, from)
  <2>1. v = [w EXCEPT !.done = TRUE,
                      !.staller = IF w.fetch = <<>> /\ w.waitingfor # p
                                  THEN w.waitingfor ELSE None]
    BY <1>4 DEF WalkStep
  <2>2. v \in Walks(to) /\ v.done = TRUE /\ v.fetch = w.fetch
    BY <2>1 DEF Walks
  <2> QED BY <2>2
<1>5. CASE /\ ~w.done /\ x \notin have \cup Anc[tip] /\ dl.inFlight[x] = None
           /\ ~BeyondWindow(x, from)
  <2>1. v = [w EXCEPT !.fetch = Append(@, x), !.done = Len(w.fetch) + 1 = count]
    BY <1>5 DEF WalkStep
  <2>2. x \in Blocks \ have /\ w.fetch \in Seq(Blocks \ have) /\ Len(w.fetch) \in Nat
    BY <1>5, DownloadAssumption DEF Walks
  <2>3. Append(w.fetch, x) \in Seq(Blocks \ have) /\ Len(Append(w.fetch, x)) = Len(w.fetch) + 1
    BY <2>2
  <2>4. v \in Walks(to) /\ v.done = (Len(w.fetch) + 1 = count) /\ v.fetch = Append(w.fetch, x)
    BY <2>1, <2>3 DEF Walks
  <2>5. Len(w.fetch) < count
    BY <1>5
  <2>6. v.done \/ Len(w.fetch) + 1 # count
    BY <2>4
  <2>7. Len(v.fetch) = Len(w.fetch) + 1
    BY <2>3, <2>4
  <2> HIDE DEF v
  <2>8. Len(w.fetch) + 1 <= count /\ (Len(w.fetch) + 1 # count => Len(w.fetch) + 1 < count)
    BY <2>2, <2>5
  <2> QED BY <2>4, <2>6, <2>7, <2>8 DEF v
<1> QED BY <1>1, <1>2, <1>3, <1>4, <1>5

\* The walk: no more than count blocks, none of which we have, and a staller owes one.
LEMMA WalkSound ==
    ASSUME NEW L, Sound(dl, L), NEW p, NEW to \in Blocks, NEW from \in Anc[to],
           NEW count \in Nat \ {0}
    PROVE  Walk(p, to, from, count) \in Walks(to) /\ Len(Walk(p, to, from, count).fetch) <= count
<1> DEFINE B == Ahead(to, from)
           s == InOrder(B)
           n == Len(s)
<1>1. n \in Nat /\ DOMAIN s = 1 .. n /\ \A i \in 1 .. n : s[i] \in Anc[to]
  <2>1. B \in SUBSET Anc[to]
    BY DEF Ahead
  <2>2. s \in Seq(B)
    <3> HIDE DEF B
    <3> QED BY <2>1, Ordered
  <2> HIDE DEF B, s
  <2> QED BY <2>1, <2>2
<1>2. PICK tr : /\ Results(<<"walk", p, from, count>>, NewWalk(from), s, tr)
                /\ Walk(p, to, from, count) = tr[n]
  <2>1. PICK z, base : z = s /\ base = NewWalk(from)
    OBVIOUS
  <2>2. z = InOrder(Ahead(to, from)) /\ n = Len(z) /\ Len(z) \in Nat /\ DOMAIN z = 1 .. Len(z)
    BY <1>1, <2>1
  <2> HIDE DEF s, n
  <2>3. \E tr : /\ Results(<<"walk", p, from, count>>, base, z, tr)
                /\ Walk(p, to, from, count) = tr[Len(z)]
    BY ONLY <2>1, <2>2, WalkFold
  <2> QED BY ONLY <2>1, <2>2, <2>3
<1> HIDE DEF s, n
<1>3. tr[0] = NewWalk(from) /\ \A i \in 1 .. n : tr[i] = WalkStep(p, from, count, tr[i - 1], s[i])
  BY <1>2 DEF Results, Apply, n
<1> DEFINE Good(w) == /\ w \in Walks(to)
                      /\ w.done \/ Len(w.fetch) < count
                      /\ Len(w.fetch) <= count
           P == {i \in 0 .. n : Good(tr[i])}
<1>4. 0 \in P
  <2>1. NewWalk(from) \in Walks(to) /\ NewWalk(from).fetch = <<>>
    BY DEF NewWalk, Walks
  <2>2. Len(<<>>) = 0 /\ 0 < count /\ 0 <= count
    OBVIOUS
  <2> QED BY <1>1, <1>3, <2>1, <2>2
<1>5. ASSUME NEW i \in 0 .. n - 1, i \in P PROVE i + 1 \in P
  <2>1. i + 1 \in 1 .. n /\ (i + 1) - 1 = i /\ i + 1 \in 0 .. n
    BY <1>1
  <2>2. tr[i + 1] = WalkStep(p, from, count, tr[i], s[i + 1]) /\ s[i + 1] \in Anc[to]
    BY <1>1, <1>3, <2>1
  <2>3. Good(tr[i])
    BY <1>5
  <2>4. Good(tr[i + 1])
    BY <2>2, <2>3, WalkStepSound
  <2> QED BY <2>1, <2>4
<1>6. n \in P
  <2> HIDE DEF P
  <2>1. 0 .. n \subseteq P
    BY <1>1, <1>4, <1>5, UpTo
  <2> QED BY <1>1, <2>1
<1> QED BY <1>2, <1>6 DEF n

\* A peer that is not in L has no request.
LEMMA NoRequest ==
    ASSUME NEW L \in SUBSET Peers, NEW d, Sound(d, L), NEW p \in Peers \ L
    PROVE  d.queue[p] = <<>> /\ d.nValid[p] = 0
<1>1. d.queue \in [Peers -> Seq(Request)]
  BY SoundTypes
<1>2. d.queue[p] = <<>>
  <2> SUFFICES ASSUME d.queue[p] # <<>> PROVE FALSE
    OBVIOUS
  <2>1. d.queue[p] \in Seq(Request) /\ 1 \in 1 .. Len(d.queue[p])
    BY <1>1
  <2>2. d.queue[p][1] \in Request
    BY <2>1
  <2>3. d.queue[p][1].hash \in Blocks
    BY <2>2 DEF Request
  <2>4. d.inFlight[d.queue[p][1].hash] = p
    BY <2>1 DEF Sound, Matching
  <2>5. p \in L \cup {None}
    BY <2>3, <2>4 DEF Sound
  <2> QED BY <2>5, DownloadAssumption
<1>3. d.nValid[p] = Cardinality(ValidAt(d.queue[p]))
  BY DEF Sound, Counted
<1> QED BY <1>2, <1>3, EmptyCount

\* A peer that comes changes nothing.
LEMMA PeerComes ==
    ASSUME NEW L \in SUBSET Peers, NEW d, Sound(d, L), NEW p \in Peers \ L
    PROVE  Sound(d, L \cup {p})
<1>1. d.nValid[p] = 0
  BY NoRequest
<1>2. Loading(d.nValid, L \cup {p}) = Loading(d.nValid, L)
  BY <1>1 DEF Loading
<1> QED BY <1>2 DEF Sound

\* Timing a peer that owes a block leaves all right.
LEMMA StallerSound ==
    ASSUME NEW L, NEW d, Sound(d, L), NEW q \in Peers, d.queue[q] # <<>>
    PROVE  LET e == [d EXCEPT !.stalling = @ \cup {q}]
           IN  Sound(e, L) /\ e.inFlight = d.inFlight /\ e.queue = d.queue
<1> DEFINE e == [d EXCEPT !.stalling = @ \cup {q}]
<1>1. d \in Downloads
  BY DEF Sound
<1>2. /\ e \in Downloads /\ e.inFlight = d.inFlight /\ e.queue = d.queue /\ e.nBlocks = d.nBlocks
      /\ e.nValid = d.nValid /\ e.peers = d.peers /\ e.stalling = d.stalling \cup {q}
  BY <1>1 DEF Downloads
<1> HIDE DEF e
<1>3. Matching(e) /\ Counted(e)
  BY <1>2 DEF Sound, Matching, Counted
<1>4. \A b \in Blocks : e.inFlight[b] \in L \cup {None}
  BY <1>2 DEF Sound
<1>5. e.peers = Cardinality(Loading(e.nValid, L))
  BY <1>2 DEF Sound
<1>6. \A x \in e.stalling : e.queue[x] # <<>>
  BY <1>2 DEF Sound
<1>7. Sound(e, L)
  BY <1>2, <1>3, <1>4, <1>5, <1>6 DEF Sound
<1> QED BY <1>2, <1>7 DEF e

\* FinalizeNode leaves the requests of the other peers.
LEMMA ReleasedSound ==
    ASSUME NEW L \in SUBSET Peers, Sound(dl, L), NEW p \in L
    PROVE  /\ Sound(Released(p), L \ {p})
           /\ \A b \in Blocks : Released(p).inFlight[b] \in {dl.inFlight[b], None}
           /\ \A q \in Peers : Len(Released(p).queue[q]) <= Len(dl.queue[q])
<1> DEFINE e == Released(p)
           q == dl.queue[p]
<1>1. /\ dl.inFlight \in [Blocks -> Peers \cup {None}]
      /\ dl.queue \in [Peers -> Seq(Request)]
      /\ dl.nBlocks \in [Peers -> Nat] /\ dl.nValid \in [Peers -> Nat]
      /\ dl.peers \in Nat /\ dl.stalling \in SUBSET Peers
  BY SoundTypes
<1>2. None \notin Peers /\ p \in Peers /\ q \in Seq(Request) /\ dl \in Downloads
  BY <1>1, DownloadAssumption DEF Sound
<1>3. e = [dl EXCEPT !.inFlight = [b \in Blocks |->
                          IF \E i \in DOMAIN q : q[i].hash = b THEN None ELSE @[b]],
                     !.peers = IF dl.nValid[p] # 0 THEN @ - 1 ELSE @,
                     !.queue[p] = <<>>, !.nBlocks[p] = 0, !.nValid[p] = 0,
                     !.stalling = @ \ {p}]
  BY DEF Released
<1> HIDE DEF e
<1>4. /\ e.inFlight = [b \in Blocks |->
                          IF \E i \in DOMAIN q : q[i].hash = b THEN None ELSE dl.inFlight[b]]
      /\ e.peers = (IF dl.nValid[p] # 0 THEN dl.peers - 1 ELSE dl.peers)
      /\ e.queue = [dl.queue EXCEPT ![p] = <<>>]
      /\ e.nBlocks = [dl.nBlocks EXCEPT ![p] = 0]
      /\ e.nValid = [dl.nValid EXCEPT ![p] = 0]
      /\ e.stalling = dl.stalling \ {p}
      /\ e = [inFlight |-> e.inFlight, queue |-> e.queue, nBlocks |-> e.nBlocks,
              nValid |-> e.nValid, peers |-> e.peers, stalling |-> e.stalling]
  BY <1>2, <1>3 DEF Downloads
<1>5. \A b \in Blocks : (\E i \in DOMAIN q : q[i].hash = b) <=> dl.inFlight[b] = p
  <2> SUFFICES ASSUME NEW b \in Blocks
               PROVE  (\E i \in 1 .. Len(q) : q[i].hash = b) <=> dl.inFlight[b] = p
    BY <1>2
  <2>1. ASSUME NEW i \in 1 .. Len(q), q[i].hash = b PROVE dl.inFlight[b] = p
    BY <1>2, <2>1 DEF Sound, Matching
  <2>2. ASSUME dl.inFlight[b] = p PROVE \E i \in 1 .. Len(q) : q[i].hash = b
    BY <1>2, <2>2 DEF Sound, Matching
  <2> QED BY <2>1, <2>2
<1> HIDE DEF q
<1>6. e.inFlight = [b \in Blocks |-> IF dl.inFlight[b] = p THEN None ELSE dl.inFlight[b]]
  BY <1>4, <1>5
<1>7. e.nValid[p] = 0 /\ e.nBlocks[p] = 0 /\ e.queue[p] = <<>>
        /\ \A x \in Peers : x # p => /\ e.nValid[x] = dl.nValid[x] /\ e.nBlocks[x] = dl.nBlocks[x]
                                     /\ e.queue[x] = dl.queue[x]
  BY <1>1, <1>2, <1>4
<1>8. Counted(e)
  <2>1. Len(<<>>) = 0
    OBVIOUS
  <2> QED BY <1>7, <2>1, EmptyCount DEF Sound, Counted
<1>9. e.nBlocks \in [Peers -> Nat] /\ e.nValid \in [Peers -> Nat]
  BY <1>1, <1>4
<1>10. e.peers = Cardinality(Loading(e.nValid, L \ {p})) /\ e.peers \in Nat
  <2>1. PICK f, g : f = dl.nValid /\ g = e.nValid
    OBVIOUS
  <2>2. f \in [Peers -> Nat] /\ g \in [Peers -> Nat] /\ g[p] = 0 /\ f[p] \in Nat
          /\ \A x \in L : x # p => g[x] = f[x]
    BY <1>1, <1>2, <1>7, <1>9, <2>1
  <2>3. /\ Cardinality(Loading(f, L)) \in Nat
        /\ f[p] > 0 /\ g[p] = 0 => Cardinality(Loading(g, L)) = Cardinality(Loading(f, L)) - 1
        /\ (f[p] = 0 /\ g[p] = 0) \/ (f[p] > 0 /\ g[p] > 0) =>
              Cardinality(Loading(g, L)) = Cardinality(Loading(f, L))
        /\ f[p] > 0 => Cardinality(Loading(f, L)) > 0
    BY ONLY L \in SUBSET Peers, p \in L, <2>2, LoadingChange
  <2>4. Loading(g, L \ {p}) = Loading(g, L)
    BY <2>2 DEF Loading
  <2>5. dl.peers = Cardinality(Loading(f, L))
    BY <2>1 DEF Sound
  <2>6. e.peers = (IF f[p] # 0 THEN dl.peers - 1 ELSE dl.peers)
    BY <1>4, <2>1
  <2>7. e.peers = Cardinality(Loading(g, L)) /\ e.peers \in Nat
    BY ONLY <2>2, <2>3, <2>5, <2>6
  <2> QED BY ONLY <2>1, <2>4, <2>7
<1>11. e \in Downloads
  <2>1. e.inFlight \in [Blocks -> Peers \cup {None}]
    BY <1>1, <1>6
  <2>2. e.queue \in [Peers -> Seq(Request)]
    <3>1. <<>> \in Seq(Request)
      OBVIOUS
    <3>2. \A f \in [Peers -> Seq(Request)] : [f EXCEPT ![p] = <<>>] \in [Peers -> Seq(Request)]
      BY <3>1
    <3> QED BY <1>1, <1>4, <3>2
  <2>3. e.stalling \in SUBSET Peers
    BY <1>1, <1>4
  <2> QED BY <1>4, <1>9, <1>10, <2>1, <2>2, <2>3 DEF Downloads
<1>12. ASSUME NEW x \in Peers, NEW j \in 1 .. Len(e.queue[x])
       PROVE  x # p /\ j \in 1 .. Len(dl.queue[x]) /\ e.queue[x] = dl.queue[x]
  <2>1. x # p
    BY <1>7
  <2> QED BY <1>7, <2>1
<1>13. Matching(e)
  <2>1. ASSUME NEW x \in Peers, NEW j \in 1 .. Len(e.queue[x])
        PROVE  e.inFlight[e.queue[x][j].hash] = x
    <3>1. x # p /\ j \in 1 .. Len(dl.queue[x]) /\ e.queue[x] = dl.queue[x]
      BY <1>12
    <3>2. dl.queue[x][j] \in Request
      BY <1>1, <3>1
    <3>3. dl.queue[x][j].hash \in Blocks /\ dl.inFlight[dl.queue[x][j].hash] = x
      BY <3>1, <3>2 DEF Request, Sound, Matching
    <3> QED BY <1>6, <3>1, <3>3
  <2>2. ASSUME NEW x \in Peers, NEW j \in 1 .. Len(e.queue[x]), NEW k \in 1 .. Len(e.queue[x]),
               e.queue[x][j].hash = e.queue[x][k].hash
        PROVE  j = k
    <3>1. e.queue[x] = dl.queue[x]
      BY <1>12
    <3>2. \A m, l \in 1 .. Len(dl.queue[x]) : dl.queue[x][m].hash = dl.queue[x][l].hash => m = l
      BY DEF Sound, Matching
    <3> QED BY <2>2, <3>1, <3>2
  <2>3. ASSUME NEW c \in Blocks, e.inFlight[c] # None
        PROVE  \E j \in 1 .. Len(e.queue[e.inFlight[c]]) : e.queue[e.inFlight[c]][j].hash = c
    <3>1. PICK x \in Peers : x = e.inFlight[c] /\ x = dl.inFlight[c] /\ x # p
      BY <1>1, <1>6, <2>3
    <3>2. PICK j \in 1 .. Len(dl.queue[x]) : dl.queue[x][j].hash = c
      BY <2>3, <3>1 DEF Sound, Matching
    <3>3. e.queue[x] = dl.queue[x]
      BY <1>7, <3>1
    <3> QED BY <3>1, <3>2, <3>3
  <2> QED BY <2>1, <2>2, <2>3 DEF Matching
<1>14. \A c \in Blocks : e.inFlight[c] \in (L \ {p}) \cup {None}
  BY <1>1, <1>6 DEF Sound
<1>15. \A x \in e.stalling : e.queue[x] # <<>>
  BY <1>1, <1>4, <1>7 DEF Sound
<1>16. Sound(e, L \ {p})
  BY <1>8, <1>10, <1>11, <1>13, <1>14, <1>15 DEF Sound
<1>17. \A b \in Blocks : e.inFlight[b] \in {dl.inFlight[b], None}
  BY <1>6
<1>18. \A x \in Peers : Len(e.queue[x]) <= Len(dl.queue[x])
  <2>1. \A x \in Peers : Len(dl.queue[x]) \in Nat
    BY <1>1
  <2>2. Len(<<>>) = 0
    OBVIOUS
  <2> QED BY <1>7, <2>1, <2>2
<1> QED BY <1>16, <1>17, <1>18 DEF e

-----------------------------------------------------------------------------
(* The inductive invariant.                                                *)

\* nPreferredDownload counts these.
ReadyPreferred == {p \in Preferred : status[p] = "ready"}

\* What is kept about blocks and peers, apart from the requests.  The index has the
\* ancestors of each of its blocks.
StateOK ==
    /\ headers \subseteq Blocks /\ have \subseteq headers /\ tip \in have /\ ibdOver \in BOOLEAN
    /\ \A b \in headers : Anc[b] \subseteq headers
    /\ status \in PerPeer({"new", "connected", "ready", "gone"}) /\ leaving \subseteq Live
    /\ best \in PerPeer(headers \cup {None})
    /\ unknown \in PerPeer(Blocks \cup {None})
    /\ common \in PerPeer(headers \cup {None})
    /\ sync \subseteq Peers /\ asked \subseteq Peers
    /\ counts \in [sync : Nat, preferred : Nat]
    /\ counts.preferred = Cardinality(ReadyPreferred)
    /\ counts.sync = Cardinality(sync)

\* The inductive invariant: the requests of the peers that are connected are right, within
\* the limit, and for blocks that are missing.
FullInv == StateOK /\ Sound(dl, Live) /\ RequestsUseful

\* It says what the run checks.
LEMMA FullInvImplies == FullInv => RequestsExact /\ StallerOwesBlock
<1> SUFFICES ASSUME FullInv PROVE RequestsExact /\ StallerOwesBlock
  OBVIOUS
<1>1. /\ dl.inFlight \in [Blocks -> Peers \cup {None}]
      /\ dl.queue \in [Peers -> Seq(Request)]
      /\ dl.nBlocks \in [Peers -> Nat] /\ dl.nValid \in [Peers -> Nat]
      /\ dl.peers \in Nat /\ dl.stalling \in SUBSET Peers
  BY SoundTypes DEF FullInv
<1>2. \A p \in Peers : dl.queue[p] \in Seq(Request) /\ DOMAIN dl.queue[p] = 1 .. Len(dl.queue[p])
  BY <1>1
<1>3. TypeOK
  <2>1. \A p \in Peers : \A i \in DOMAIN dl.queue[p] :
           dl.queue[p][i] \in [hash : Blocks, valid : {0, 1}]
    <3>1. \A p \in Peers : \A i \in DOMAIN dl.queue[p] : dl.queue[p][i] \in Request
      BY <1>2
    <3> QED BY <3>1 DEF Request
  <2> QED BY <1>1, <2>1 DEF FullInv, StateOK, TypeOK, PerPeer
<1>4. InFlightExact
  <2>1. \A p \in Peers : \A i, j \in DOMAIN dl.queue[p] :
          /\ dl.inFlight[dl.queue[p][i].hash] = p
          /\ dl.queue[p][i].hash = dl.queue[p][j].hash => i = j
    BY <1>2 DEF FullInv, Sound, Matching
  <2>2. ASSUME NEW b \in Blocks, dl.inFlight[b] # None
        PROVE  dl.inFlight[b] \in Live
                 /\ \E i \in DOMAIN dl.queue[dl.inFlight[b]] : dl.queue[dl.inFlight[b]][i].hash = b
    <3>1. PICK p \in Peers : p = dl.inFlight[b] /\ p \in Live
      BY <1>1, <2>2 DEF FullInv, Sound
    <3>2. PICK i \in 1 .. Len(dl.queue[p]) : dl.queue[p][i].hash = b
      BY <2>2, <3>1 DEF FullInv, Sound, Matching
    <3> QED BY <1>2, <3>1, <3>2
  <2> QED BY <2>1, <2>2 DEF InFlightExact
<1>5. CountersExact
  <2>1. \A p \in Peers :
          /\ dl.nBlocks[p] = Len(dl.queue[p])
          /\ dl.nValid[p] = Cardinality({i \in DOMAIN dl.queue[p] : dl.queue[p][i].valid = 1})
    BY DEF FullInv, Sound, Counted, ValidAt
  <2>2. dl.peers = Cardinality({p \in Live : dl.nValid[p] > 0})
    BY DEF FullInv, Sound, Loading
  <2>3. counts.preferred = Cardinality({p \in Preferred : status[p] = "ready"})
          /\ counts.sync = Cardinality(sync)
    BY DEF FullInv, StateOK, ReadyPreferred
  <2> QED BY <2>1, <2>2, <2>3 DEF CountersExact
<1> QED BY <1>3, <1>4, <1>5 DEF FullInv, RequestsExact, StallerOwesBlock, Sound

\* It holds at the start.
LEMMA FullInvInit == Init => FullInv
<1> SUFFICES ASSUME Init PROVE FullInv
  OBVIOUS
<1> USE DEF Init
<1>1. Live = {} /\ ReadyPreferred = {}
  BY DownloadAssumption DEF Live, ReadyPreferred
<1>2. Cardinality({}) = 0
  BY FS_EmptySet
<1>3. StateOK
  <2>1. \A b \in headers : Anc[b] \subseteq headers
    BY DownloadAssumption
  <2>2. counts \in [sync : Nat, preferred : Nat] /\ counts.sync = 0 /\ counts.preferred = 0
    OBVIOUS
  <2>3. headers \subseteq Blocks /\ have \subseteq headers /\ tip \in have /\ ibdOver \in BOOLEAN
    BY DownloadAssumption
  <2> QED BY <1>1, <1>2, <2>1, <2>2, <2>3 DEF StateOK, PerPeer
<1>4. /\ dl.inFlight = [b \in Blocks |-> None] /\ dl.queue = [p \in Peers |-> <<>>]
      /\ dl.nBlocks = [p \in Peers |-> 0] /\ dl.nValid = [p \in Peers |-> 0]
      /\ dl.peers = 0 /\ dl.stalling = {}
  OBVIOUS
<1>5. dl \in Downloads
  <2>1. <<>> \in Seq(Request)
    OBVIOUS
  <2> QED BY <2>1 DEF Downloads
<1>6. Len(<<>>) = 0
  OBVIOUS
<1>7. Matching(dl)
  <2>1. \A p \in Peers : 1 .. Len(dl.queue[p]) = {}
    BY <1>4, <1>6
  <2> QED BY <1>4, <2>1 DEF Matching
<1>8. Counted(dl)
  BY <1>4, <1>6, EmptyCount DEF Counted
<1>9. dl.peers = Cardinality(Loading(dl.nValid, Live))
  <2>1. Loading(dl.nValid, Live) = {}
    BY <1>1 DEF Loading
  <2> QED BY <1>2, <1>4, <2>1
<1>10. Sound(dl, Live)
  BY <1>4, <1>5, <1>7, <1>8, <1>9 DEF Sound
<1>11. RequestsUseful
  BY <1>4, <1>6, DownloadAssumption DEF RequestsUseful
<1> QED BY <1>3, <1>10, <1>11 DEF FullInv

\* Which peers are counted as preferred after a change of one peer.
LEMMA PreferredCount ==
    ASSUME StateOK, NEW p \in Peers, \A q \in Peers : q # p => status'[q] = status[q]
    PROVE  /\ Cardinality(ReadyPreferred) \in Nat
           /\ p \in ReadyPreferred /\ p \notin ReadyPreferred' =>
                 /\ Cardinality(ReadyPreferred') = Cardinality(ReadyPreferred) - 1
                 /\ Cardinality(ReadyPreferred) > 0
           /\ p \notin ReadyPreferred /\ p \in ReadyPreferred' =>
                 Cardinality(ReadyPreferred') = Cardinality(ReadyPreferred) + 1
           /\ (p \in ReadyPreferred <=> p \in ReadyPreferred') => ReadyPreferred' = ReadyPreferred
<1>1. Preferred \in SUBSET Peers /\ IsFiniteSet(Peers)
  BY DownloadAssumption
<1>2. ReadyPreferred \in SUBSET Peers
  BY <1>1 DEF ReadyPreferred
<1>3. IsFiniteSet(ReadyPreferred) /\ Cardinality(ReadyPreferred) \in Nat
  BY <1>1, <1>2, FS_Subset, FS_CardinalityType
<1>4. \A q \in Peers : q # p => (q \in ReadyPreferred <=> q \in ReadyPreferred')
  BY DEF ReadyPreferred
<1>5. ReadyPreferred' \in SUBSET Peers
  BY <1>1 DEF ReadyPreferred
<1>6. ASSUME p \in ReadyPreferred, p \notin ReadyPreferred'
      PROVE  /\ Cardinality(ReadyPreferred') = Cardinality(ReadyPreferred) - 1
             /\ Cardinality(ReadyPreferred) > 0
  <2>1. ReadyPreferred' = ReadyPreferred \ {p}
    BY <1>2, <1>4, <1>5, <1>6
  <2>2. Cardinality(ReadyPreferred \ {p}) = Cardinality(ReadyPreferred) - 1
    BY <1>3, <1>6, FS_RemoveElement
  <2>3. Cardinality(ReadyPreferred) # 0
    BY <1>3, <1>6, FS_EmptySet
  <2> QED BY <1>3, <2>1, <2>2, <2>3
<1>7. ASSUME p \notin ReadyPreferred, p \in ReadyPreferred'
      PROVE  Cardinality(ReadyPreferred') = Cardinality(ReadyPreferred) + 1
  <2>1. ReadyPreferred' = ReadyPreferred \cup {p}
    BY <1>2, <1>4, <1>5, <1>7
  <2>2. Cardinality(ReadyPreferred \cup {p}) = Cardinality(ReadyPreferred) + 1
    BY <1>3, <1>7, FS_AddElement
  <2> QED BY <2>1, <2>2
<1>8. ASSUME p \in ReadyPreferred <=> p \in ReadyPreferred'
      PROVE  ReadyPreferred' = ReadyPreferred
  BY <1>2, <1>4, <1>5, <1>8
<1> QED BY <1>3, <1>6, <1>7, <1>8

-----------------------------------------------------------------------------
(* Peers.                                                                  *)

\* A new peer.
LEMMA InitializeNodeStep ==
    ASSUME FullInv, NEW p \in Peers, InitializeNode(p) PROVE FullInv'
<1> USE DEF InitializeNode
<1>1. status \in PerPeer({"new", "connected", "ready", "gone"}) /\ StateOK
  BY DEF FullInv, StateOK
<1>2. Live' = Live \cup {p} /\ p \notin Live /\ Live \in SUBSET Peers
  BY <1>1 DEF Live, PerPeer
<1>3. status' \in PerPeer({"new", "connected", "ready", "gone"})
  BY <1>1 DEF PerPeer
<1>4. ReadyPreferred' = ReadyPreferred
  BY <1>1, DownloadAssumption DEF ReadyPreferred, PerPeer
<1>5. StateOK'
  BY <1>1, <1>2, <1>3, <1>4 DEF StateOK
<1>6. Sound(dl, Live \cup {p})
  BY <1>2, PeerComes DEF FullInv
<1>7. Sound(dl, Live)'
  BY <1>2, <1>6
<1>8. RequestsUseful'
  BY DEF FullInv, RequestsUseful
<1> QED BY <1>5, <1>7, <1>8 DEF FullInv

\* VERSION.
LEMMA VersionStep ==
    ASSUME FullInv, NEW p \in Peers, Version(p) PROVE FullInv'
<1> USE DEF Version
<1>1. StateOK /\ status \in PerPeer({"new", "connected", "ready", "gone"})
  BY DEF FullInv, StateOK
<1>2. Live' = Live
  BY <1>1 DEF Live, PerPeer
<1>3. status' \in PerPeer({"new", "connected", "ready", "gone"})
  BY <1>1 DEF PerPeer
<1>4. counts' \in [sync : Nat, preferred : Nat] /\ counts'.sync = Cardinality(sync)
        /\ counts'.preferred = Cardinality(ReadyPreferred')
  <2>1. counts \in [sync : Nat, preferred : Nat] /\ counts.sync = Cardinality(sync)
          /\ counts.preferred = Cardinality(ReadyPreferred)
    BY <1>1 DEF StateOK
  <2>2. \A q \in Peers : q # p => status'[q] = status[q]
    BY <1>1 DEF PerPeer
  <2>3. p \notin ReadyPreferred /\ (p \in ReadyPreferred' <=> p \in Preferred)
    BY <1>1 DEF ReadyPreferred, PerPeer
  <2>4. Cardinality(ReadyPreferred') = IF p \in Preferred THEN Cardinality(ReadyPreferred) + 1
                                       ELSE Cardinality(ReadyPreferred)
    BY <1>1, <2>2, <2>3, PreferredCount
  <2>5. counts' = [counts EXCEPT !.preferred = IF p \in Preferred THEN @ + 1 ELSE @]
    OBVIOUS
  <2> QED BY <2>1, <2>4, <2>5
<1>5. StateOK'
  BY <1>1, <1>2, <1>3, <1>4 DEF StateOK
<1>6. Sound(dl, Live)'
  BY <1>2 DEF FullInv
<1>7. RequestsUseful'
  BY DEF FullInv, RequestsUseful
<1> QED BY <1>5, <1>6, <1>7 DEF FullInv

\* A peer goes.
LEMMA FinalizeNodeStep ==
    ASSUME FullInv, NEW p \in Peers, FinalizeNode(p) PROVE FullInv'
<1>0. /\ p \in Live
      /\ status' = [status EXCEPT ![p] = "gone"]
      /\ leaving' = leaving \ {p}
      /\ counts' = [sync |-> counts.sync - (IF p \in sync THEN 1 ELSE 0),
                    preferred |-> counts.preferred -
                                  (IF status[p] = "ready" /\ p \in Preferred THEN 1 ELSE 0)]
      /\ sync' = sync \ {p} /\ dl' = Released(p)
      /\ best' = [best EXCEPT ![p] = None] /\ unknown' = [unknown EXCEPT ![p] = None]
      /\ common' = [common EXCEPT ![p] = None] /\ asked' = asked \ {p}
      /\ UNCHANGED <<headers, have, tip, ibdOver>>
  BY DEF FinalizeNode
<1>1. StateOK /\ status \in PerPeer({"new", "connected", "ready", "gone"})
  BY DEF FullInv, StateOK
<1>2. Live' = Live \ {p} /\ Live \in SUBSET Peers
  BY <1>0, <1>1 DEF Live, PerPeer
<1>3. status' \in PerPeer({"new", "connected", "ready", "gone"})
  BY <1>0, <1>1 DEF PerPeer
<1>4. counts' \in [sync : Nat, preferred : Nat] /\ counts'.sync = Cardinality(sync')
        /\ counts'.preferred = Cardinality(ReadyPreferred')
  <2>1. counts.sync = Cardinality(sync) /\ counts.preferred = Cardinality(ReadyPreferred)
          /\ sync \in SUBSET Peers
    BY <1>1 DEF StateOK
  <2>2. \A q \in Peers : q # p => status'[q] = status[q]
    BY <1>0, <1>1 DEF PerPeer
  <2>3. p \notin ReadyPreferred' /\ (p \in ReadyPreferred <=> status[p] = "ready" /\ p \in Preferred)
    BY <1>0, <1>1 DEF ReadyPreferred, PerPeer
  <2>4. /\ Cardinality(ReadyPreferred) \in Nat
        /\ p \in ReadyPreferred => /\ Cardinality(ReadyPreferred') = Cardinality(ReadyPreferred) - 1
                                   /\ Cardinality(ReadyPreferred) > 0
        /\ p \notin ReadyPreferred => Cardinality(ReadyPreferred') = Cardinality(ReadyPreferred)
    BY <1>1, <2>2, <2>3, PreferredCount
  <2>5. counts'.preferred = Cardinality(ReadyPreferred') /\ counts'.preferred \in Nat
    BY <1>0, <2>1, <2>3, <2>4
  <2>6. IsFiniteSet(sync) /\ Cardinality(sync) \in Nat
    BY <2>1, DownloadAssumption, FS_Subset, FS_CardinalityType
  <2>7. IsFiniteSet(sync \ {p}) /\ Cardinality(sync \ {p}) = IF p \in sync THEN Cardinality(sync) - 1
                                                             ELSE Cardinality(sync)
    BY <2>6, FS_RemoveElement
  <2>8. Cardinality(sync \ {p}) \in Nat
    BY <2>7, FS_CardinalityType
  <2>9. counts'.sync = Cardinality(sync') /\ counts'.sync \in Nat
    BY <1>0, <2>1, <2>6, <2>7, <2>8
  <2> QED BY <1>0, <2>5, <2>9
<1>5. StateOK'
  <2>1. best' \in PerPeer(headers \cup {None}) /\ unknown' \in PerPeer(Blocks \cup {None})
          /\ common' \in PerPeer(headers \cup {None})
    BY <1>0, <1>1 DEF StateOK, PerPeer
  <2>2. leaving' \subseteq Live' /\ sync' \subseteq Peers /\ asked' \subseteq Peers
    BY <1>0, <1>1, <1>2 DEF StateOK
  <2> QED BY <1>0, <1>1, <1>3, <1>4, <2>1, <2>2 DEF StateOK
<1>6. /\ Sound(dl', Live')
      /\ \A b \in Blocks : dl'.inFlight[b] \in {dl.inFlight[b], None}
      /\ \A q \in Peers : Len(dl'.queue[q]) <= Len(dl.queue[q])
  BY <1>0, <1>2, ReleasedSound DEF FullInv
<1>7. \A q \in Peers : Len(dl'.queue[q]) <= MaxInTransit
  <2>1. \A q \in Peers : Len(dl.queue[q]) <= MaxInTransit
    BY DEF FullInv, RequestsUseful
  <2>2. dl.queue \in [Peers -> Seq(Request)] /\ dl'.queue \in [Peers -> Seq(Request)]
    BY <1>6, SoundTypes DEF FullInv
  <2>3. \A q \in Peers : Len(dl'.queue[q]) \in Nat /\ Len(dl.queue[q]) \in Nat
    BY <2>2
  <2> QED BY <1>6, <2>1, <2>3, DownloadAssumption
<1>8. \A b \in have' : dl'.inFlight[b] = None
  <2>1. have' = have /\ have \subseteq Blocks /\ \A b \in have : dl.inFlight[b] = None
    BY <1>0, <1>1 DEF FullInv, RequestsUseful, StateOK
  <2> QED BY <1>6, <2>1
<1>9. Sound(dl, Live)' /\ RequestsUseful'
  BY <1>6, <1>7, <1>8 DEF RequestsUseful
<1> QED BY <1>5, <1>9 DEF FullInv

-----------------------------------------------------------------------------
(* Messages.                                                               *)

\* What ProcessBlockAvailability returns.
LEMMA Availability ==
    ASSUME StateOK, NEW p \in Peers, NEW H \in SUBSET Blocks, headers \subseteq H
    PROVE  /\ ProcessBlockAvailability(p, H)[1] \in H \cup {None}
           /\ ProcessBlockAvailability(p, H)[2] \in Blocks \cup {None}
<1>1. best[p] \in headers \cup {None} /\ unknown[p] \in Blocks \cup {None}
  BY DEF StateOK, PerPeer
<1>2. CASE unknown[p] \in H
  <2>1. ProcessBlockAvailability(p, H) =
            <<IF Better(unknown[p], best[p]) THEN unknown[p] ELSE best[p], None>>
    BY <1>2 DEF ProcessBlockAvailability
  <2> QED BY <1>1, <1>2, <2>1
<1>3. CASE unknown[p] \notin H
  <2>1. ProcessBlockAvailability(p, H) = <<best[p], unknown[p]>>
    BY <1>3 DEF ProcessBlockAvailability
  <2> QED BY <1>1, <2>1
<1> QED BY <1>2, <1>3

\* What UpdateBlockAvailability leaves.
LEMMA AvailabilityUpdated ==
    ASSUME StateOK, NEW p \in Peers, NEW H \in SUBSET Blocks, headers \subseteq H,
           NEW b \in Blocks, UpdateBlockAvailability(p, b, H)
    PROVE  best' \in PerPeer(H \cup {None}) /\ unknown' \in PerPeer(Blocks \cup {None})
<1> DEFINE now == ProcessBlockAvailability(p, H)
<1>1. now[1] \in H \cup {None} /\ now[2] \in Blocks \cup {None}
  BY Availability
<1>2. /\ best' = [best EXCEPT ![p] = IF b \in H /\ Better(b, now[1]) THEN b ELSE now[1]]
      /\ unknown' = [unknown EXCEPT ![p] = IF b \in H THEN now[2] ELSE b]
  BY DEF UpdateBlockAvailability
<1> HIDE DEF now
<1>3. best \in [Peers -> H \cup {None}] /\ unknown \in [Peers -> Blocks \cup {None}]
  BY DEF StateOK, PerPeer
<1> QED BY <1>1, <1>2, <1>3 DEF PerPeer

\* What is needed of dl after a step that leaves the peers alone.
LEMMA RequestsKept ==
    ASSUME FullInv, Live' = Live, NEW p \in Live, NEW n \in Nat,
           Sound(dl', Live),
           \A x \in Peers : x # p => Len(dl'.queue[x]) <= Len(dl.queue[x]),
           Len(dl'.queue[p]) <= Len(dl.queue[p]) + n,
           Len(dl.queue[p]) + n <= MaxInTransit,
           \A b \in have' : dl'.inFlight[b] = None
    PROVE  Sound(dl, Live)' /\ RequestsUseful'
<1>1. dl.queue \in [Peers -> Seq(Request)] /\ dl'.queue \in [Peers -> Seq(Request)]
  BY SoundTypes DEF FullInv
<1>2. \A x \in Peers : Len(dl.queue[x]) \in Nat /\ Len(dl'.queue[x]) \in Nat
  BY <1>1
<1>3. p \in Peers /\ MaxInTransit \in Nat
  BY DownloadAssumption DEF Live
<1>4. \A x \in Peers : Len(dl.queue[x]) <= MaxInTransit
  BY DEF FullInv, RequestsUseful
<1>5. ASSUME NEW x \in Peers PROVE Len(dl'.queue[x]) <= MaxInTransit
  <2>1. Len(dl.queue[x]) \in Nat /\ Len(dl'.queue[x]) \in Nat
    BY <1>2
  <2>2. CASE x = p
    <3>1. Len(dl'.queue[x]) <= Len(dl.queue[x]) + n /\ Len(dl.queue[x]) + n <= MaxInTransit
      BY <2>2
    <3> QED BY ONLY n \in Nat, <1>3, <2>1, <3>1
  <2>3. CASE x # p
    <3>1. Len(dl'.queue[x]) <= Len(dl.queue[x]) /\ Len(dl.queue[x]) <= MaxInTransit
      BY <1>4, <2>3
    <3> QED BY ONLY <1>3, <2>1, <3>1
  <2> QED BY <2>2, <2>3
<1> QED BY <1>5 DEF RequestsUseful

\* The same when dl is left alone.
LEMMA RequestsUnchanged ==
    ASSUME FullInv, Live' = Live, dl' = dl, have' = have
    PROVE  Sound(dl, Live)' /\ RequestsUseful'
BY DEF FullInv, RequestsUseful

\* INV.
LEMMA InvStep ==
    ASSUME FullInv, NEW p \in Peers, NEW b \in Blocks \ {Genesis}, Inv(p, b) PROVE FullInv'
<1>1. StateOK /\ headers \in SUBSET Blocks
  BY DEF FullInv, StateOK
<1>2. best' \in PerPeer(headers \cup {None}) /\ unknown' \in PerPeer(Blocks \cup {None})
  BY <1>1, AvailabilityUpdated DEF Inv
<1>3. UNCHANGED <<headers, have, tip, ibdOver, status, leaving, common, sync, counts>>
        /\ asked' \subseteq Peers
  BY <1>1 DEF Inv, StateOK
<1>4. Live' = Live /\ ReadyPreferred' = ReadyPreferred /\ p \in Live
  BY <1>3 DEF Live, ReadyPreferred, Inv
<1>5. StateOK'
  BY <1>1, <1>2, <1>3, <1>4 DEF StateOK
<1>6. Sound(dl, Live)' /\ RequestsUseful'
  <2>1. CASE dl' = dl
    BY <1>3, <1>4, <2>1, RequestsUnchanged
  <2>2. CASE dl' # dl
    <3>1. b \notin headers /\ dl.nBlocks[p] < MaxInTransit /\ dl' = MarkBlockAsInFlight(dl, p, b, 0)
      BY <2>2 DEF Inv
    <3>2. PICK v : v = 0
      OBVIOUS
    <3>3. v \in {0, 1} /\ dl' = MarkBlockAsInFlight(dl, p, b, v)
      BY <3>1, <3>2
    <3>4. Sound(dl, Live) /\ Live \in SUBSET Peers
      BY DEF FullInv, Live
    <3>5. Requested(dl, p, b, Live, MarkBlockAsInFlight(dl, p, b, v))
      BY ONLY b \in Blocks \ {Genesis}, <1>4, <3>3, <3>4, InFlightSound
    <3>6. Requested(dl, p, b, Live, dl')
      BY <3>3, <3>5
    <3>7. /\ Sound(dl', Live)
          /\ dl'.inFlight = [dl.inFlight EXCEPT ![b] = p]
          /\ \A x \in Peers : x # p => Len(dl'.queue[x]) <= Len(dl.queue[x])
          /\ Len(dl'.queue[p]) <= Len(dl.queue[p]) + 1
      BY ONLY <3>6 DEF Requested
    <3>8. \A c \in have' : dl'.inFlight[c] = None
      <4>1. have \subseteq headers /\ \A c \in have : dl.inFlight[c] = None
        BY <1>1 DEF FullInv, StateOK, RequestsUseful
      <4>2. dl.inFlight \in [Blocks -> Peers \cup {None}]
        BY <3>4, SoundTypes
      <4> QED BY <1>1, <1>3, <3>1, <3>7, <4>1, <4>2
    <3>9. Len(dl.queue[p]) + 1 <= MaxInTransit
      <4>1. dl.nBlocks[p] = Len(dl.queue[p])
        BY <3>4 DEF Sound, Counted
      <4>2. dl.nBlocks[p] \in Nat /\ MaxInTransit \in Nat
        BY <3>4, SoundTypes, DownloadAssumption
      <4> QED BY <3>1, <4>1, <4>2
    <3>10. 1 \in Nat
      OBVIOUS
    <3> QED BY ONLY FullInv, <1>4, <3>7, <3>8, <3>9, <3>10, RequestsKept
  <2> QED BY <2>1, <2>2
<1> QED BY <1>5, <1>6 DEF FullInv

\* The lesser of two numbers.
LEMMA MinOfTwo ==
    ASSUME NEW a \in Nat, NEW c \in Nat
    PROVE  Min({a, c}) \in Nat /\ Min({a, c}) <= a /\ Min({a, c}) <= c
<1>1. \E x \in {a, c} : \A y \in {a, c} : x <= y
  OBVIOUS
<1>2. Min({a, c}) \in {a, c} /\ \A y \in {a, c} : Min({a, c}) <= y
  BY <1>1 DEF Min
<1> QED BY <1>2

\* Nothing that we have is fetched directly.
LEMMA DirectFetchMissing ==
    ASSUME NEW b \in Blocks
    PROVE  DirectFetch(b) \in Seq(Blocks \ have)
<1> DEFINE wanted == {x \in Anc[b] \ Anc[tip] : x \notin have /\ dl.inFlight[x] = None}
<1>1. wanted \in SUBSET Anc[b] /\ wanted \subseteq Blocks \ have
  BY DownloadAssumption
<1>2. DirectFetch(b) = <<>> \/ DirectFetch(b) = InOrder(wanted)
  BY DEF DirectFetch
<1> HIDE DEF wanted
<1>3. InOrder(wanted) \in Seq(wanted)
  BY <1>1, Ordered
<1>4. InOrder(wanted) \in Seq(Blocks \ have)
  BY <1>1, <1>3
<1>5. <<>> \in Seq(Blocks \ have)
  OBVIOUS
<1> QED BY <1>2, <1>4, <1>5

\* HEADERS.
LEMMA HeadersStep ==
    ASSUME FullInv, NEW p \in Peers, NEW b \in Blocks \ {Genesis}, Headers(p, b) PROVE FullInv'
<1>1. StateOK /\ headers \in SUBSET Blocks
  BY DEF FullInv, StateOK
<1>2. headers' = headers \cup Anc[b] /\ headers' \in SUBSET Blocks
  BY <1>1, DownloadAssumption DEF Headers
<1>3. PICK H : H = headers'
  OBVIOUS
<1>4. best' \in PerPeer(H \cup {None}) /\ unknown' \in PerPeer(Blocks \cup {None})
  <2>1. H \in SUBSET Blocks /\ headers \subseteq H /\ UpdateBlockAvailability(p, b, H)
    BY <1>2, <1>3 DEF Headers
  <2> QED BY ONLY p \in Peers, b \in Blocks \ {Genesis}, <1>1, <2>1, AvailabilityUpdated
<1>5. UNCHANGED <<have, tip, ibdOver, status, leaving, common, sync, counts>>
        /\ asked' \subseteq Peers
  BY <1>1 DEF Headers, StateOK
<1>6. Live' = Live /\ ReadyPreferred' = ReadyPreferred /\ p \in Live
  BY <1>5 DEF Live, ReadyPreferred, Headers
<1>7. StateOK'
  <2>1. ASSUME NEW c \in headers' PROVE Anc[c] \subseteq headers'
    <3>1. CASE c \in headers
      BY <1>1, <1>2, <3>1 DEF StateOK
    <3>2. CASE c \in Anc[b]
      BY <1>2, <3>2, Chains DEF Chain
    <3> QED BY <1>2, <3>1, <3>2
  <2>2. common' \in PerPeer(headers' \cup {None})
    BY <1>1, <1>2, <1>5 DEF StateOK, PerPeer
  <2>3. have' \subseteq headers' /\ headers' \subseteq Blocks
    BY <1>1, <1>2, <1>5 DEF StateOK
  <2>4. best' \in PerPeer(headers' \cup {None})
    BY <1>3, <1>4
  <2> QED BY <1>1, <1>4, <1>5, <1>6, <2>1, <2>2, <2>3, <2>4 DEF StateOK
<1>8. Sound(dl, Live)' /\ RequestsUseful'
  <2>1. CASE dl' = dl
    BY <1>5, <1>6, <2>1, RequestsUnchanged
  <2>2. CASE dl' # dl
    <3> DEFINE m == Min({Len(DirectFetch(b)), MaxInTransit - dl.nBlocks[p]})
    <3>1. dl' = RequestAll(dl, p, SubSeq(DirectFetch(b), 1, m))
      BY <2>2 DEF Headers
    <3>2. Sound(dl, Live) /\ Live \in SUBSET Peers
      BY DEF FullInv, Live
    <3>3. dl.nBlocks[p] = Len(dl.queue[p]) /\ dl.nBlocks[p] \in Nat
      BY <3>2, SoundTypes DEF Sound, Counted
    <3>4. MaxInTransit \in Nat /\ MaxInTransit - dl.nBlocks[p] \in Nat
      <4>1. dl.nBlocks[p] <= MaxInTransit
        BY <3>3 DEF FullInv, RequestsUseful
      <4> QED BY <3>3, <4>1, DownloadAssumption
    <3>5. DirectFetch(b) \in Seq(Blocks \ have) /\ Len(DirectFetch(b)) \in Nat
      BY DirectFetchMissing
    <3>6. m \in Nat /\ m <= Len(DirectFetch(b)) /\ m <= MaxInTransit - dl.nBlocks[p]
      BY <3>4, <3>5, MinOfTwo
    <3> HIDE DEF m
    <3> DEFINE s == SubSeq(DirectFetch(b), 1, m)
    <3>7. s \in Seq(Blocks \ have) /\ Len(s) = m
      BY <3>5, <3>6
    <3>8. dl' = RequestAll(dl, p, s)
      BY <3>1
    <3> HIDE DEF s
    <3>9. /\ Sound(dl', Live)
          /\ \A c \in Blocks \cap have : dl'.inFlight[c] = dl.inFlight[c]
          /\ \A x \in Peers : x # p => Len(dl'.queue[x]) <= Len(dl.queue[x])
          /\ Len(dl'.queue[p]) <= Len(dl.queue[p]) + m
      <4>1. AllRequested(dl, p, Len(s), have, Live, RequestAll(dl, p, s))
        BY ONLY <1>6, <3>2, <3>7, RequestAllSound
      <4>2. AllRequested(dl, p, m, have, Live, dl')
        BY ONLY <3>7, <3>8, <4>1
      <4> QED BY ONLY <4>2 DEF AllRequested
    <3>10. \A c \in have' : dl'.inFlight[c] = None
      <4>1. have \subseteq Blocks /\ \A c \in have : dl.inFlight[c] = None
        BY <1>1 DEF FullInv, StateOK, RequestsUseful
      <4> QED BY <1>5, <3>9, <4>1
    <3>11. Len(dl.queue[p]) + m <= MaxInTransit
      BY <3>3, <3>4, <3>6
    <3> QED BY ONLY FullInv, <1>6, <3>6, <3>9, <3>10, <3>11, RequestsKept
  <2> QED BY <2>1, <2>2
<1> QED BY <1>7, <1>8 DEF FullInv

\* BLOCK.
LEMMA BlockStep ==
    ASSUME FullInv, NEW p \in Peers, NEW b \in Blocks \ {Genesis}, NEW intact \in BOOLEAN,
           Block(p, b, intact)
    PROVE  FullInv'
<1>1. StateOK /\ headers \in SUBSET Blocks
  BY DEF FullInv, StateOK
<1>2. UNCHANGED <<status, best, unknown, common, sync, counts, asked>>
  BY DEF Block
<1>3. Live' = Live /\ ReadyPreferred' = ReadyPreferred /\ p \in Live
  BY <1>2 DEF Live, ReadyPreferred, Block
<1>4. leaving' \subseteq Live'
  BY <1>1, <1>3 DEF Block, StateOK
<1>5. ibdOver' \in BOOLEAN
  BY <1>1 DEF Block, StateOK, CaughtUp
<1>6. /\ headers' \subseteq Blocks /\ headers \subseteq headers' /\ have' \subseteq headers'
      /\ tip' \in have' /\ \A c \in headers' : Anc[c] \subseteq headers'
      /\ have' \subseteq have \cup {b}
  <2>1. CASE UNCHANGED <<headers, have, tip>>
    BY <1>1, <2>1 DEF StateOK
  <2>2. CASE ~UNCHANGED <<headers, have, tip>>
    <3> DEFINE linked == {c \in Blocks : Anc[c] \subseteq have'}
    <3>1. /\ Parent[b] \in headers /\ headers' = headers \cup {b}
          /\ have' = have \/ have' = have \cup {b}
          /\ tip' \in Best(linked) \/ tip' = tip
      BY <2>2 DEF Block
    <3>2. have \subseteq headers /\ tip \in have /\ \A c \in headers : Anc[c] \subseteq headers
      BY <1>1 DEF StateOK
    <3>3. Anc[b] = {b} \cup Anc[Parent[b]]
      BY DownloadAssumption
    <3>4. \A c \in headers' : Anc[c] \subseteq headers'
      BY <3>1, <3>2, <3>3
    <3>5. tip' \in have'
      <4>1. CASE tip' \in Best(linked)
        <5>1. tip' \in Blocks /\ Anc[tip'] \subseteq have'
          BY <4>1 DEF Best
        <5>2. \A c \in Blocks : c \in Anc[c]
          BY Chains DEF Chain
        <5> QED BY <5>1, <5>2
      <4>2. CASE tip' = tip
        BY <3>1, <3>2, <4>2
      <4> QED BY <3>1, <4>1, <4>2
    <3> HIDE DEF linked
    <3> QED BY <1>1, <3>1, <3>2, <3>4, <3>5
  <2> QED BY <2>1, <2>2
<1>7. StateOK'
  <2>1. best' \in PerPeer(headers' \cup {None}) /\ common' \in PerPeer(headers' \cup {None})
    BY <1>1, <1>2, <1>6 DEF StateOK, PerPeer
  <2> QED BY <1>1, <1>2, <1>3, <1>4, <1>5, <1>6, <2>1 DEF StateOK
<1>8. Sound(dl, Live)' /\ RequestsUseful'
  <2>1. dl' = MarkBlockAsReceived(dl, b)
    BY DEF Block, ReceivedFromAny
  <2>2. Sound(dl, Live) /\ Live \in SUBSET Peers
    BY DEF FullInv, Live
  <2>3. /\ Sound(dl', Live)
        /\ dl'.inFlight = [dl.inFlight EXCEPT ![b] = None]
        /\ \A q \in Peers : Len(dl'.queue[q]) <= Len(dl.queue[q])
    BY <2>1, <2>2, ReceivedSound
  <2>4. \A c \in have' : dl'.inFlight[c] = None
    <3>1. have \subseteq Blocks /\ \A c \in have : dl.inFlight[c] = None
      BY <1>1 DEF FullInv, StateOK, RequestsUseful
    <3>2. dl.inFlight \in [Blocks -> Peers \cup {None}]
      BY <2>2, SoundTypes
    <3> QED BY <1>6, <2>3, <3>1, <3>2
  <2>5. dl.queue \in [Peers -> Seq(Request)] /\ p \in Peers
    BY <2>2, SoundTypes
  <2>6. Len(dl.queue[p]) \in Nat
    BY <2>5
  <2>7. Len(dl.queue[p]) <= MaxInTransit
    BY DEF FullInv, RequestsUseful
  <2>8. /\ Len(dl'.queue[p]) <= Len(dl.queue[p]) + 0 /\ Len(dl.queue[p]) + 0 <= MaxInTransit
        /\ 0 \in Nat /\ \A x \in Peers : x # p => Len(dl'.queue[x]) <= Len(dl.queue[x])
    BY <2>3, <2>6, <2>7
  <2> QED BY ONLY FullInv, <1>3, <2>3, <2>4, <2>8, RequestsKept
<1> QED BY <1>7, <1>8 DEF FullInv

-----------------------------------------------------------------------------
(* SendMessages.                                                           *)

\* The walk begins at a block of the chain of the peer.
LEMMA FindSound ==
    ASSUME FullInv, NEW p \in Peers, NEW known \in headers, NEW count \in Nat \ {0}
    PROVE  LET w == FindNextBlocksToDownload(p, known, count)
           IN  w \in Walks(known) /\ Len(w.fetch) <= count
<1> DEFINE h == Min({Height[known], Height[tip]})
           guess == CHOOSE x \in Anc[tip] : Height[x] = h
           a == IF common[p] = None THEN guess ELSE common[p]
           from == LastCommonAncestor(a, known)
<1>1. known \in Blocks /\ tip \in Blocks /\ common[p] \in Blocks \cup {None}
  BY DEF FullInv, StateOK, PerPeer
<1>2. h \in Nat /\ h <= Height[tip] /\ Height[tip] \in Nat
  <2>1. Height[known] \in Nat /\ Height[tip] \in Nat
    BY <1>1, DownloadAssumption
  <2> QED BY <2>1, MinOfTwo
<1>3. guess \in Blocks
  <2>1. h \in 0 .. Height[tip]
    <3> HIDE DEF h
    <3> QED BY <1>2
  <2> HIDE DEF h
  <2>2. \E x \in Anc[tip] : Height[x] = h
    BY <1>1, <2>1, Chains DEF Chain
  <2>3. guess \in Anc[tip]
    BY <2>2
  <2> HIDE DEF guess
  <2> QED BY <1>1, <2>3, DownloadAssumption
<1> HIDE DEF guess
<1>4. a \in Blocks
  BY <1>1, <1>3
<1>5. FindNextBlocksToDownload(p, known, count) = Walk(p, known, from, count)
  BY DEF FindNextBlocksToDownload, guess
<1> HIDE DEF a
<1>6. from \in Anc[known]
  BY <1>1, <1>4, LastCommon
<1> HIDE DEF from
<1>7. Walk(p, known, from, count) \in Walks(known) /\ Len(Walk(p, known, from, count).fetch) <= count
  BY <1>1, <1>6, WalkSound DEF FullInv
<1> QED BY <1>5, <1>7

\* What the getdata part does.
LEMMA DownloadSound ==
    ASSUME FullInv, NEW p \in Live, Live' = Live, have' = have, headers' = headers,
           dl.nBlocks[p] < MaxInTransit,
           NEW now, now[1] \in headers \cup {None}, Download(p, now)
    PROVE  /\ common' \in PerPeer(headers \cup {None})
           /\ Sound(dl, Live)' /\ RequestsUseful'
<1>1. StateOK /\ p \in Peers /\ Sound(dl, Live) /\ Live \in SUBSET Peers
  BY DEF FullInv, Live
<1>2. CASE UNCHANGED <<common, dl>>
  BY <1>1, <1>2, RequestsUnchanged DEF StateOK
<1>3. CASE ~UNCHANGED <<common, dl>>
  <2> DEFINE known == now[1]
             count == MaxInTransit - dl.nBlocks[p]
  <2>1. known \in headers
    BY <1>3 DEF Download
  <2>2. PICK walk \in {FindNextBlocksToDownload(p, known, count)} :
            /\ common' = [common EXCEPT ![p] = walk.common]
            /\ dl' = IF dl.nBlocks[p] = 0 /\ walk.fetch = <<>> /\ walk.staller # None
                     THEN [dl EXCEPT !.stalling = @ \cup {walk.staller}]
                     ELSE RequestAll(dl, p, walk.fetch)
    BY <1>3 DEF Download
  <2>3. dl.nBlocks[p] = Len(dl.queue[p]) /\ dl.nBlocks[p] \in Nat /\ MaxInTransit \in Nat
    BY <1>1, SoundTypes, DownloadAssumption DEF Sound, Counted
  <2>4. count \in Nat \ {0}
    BY <2>3
  <2> HIDE DEF known, count
  <2>5. walk \in Walks(known) /\ Len(walk.fetch) <= count
    BY <1>1, <2>1, <2>2, <2>4, FindSound
  <2>6. /\ walk.fetch \in Seq(Blocks \ have) /\ walk.common \in Anc[known]
        /\ walk.staller \in Owing \cup {None}
    BY <2>5 DEF Walks
  <2>7. common' \in PerPeer(headers \cup {None})
    <3>1. walk.common \in headers
      BY <1>1, <2>1, <2>6 DEF StateOK
    <3> QED BY <1>1, <2>2, <3>1 DEF StateOK, PerPeer
  <2>8. have \subseteq Blocks /\ \A c \in have : dl.inFlight[c] = None
    BY <1>1 DEF FullInv, StateOK, RequestsUseful
  <2>9. CASE dl.nBlocks[p] = 0 /\ walk.fetch = <<>> /\ walk.staller # None
    <3>1. walk.staller \in Peers /\ dl.queue[walk.staller] # <<>>
      BY <2>6, <2>9 DEF Owing
    <3>2. dl' = [dl EXCEPT !.stalling = @ \cup {walk.staller}]
      BY <2>2, <2>9
    <3>3. Sound(dl', Live) /\ dl'.inFlight = dl.inFlight /\ dl'.queue = dl.queue
      BY <1>1, <3>1, <3>2, StallerSound
    <3>4. RequestsUseful'
      BY <2>8, <3>3 DEF RequestsUseful, FullInv
    <3>5. Sound(dl, Live)'
      BY <3>3
    <3> QED BY <2>7, <3>4, <3>5
  <2>10. CASE ~(dl.nBlocks[p] = 0 /\ walk.fetch = <<>> /\ walk.staller # None)
    <3>1. dl' = RequestAll(dl, p, walk.fetch)
      BY <2>2, <2>10
    <3>2. PICK s : s = walk.fetch
      OBVIOUS
    <3>3. s \in Seq(Blocks \ have) /\ Len(s) <= count /\ Len(s) \in Nat
      BY <2>5, <2>6, <3>2
    <3>4. AllRequested(dl, p, Len(s), have, Live, RequestAll(dl, p, s))
      BY ONLY p \in Live, <1>1, <3>3, RequestAllSound
    <3>5. AllRequested(dl, p, Len(s), have, Live, dl')
      BY <3>1, <3>2, <3>4
    <3>6. /\ Sound(dl', Live)
          /\ \A c \in Blocks \cap have : dl'.inFlight[c] = dl.inFlight[c]
          /\ \A x \in Peers : x # p => Len(dl'.queue[x]) <= Len(dl.queue[x])
          /\ Len(dl'.queue[p]) <= Len(dl.queue[p]) + Len(s)
      BY ONLY <3>5 DEF AllRequested
    <3>7. \A c \in have' : dl'.inFlight[c] = None
      BY <2>8, <3>6
    <3>8. Len(dl.queue[p]) + Len(s) <= MaxInTransit
      BY <2>3, <2>4, <3>3 DEF count
    <3>9. Sound(dl, Live)' /\ RequestsUseful'
      BY ONLY FullInv, Live' = Live, p \in Live, <3>3, <3>6, <3>7, <3>8, RequestsKept
    <3> QED BY <2>7, <3>9
  <2> QED BY <2>9, <2>10
<1> QED BY <1>2, <1>3

\* SendMessages: the start of the header synchronisation, the stall and download timeouts,
\* and the requests for the blocks the walk returned.
LEMMA SendMessagesStep ==
    ASSUME FullInv, NEW p \in Peers, NEW late \in BOOLEAN, SendMessages(p, late) PROVE FullInv'
<1>1. StateOK /\ headers \in SUBSET Blocks /\ status[p] = "ready"
  BY DEF FullInv, StateOK, SendMessages
<1>2. UNCHANGED <<headers, have, tip, status>>
  BY DEF SendMessages
<1>3. Live' = Live /\ ReadyPreferred' = ReadyPreferred /\ p \in Live
  BY <1>1, <1>2 DEF Live, ReadyPreferred
<1>4. leaving' \subseteq Live' /\ asked' \subseteq Peers /\ sync' \subseteq Peers
  BY <1>1, <1>3 DEF SendMessages, StateOK
<1>5. ibdOver' \in BOOLEAN
  BY DEF SendMessages, IsInitialBlockDownload
<1>6. counts' \in [sync : Nat, preferred : Nat] /\ counts'.preferred = counts.preferred
        /\ counts'.sync = Cardinality(sync')
  <2>1. counts \in [sync : Nat, preferred : Nat] /\ counts.sync = Cardinality(sync)
          /\ sync \in SUBSET Peers
    BY <1>1 DEF StateOK
  <2>2. IsFiniteSet(sync)
    BY <2>1, DownloadAssumption, FS_Subset
  <2>3. Cardinality(sync \cup {p}) = IF p \in sync THEN Cardinality(sync) ELSE Cardinality(sync) + 1
    BY <2>2, FS_AddElement
  <2>4. CASE StartsSync(p)
    <3>1. p \notin sync /\ sync' = sync \cup {p} /\ counts' = [counts EXCEPT !.sync = @ + 1]
      BY <2>4 DEF SendMessages, StartsSync
    <3> QED BY <2>1, <2>3, <3>1
  <2>5. CASE ~StartsSync(p)
    <3>1. sync' = sync /\ counts' = counts
      BY <2>1, <2>5 DEF SendMessages
    <3> QED BY <2>1, <3>1
  <2> QED BY <2>4, <2>5
<1>7. /\ best' \in PerPeer(headers \cup {None}) /\ unknown' \in PerPeer(Blocks \cup {None})
      /\ common' \in PerPeer(headers \cup {None})
      /\ Sound(dl, Live)' /\ RequestsUseful'
  <2>1. PICK now \in {ProcessBlockAvailability(p, headers)} :
             /\ best' = [best EXCEPT ![p] = now[1]]
             /\ unknown' = [unknown EXCEPT ![p] = now[2]]
             /\ UNCHANGED <<common, dl>> \/ (~(dl.nBlocks[p] >= MaxInTransit) /\ Download(p, now))
    BY DEF SendMessages
  <2>2. now[1] \in headers \cup {None} /\ now[2] \in Blocks \cup {None}
    BY <1>1, <2>1, Availability
  <2>3. best' \in PerPeer(headers \cup {None}) /\ unknown' \in PerPeer(Blocks \cup {None})
    BY <1>1, <2>1, <2>2 DEF StateOK, PerPeer
  <2>4. CASE UNCHANGED <<common, dl>>
    BY <1>1, <1>2, <1>3, <2>3, <2>4, RequestsUnchanged DEF StateOK
  <2>5. CASE ~(dl.nBlocks[p] >= MaxInTransit) /\ Download(p, now)
    <3>1. dl.nBlocks[p] < MaxInTransit
      <4>1. dl.nBlocks[p] \in Nat /\ MaxInTransit \in Nat
        BY SoundTypes, DownloadAssumption DEF FullInv
      <4> QED BY <2>5, <4>1
    <3>2. common' \in PerPeer(headers \cup {None}) /\ Sound(dl, Live)' /\ RequestsUseful'
      BY <1>2, <1>3, <2>2, <2>5, <3>1, DownloadSound
    <3> QED BY <2>3, <3>2
  <2> QED BY <2>1, <2>4, <2>5
<1>8. StateOK'
  BY <1>1, <1>2, <1>3, <1>4, <1>5, <1>6, <1>7 DEF StateOK
<1> QED BY <1>7, <1>8 DEF FullInv

-----------------------------------------------------------------------------
(* The theorems.                                                           *)

\* Every step preserves the invariant.
LEMMA FullInvNext == FullInv /\ [Next]_vars => FullInv'
<1> SUFFICES ASSUME FullInv, [Next]_vars PROVE FullInv'
  OBVIOUS
<1>1. ASSUME NEW p \in Peers, InitializeNode(p) PROVE FullInv'
  BY <1>1, InitializeNodeStep
<1>2. ASSUME NEW p \in Peers, Version(p) PROVE FullInv'
  BY <1>2, VersionStep
<1>3. ASSUME NEW p \in Peers, FinalizeNode(p) PROVE FullInv'
  BY <1>3, FinalizeNodeStep
<1>4. ASSUME NEW p \in Peers, NEW late \in BOOLEAN, SendMessages(p, late) PROVE FullInv'
  BY <1>4, SendMessagesStep
<1>5. ASSUME NEW p \in Peers, NEW b \in Blocks \ {Genesis}, Inv(p, b) PROVE FullInv'
  BY <1>5, InvStep
<1>6. ASSUME NEW p \in Peers, NEW b \in Blocks \ {Genesis}, Headers(p, b) PROVE FullInv'
  BY <1>6, HeadersStep
<1>7. ASSUME NEW p \in Peers, NEW b \in Blocks \ {Genesis}, NEW intact \in BOOLEAN,
             Block(p, b, intact)
      PROVE  FullInv'
  BY <1>7, BlockStep
<1>8. ASSUME UNCHANGED vars PROVE FullInv'
  BY <1>8 DEF vars, peerVars, FullInv, StateOK, Sound, Loading, Matching, Counted,
               RequestsUseful, Live, ReadyPreferred
<1> QED BY <1>1, <1>2, <1>3, <1>4, <1>5, <1>6, <1>7, <1>8 DEF Next

\* mapBlocksInFlight, the queues, the counters and nStallingSince agree with each other and with
\* the headers in the index, whatever the peers send and whenever they come and go.
THEOREM FullInvCorrect == Spec => []FullInv
BY FullInvInit, FullInvNext, PTL DEF Spec

\* mapBlocksInFlight holds exactly the blocks in the queues of the peers, each once, and
\* nBlocksInFlight, nBlocksInFlightValidHeaders, nPeersWithValidatedDownloads,
\* nPreferredDownload and nSyncStarted are the numbers they stand for: no block is requested
\* twice or forgotten, no peer is asked for more than MAX_BLOCKS_IN_TRANSIT_PER_PEER, and the
\* assertions of FinalizeNode hold when the last peer leaves.
THEOREM RequestsExactCorrect == Spec => []RequestsExact
BY FullInvCorrect, FullInvImplies, PTL

\* A peer SendMessages may disconnect for stalling still owes a block: nStallingSince is reset
\* whenever one of its blocks arrives, and only set for a peer the walk is waiting for.
THEOREM StallerOwesBlockCorrect == Spec => []StallerOwesBlock
BY FullInvCorrect, FullInvImplies, PTL

=============================================================================
