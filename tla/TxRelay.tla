------------------------------ MODULE TxRelay -------------------------------
(***************************************************************************)
(* How the node fetches the transactions its peers announce and what it    *)
(* does with those it cannot use yet: AskFor and the GETDATA loop of       *)
(* SendMessages with their retry times, the INV, TX and BLOCK handlers,    *)
(* recentRejects, and CTxOrphanCache with its index by previous            *)
(* transaction (src/main.cpp, src/net.cpp, src/limitedmap.h,               *)
(* src/txorphancache.cpp).                                                 *)
(*                                                                         *)
(* Handlers run in the message thread under cs_main.  The loop of the TX   *)
(* handler over the orphans that waited for a transaction is taken one     *)
(* orphan at a time (job), so that every order of hashes is met; nothing   *)
(* else happens while it runs.  The pool is the set of its transactions.   *)
(* What depends on fees, sizes and the time, whether a transaction may     *)
(* enter and which ones make room for it, is the subject of Mempool and    *)
(* left open here.                                                         *)
(* The active chains the node will follow, one after the other, are a      *)
(* constant: a tip is a number, and no tip comes back.                     *)
(***************************************************************************)
EXTENDS Integers, Sequences, FiniteSets, FiniteSetsExt

CONSTANTS
    Tx,            \* the transactions that peers know
    Announced,     \* those they announce; the others they can only push
    Base,          \* the transactions confirmed before the first block
    Spends,        \* the outputs a transaction of Tx spends: a set of <<txid, n>>
    Outputs,       \* the outputs of every transaction
    Tips,          \* the tips to come: height, the transactions its chain confirms and
                   \* those of the last block
    FinalAt,       \* the least height of a block that may include it
    BadScript,     \* the transactions with a script that fails: DoS 100
    Big,           \* those of more than 100000 bytes
    Peers, Honest, \* the peers, and those that answer and send nothing bad
    Limit,         \* m_limit, -maxorphantx
    MaxAsked,      \* the size of mapAlreadyAskedFor, MAX_INV_SZ
    MaxMapAskFor,  \* MAPASKFOR_MAX_SZ
    MaxSetAskFor,  \* SETASKFOR_MAX_SZ
    Retry          \* the two minutes between requests, in ticks of the clock

Txids == Tx \cup Base
Prevs(t) == {o[1] : o \in Spends[t]}

ASSUME TxRelayAssumption ==
    /\ Tx \cap Base = {} /\ Announced \subseteq Tx
    /\ \A t \in Tx : Spends[t] \subseteq Txids \X Nat /\ FinalAt[t] \in Nat
    /\ Tips \in Seq([height : Nat, confirmed : SUBSET Tx, last : SUBSET Tx])
    /\ Tips # <<>>
    /\ Honest \subseteq Peers
    /\ Limit \in Nat /\ MaxAsked \in Nat \ {0}
    /\ MaxMapAskFor \in Nat /\ MaxSetAskFor \in Nat /\ Retry \in Nat \ {0}

VARIABLES
    tip,          \* chainActive.Tip()
    pool,         \* the transactions in mempool
    evicted,      \* (history) what its limits took from it under this tip
    rejects,      \* recentRejects
    rejectsTip,   \* hashRecentRejectsChainTip
    passing,      \* (history) put into recentRejects for a reason that may pass under
                  \* this tip: the node has them, or their fee or a limit
    cache,        \* the orphans: fromPeer of each, and m_mapOrphanTransactionsByPrev
    connected,    \* the peers in vNodes
    banned,       \* the peers with fShouldBan
    setAskFor,    \* per peer
    mapAskFor,    \* per peer: <<transaction, ticks until it may be requested>>
    asked,        \* mapAlreadyAskedFor: the same ticks, down to -Retry
    wanted,       \* what a peer was sent a GETDATA for and has not answered
    job           \* the loop of the TX handler

poolVars == <<pool, evicted>>
rejectVars == <<rejects, rejectsTip, passing>>
peerVars == <<connected, banned>>
askVars == <<setAskFor, mapAskFor, asked, wanted>>
vars == <<tip, poolVars, rejectVars, cache, peerVars, askVars, job>>

\* The loop: vWorkQueue and the index in it, the orphans of that entry still to be
\* looked at, vEraseQueue and setMisbehaving.
NoJob == [work |-> <<>>, i |-> 0, todo |-> {}, erase |-> {}, bad |-> {}]

Init ==
    /\ tip = 1 /\ pool = {} /\ evicted = {}
    /\ rejects = {} /\ rejectsTip = 1 /\ passing = {}
    /\ cache = [from |-> <<>>, byPrev |-> <<>>]
    /\ connected = Peers /\ banned = {}
    /\ setAskFor = [p \in Peers |-> {}]
    /\ mapAskFor = [p \in Peers |-> {}]
    /\ wanted = [p \in Peers |-> {}]
    /\ asked = <<>>
    /\ job = NoJob

Idle == job = NoJob
With(f, x, v) == [y \in DOMAIN f \cup {x} |-> IF y = x THEN v ELSE f[y]]

-----------------------------------------------------------------------------
(* CTxOrphanCache.                                                         *)

Orphans == DOMAIN cache.from

\* fetchTransactionsByPrev
FetchByPrev(t) == IF t \in DOMAIN cache.byPrev THEN cache.byPrev[t] ELSE {}

\* AddOrphanTx, which ignores what it has and what is too big.
AddOrphanTx(c, t, p) ==
    IF t \in DOMAIN c.from \cup Big THEN c
    ELSE [from |-> With(c.from, t, p),
          byPrev |-> [q \in DOMAIN c.byPrev \cup Prevs(t) |->
              (IF q \in DOMAIN c.byPrev THEN c.byPrev[q] ELSE {})
                  \cup (IF q \in Prevs(t) THEN {t} ELSE {})]]

\* The mistake of looking only at the first input.
LeftByFirst(c, q, E) ==
    {t \in c.byPrev[q] : ~(t \in E /\ q = CHOOSE r \in Prevs(t) : TRUE)}
\* What the index holds for q once the orphans E are erased.
Left(c, q, E) == {t \in c.byPrev[q] : ~(t \in E /\ q \in Prevs(t))}

\* EraseOrphanTx for each of E, and EraseOrphans: an empty set is not kept.
EraseOrphans(c, E) ==
    LET gone == E \cap DOMAIN c.from
    IN  [from |-> [t \in DOMAIN c.from \ gone |-> c.from[t]],
         byPrev |-> [q \in {r \in DOMAIN c.byPrev : Left(c, r, gone) # {}} |->
                        Left(c, q, gone)]]

\* The mistake of looking at the size before the new one is added.
ExcessBefore(c) ==
    LET n == Cardinality(DOMAIN c.from) IN IF n > Limit + 1 THEN n - Limit - 1 ELSE 0
\* LimitOrphanTxSize: how many have to go; any may be the ones.
Excess(c) ==
    LET n == Cardinality(DOMAIN c.from) IN IF n > Limit THEN n - Limit ELSE 0
LimitOrphanTxSize(c) ==
    {EraseOrphans(c, E) : E \in {S \in SUBSET DOMAIN c.from : Cardinality(S) = Excess(c)}}

-----------------------------------------------------------------------------
(* The chain and the pool.                                                 *)

Confirmed(i) == Base \cup Tips[i].confirmed
Unspent(i) == UNION {Outputs[t] : t \in Confirmed(i)}
              \ UNION {Spends[t] : t \in Tips[i].confirmed}
HaveCoins(t) == Outputs[t] \cap Unspent(tip) # {}
Final(t, i) == FinalAt[t] <= Tips[i].height + 1

\* It is in the pool or the chain, against one of them, or too early.
Unwanted(t) ==
    \/ ~Final(t, tip) \/ t \in pool \/ HaveCoins(t)
    \/ \E u \in pool : Spends[u] \cap Spends[t] # {}
\* HaveCoins of the pool's view for the inputs, and then HaveInputs.
MissingInputs(t) == \E q \in Prevs(t) : q \notin pool /\ ~HaveCoins(q)
SpentInputs(t) == \E o \in Spends[t] : o[1] \notin pool /\ o \notin Unspent(tip)

\* What AcceptToMemoryPool(t) comes to if fees and limits have nothing against it.
Verdict(t) ==
    IF Unwanted(t) THEN "refused"
    ELSE IF MissingInputs(t) THEN "missing"
    ELSE IF SpentInputs(t) THEN "refused"
    ELSE IF t \in BadScript THEN "bad"
    ELSE "accepted"

\* What may be left of the pool P when Expire and TrimToSize have taken entries out with
\* all that depends on them.
Trimmed(P) == {S \in SUBSET P : \A t \in S : Prevs(t) \cap P \subseteq S}

\* AcceptToMemoryPool(t).  "cheap" is a refusal that depends on more than the chain and
\* what the pool holds: the fee, with what was prioritised, is below the decaying minimum
\* or what free relay allows, there are too many ancestors (all this before the scripts
\* are run), or it is itself what makes room when it has been added.
AcceptToMemoryPool(t, v) ==
    /\ \/ v = Verdict(t)
       \/ v = "cheap" /\ Verdict(t) \in {"bad", "accepted"}
    /\ IF Verdict(t) = "accepted"
       THEN pool' \in {S \in Trimmed(pool \cup {t}) : t \in S <=> v = "accepted"}
       ELSE pool' = pool
    /\ evicted' = evicted \cup (pool \ pool')

\* The transactions of P that stay in the pool with the i-th tip: final ones whose
\* inputs are unspent in the chain or made by one that stays (removeForBlock,
\* removeForReorg).
Stay(P, i) ==
    UNION {S \in SUBSET P : \A t \in S :
              /\ Final(t, i)
              /\ \A o \in Spends[t] : o \in Unspent(i) \/ o[1] \in S}

\* The mistake of keeping the filter for ever.
RejectsKept == rejects
\* AlreadyHave, which resets recentRejects when the tip is not the one it is for.
RejectsNow == IF rejectsTip = tip THEN rejects ELSE {}
AlreadyHave(t) == t \in RejectsNow \cup pool \cup Orphans \/ HaveCoins(t)
SyncRejects == /\ rejects' = RejectsNow /\ rejectsTip' = tip
               /\ passing' = passing \cap RejectsNow

-----------------------------------------------------------------------------
(* Requests.                                                               *)

Pending(p) == {e[1] : e \in mapAskFor[p]}

\* limitedmap::insert: when it is full an entry with the least time goes.
Least(f) == {x \in DOMAIN f : \A y \in DOMAIN f : f[x] <= f[y]}
Inserted(f, x, v) ==
    IF x \in DOMAIN f \/ Cardinality(DOMAIN f) < MaxAsked THEN {With(f, x, v)}
    ELSE {With([y \in DOMAIN f \ {z} |-> f[y]], x, v) : z \in Least(f)}

\* When the next request may be sent: two minutes after the last, or now.
RequestTime(t) ==
    IF t \in DOMAIN asked /\ asked[t] + Retry > 0 THEN asked[t] + Retry ELSE 0

\* The mistake of not looking whether it is asked for already.
MayAskForAgain(p, t) ==
    /\ Cardinality(mapAskFor[p]) <= MaxMapAskFor
    /\ Cardinality(setAskFor[p]) <= MaxSetAskFor
\* AskFor does nothing when too much is asked for, or this already.
MayAskFor(p, t) ==
    /\ Cardinality(mapAskFor[p]) <= MaxMapAskFor
    /\ Cardinality(setAskFor[p]) <= MaxSetAskFor
    /\ t \notin setAskFor[p]

AskFor(p, t) ==
    /\ setAskFor' = [setAskFor EXCEPT ![p] = @ \cup {t}]
    /\ mapAskFor' = [mapAskFor EXCEPT ![p] = @ \cup {<<t, RequestTime(t)>>}]
    /\ asked' \in Inserted(asked, t, RequestTime(t))
    /\ UNCHANGED wanted

\* INV of one transaction from p.
InvMessage(p, t) ==
    /\ Idle /\ p \in connected
    /\ SyncRejects
    /\ IF ~AlreadyHave(t) /\ MayAskFor(p, t) THEN AskFor(p, t) ELSE UNCHANGED askVars
    /\ UNCHANGED <<tip, poolVars, cache, peerVars, job>>

\* The mistake of leaving it in setAskFor.
NotAskedNone(p, due) == {}
\* What SendMessages no longer expects from p: what it has by now.
NotAsked(p, due) == {t \in due : AlreadyHave(t)}

\* The loop of SendMessages over mapAskFor.
SendMessages(p) ==
    LET due == {e[1] : e \in {x \in mapAskFor[p] : x[2] = 0}}
    IN  /\ Idle /\ p \in connected \ banned
        /\ due # {}
        /\ SyncRejects
        /\ wanted' = [wanted EXCEPT ![p] = @ \cup {t \in due : ~AlreadyHave(t)}]
        /\ setAskFor' = [setAskFor EXCEPT ![p] = @ \ NotAsked(p, due)]
        /\ mapAskFor' = [mapAskFor EXCEPT ![p] = {e \in @ : e[2] # 0}]
        /\ UNCHANGED <<tip, poolVars, cache, peerVars, asked, job>>

\* The clock goes on.  A time more than Retry ago is as good as Retry ago.
Tick ==
    /\ Idle
    /\ mapAskFor' = [p \in Peers |->
            {<<e[1], IF e[2] > 0 THEN e[2] - 1 ELSE 0>> : e \in mapAskFor[p]}]
    /\ asked' = [t \in DOMAIN asked |-> IF asked[t] > -Retry THEN asked[t] - 1 ELSE -Retry]
    /\ <<mapAskFor', asked'>> # <<mapAskFor, asked>>
    /\ UNCHANGED <<tip, poolVars, rejectVars, cache, peerVars, setAskFor, wanted, job>>

-----------------------------------------------------------------------------
(* TX.                                                                     *)

\* A peer may send what it was not asked for; an honest one does not.
MaySend(p, t) == p \in Honest => t \in wanted[p] \ BadScript

Answered(p, t) ==
    /\ setAskFor' = [setAskFor EXCEPT ![p] = @ \ {t}]
    /\ asked' = [u \in DOMAIN asked \ {t} |-> asked[u]]
    /\ wanted' = [wanted EXCEPT ![p] = @ \ {t}]
    /\ UNCHANGED mapAskFor

\* The mistake of not looking whether the node is still there.
MisbehavingAnyone(p) == banned' = banned \cup {p}
\* Misbehaving(p, 100)
Misbehaving(p) == banned' = banned \cup ({p} \cap connected)

Refusals == {"known", "refused", "cheap", "bad"}

\* The transaction is accepted, and the orphans that wait for it come next.
TxAccepted(p, t) ==
    /\ ~AlreadyHave(t) /\ AcceptToMemoryPool(t, "accepted")
    /\ job' = [NoJob EXCEPT !.work = <<t>>, !.i = 1, !.todo = FetchByPrev(t)]
    /\ SyncRejects
    /\ UNCHANGED <<cache, banned>>

TxMissingInputs(p, t) ==
    /\ ~AlreadyHave(t) /\ AcceptToMemoryPool(t, "missing")
    /\ cache' \in LimitOrphanTxSize(AddOrphanTx(cache, t, p))
    /\ SyncRejects
    /\ UNCHANGED <<banned, job>>

\* Also when the node has it already, and AcceptToMemoryPool is not called ("known").
TxRejected(p, t, v) ==
    /\ IF AlreadyHave(t) THEN v = "known" /\ UNCHANGED poolVars
       ELSE v \in {"refused", "cheap", "bad"} /\ AcceptToMemoryPool(t, v)
    /\ rejects' = RejectsNow \cup {t} /\ rejectsTip' = tip
    /\ passing' = (passing \cap RejectsNow)
                      \cup (IF v \in {"known", "cheap"} /\ t \notin RejectsNow THEN {t} ELSE {})
    /\ IF v = "bad" THEN Misbehaving(p) ELSE UNCHANGED banned
    /\ UNCHANGED <<cache, job>>

TxMessage(p, t) ==
    /\ Idle /\ p \in connected /\ MaySend(p, t)
    /\ Answered(p, t)
    /\ \/ TxAccepted(p, t) \/ TxMissingInputs(p, t)
       \/ \E v \in Refusals : TxRejected(p, t, v)
    /\ UNCHANGED <<tip, connected>>

\* One orphan that waited for job.work[job.i].
OrphanSkipped(o) ==
    /\ o \in job.todo /\ cache.from[o] \in job.bad
    /\ job' = [job EXCEPT !.todo = @ \ {o}]
    /\ UNCHANGED <<tip, poolVars, rejectVars, cache, peerVars, askVars>>
OrphanAccepted(o) ==
    /\ o \in job.todo /\ cache.from[o] \notin job.bad
    /\ AcceptToMemoryPool(o, "accepted")
    /\ job' = [job EXCEPT !.todo = @ \ {o}, !.work = Append(@, o), !.erase = @ \cup {o}]
    /\ UNCHANGED <<tip, rejectVars, cache, peerVars, askVars>>
OrphanRejected(o, v) ==
    /\ o \in job.todo /\ cache.from[o] \notin job.bad
    /\ v \in {"refused", "cheap", "bad"} /\ AcceptToMemoryPool(o, v)
    /\ rejects' = rejects \cup {o}
    /\ job' = [job EXCEPT !.todo = @ \ {o}, !.erase = @ \cup {o},
                          !.bad = @ \cup (IF v = "bad" THEN {cache.from[o]} ELSE {})]
    /\ IF v = "bad" THEN Misbehaving(cache.from[o]) ELSE UNCHANGED banned
    /\ passing' = passing \cup (IF v = "cheap" \/ o \in pool THEN {o} ELSE {})
    /\ UNCHANGED <<tip, rejectsTip, cache, connected, askVars>>
OrphanWaits(o) ==
    /\ o \in job.todo /\ cache.from[o] \notin job.bad
    /\ AcceptToMemoryPool(o, "missing")
    /\ job' = [job EXCEPT !.todo = @ \ {o}]
    /\ UNCHANGED <<tip, rejectVars, cache, peerVars, askVars>>

\* The mistake of looking only at the first entry.
MoreWorkNever == FALSE
\* vWorkQueue grows while it is gone through.
MoreWork == job.i < Len(job.work)

NextWork ==
    /\ ~Idle /\ job.todo = {} /\ MoreWork
    /\ job' = [job EXCEPT !.i = @ + 1, !.todo = FetchByPrev(job.work[job.i + 1])]
    /\ UNCHANGED <<tip, poolVars, rejectVars, cache, peerVars, askVars>>

\* EraseOrphans(vEraseQueue), and EraseOrphansByTime, which is due every five
\* minutes: what is too old then is left open.
FinishTx ==
    /\ ~Idle /\ job.todo = {} /\ ~MoreWork
    /\ LET left == EraseOrphans(cache, job.erase)
       IN  \E old \in SUBSET DOMAIN left.from : cache' = EraseOrphans(left, old)
    /\ job' = NoJob
    /\ UNCHANGED <<tip, poolVars, rejectVars, peerVars, askVars>>

-----------------------------------------------------------------------------
(* Blocks, the operator, and the end of a connection.                      *)

\* A block makes the next tip: what it confirms leaves the pool, what it unconfirms
\* goes back into it as far as fees and limits allow.  A block that a peer sent also
\* ends the wait of its own transactions in the orphan cache, one from submitblock does
\* not.
NewTip(sent) ==
    LET next == Tips[tip + 1]
        back == Tips[tip].confirmed \ BadScript
    IN  /\ Idle /\ tip < Len(Tips)
        /\ tip' = tip + 1
        /\ pool' \in Trimmed(Stay((pool \cup back) \ next.confirmed, tip + 1))
        /\ evicted' = {}
        /\ cache' = IF sent THEN EraseOrphans(cache, next.last) ELSE cache
        /\ UNCHANGED <<rejectVars, peerVars, askVars, job>>

\* Any other block that comes in a message (full, thin or expedited), accepted or not,
\* takes its transactions out of the orphan cache.
OtherBlock(txs) ==
    /\ Idle /\ txs # {} /\ txs \subseteq Orphans
    /\ cache' = EraseOrphans(cache, txs)
    /\ UNCHANGED <<tip, poolVars, rejectVars, peerVars, askVars, job>>

\* sendrawtransaction, which tells its caller why it was refused.
SendRawTransaction(t, v) ==
    /\ Idle /\ AcceptToMemoryPool(t, v)
    /\ UNCHANGED <<tip, rejectVars, cache, peerVars, askVars, job>>

\* The peer leaves, or SendMessages has set fDisconnect because of fShouldBan; its
\* CNode is deleted.  Its orphans stay.
DisconnectPeer(p) ==
    /\ Idle /\ p \in connected /\ (p \in Honest => p \in banned)
    /\ connected' = connected \ {p} /\ banned' = banned \ {p}
    /\ setAskFor' = [setAskFor EXCEPT ![p] = {}]
    /\ mapAskFor' = [mapAskFor EXCEPT ![p] = {}]
    /\ wanted' = [wanted EXCEPT ![p] = {}]
    /\ UNCHANGED <<tip, poolVars, rejectVars, cache, asked, job>>

OrphanLoop ==
    \/ \E o \in Tx : \/ OrphanSkipped(o) \/ OrphanAccepted(o)
                     \/ OrphanWaits(o) \/ \E v \in Refusals : OrphanRejected(o, v)
    \/ NextWork \/ FinishTx

Next ==
    \/ \E p \in Peers, t \in Announced : InvMessage(p, t)
    \/ \E p \in Peers, t \in Tx : TxMessage(p, t)
    \/ \E p \in Peers : SendMessages(p) \/ DisconnectPeer(p)
    \/ OrphanLoop
    \/ Tick
    \/ \E sent \in BOOLEAN : NewTip(sent)
    \/ \E txs \in SUBSET Tx : OtherBlock(txs)
    \/ \E t \in Tx, v \in {"accepted", "cheap"} : SendRawTransaction(t, v)

Spec == Init /\ [][Next]_vars

\* An honest peer can answer for t, and does: strong fairness of TxMessage, said without
\* computing what becomes of the transaction.
CanAnswer(p, t) == Idle /\ p \in connected /\ t \in wanted[p] \ BadScript
Answers(p, t) == CanAnswer(p, t) /\ t \notin wanted'[p] /\ p \in connected'

\* The message thread finishes what it began and goes round its peers again and
\* again, the clock goes on meanwhile, and an honest peer answers a GETDATA.  Strong
\* fairness, since all of them must wait while the loop of another message runs.
Fairness ==
    /\ WF_vars(OrphanLoop) /\ SF_vars(Tick)
    /\ \A p \in Honest : SF_vars(SendMessages(p))
    /\ \A p \in Honest, t \in Announced : <>[]~CanAnswer(p, t) \/ []<><<Answers(p, t)>>_vars

FairSpec == Spec /\ Fairness

-----------------------------------------------------------------------------
(* Properties.                                                             *)

\* Every variable has its type; in particular only peers the node knows are banned
\* (Misbehaving looks a peer up that may have left).
TypeOK ==
    /\ tip \in 1 .. Len(Tips) /\ rejectsTip \in 1 .. tip
    /\ pool \subseteq Tx /\ evicted \subseteq Tx /\ rejects \subseteq Tx /\ passing \subseteq rejects
    /\ Orphans \subseteq Tx /\ \A t \in Orphans : cache.from[t] \in Peers
    /\ \A q \in DOMAIN cache.byPrev : cache.byPrev[q] \subseteq Tx
    /\ connected \subseteq Peers /\ banned \subseteq connected
    /\ setAskFor \in [Peers -> SUBSET Tx] /\ wanted \in [Peers -> SUBSET Tx]
    /\ \A p \in Peers : mapAskFor[p] \subseteq Tx \X Nat
    /\ DOMAIN asked \subseteq Tx
    /\ \A t \in DOMAIN asked : asked[t] \in Int /\ asked[t] >= -Retry
    /\ job.work \in Seq(Tx) /\ job.todo \subseteq Tx /\ job.erase \subseteq Tx

\* m_mapOrphanTransactionsByPrev lists exactly the orphans, under every transaction
\* they spend from, and no empty set: otherwise fetchTransactionsByPrev throws or an
\* orphan is never found again.
PrevIndexExact ==
    /\ DOMAIN cache.byPrev = UNION {Prevs(t) : t \in Orphans}
    /\ \A q \in DOMAIN cache.byPrev : cache.byPrev[q] = {t \in Orphans : q \in Prevs(t)}

\* However orphans come and go, there are never more than -maxorphantx.
OrphansBounded == Cardinality(Orphans) <= Limit

\* The orphan cache as a whole.
CacheExact == PrevIndexExact /\ OrphansBounded

\* A transaction that was refused for what it is, for the chain or for a conflict with
\* the pool is kept from being fetched only while AcceptToMemoryPool would still not take
\* it, whatever blocks come, unless its conflict was evicted or has expired: the filter
\* is emptied in time.  (Nothing of the kind holds for passing: one refused for its fee
\* is not fetched again before the next block, whatever happens to fees and limits.)
\* (With the types of all variables.)
RejectsJustified ==
    /\ TypeOK
    /\ \A t \in RejectsNow \ passing :
          \/ Verdict(t) # "accepted"
          \/ \E u \in evicted \ pool : Spends[u] \cap Spends[t] # {}

\* An honest peer is never sent a second GETDATA for what it still owes, nor is
\* one scheduled, and what it owes is remembered as asked for.
HonestAskedOnce ==
    \A p \in Honest : /\ wanted[p] \cap Pending(p) = {}
                      /\ wanted[p] \cup Pending(p) \subseteq setAskFor[p]

\* When the TX handler returns, no orphan is left that waited for a transaction
\* accepted meanwhile and now has all it needs, in whatever order the orphans were
\* tried and whatever made room in the pool, unless the peer it came from has misbehaved.
OrphansResolved ==
    [][~Idle /\ job' = NoJob =>
          \A o \in DOMAIN cache'.from :
             \/ \A k \in 1 .. Len(job.work) : job.work[k] \notin Prevs(o)
             \/ MissingInputs(o)
             \/ cache.from[o] \in job.bad]_vars

\* What an honest peer is to be asked for is settled: it is asked and answers, or
\* the node has it when its turn comes.
HonestSettled ==
    \A p \in Honest, t \in Announced : t \in setAskFor[p] ~> t \notin setAskFor[p]

=============================================================================
