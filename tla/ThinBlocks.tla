----------------------------- MODULE ThinBlocks ------------------------------
(***************************************************************************)
(* Xtreme thin blocks (src/thinblock.cpp, src/main.cpp): which peer is     *)
(* asked for a thin block and which for a full one, how a thin block is    *)
(* put together from the transactions the node has and those it asks for   *)
(* again, and expedited blocks.                                            *)
(*                                                                         *)
(* The node is synchronised and new blocks 1, 2, ... come on top of each   *)
(* other, all valid, no more than the two headers IsChainNearlySyncd       *)
(* allows.  The handlers run in the message thread, one after the other;   *)
(* submitblock runs in another.  What mempool and orphan cache hold of a   *)
(* block when process() looks is left open, as is what they lose between   *)
(* its snapshot of them and its lookups.  Of the transactions of a block   *)
(* the coinbase, which is always sent, is left out, and two transactions   *)
(* have different cheap hashes.  Peers that are honest run this code, the  *)
(* others send anything; a peer connects once.                             *)
(***************************************************************************)
EXTENDS Integers, Sequences, FiniteSets

CONSTANTS
    Height,    \* how many blocks there are
    Txs,       \* the transactions of each
    Peers,
    Honest,    \* the peers that answer in time, and rightly
    Upstream,  \* those of them that send expedited blocks
    MaxOther,  \* bound: how many messages the other peers send, submitblock included
    None

Blocks == 1 .. Height
Tx == UNION {Txs[b] : b \in Blocks}

ASSUME ThinAssumption ==
    /\ Height \in 1 .. 2 /\ DOMAIN Txs = Blocks /\ IsFiniteSet(Tx)
    /\ Honest \subseteq Peers /\ Upstream \subseteq Honest /\ None \notin Peers
    /\ MaxOther \in Nat

VARIABLES
    capable,    \* the peers with NODE_XTHIN
    status,     \* of a peer: "up", "leaving" (fDisconnect), "gone"
    headers,    \* the highest block in Blocks::indexMap
    stored,     \* the blocks with BLOCK_HAVE_DATA
    best,       \* pindexBestKnownBlock of each peer, 0 if none
    unknown,    \* hashLastUnknownBlock of each peer, 0 if none
    recent,     \* xpeditedBlkSent
    dl,         \* what is requested
    others,     \* how many messages other peers have sent, and how many submitblock
    confused,   \* (history) a thin block was lost to, or filled up for, another
    submitted   \* (history) the blocks that submitblock brought

vars == <<capable, status, headers, stored, best, unknown, recent, dl, others, confused,
          submitted>>

\* thinBlock of a peer as far as XBLOCKTX can tell: the block, the null entries of vtx,
\* and whether the hashes are those of the block.
NoThin == [block |-> 0, missing |-> {}, right |-> TRUE]

\* dl.inFlight is mapBlocksInFlight, dl.slot are the mapThinBlocksInFlight of the peers,
\* dl.waiting their thinBlockWaitingForTxns, dl.timer is mapThinBlockTimer; dl.owes is
\* what an honest peer was asked for and has not answered.
Init ==
    /\ capable \in {C \in SUBSET Peers : Peers \ Honest \subseteq C}
    /\ status = [p \in Peers |-> "up"]
    /\ headers = 0 /\ stored = {}
    /\ best = [p \in Peers |-> 0] /\ unknown = [p \in Peers |-> 0]
    /\ recent = {}
    /\ dl = [inFlight |-> [b \in Blocks |-> None], slot |-> [p \in Peers |-> {}],
             thin |-> [p \in Peers |-> NoThin], waiting |-> [p \in Peers |-> -1],
             timer |-> [b \in Blocks |-> "none"], owes |-> [p \in Peers |-> <<>>]]
    /\ others = 0 /\ confused = FALSE /\ submitted = {}

Up(p) == status[p] = "up"
OneMore == others < MaxOther /\ others' = others + 1
\* p sends a message, of which an honest peer sends only those that fit.
Sends(p, fits) ==
    /\ Up(p)
    /\ \/ p \in Honest /\ fits /\ UNCHANGED others
       \/ p \notin Honest /\ OneMore
Max2(a, b) == IF a > b THEN a ELSE b

-----------------------------------------------------------------------------
(* Requests, as functions of dl.                                           *)

Asked(type, b, txs) == [type |-> type, block |-> b, txs |-> txs]
Owe(d, p, r) == IF p \in Honest THEN [d EXCEPT !.owes[p] = Append(@, r)] ELSE d
\* The first request of an honest peer is answered.
Answered(d, p) == IF p \in Honest THEN [d EXCEPT !.owes[p] = Tail(@)] ELSE d
First(p) == IF dl.owes[p] = <<>> THEN Asked("none", 0, {}) ELSE Head(dl.owes[p])

HaveThinblockNodes == \E p \in capable : status[p] # "gone"

\* The mistake of a timer that does not end.
ThinOnlyAlways(d, b) == HaveThinblockNodes
\* HaveThinblockNodes() && CheckThinblockTimer(): nothing but a thin block will do.
ThinOnly(d, b) == HaveThinblockNodes /\ d.timer[b] # "over"

\* The block is requested from p in the way it should, if it is (INV, SendMessages).
Request(d, p, b) ==
    LET t == [d EXCEPT !.timer[b] = IF @ = "none" /\ HaveThinblockNodes THEN "running" ELSE @]
    IN  IF p \in capable /\ d.slot[p] = {}
        THEN Owe([t EXCEPT !.slot[p] = {b}, !.inFlight[b] = p], p, Asked("xthin", b, {}))
        ELSE IF ThinOnly(d, b) THEN t
        ELSE Owe([t EXCEPT !.inFlight[b] = p], p, Asked("block", b, {}))

\* MarkBlockAsReceived
Received(d, b) == [d EXCEPT !.inFlight[b] = None]

\* The mistakes of leaving thinBlockWaitingForTxns alone, and of looking only at the
\* peer that sent the block.
ClearedSlots(d, p, h) ==
    [d EXCEPT !.slot = [q \in Peers |-> @[q] \ {h}],
              !.thin = [q \in Peers |-> IF h \in d.slot[q] THEN NoThin ELSE @[q]],
              !.timer[h] = "none"]
ClearedSender(d, p, h) ==
    [d EXCEPT !.slot[p] = @ \ {h}, !.waiting[p] = -1, !.thin[p] = NoThin, !.timer[h] = "none"]
\* The end of HandleBlockMessage, for a message of p about h: whoever it was requested
\* from.
Cleared(d, p, h) ==
    [d EXCEPT !.slot = [q \in Peers |-> @[q] \ {h}],
              !.waiting = [q \in Peers |-> IF h \in d.slot[q] THEN -1 ELSE @[q]],
              !.thin = [q \in Peers |-> IF h \in d.slot[q] THEN NoThin ELSE @[q]],
              !.timer[h] = "none"]

-----------------------------------------------------------------------------
(* HandleBlockMessage and process.                                         *)

\* AcceptBlockHeader finds the parent of b, or (the mistake) does not look.
ParentAny(b) == TRUE
ParentKnown(b) == b <= headers + 1

\* A block b has come from p, rightly put together or not, in a message about h:
\* ProcessNewBlock, which keeps it if its parent is known, and the rest of
\* HandleBlockMessage.  A damaged block costs the peer its connection.
HandleBlockMessage(d, p, b, right, h) ==
    /\ dl' = Cleared(Received(d, b), p, h)
    /\ stored' = IF right /\ ParentKnown(b) THEN stored \cup {b} ELSE stored
    /\ headers' = IF right /\ b = headers + 1 THEN b ELSE headers
    /\ status' = IF right THEN status ELSE [status EXCEPT ![p] = "leaving"]

\* process() begins by forgetting the thin block it was at.
Forgets(d, p, b) == d.thin[p].missing # {} /\ d.thin[p].block \in d.slot[p] \ {b}

\* (Partly) put together it is larger than the node accepts; the peer may be banned.
OverLimit(d, p, b) ==
    /\ p \notin Honest
    /\ dl' = [d EXCEPT !.slot[p] = @ \ {b}, !.waiting[p] = -1, !.thin[p] = NoThin]
    /\ status' \in {status, [status EXCEPT ![p] = "leaving"]}
    /\ UNCHANGED <<stored, headers>>

\* Nothing is missing, but the Merkle root is another: it stays in flight.
WrongRoot(d, p, b, right, missing) ==
    /\ missing = {} /\ ~right
    /\ dl' = [d EXCEPT !.waiting[p] = -1, !.thin[p] = NoThin]
    /\ UNCHANGED <<stored, headers, status>>

Complete(d, p, b, right, missing) ==
    /\ missing = {} /\ right
    /\ HandleBlockMessage([d EXCEPT !.waiting[p] = -1, !.thin[p] = NoThin], p, b, TRUE, b)

\* GET_XBLOCKTX asks for what is missing.
Incomplete(d, p, b, right, missing) ==
    /\ missing # {}
    /\ dl' = Owe([d EXCEPT !.waiting[p] = Cardinality(missing),
                           !.thin[p] = [block |-> b, missing |-> missing, right |-> right]],
                 p, Asked("tx", b, missing))
    /\ UNCHANGED <<stored, headers, status>>

Process(d, p, b, right, missing) ==
    /\ \/ OverLimit(d, p, b)
       \/ WrongRoot(d, p, b, right, missing)
       \/ Complete(d, p, b, right, missing)
       \/ Incomplete(d, p, b, right, missing)
    /\ confused' = (confused \/ Forgets(d, p, b))

-----------------------------------------------------------------------------
(* Announcements.                                                          *)

\* ProcessBlockAvailability with H headers.  SendMessages calls it too; as the result is
\* the same whenever it is called, here it is computed where it is used.
BestKnown(p, H) == IF unknown[p] \in 1 .. H THEN Max2(best[p], unknown[p]) ELSE best[p]
StillUnknown(p, H) == IF unknown[p] \in 1 .. H THEN 0 ELSE unknown[p]

\* UpdateBlockAvailability
UpdateBlockAvailability(p, b, H) ==
    /\ best' = [best EXCEPT ![p] = IF b <= H THEN Max2(b, BestKnown(p, H)) ELSE BestKnown(p, H)]
    /\ unknown' = [unknown EXCEPT ![p] = IF b <= H THEN StillUnknown(p, H) ELSE b]

\* INV.  An honest peer announces a block once.
Inv(p, b) ==
    /\ Sends(p, b > best[p] /\ b > unknown[p])
    /\ UpdateBlockAvailability(p, b, headers)
    /\ dl' = IF b <= headers \/ dl.inFlight[b] # None THEN dl
             ELSE Request(Owe(dl, p, Asked("headers", b, {})), p, b)
    /\ UNCHANGED <<capable, status, headers, stored, recent, confused, submitted>>

\* HEADERS up to b.  With thin blocks nothing is fetched here.
Headers(p, b) ==
    /\ Sends(p, First(p) = Asked("headers", b, {}))
    /\ headers' = Max2(headers, b)
    /\ UpdateBlockAvailability(p, b, headers')
    /\ dl' = Answered(dl, p)
    /\ UNCHANGED <<capable, status, stored, recent, confused, submitted>>

-----------------------------------------------------------------------------
(* Blocks.                                                                 *)

\* The mistake of dropping every thin block whose header is known.
BeatenAlways(p, b) == b <= headers
\* It was not requested or came another way meanwhile, and is known (AlreadyHave).
Beaten(p, b) == b \notin dl.slot[p] /\ b <= headers

\* XTHINBLOCK
XThinBlock(p, b, right, missing) ==
    /\ Sends(p, right /\ First(p) = Asked("xthin", b, {}))
    /\ recent' = recent \cup {b}
    /\ IF Beaten(p, b)
       THEN dl' = Answered(dl, p) /\ UNCHANGED <<stored, headers, status, confused>>
       ELSE Process(Answered(dl, p), p, b, right, missing)
    /\ UNCHANGED <<capable, best, unknown, submitted>>

\* XPEDITEDBLK
XpeditedBlk(p, b, right, missing) ==
    /\ Up(p) /\ (p \in Honest => right /\ p \in Upstream) /\ OneMore
    /\ recent' = recent \cup {b}
    /\ IF b \in recent \cup stored
       THEN UNCHANGED <<dl, stored, headers, status, confused>>
       ELSE Process(dl, p, b, right, missing)
    /\ UNCHANGED <<capable, best, unknown, submitted>>

\* A transaction without inputs and outputs has a hash like any other.  It is not in a
\* block, so that only a list of hashes that is not the block's can hold it.
NullIn(p, txs) ==
    IF p \in Honest \/ dl.thin[p].right THEN {} ELSE dl.thin[p].missing \cap txs

\* XBLOCKTX for h: looked at if h is in flight, and then applied to the thin block
\* there is.  Each entry whose hash is among those that came is counted, and stays null
\* if what came for it is.
XBlockTx(p, h, txs, null) ==
    LET d == Answered(dl, p)
        thin == dl.thin[p]
        got == thin.missing \cap txs
        waiting == dl.waiting[p] - Cardinality(got)
    IN  /\ Sends(p, First(p) = Asked("tx", h, txs))
        /\ IF thin.missing = {} \/ h \notin dl.slot[p]
           THEN dl' = d /\ UNCHANGED <<stored, headers, status, confused>>
           ELSE /\ confused' = (confused \/ (thin.block # h /\ got # {}))
                /\ IF waiting = 0
                   THEN HandleBlockMessage([d EXCEPT !.waiting[p] = -1, !.thin[p] = NoThin],
                                           p, thin.block, thin.right, h)
                   ELSE /\ dl' = [d EXCEPT !.waiting[p] = waiting,
                                           !.thin[p].missing = @ \ (txs \ null)]
                        /\ UNCHANGED <<stored, headers, status>>
        /\ UNCHANGED <<capable, best, unknown, recent, submitted>>

\* BLOCK, which may also be the answer to GET_XTHIN.
Block(p, b, right) ==
    /\ Sends(p, right /\ First(p) \in {Asked("block", b, {}), Asked("xthin", b, {})})
    /\ HandleBlockMessage(Answered(dl, p), p, b, right, b)
    /\ UNCHANGED <<capable, best, unknown, recent, confused, submitted>>

\* submitblock, in another thread, knows nothing of thin blocks.
SubmitBlock(b) ==
    /\ OneMore
    /\ b \notin stored /\ ParentKnown(b)
    /\ dl' = Received(dl, b)
    /\ stored' = stored \cup {b} /\ headers' = Max2(headers, b)
    /\ submitted' = submitted \cup {b}
    /\ UNCHANGED <<capable, status, best, unknown, recent, confused>>

-----------------------------------------------------------------------------
(* SendMessages, time, and the end of a connection.                        *)

\* The blocks FindNextBlocksToDownload finds, and the loop over them, of which there are
\* at most two.
SendMessages(p) ==
    LET next == {b \in 1 .. BestKnown(p, headers) : b \notin stored /\ dl.inFlight[b] = None}
        IfNext(d, b) == IF b \in next THEN Request(d, p, b) ELSE d
    IN  /\ Up(p)
        /\ dl' = IfNext(IfNext(dl, 1), 2)
        /\ UNCHANGED <<others, capable, status, headers, stored, best, unknown, recent, confused,
                       submitted>>

\* A block was in flight from p for too long.  An honest peer is slow only in giving
\* what it was not asked for.
Timeout(p) ==
    /\ Up(p) /\ \E b \in Blocks : dl.inFlight[b] = p
    /\ p \in Honest => dl.owes[p] = <<>>
    /\ status' = [status EXCEPT ![p] = "leaving"]
    /\ UNCHANGED <<others, capable, headers, stored, best, unknown, recent, dl, confused, submitted>>

\* The ten seconds in which a thin block is preferred are over.
TimerOver(b) ==
    /\ dl.timer[b] = "running"
    /\ dl' = [dl EXCEPT !.timer[b] = "over"]
    /\ UNCHANGED <<others, capable, status, headers, stored, best, unknown, recent, confused, submitted>>

\* The connection is closed, and FinalizeNode called.
Leave(p) ==
    /\ status[p] = "leaving" \/ (Up(p) /\ p \notin Honest)
    /\ status' = [status EXCEPT ![p] = "gone"]
    /\ dl' = [dl EXCEPT !.inFlight = [b \in Blocks |-> IF @[b] = p THEN None ELSE @[b]],
                        !.slot[p] = {}, !.thin[p] = NoThin, !.waiting[p] = -1,
                        !.owes[p] = <<>>]
    /\ best' = [best EXCEPT ![p] = 0] /\ unknown' = [unknown EXCEPT ![p] = 0]
    /\ UNCHANGED <<others, capable, headers, stored, recent, confused, submitted>>

Answer(p) ==
    \E b \in Blocks :
        \/ Headers(p, b)
        \/ \E right \in BOOLEAN : Block(p, b, right)
        \/ \E right \in BOOLEAN : \E missing \in SUBSET (IF right THEN Txs[b] ELSE Tx) :
              XThinBlock(p, b, right, missing)
        \/ \E txs \in SUBSET Tx : \E null \in SUBSET NullIn(p, txs) : XBlockTx(p, b, txs, null)

Next ==
    \/ \E p \in Peers : Answer(p)
    \/ \E p \in Peers, b \in Blocks : Inv(p, b)
    \/ \E p \in Peers, b \in Blocks, right \in BOOLEAN :
          \E missing \in SUBSET (IF right THEN Txs[b] ELSE Tx) : XpeditedBlk(p, b, right, missing)
    \/ \E p \in Peers : SendMessages(p) \/ Timeout(p) \/ Leave(p)
    \/ \E b \in Blocks : TimerOver(b) \/ SubmitBlock(b)

Spec == Init /\ [][Next]_vars

\* An honest peer that owes something gives it: the same as weak fairness of Answer, said
\* without computing what it does.
OwesSomething(p) == Up(p) /\ dl.owes[p] # <<>>
Gives(p) ==
    /\ OwesSomething(p) /\ status'[p] # "gone"
    /\ dl'.owes[p] # dl.owes[p] /\ Len(dl'.owes[p]) <= Len(dl.owes[p])

\* Clocks run, connections that are to be closed are; an honest peer answers, and the
\* message thread serves it.  Nothing is assumed of the others and of announcements.
Fairness ==
    /\ \A p \in Peers : WF_vars(Timeout(p)) /\ WF_vars(status[p] = "leaving" /\ Leave(p))
    /\ \A p \in Honest : /\ WF_vars(SendMessages(p))
                         /\ []<>~OwesSomething(p) \/ []<><<Gives(p)>>_dl
    /\ \A b \in Blocks : WF_vars(TimerOver(b))
FairSpec == Spec /\ Fairness

-----------------------------------------------------------------------------
(* Properties.                                                             *)

\* Every variable has its type; only blocks whose header is known are stored.
TypeOK ==
    /\ capable \subseteq Peers /\ status \in [Peers -> {"up", "leaving", "gone"}]
    /\ headers \in 0 .. Height /\ stored \subseteq 1 .. headers
    /\ best \in [Peers -> 0 .. headers] /\ unknown \in [Peers -> 0 .. Height]
    /\ recent \subseteq Blocks /\ others \in 0 .. MaxOther
    /\ confused \in BOOLEAN /\ submitted \subseteq stored
    /\ dl.inFlight \in [Blocks -> Peers \cup {None}]
    /\ dl.slot \in [Peers -> SUBSET Blocks]
    /\ dl.thin \in [Peers -> [block : 0 .. Height, missing : SUBSET Tx, right : BOOLEAN]]
    /\ dl.waiting \in [Peers -> Int]
    /\ dl.timer \in [Blocks -> {"none", "running", "over"}]
    /\ \A p \in Peers : \A i \in DOMAIN dl.owes[p] : dl.owes[p][i].block \in Blocks

\* thinBlockWaitingForTxns is kept apart from the block it counts for.  While the hashes
\* are those of the block it is the number of null entries of thinBlock.vtx, and -1 when
\* there is none: whatever order thin blocks, transactions and full blocks from other
\* peers come in, XBLOCKTX neither hands on such a block with holes nor misses that it is
\* complete.  With other hashes null transactions can make the count too low, by any
\* amount, but never too high; and it is never left at 0, the value that hands on the
\* block.  (With the types of all variables.)
WaitingExact ==
    /\ TypeOK
    /\ \A p \in Peers :
          LET w == dl.waiting[p]  t == dl.thin[p]
          IN  /\ t.right => w = IF t.missing = {} THEN -1 ELSE Cardinality(t.missing)
              /\ w # 0 /\ w <= Cardinality(t.missing)

\* The one slot of a peer is taken only while its block is still wanted from it, so that
\* a timeout can free it, and is given back when the block comes from somebody else;
\* except for blocks that came by submitblock.
SlotJustified ==
    ~confused =>
        \A p \in Peers : \A b \in dl.slot[p] :
            (dl.inFlight[b] = p /\ b \notin stored) \/ b \in submitted

\* While a block is in flight from an honest peer, this peer knows of a request for it
\* that it has not answered: it is not disconnected for what the node dropped or forgot
\* to ask for.
HonestNotBlamed ==
    ~confused =>
        \A p \in Honest : \A b \in Blocks : dl.inFlight[b] = p =>
            \E i \in DOMAIN dl.owes[p] :
                dl.owes[p][i].block = b /\ dl.owes[p][i].type \in {"xthin", "block", "tx"}

\* Nobody is waited for in vain: slots and requests in flight are what is still wanted
\* from a peer, and what an honest one still owes.
RequestsJustified == SlotJustified /\ HonestNotBlamed

\* A block whose header is known and that an honest peer has announced is fetched in the
\* end, by thin block or in full, whatever the other peers send or withhold.
KnownIsFetched ==
    \A p \in Honest, b \in Blocks :
        b <= BestKnown(p, headers) ~> b \in stored \/ confused

=============================================================================
