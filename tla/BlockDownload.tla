--------------------------- MODULE BlockDownload ---------------------------
(***************************************************************************)
(* Which block is requested from which peer (src/main.cpp): CNodeState,    *)
(* mapBlocksInFlight and the counters kept beside them, the handlers of    *)
(* INV, HEADERS and BLOCK messages, the download part of SendMessages with *)
(* the stalling and timeout rules, and peers that come and go.             *)
(*                                                                         *)
(* A peer is a NodeId and connects once.  All headers and blocks are valid *)
(* and nothing is pruned (see BlockTree for the rest).  Time is left out:  *)
(* a timeout may strike whenever the code could let it.  Thin blocks are   *)
(* switched off.                                                           *)
(***************************************************************************)
EXTENDS Integers, Sequences, FiniteSets, SequencesExt, FiniteSetsExt

CONSTANTS
    Blocks, Genesis, Parent, Anc, Height,
    Peers,
    Preferred,   \* the peers that are outbound or whitelisted
    Honest,      \* the peers that stay, answer, and answer in time
    RecentHeight,    \* blocks from this height on are less than a few hours old
    MaxBehind,       \* how many blocks behind the headers still counts as synced
    MaxInTransit,    \* MAX_BLOCKS_IN_TRANSIT_PER_PEER
    Window,          \* BLOCK_DOWNLOAD_WINDOW
    None

ASSUME DownloadAssumption ==
    /\ Genesis \in Blocks /\ None \notin Blocks \cup Peers
    /\ Anc \in [Blocks -> SUBSET Blocks] /\ Height \in [Blocks -> Nat]
    /\ Anc[Genesis] = {Genesis} /\ Height[Genesis] = 0
    /\ \A b \in Blocks \ {Genesis} : /\ Parent[b] \in Blocks
                                     /\ Anc[b] = {b} \cup Anc[Parent[b]]
                                     /\ Height[b] = Height[Parent[b]] + 1
    /\ IsFiniteSet(Peers) /\ Preferred \subseteq Peers /\ Honest \subseteq Peers
    /\ RecentHeight \in Nat /\ MaxBehind \in Nat
    /\ MaxInTransit \in Nat \ {0} /\ Window \in Nat \ {0}

VARIABLES
    headers,     \* Blocks::indexMap
    have,        \* the blocks with BLOCK_HAVE_DATA
    tip,         \* chainActive.Tip()
    ibdOver,     \* lockIBDState of IsInitialBlockDownload
    status,      \* of a peer: "new", "connected", "ready" (VERSION seen), "gone"
    leaving,     \* the peers with fDisconnect
    best,        \* pindexBestKnownBlock
    unknown,     \* hashLastUnknownBlock
    common,      \* pindexLastCommonBlock
    sync,        \* the peers with fSyncStarted
    counts,      \* nSyncStarted, nPreferredDownload
    asked,       \* the peers that owe an answer to GETHEADERS
    dl           \* what MarkBlockAsInFlight and MarkBlockAsReceived maintain

peerVars  == <<status, leaving, best, unknown, common>>
vars == <<headers, have, tip, ibdOver, peerVars, sync, counts, asked, dl>>

\* dl.inFlight is mapBlocksInFlight; dl.queue is vBlocksInFlight; dl.nBlocks,
\* dl.nValid and dl.peers are nBlocksInFlight, nBlocksInFlightValidHeaders and
\* nPeersWithValidatedDownloads; dl.stalling are the peers with nStallingSince.
Init ==
    /\ headers = {Genesis} /\ have = {Genesis} /\ tip = Genesis /\ ibdOver = FALSE
    /\ status = [p \in Peers |-> "new"] /\ leaving = {}
    /\ best = [p \in Peers |-> None]
    /\ unknown = [p \in Peers |-> None]
    /\ common = [p \in Peers |-> None]
    /\ sync = {} /\ counts = [sync |-> 0, preferred |-> 0] /\ asked = {}
    /\ dl = [inFlight |-> [b \in Blocks |-> None], queue |-> [p \in Peers |-> <<>>],
             nBlocks |-> [p \in Peers |-> 0], nValid |-> [p \in Peers |-> 0],
             peers |-> 0, stalling |-> {}]

Live == {p \in Peers : status[p] \in {"connected", "ready"}}
Linked(b) == Anc[b] \subseteq have
Best(B) == {b \in B : \A c \in B : Height[c] <= Height[b]}
Top == CHOOSE b \in Blocks : b \in Best(Blocks)

\* The blocks of a part of a chain, the earliest first.
InOrder(B) ==
    [i \in 1 .. Cardinality(B) |->
        CHOOSE b \in B : Cardinality({c \in B : Height[c] < Height[b]}) = i - 1]

CanDirectFetch == Height[tip] >= RecentHeight
BestHeaderIsRecent == \E b \in headers : Height[b] >= RecentHeight
CaughtUp(t, H) == /\ \E b \in H : Height[b] >= RecentHeight
                  /\ \A b \in H : Height[t] >= Height[b] - MaxBehind
IsInitialBlockDownload == ~(ibdOver \/ CaughtUp(tip, headers))

-----------------------------------------------------------------------------
(* The requests in flight, as functions of dl.                             *)

\* MarkBlockAsReceived.
\* Mutants: every request counts as validated; nStallingSince is not reset.
ReceivedUncounted(d, b) ==
    LET p == d.inFlight[b]
        i == CHOOSE i \in DOMAIN d.queue[p] : d.queue[p][i].hash = b
    IN  IF p = None THEN d
        ELSE [d EXCEPT !.nValid[p] = @ - 1, !.queue[p] = RemoveAt(@, i),
                       !.peers = IF d.queue[p][i].valid = 1 /\ d.nValid[p] = 1 THEN @ - 1 ELSE @,
                       !.nBlocks[p] = @ - 1, !.stalling = @ \ {p}, !.inFlight[b] = None]
ReceivedStalling(d, b) ==
    LET p == d.inFlight[b]
        i == CHOOSE i \in DOMAIN d.queue[p] : d.queue[p][i].hash = b
        v == d.queue[p][i].valid
    IN  IF p = None THEN d
        ELSE [d EXCEPT !.nValid[p] = @ - v,
                       !.peers = IF v = 1 /\ d.nValid[p] = 1 THEN @ - 1 ELSE @,
                       !.queue[p] = RemoveAt(@, i), !.nBlocks[p] = @ - 1,
                       !.inFlight[b] = None]

MarkBlockAsReceived(d, b) ==
    LET p == d.inFlight[b]
        i == CHOOSE i \in DOMAIN d.queue[p] : d.queue[p][i].hash = b
        v == d.queue[p][i].valid
    IN  IF p = None THEN d
        ELSE [d EXCEPT !.nValid[p] = @ - v,
                       !.peers = IF v = 1 /\ d.nValid[p] = 1 THEN @ - 1 ELSE @,
                       !.queue[p] = RemoveAt(@, i),
                       !.nBlocks[p] = @ - 1,
                       !.stalling = @ \ {p},
                       !.inFlight[b] = None]

\* MarkBlockAsInFlight; valid is 1 if the header is known.
MarkBlockAsInFlight(d, p, b, valid) ==
    LET r == MarkBlockAsReceived(d, b)
    IN  [r EXCEPT !.queue[p] = Append(@, [hash |-> b, valid |-> valid]),
                  !.nBlocks[p] = @ + 1,
                  !.nValid[p] = @ + valid,
                  !.peers = IF valid = 1 /\ r.nValid[p] = 0 THEN @ + 1 ELSE @,
                  !.inFlight[b] = p]

RequestAll(d, p, blocks) ==
    FoldLeft(LAMBDA acc, b : MarkBlockAsInFlight(acc, p, b, 1), d, blocks)

-----------------------------------------------------------------------------
(* Peers.                                                                  *)

InitializeNode(p) ==
    /\ status[p] = "new"
    /\ status' = [status EXCEPT ![p] = "connected"]
    /\ UNCHANGED <<headers, have, tip, ibdOver, leaving, best, unknown, common, sync, counts, asked, dl>>

\* VERSION: UpdatePreferredDownload.
Version(p) ==
    /\ status[p] = "connected" /\ p \notin leaving
    /\ status' = [status EXCEPT ![p] = "ready"]
    /\ counts' = [counts EXCEPT !.preferred = IF p \in Preferred THEN @ + 1 ELSE @]
    /\ UNCHANGED <<headers, have, tip, ibdOver, leaving, best, unknown, common, sync, asked, dl>>

\* What FinalizeNode leaves of dl.
\* Mutants: nPeersWithValidatedDownloads is not reduced; mapBlocksInFlight is kept.
ReleasedPeerKept(p) ==
    [dl EXCEPT !.inFlight = [b \in Blocks |-> IF @[b] = p THEN None ELSE @[b]],
               !.queue[p] = <<>>, !.nBlocks[p] = 0, !.nValid[p] = 0,
               !.stalling = @ \ {p}]
ReleasedQueueOnly(p) ==
    [dl EXCEPT !.peers = IF dl.nValid[p] # 0 THEN @ - 1 ELSE @,
               !.queue[p] = <<>>, !.nBlocks[p] = 0, !.nValid[p] = 0,
               !.stalling = @ \ {p}]
Released(p) ==
    [dl EXCEPT !.inFlight = [b \in Blocks |->
                    IF \E i \in DOMAIN dl.queue[p] : dl.queue[p][i].hash = b
                    THEN None ELSE @[b]],
               !.peers = IF dl.nValid[p] # 0 THEN @ - 1 ELSE @,
               !.queue[p] = <<>>, !.nBlocks[p] = 0, !.nValid[p] = 0,
               !.stalling = @ \ {p}]

\* The connection is closed, by either side, and the CNode deleted: mapNodeState
\* forgets the peer.
FinalizeNode(p) ==
    /\ p \in Live /\ (p \in leaving \/ p \notin Honest)
    /\ status' = [status EXCEPT ![p] = "gone"]
    /\ leaving' = leaving \ {p}
    /\ counts' = [sync |-> counts.sync - (IF p \in sync THEN 1 ELSE 0),
                  preferred |-> counts.preferred -
                                (IF status[p] = "ready" /\ p \in Preferred THEN 1 ELSE 0)]
    /\ sync' = sync \ {p}
    /\ dl' = Released(p)
    /\ best' = [best EXCEPT ![p] = None]
    /\ unknown' = [unknown EXCEPT ![p] = None]
    /\ common' = [common EXCEPT ![p] = None]
    /\ asked' = asked \ {p}
    /\ UNCHANGED <<headers, have, tip, ibdOver>>

-----------------------------------------------------------------------------
(* Messages.                                                               *)

Better(b, old) == old = None \/ Height[b] >= Height[old]

\* ProcessBlockAvailability, with the headers H in the index: the new best block
\* and last unknown block of p.
ProcessBlockAvailability(p, H) ==
    IF unknown[p] \in H
    THEN <<IF Better(unknown[p], best[p]) THEN unknown[p] ELSE best[p], None>>
    ELSE <<best[p], unknown[p]>>

\* UpdateBlockAvailability.
UpdateBlockAvailability(p, b, H) ==
    LET now == ProcessBlockAvailability(p, H)
    IN  /\ best' = [best EXCEPT ![p] = IF b \in H /\ Better(b, now[1]) THEN b ELSE now[1]]
        /\ unknown' = [unknown EXCEPT ![p] = IF b \in H THEN now[2] ELSE b]

\* INV for a block.  An unknown block is requested at once when we are close to
\* being synced.
Inv(p, b) ==
    /\ status[p] = "ready" /\ p \notin leaving
    /\ UpdateBlockAvailability(p, b, headers)
    /\ IF b \in headers \/ dl.inFlight[b] # None THEN UNCHANGED <<asked, dl>>
       ELSE /\ asked' = asked \cup {p}
            /\ dl' = IF CanDirectFetch /\ dl.nBlocks[p] < MaxInTransit
                     THEN MarkBlockAsInFlight(dl, p, b, 0) ELSE dl
    /\ UNCHANGED <<headers, have, tip, ibdOver, status, leaving, common, sync, counts>>

\* The blocks the handler of HEADERS wants on the way to b, the earliest first.  It
\* walks back from b until it meets chainActive or has one more than fits, and in
\* the second case wants nothing, unless chainActive is met just then.
DirectFetch(b) ==
    LET wanted == {x \in Anc[b] \ Anc[tip] : x \notin have /\ dl.inFlight[x] = None}
        Above(x) == {y \in wanted : Height[y] > Height[x]}
    IN  IF \E x \in wanted : Cardinality(Above(x)) = MaxInTransit /\ Parent[x] \notin Anc[tip]
        THEN <<>>
        ELSE InOrder(wanted)

\* HEADERS up to b, from a point that we know; an honest peer sends all it has.
Headers(p, b) ==
    /\ status[p] = "ready" /\ p \notin leaving
    /\ p \in Honest => b = Top
    /\ headers' = headers \cup Anc[b]
    /\ UpdateBlockAvailability(p, b, headers')
    /\ asked' = asked \ {p}
    /\ dl' = IF CanDirectFetch /\ Height[tip] <= Height[b]
             THEN RequestAll(dl, p, SubSeq(DirectFetch(b), 1,
                      Min({Len(DirectFetch(b)), MaxInTransit - dl.nBlocks[p]})))
             ELSE dl
    /\ UNCHANGED <<have, tip, ibdOver, status, leaving, common, sync, counts>>

\* BLOCK, from any peer: ProcessNewBlock.  The block is removed from the requests
\* before it is looked at; it is kept if it was requested, or has more work than the
\* tip; then the best chain is activated.  The sender of a damaged block is banned
\* (Misbehaving, then SendMessages).
\* Mutant: only the peer it was requested from can deliver it.
ReceivedFrom(d, p, b) == IF d.inFlight[b] = p THEN MarkBlockAsReceived(d, b) ELSE d
ReceivedFromAny(d, p, b) == MarkBlockAsReceived(d, b)

Block(p, b, intact) ==
    /\ status[p] = "ready" /\ p \notin leaving
    /\ intact \/ p \notin Honest
    /\ leaving' = IF intact THEN leaving ELSE leaving \cup {p}
    /\ dl' = ReceivedFromAny(dl, p, b)
    /\ IF ~intact \/ Parent[b] \notin headers THEN UNCHANGED <<headers, have, tip>>
       ELSE /\ headers' = headers \cup {b}
            /\ have' = IF dl.inFlight[b] # None \/ Height[b] > Height[tip]
                       THEN have \cup {b} ELSE have
            /\ LET linked == {c \in Blocks : Anc[c] \subseteq have'}
               IN  IF \E c \in linked : Height[c] > Height[tip]
                   THEN tip' \in Best(linked) ELSE tip' = tip
    /\ ibdOver' = (ibdOver \/ CaughtUp(tip', headers'))
    /\ UNCHANGED <<status, best, unknown, common, sync, counts, asked>>

-----------------------------------------------------------------------------
(* SendMessages.                                                           *)

\* LastCommonAncestor.
LastCommonAncestor(a, b) == CHOOSE c \in Anc[a] \cap Anc[b] : c \in Best(Anc[a] \cap Anc[b])

\* The walk of FindNextBlocksToDownload over the blocks after from: what to fetch,
\* the last common block, and who keeps the window from moving.
BeyondWindow(x, from) == Height[x] > Height[from] + Window

\* What it makes of one block: the fields are vBlocks, pindexLastCommonBlock, waitingfor,
\* nodeStaller and whether it has returned.
WalkStep(p, from, count, w, x) ==
    IF w.done THEN w
    ELSE IF x \in have \cup Anc[tip]
         THEN [w EXCEPT !.common = IF Linked(x) THEN x ELSE @]
    ELSE IF dl.inFlight[x] # None
         THEN [w EXCEPT !.waitingfor = IF @ = None THEN dl.inFlight[x] ELSE @]
    ELSE IF BeyondWindow(x, from)
         THEN [w EXCEPT !.done = TRUE,
                        !.staller = IF w.fetch = <<>> /\ w.waitingfor # p
                                    THEN w.waitingfor ELSE None]
    ELSE [w EXCEPT !.fetch = Append(@, x), !.done = Len(w.fetch) + 1 = count]

NewWalk(from) == [fetch |-> <<>>, common |-> from, waitingfor |-> None,
                  staller |-> None, done |-> FALSE]

\* The blocks it looks at.
Ahead(to, from) == {x \in Anc[to] : /\ Height[x] > Height[from]
                                    /\ Height[x] <= Height[from] + Window + 1}

Walk(p, to, from, count) ==
    FoldLeft(LAMBDA w, x : WalkStep(p, from, count, w, x), NewWalk(from),
             InOrder(Ahead(to, from)))

\* FindNextBlocksToDownload for p, whose best known block is known.
FindNextBlocksToDownload(p, known, count) ==
    LET guess == CHOOSE x \in Anc[tip] : Height[x] = Min({Height[known], Height[tip]})
        from  == LastCommonAncestor(IF common[p] = None THEN guess ELSE common[p], known)
    IN  Walk(p, known, from, count)

\* SendMessages, for a peer whose VERSION was seen: header sync is started, a peer
\* that stalls or is late is dropped (late says whether the time is up), or blocks
\* are requested from it.
MayFetch(p) == p \in Preferred \/ counts.preferred = 0
StartsSync(p) == p \notin sync /\ ((counts.sync = 0 /\ MayFetch(p)) \/ BestHeaderIsRecent)
\* Mutant: only stalling counts.
OverdueStalling(p) == p \in dl.stalling
Overdue(p) == p \in dl.stalling \/ dl.queue[p] # <<>>

\* The getdata part: what p asks for next, if it has more work than we do.
Download(p, now) ==
    IF now[1] = None \/ Height[IF now[1] = None THEN tip ELSE now[1]] < Height[tip]
    THEN UNCHANGED <<common, dl>>
    ELSE \E walk \in {FindNextBlocksToDownload(p, now[1], MaxInTransit - dl.nBlocks[p])} :
            /\ common' = [common EXCEPT ![p] = walk.common]
            /\ dl' = IF dl.nBlocks[p] = 0 /\ walk.fetch = <<>> /\ walk.staller # None
                     THEN [dl EXCEPT !.stalling = @ \cup {walk.staller}]
                     ELSE RequestAll(dl, p, walk.fetch)

SendMessages(p, late) ==
    /\ status[p] = "ready" /\ p \notin leaving
    /\ late => Overdue(p) /\ p \notin Honest
    /\ sync' = IF StartsSync(p) THEN sync \cup {p} ELSE sync
    /\ counts' = [counts EXCEPT !.sync = IF StartsSync(p) THEN @ + 1 ELSE @]
    /\ asked' = IF StartsSync(p) THEN asked \cup {p} ELSE asked
    /\ leaving' = IF late THEN leaving \cup {p} ELSE leaving
    /\ \E now \in {ProcessBlockAvailability(p, headers)} :
          /\ best' = [best EXCEPT ![p] = now[1]]
          /\ unknown' = [unknown EXCEPT ![p] = now[2]]
          /\ IF \/ late \/ ~(MayFetch(p) \/ ~IsInitialBlockDownload)
                \/ dl.nBlocks[p] >= MaxInTransit
             THEN UNCHANGED <<common, dl>> ELSE Download(p, now)
    /\ ibdOver' = ~IsInitialBlockDownload
    /\ UNCHANGED <<headers, have, tip, status>>

Next ==
    \E p \in Peers :
        \/ InitializeNode(p) \/ Version(p) \/ FinalizeNode(p)
        \/ \E late \in BOOLEAN : SendMessages(p, late)
        \/ \E b \in Blocks \ {Genesis} :
              \/ Inv(p, b) \/ Headers(p, b)
              \/ \E intact \in BOOLEAN : Block(p, b, intact)

Spec == Init /\ [][Next]_vars

-----------------------------------------------------------------------------
(* Properties.                                                             *)

PerPeer(T) == [Peers -> T]

\* Every variable has its type; the counters are never negative.
TypeOK ==
    /\ headers \subseteq Blocks /\ have \subseteq headers /\ tip \in have /\ ibdOver \in BOOLEAN
    /\ status \in PerPeer({"new", "connected", "ready", "gone"}) /\ leaving \subseteq Live
    /\ best \in PerPeer(headers \cup {None})
    /\ unknown \in PerPeer(Blocks \cup {None})
    /\ common \in PerPeer(headers \cup {None})
    /\ sync \subseteq Peers /\ asked \subseteq Peers
    /\ counts \in [sync : Nat, preferred : Nat]
    /\ dl.inFlight \in [Blocks -> Peers \cup {None}]
    /\ \A p \in Peers : \A i \in DOMAIN dl.queue[p] :
          dl.queue[p][i] \in [hash : Blocks, valid : {0, 1}]
    /\ dl.nBlocks \in PerPeer(Nat) /\ dl.nValid \in PerPeer(Nat)
    /\ dl.peers \in Nat /\ dl.stalling \subseteq Peers

\* mapBlocksInFlight and the queues of the peers always describe the same requests:
\* each block is in the queue of the peer the map names, once, and in no other, and
\* only peers that are still known are named.  When the last peer is gone the map
\* is empty, as FinalizeNode asserts.
InFlightExact ==
    /\ \A p \in Peers : \A i, j \in DOMAIN dl.queue[p] :
          /\ dl.inFlight[dl.queue[p][i].hash] = p
          /\ dl.queue[p][i].hash = dl.queue[p][j].hash => i = j
    /\ \A b \in Blocks : LET p == dl.inFlight[b] IN p # None =>
          p \in Live /\ \E i \in DOMAIN dl.queue[p] : dl.queue[p][i].hash = b

\* Every counter is the number it stands for; nPreferredDownload and
\* nPeersWithValidatedDownloads are 0 when the last peer is gone, as FinalizeNode
\* asserts.
CountersExact ==
    /\ \A p \in Peers :
          /\ dl.nBlocks[p] = Len(dl.queue[p])
          /\ dl.nValid[p] = Cardinality({i \in DOMAIN dl.queue[p] : dl.queue[p][i].valid = 1})
    /\ dl.peers = Cardinality({p \in Live : dl.nValid[p] > 0})
    /\ counts.preferred = Cardinality({p \in Preferred : status[p] = "ready"})
    /\ counts.sync = Cardinality(sync)

\* No peer has more than MAX_BLOCKS_IN_TRANSIT_PER_PEER requests, whichever handler
\* made them, and nothing we have is asked for.
RequestsUseful ==
    /\ \A p \in Peers : Len(dl.queue[p]) <= MaxInTransit
    /\ \A b \in have : dl.inFlight[b] = None

\* What mapBlocksInFlight, the queues of the peers and the counters say is one and the
\* same, within the limits, and nothing the node has is asked for.  (With the types.)
RequestsExact == TypeOK /\ InFlightExact /\ CountersExact /\ RequestsUseful

\* A peer that is timed for stalling has a block in flight, so a peer that has
\* delivered, or whose requests were taken over, is not disconnected for it.
StallerOwesBlock == \A p \in dl.stalling : dl.queue[p] # <<>>

-----------------------------------------------------------------------------
(* Fairness: the message thread serves every peer, clocks run, sockets of  *)
(* peers marked fDisconnect are closed, and honest peers connect, announce *)
(* their best block unless they have just done so, and answer.             *)

Fairness ==
    /\ \A p \in Peers : /\ WF_vars(SendMessages(p, FALSE))
                        /\ WF_vars(SendMessages(p, TRUE))
                        /\ WF_vars(p \in leaving /\ FinalizeNode(p))
    /\ \A p \in Honest : /\ WF_vars(InitializeNode(p)) /\ WF_vars(Version(p))
                         /\ WF_vars(Top \notin {best[p], unknown[p]} /\ Inv(p, Top))
                         /\ WF_vars(p \in asked /\ Headers(p, Top))
                         /\ WF_vars(\E i \in DOMAIN dl.queue[p] :
                                        Block(p, dl.queue[p][i].hash, TRUE))

FairSpec == Spec /\ Fairness

\* With an honest, preferred peer the node gets to the best chain, whatever the
\* other peers announce, withhold or damage: requests that are not answered are
\* taken back.
EventuallySynced == <>[](tip = Top)

=============================================================================
