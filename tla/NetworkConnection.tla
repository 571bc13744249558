------------------------- MODULE NetworkConnection --------------------------
(***************************************************************************)
(* One outgoing connection of the NetworkManager (src/networkManager/):    *)
(* the queues of NetworkManagerConnection, how they are written to the     *)
(* socket in batches and chunks, and how the connection is made again      *)
(* after a failure.                                                        *)
(*                                                                         *)
(* All members are used on the strand, which runs its handlers one after   *)
(* the other in the order in which they came (strand).  c is the object,   *)
(* its socket and the operations that are under way; a handler is an       *)
(* operator from one value of c to the next.  boost::asio and TCP are      *)
(* external: is_open() is true from async_connect on; a second             *)
(* async_connect on such a socket fails at once, except on one whose first *)
(* attempt has failed; a write waits for the connection; close() ends what *)
(* is under way with an error, reads first.  The address is known, as      *)
(* NetworkManager::connection requires, so m_isConnecting is never seen    *)
(* set.  The incoming side, disconnect() and the end of the program are    *)
(* left out.                                                               *)
(***************************************************************************)
EXTENDS Integers, Sequences, FiniteSets, SequencesExt

CONSTANTS
    Messages,     \* the messages the user sends, each once
    Priority,     \* those sent with HighPriority
    OwnHeader,    \* those made with their header; Ping is one as well
    BodySize,     \* rawData().size() of each
    HeaderSize,   \* the size of the header made for it, or for each of its chunks
    Ping,         \* m_pingMessage
    ChunkSize,    \* CHUNK_SIZE
    BatchSize,    \* the 250 KB of runMessageQueue
    MaxQueue,     \* bound: no ping is due while more messages than this wait
    MaxReady,     \* bound: the user and the other side wait while as many handlers are
                  \* ready
    MaxHeaders,   \* bound: the other side also waits while m_sendQHeaders is longer
    MaxFaults     \* bound: how often the network fails

Sendable == Messages \cup {Ping}

ASSUME NetworkAssumption ==
    /\ Priority \subseteq Messages /\ OwnHeader \subseteq Messages /\ Ping \notin Messages
    /\ ChunkSize \in Nat \ {0} /\ BatchSize \in Nat \ {0}
    /\ MaxQueue \in Nat /\ MaxReady \in Nat \ {0}
    /\ MaxHeaders \in Nat /\ MaxFaults \in Nat
    /\ \A m \in Sendable : BodySize[m] \in Nat \ {0} /\ HeaderSize[m] \in Nat \ {0}
    /\ \A m \in Sendable : BodySize[m] > ChunkSize =>
            m \notin Priority \cup OwnHeader \cup {Ping}   \* refused by queueMessage

VARIABLES
    c,        \* the connection and its socket
    strand,   \* the handlers that are ready to run
    peer,     \* what the other side has received and sends on this connection
    unsent,   \* the messages the user has not sent yet
    faults,   \* how often something failed
    crashed,  \* an assertion failed, or memory that was freed was read
    mixed,    \* (history) what was sent on one connection was counted with another's
    lost,     \* (history) what has ended with nothing to take its place, see Lost
    turn      \* (auxiliary) changes when a handler has run; only Fairness uses it

vars == <<c, strand, peer, unsent, faults, crashed, mixed, lost, turn>>

\* Members of the object: queue, priority, sentPriority, headers (the sizes of those in
\* m_sendQHeaders), bytesSend, bytesSent, sending (m_sendingInProgress), first
\* (m_firstPacket), chunked (m_chunkedMessageId is set), stream (m_receiveStream has its
\* buffer), retry (that timer runs) and ping (what m_pingTimer will call, if it runs);
\* sound: the assertion of runMessageQueue has held.  Of asio: sock, reads (how many
\* async_receive are under way), write and total (the frames left of the async_write,
\* the bytes of all), posted (handlers that have become ready).
Idle ==
    [queue |-> <<>>, priority |-> <<>>, sentPriority |-> <<>>, headers |-> <<>>,
     bytesSend |-> 0, bytesSent |-> 0, sending |-> FALSE, first |-> TRUE,
     chunked |-> FALSE, stream |-> TRUE, retry |-> FALSE, ping |-> "off",
     sound |-> TRUE, sock |-> "closed", reads |-> 0, write |-> <<>>, total |-> 0, posted |-> <<>>]

\* The other side: the message it receives in chunks and how many it has, what it makes
\* of the stream, and whether it is in the middle of a chunked message of its own.
NewPeer == [message |-> Ping, chunks |-> 0, refused |-> FALSE, sending |-> FALSE]

Handler(name) == [name |-> name, arg |-> 0]

\* The user has called connect().
Init ==
    /\ c = Idle /\ strand = <<Handler("connect")>> /\ peer = NewPeer
    /\ unsent = Messages /\ faults = 0 /\ crashed = FALSE /\ mixed = FALSE
    /\ lost = {} /\ turn = FALSE

Post(s, h) == [s EXCEPT !.posted = Append(@, h)]
Times(n, h) == [i \in 1 .. n |-> h]
Big(m) == BodySize[m] > ChunkSize
Chunks(m) == (BodySize[m] + ChunkSize - 1) \div ChunkSize
IsOpen(s) == s.sock # "closed"

\* The bytes of the first n frames of a sequence.
Bytes(frames, n) == MapThenSumSet(LAMBDA i : frames[i].header + frames[i].body, 1 .. n)

-----------------------------------------------------------------------------
(* The socket.                                                             *)

\* What is under way ends with an error: the operations in aborted with
\* connection_aborted, the others with another one.
Failed(s, aborted) ==
    LET read == IF "read" \in aborted THEN "readAborted" ELSE "readError"
        write == IF "write" \in aborted THEN "writeAborted" ELSE "writeError"
    IN  [s EXCEPT !.reads = 0, !.write = <<>>, !.total = 0,
                  !.posted = @ \o Times(s.reads, Handler(read))
                               \o (IF s.write # <<>> THEN <<Handler(write)>> ELSE <<>>)]
\* (with operation_aborted)
SocketClose(s) == [Failed(s, {}) EXCEPT !.sock = "closed"]

AsyncConnect(s) ==
    IF s.sock \in {"closed", "failed"} THEN [s EXCEPT !.sock = "connecting"]
    ELSE Post(s, Handler("connectError"))

AsyncReceive(s) ==
    IF s.sock \in {"connecting", "up"} THEN [s EXCEPT !.reads = @ + 1]
    ELSE Post(s, Handler("readError"))

AsyncWrite(s, frames) ==
    IF s.sock \in {"connecting", "up", "eof"}
    THEN [s EXCEPT !.write = frames, !.total = Bytes(frames, Len(frames))]
    ELSE Post(s, Handler("writeError"))

-----------------------------------------------------------------------------
(* runMessageQueue.                                                        *)

\* A frame on the wire: a whole message, or its k-th chunk, and the size of the header
\* made for it, if one was.
Frame(m, k) ==
    [message |-> m, chunk |-> k,
     header |-> IF m \in OwnHeader \cup {Ping} THEN 0 ELSE HeaderSize[m],
     body |-> CASE k = 0 -> BodySize[m]
                [] k \in 1 .. Chunks(m) - 1 -> ChunkSize
                [] OTHER -> BodySize[m] - (k - 1) * ChunkSize]

\* The frames that make m when its first bytes are sent.
FramesOf(m, bytes) ==
    IF ~Big(m) THEN <<Frame(m, 0)>>
    ELSE [i \in 1 .. Chunks(m) - bytes \div ChunkSize |-> Frame(m, bytes \div ChunkSize + i)]

\* All that waits, in the order of the two loops: m_messageBytesSend is about the first
\* big message they meet.
Waiting(s) ==
    [i \in DOMAIN s.priority |-> Frame(s.priority[i], 0)]
    \o FlattenSeq([i \in DOMAIN s.queue |->
           FramesOf(s.queue[i], IF \A j \in 1 .. i - 1 : ~Big(s.queue[j])
                                THEN s.bytesSend ELSE 0)])

\* A frame is added as long as there is something left of the batch.
Batch(s) ==
    LET all == Waiting(s)
    IN  SubSeq(all, 1, Cardinality({i \in DOMAIN all : Bytes(all, i - 1) < BatchSize}))

\* The early return at the top.
MaySend(s) == ~s.sending /\ s.queue # <<>> /\ IsOpen(s)

\* The mistake of not beginning at zero again after a message is complete.
BytesSendToEnd(s, frames) ==
    LET big == SelectSeq(frames, LAMBDA f : f.chunk > 0)
    IN  IF big = <<>> THEN s.bytesSend ELSE Last(big).chunk * ChunkSize
\* How far the last big message of the batch has come.  If urgent messages fill the
\* batch, m_messageBytesSend stays as it is.
BytesSend(s, frames) ==
    LET big == SelectSeq(frames, LAMBDA f : f.chunk > 0)
    IN  CASE big = <<>> -> s.bytesSend
          [] Last(big).chunk < Chunks(Last(big).message) -> Last(big).chunk * ChunkSize
          [] OTHER -> 0

RunMessageQueue(s) ==
    LET b == Batch(s)
        taken == Min({Len(b), Len(s.priority)})
        made == SelectSeq(b, LAMBDA f : f.header > 0)
    IN  IF ~MaySend(s) THEN s
        ELSE IF s.bytesSend > BodySize[Head(s.queue)] THEN [s EXCEPT !.sound = FALSE]
        ELSE AsyncWrite([s EXCEPT !.sending = TRUE,
                                  !.sentPriority = @ \o SubSeq(s.priority, 1, taken),
                                  !.priority = SubSeq(@, taken + 1, Len(@)),
                                  !.headers = @ \o [i \in DOMAIN made |-> made[i].header],
                                  !.bytesSend = BytesSend(s, b)],
                        b)

-----------------------------------------------------------------------------
(* sentSomeBytes.                                                          *)

\* The headers made for a message, of those for the first n messages of q, and what
\* these and the messages come to, if the headers are the first in m_sendQHeaders.
HeadersOf(m) == IF Big(m) THEN Chunks(m) ELSE IF m \in OwnHeader \cup {Ping} THEN 0 ELSE 1
HeadersFor(q, n) == MapThenSumSet(LAMBDA i : HeadersOf(q[i]), 1 .. n)
SumOfHeaders(s, n) == MapThenSumSet(LAMBDA i : s.headers[i], 1 .. n)
Cost(s, q, n) ==
    SumOfHeaders(s, HeadersFor(q, n)) + MapThenSumSet(LAMBDA i : BodySize[q[i]], 1 .. n)

\* The mistake of looking at the bytes before the header is taken off.
PaidWithoutHeader(s, q, n, bytes) == MapThenSumSet(LAMBDA i : BodySize[q[i]], 1 .. n) <= bytes
\* There are bytes for the first n messages of q.
Paid(s, q, n, bytes) == Cost(s, q, n) <= bytes

\* What its loop comes to: it eats n messages, those of m_sentPriorityMessages first,
\* as long as there are headers and bytes for them; left is m_messageBytesSent after
\* it, from which the headers of a big message not complete yet are taken off.  At a
\* message that needs a header and there is none the assertion fails.
Eat(s, bytes) ==
    LET q == s.sentPriority \o s.queue
        total == s.bytesSent + bytes
        n == Max({0} \cup {k \in 1 .. Len(q) : /\ HeadersFor(q, k) <= Len(s.headers)
                                               /\ Paid(s, q, k, total)})
        left == total - Cost(s, q, n)
        stop == n = Len(q) \/ (n > 0 /\ left = 0)
        used == HeadersFor(q, n)
    IN  [eaten |-> n, headers |-> used,
         fails |-> ~stop /\ HeadersOf(q[n + 1]) = 1 /\ ~Big(q[n + 1]) /\ used = Len(s.headers),
         left |-> IF ~stop /\ Big(q[n + 1]) /\ HeadersFor(q, n + 1) <= Len(s.headers)
                  THEN left - (SumOfHeaders(s, HeadersFor(q, n + 1)) - SumOfHeaders(s, used))
                  ELSE left]

SentSomeBytes(s, bytes) ==
    LET e == Eat(s, bytes)
        urgent == Min({e.eaten, Len(s.sentPriority)})
    IN  RunMessageQueue(
            [s EXCEPT !.sending = FALSE,
                      !.sentPriority = SubSeq(@, urgent + 1, Len(@)),
                      !.queue = SubSeq(@, e.eaten - urgent + 1, Len(@)),
                      !.headers = SubSeq(@, e.headers + 1, Len(@)),
                      !.bytesSent = e.left])

\* The mistake of going on with the message where the write ended.
BytesAfterErrorKept(s) == s.bytesSend
\* m_messageBytesSend after an error
BytesAfterError(s) == 0
\* With an error another connect is posted.  m_sendQHeaders and m_sentPriorityMessages
\* are kept, although the messages of the normal queue will be sent once more.  (Not
\* with connection_aborted: that handler does nothing at all, and m_sendingInProgress
\* stays set.)
SentError(s) ==
    Post([s EXCEPT !.sending = FALSE, !.bytesSend = BytesAfterError(s), !.bytesSent = 0],
         Handler("connect"))

-----------------------------------------------------------------------------
(* close() and connecting.                                                 *)

StartRetryTimer(s) == [s EXCEPT !.retry = TRUE]

\* The mistake of forgetting the write as well.
SendingAfterCloseNone(s) == FALSE
\* close() leaves m_sendingInProgress to the handler of the write.
SendingAfterClose(s) == s.sending
\* The end of close(): slowly if the other side never said anything useful.
Reconnect(s) == IF s.first THEN StartRetryTimer(s) ELSE AsyncConnect(s)

\* close(false): neither m_chunkedMessageId nor the timer that reconnects is reset.
CloseForGood(s) ==
    [SocketClose(s) EXCEPT
        !.stream = FALSE, !.bytesSend = 0, !.bytesSent = 0, !.ping = "off",
        !.priority = <<>>, !.sentPriority = <<>>, !.queue = <<>>,
        !.headers = <<>>, !.sending = SendingAfterClose(s)]
Close(s) == Reconnect(CloseForGood(s))

\* onConnectComplete
OnConnected(s) ==
    RunMessageQueue(AsyncReceive([s EXCEPT !.stream = TRUE, !.ping = "send"]))

\* queueMessage, on the strand
QueueMessage(s, m) ==
    LET q == IF m \in Priority THEN [s EXCEPT !.priority = Append(@, m)]
                               ELSE [s EXCEPT !.queue = Append(@, m)]
    IN  IF IsOpen(q) THEN RunMessageQueue(q) ELSE AsyncConnect(q)

\* The mistake of a ping that is not followed by another.
PingAgainNever(s) == s
\* The end of sendPing starts the timer again.
PingAgain(s) == [s EXCEPT !.ping = "send"]

\* sendPing
SendPing(s) ==
    IF IsOpen(s) THEN PingAgain(RunMessageQueue([s EXCEPT !.queue = Append(@, Ping)]))
    ELSE s

-----------------------------------------------------------------------------
(* receivedSomeBytes and processPacket.                                    *)

\* A packet is "whole", the "start" of a chunked message or the "last" of one.  Or, from
\* a side that does not keep to the protocol: "bad" (of another protocol, corrupt, or
\* with a wrong header), a "ping", which only the side that connected sends, or a chunk
\* with more data than was announced.
Packets == {"whole", "start", "last"}
WrongPackets == {"bad", "ping", "longStart", "longLast"}
Starts(packet) == packet \in {"start", "longStart"}
TooLong(packet) == packet \in {"longStart", "longLast"}
Refused(s, packet) ==
    \/ packet = "bad"
    \/ Starts(packet) /\ s.chunked
    \/ packet \in {"last", "longLast"} /\ ~s.chunked

\* The mistake of leaving the handler without another async_receive.
ReadOnNever(s) == s
ReadOn(s) == AsyncReceive(s)

\* A ping is answered, and the timer waits for the next one.
AnswerPing(s) ==
    [RunMessageQueue([s EXCEPT !.queue = Append(@, Ping)]) EXCEPT !.ping = "timeout"]

\* m_firstPacket is reset before the packet is looked at.  After too much data the
\* connection is neither closed nor read from.
ReceivedSomeBytes(s, packet) ==
    LET t == [s EXCEPT !.first = FALSE]
    IN  CASE Refused(t, packet) -> Close(t)
          [] packet = "ping" -> ReadOn(AnswerPing(t))
          [] TooLong(packet) -> [t EXCEPT !.chunked = TRUE]
          [] packet = "start" -> ReadOn([t EXCEPT !.chunked = TRUE])
          [] packet = "last" -> ReadOn([t EXCEPT !.chunked = FALSE])
          [] packet = "whole" -> ReadOn(t)

\* (Not with connection_aborted, after which nothing is done.)
ReceiveError(s) == [Close(s) EXCEPT !.first = TRUE]

-----------------------------------------------------------------------------
(* The strand.                                                             *)

\* What a handler does to c.
Effect(h) ==
    CASE h.name = "queue" -> QueueMessage(c, h.arg)
      [] h.name = "connected" -> OnConnected(c)
      [] h.name = "connectError" -> StartRetryTimer(c)
      [] h.name = "connect" -> AsyncConnect(c)
      [] h.name = "retry" -> AsyncConnect(SocketClose(c))      \* reconnectWithCheck
      [] h.name = "sent" -> SentSomeBytes(c, h.arg)
      [] h.name = "writeError" -> SentError(c)
      [] h.name = "received" -> ReceivedSomeBytes(c, h.arg)
      [] h.name = "readError" -> ReceiveError(c)
      [] h.name \in {"readAborted", "writeAborted"} -> c
      [] h.name = "ping" -> SendPing(c)
      [] h.name = "pingTimeout" -> CloseForGood(c)

\* The handler calls close().
Closes(h) ==
    h.name \in {"readError", "pingTimeout"} \/ (h.name = "received" /\ Refused(c, h.arg))

\* What a handler has left undone: a "read" or a "write" was aborted, the lists of what
\* an unsuccessful write sent are still to "clear", the "rest" of the data is not read,
\* the connection is given "up".  A new connection is read from again.
Lost(h) ==
    CASE h.name = "readAborted" -> lost \cup {"read"}
      [] h.name = "writeAborted" -> lost \cup {"write"}
      [] h.name = "writeError" /\ c.headers \o c.sentPriority # <<>> -> lost \cup {"clear"}
      [] h.name = "pingTimeout" -> (lost \cup {"up"}) \ {"clear"}
      [] Closes(h) -> lost \ {"clear"}
      [] h.name = "received" /\ TooLong(h.arg) -> lost \cup {"rest"}
      [] h.name = "connected" -> lost \cap {"write", "clear"}
      [] OTHER -> lost

\* assert(!m_sendQHeaders.empty()) in sentSomeBytes.
HeaderMissing(h) == h.name = "sent" /\ Eat(c, h.arg).fails
\* A packet that was received before close() freed the buffer it is in.
BufferGone(h) == h.name = "received" /\ ~c.stream

\* reconnectWithCheck closes a socket in use, whose write is counted later, or a write
\* is counted while the lists hold what an earlier one has left there.
Mixes(h) ==
    \/ h.name = "retry" /\ c.sock \in {"up", "eof", "broken"}
    \/ h.name = "sent" /\ "clear" \in lost

Run ==
    /\ ~crashed /\ strand # <<>>
    /\ LET h == Head(strand)
       IN  /\ IF HeaderMissing(h) \/ BufferGone(h)
              THEN crashed' = TRUE /\ UNCHANGED <<c, strand>>
              ELSE LET s == Effect(h)
                   IN  /\ c' = [s EXCEPT !.posted = <<>>]
                       /\ strand' = Tail(strand) \o s.posted
                       /\ crashed' = ~s.sound
           /\ mixed' = (mixed \/ Mixes(h))
           /\ lost' = Lost(h)
    /\ turn' = ~turn
    /\ UNCHANGED <<peer, unsent, faults>>

\* Something outside the strand happens to s, and makes handlers ready.
Happens(s) ==
    /\ ~crashed
    /\ c' = [s EXCEPT !.posted = <<>>]
    /\ strand' = strand \o s.posted
    /\ UNCHANGED <<crashed, mixed, lost, turn>>

Fault == faults < MaxFaults /\ faults' = faults + 1

\* NetworkConnection::send, from another thread.
Send(m) ==
    /\ Len(strand) < MaxReady
    /\ m \in unsent /\ unsent' = unsent \ {m}
    /\ Happens(Post(c, [name |-> "queue", arg |-> m]))
    /\ UNCHANGED <<peer, faults>>

ConnectSucceeds ==
    /\ c.sock = "connecting"
    /\ Happens(Post([c EXCEPT !.sock = "up"], Handler("connected")))
    /\ peer' = NewPeer
    /\ UNCHANGED <<unsent, faults>>

ConnectFails(aborted) ==
    /\ Fault /\ c.sock = "connecting"
    /\ Happens(Failed(Post([c EXCEPT !.sock = "failed"], Handler("connectError")), aborted))
    /\ UNCHANGED <<peer, unsent>>

\* The connection is reset.
Reset(aborted) ==
    /\ Fault /\ c.sock \in {"up", "eof"}
    /\ Happens(Failed([c EXCEPT !.sock = "broken"], aborted))
    /\ UNCHANGED <<peer, unsent>>

\* The other side sends no more, but still receives.
PeerCloses ==
    /\ Fault /\ c.sock = "up"
    /\ Happens([c EXCEPT !.sock = "eof", !.reads = 0,
                         !.posted = Times(c.reads, Handler("readError"))])
    /\ UNCHANGED <<peer, unsent>>

\* TCP takes the next frame, and the write is complete after the last.  The other side
\* puts chunks together as processPacket does.
Takes(p, f) ==
    CASE f.chunk = 0 -> p
      [] f.chunk = 1 -> [p EXCEPT !.message = f.message, !.chunks = 1,
                                  !.refused = @ \/ p.chunks # 0]
      [] OTHER -> LET ok == ~p.refused /\ p.message = f.message /\ p.chunks = f.chunk - 1
                  IN  IF f.chunk = Chunks(f.message)
                      THEN [NewPeer EXCEPT !.refused = ~ok, !.sending = p.sending]
                      ELSE [p EXCEPT !.chunks = f.chunk, !.refused = ~ok]
WriteSome ==
    /\ c.sock \in {"up", "eof"} /\ c.write # <<>>
    /\ peer' = Takes(peer, Head(c.write))
    /\ IF Len(c.write) > 1 THEN Happens([c EXCEPT !.write = Tail(@)])
       ELSE Happens(Post([c EXCEPT !.write = <<>>, !.total = 0],
                         [name |-> "sent", arg |-> c.total]))
    /\ UNCHANGED <<unsent, faults>>

\* A packet of the other side completes an async_receive.
PeerSends(packet) ==
    /\ Len(strand) < MaxReady /\ Len(c.headers) <= MaxHeaders
    /\ c.sock = "up" /\ c.reads > 0
    /\ packet \in {"last", "longLast"} => peer.sending
    /\ packet \in {"start", "longStart", "whole"} => ~peer.sending
    /\ IF packet \in WrongPackets THEN Fault ELSE UNCHANGED faults
    /\ peer' = [peer EXCEPT !.sending = Starts(packet) \/ (@ /\ packet = "ping")]
    /\ Happens(Post([c EXCEPT !.reads = @ - 1], [name |-> "received", arg |-> packet]))
    /\ UNCHANGED unsent

\* The timers run for a second at least, in which no handler waits but those of packets
\* that keep coming.
StrandQuiet == \A i \in DOMAIN strand : strand[i].name = "received"

RetryTimer ==
    /\ StrandQuiet /\ c.retry
    /\ Happens(Post([c EXCEPT !.retry = FALSE], Handler("retry")))
    /\ UNCHANGED <<peer, unsent, faults>>

PingTimer ==
    /\ StrandQuiet
    /\ \/ c.ping = "send" /\ Len(c.queue) <= MaxQueue
          /\ Happens(Post([c EXCEPT !.ping = "off"], Handler("ping")))
       \/ c.ping = "timeout"
          /\ Happens(Post([c EXCEPT !.ping = "off"], Handler("pingTimeout")))
    /\ UNCHANGED <<peer, unsent, faults>>

\* The operations that would bring the connection back have been lost: a read and a
\* write, or the reading after too much data, or it was closed without another attempt.
GivenUp == {"read", "write"} \subseteq lost \/ lost \cap {"rest", "up"} # {}

Next ==
    \/ Run
    \/ \E m \in Messages : Send(m)
    \/ ConnectSucceeds \/ PeerCloses
    \/ \E aborted \in SUBSET {"read", "write"} : ConnectFails(aborted) \/ Reset(aborted)
    \/ WriteSome
    \/ \E packet \in Packets \cup WrongPackets : PeerSends(packet)
    \/ RetryTimer \/ PingTimer

Spec == Init /\ [][Next]_vars

\* The same steps as Run, said without computing what they do.
HandlerRuns == ~crashed /\ strand # <<>> /\ turn' = ~turn

\* The strand runs, timers expire, and a network that does not fail connects and
\* takes what is written.  (Strongly, since a timer here waits for a moment in which
\* the strand has nothing to do.)  Nothing is assumed of the user or the other side.
Fairness ==
    /\ WF_turn(HandlerRuns) /\ WF_vars(ConnectSucceeds) /\ WF_vars(WriteSome)
    /\ SF_vars(RetryTimer) /\ SF_vars(PingTimer)
FairSpec == Spec /\ Fairness

-----------------------------------------------------------------------------
(* Properties.                                                             *)

\* Every variable has its type.
TypeOK ==
    /\ c.queue \in Seq(Sendable) /\ c.priority \in Seq(Priority)
    /\ c.sentPriority \in Seq(Priority) /\ c.headers \in Seq(Nat)
    /\ c.bytesSend \in Nat /\ c.bytesSent \in Int /\ c.sound \in BOOLEAN
    /\ c.sending \in BOOLEAN /\ c.first \in BOOLEAN /\ c.chunked \in BOOLEAN
    /\ c.stream \in BOOLEAN /\ c.retry \in BOOLEAN
    /\ c.ping \in {"off", "send", "timeout"}
    /\ c.sock \in {"closed", "connecting", "failed", "up", "eof", "broken"}
    /\ c.reads \in Nat /\ c.posted = <<>> /\ unsent \subseteq Messages
    /\ faults \in 0 .. MaxFaults
    /\ crashed \in BOOLEAN /\ mixed \in BOOLEAN /\ turn \in BOOLEAN
    /\ lost \subseteq {"read", "write", "clear", "rest", "up"}

\* However writes, closes and new connections follow each other, there is never more
\* than one async_write whose handler has not run, and m_sendingInProgress says so:
\* asio forbids a second one, since their bytes would mix.  (After a write that ended
\* with connection_aborted there is none any more, and the flag stays set.)
WritesOutstanding ==
    (IF c.write # <<>> THEN 1 ELSE 0)
    + Cardinality({i \in DOMAIN strand : strand[i].name \in {"sent", "writeError", "writeAborted"}})
OneWriteAtATime ==
    WritesOutstanding = (IF c.sending /\ "write" \notin lost THEN 1 ELSE 0)

\* What is sent on a connection is what processPacket of the other side accepts: the
\* chunks of a message are complete and in order, each connection begins afresh.
StreamWellFormed == ~peer.refused

\* The assertions on what is sent hold, no count of bytes is negative, and when a batch
\* begins, a partly sent message is the one in front, and a big one.
PartlySentInFront ==
    /\ c.sound /\ (strand # <<>> => ~HeaderMissing(Head(strand))) /\ c.bytesSent >= 0
    /\ ~c.sending /\ c.bytesSend # 0 =>
           /\ c.queue # <<>> /\ Big(Head(c.queue))
           /\ c.bytesSend < BodySize[Head(c.queue)]

\* Wherever a write stopped, the next begins at the right byte of the right message, and
\* the other side can read the stream, until the bytes of two connections are mixed in
\* the count.  (With the types of all variables.)
StreamSound == TypeOK /\ (~mixed => PartlySentInFront /\ StreamWellFormed)

\* assert(m_messageBytesSend <= m_messageQueue.front().rawData().size()), whatever
\* happened before runMessageQueue.
AssertionHolds == c.sound

\* processPacket closes the connection for an "illegal" start of a chunked message only
\* if the other side "Didn't finish another"; here it finishes what it starts, unless
\* the connection ends.
IllegalMeansUnfinished ==
    strand # <<>> /\ Head(strand) = [name |-> "received", arg |-> "start"] => ~c.chunked

Connected == c.sock = "up" /\ c.reads > 0

\* Whatever failed, the connection comes back, again and again: the attempts that
\* close(), an error of a write and the timer start do not block each other for good.
\* If a read was lost to connection_aborted, the next ping finds out.  The exceptions:
\* a write was lost as well, the other side sent too much data, or it began to send
\* pings and stopped.
AlwaysReconnects == []<>(Connected \/ GivenUp \/ crashed)

\* No message waits for ever: it is sent, or dropped by close().  Only the loss of a
\* write to connection_aborted stops the queue.
NothingWaitsForEver ==
    \A m \in Messages :
        m \in Range(c.queue \o c.priority \o c.sentPriority)
            ~> m \notin Range(c.queue \o c.priority \o c.sentPriority)
               \/ crashed \/ "write" \in lost

=============================================================================
