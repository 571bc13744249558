----------------------------- MODULE HttpServer -----------------------------
(***************************************************************************)
(* The HTTP server and how it is shut down: the event thread that takes    *)
(* requests in, WorkQueue with its worker threads, getblocktemplate's      *)
(* long poll, and the main thread in Interrupt() and Shutdown()            *)
(* (src/httpserver.cpp, src/httprpc.cpp, src/rpcserver.cpp,                *)
(* src/rpcmining.cpp, src/init.cpp, src/bitcoind.cpp).                     *)
(*                                                                         *)
(* A step ends where a lock is released or taken, or where the code tests  *)
(* or sets something another thread uses without a lock: running, the      *)
(* callback of evhttp, fRPCRunning.  Threads that wait on the condition    *)
(* variable of the queue are in sleeping, those on cvBlockChange are at    *)
(* "pollwait".  Touching a WorkQueue that was deleted ends the process     *)
(* here (crashed).                                                         *)
(***************************************************************************)
EXTENDS Integers, Sequences, FiniteSets

CONSTANTS
    Workers,     \* the worker threads, -rpcthreads of them
    Requests,    \* the requests that clients will make
    LongPolls,   \* those that wait for a new block
    MaxDepth,    \* -rpcworkqueue
    MaxBlocks,   \* bound: how many new blocks there are
    Main, None   \* the main thread; no request

ASSUME HttpAssumption ==
    /\ IsFiniteSet(Workers) /\ LongPolls \subseteq Requests
    /\ MaxDepth \in Nat \ {0} /\ MaxBlocks \in Nat
    /\ Main \notin Workers /\ None \notin Requests

VARIABLES
    queue, running, numThreads,   \* WorkQueue
    deleted,     \* workQueue was deleted
    sleeping,    \* the threads that wait on cond
    wpc,         \* where a worker is
    item,        \* its work item
    watched,     \* hashWatchedChain of its long poll
    tip,         \* chainActive.Tip()
    mpc,         \* where the main thread is
    epc,         \* where the event thread is, and with which request
    gencb,       \* the callback set with evhttp_set_gencb
    handlers,    \* pathHandlers has the RPC handler
    rpcRunning,  \* fRPCRunning
    broken,      \* event_base_loopbreak was called
    state,       \* of each request
    late,        \* (history) the threads not in Run yet when WaitExit returned
    crashed      \* a deleted queue was used

queueVars == <<queue, running, numThreads, deleted, sleeping>>
workerVars == <<wpc, item, watched>>
serverVars == <<gencb, handlers, rpcRunning, broken>>
ghostVars == <<late, crashed>>
vars == <<queueVars, workerVars, tip, mpc, epc, serverVars, state, ghostVars>>

\* A worker: "new", its thread was created; "test", at the while of Run; "take",
\* waiting for work; "exec", in the handler; "poll", "pollgo", "pollwait", in the long
\* poll before the test, after it, and waiting; "leave", before ~ThreadCounter.
Registered == {"test", "take", "exec", "poll", "pollgo", "pollwait", "leave"}
WorkerPlaces == Registered \cup {"new", "gone"}
MainPlaces == {"serving", "interrupt", "rpc", "stop", "notify", "wait", "free", "join",
               "ended"}
\* A request: "none", not made; "taken", in the callback; "queued"; "replied", the
\* answer is an event for the event thread; "sent"; "refused", answered at once.
States == {"none", "taken", "queued", "replied", "sent", "refused"}

Init ==
    /\ queue = <<>> /\ running = TRUE /\ numThreads = 0 /\ deleted = FALSE
    /\ sleeping = {}
    /\ wpc = [w \in Workers |-> "new"]
    /\ item = [w \in Workers |-> None]
    /\ watched = [w \in Workers |-> 0]
    /\ tip = 0
    /\ mpc = "serving"
    /\ epc = [at |-> "loop", req |-> None]
    /\ gencb = "serve" /\ handlers = TRUE /\ rpcRunning = TRUE /\ broken = FALSE
    /\ state = [r \in Requests |-> "none"]
    /\ late = {} /\ crashed = FALSE

\* The mistake of putting an item in without waking anybody.
WokenNone(asleep) == {asleep}
\* notify_one wakes one of the waiting threads, if there is one.
Woken(asleep) == IF asleep = {} THEN {{}} ELSE {asleep \ {t} : t \in asleep}

-----------------------------------------------------------------------------
(* The event thread.                                                       *)

\* A request arrives on a connection and evhttp calls the callback.
Arrive(r) ==
    /\ epc.at = "loop" /\ state[r] = "none"
    /\ IF gencb = "serve"
       THEN /\ epc' = [at |-> "callback", req |-> r]
            /\ state' = [state EXCEPT ![r] = "taken"]
       ELSE /\ state' = [state EXCEPT ![r] = "refused"]   \* http_reject_request_cb
            /\ UNCHANGED epc
    /\ UNCHANGED <<queueVars, workerVars, tip, mpc, serverVars, ghostVars>>

\* http_request_cb looks for the handler, without a lock...
FindHandler ==
    /\ epc.at = "callback"
    /\ IF handlers
       THEN epc' = [epc EXCEPT !.at = "found"] /\ UNCHANGED state
       ELSE /\ epc' = [at |-> "loop", req |-> None]        \* HTTP_NOTFOUND
            /\ state' = [state EXCEPT ![epc.req] = "replied"]
    /\ UNCHANGED <<queueVars, workerVars, tip, mpc, serverVars, ghostVars>>

\* ...and calls WorkQueue::Enqueue, which does not look at running.
Enqueue ==
    /\ epc.at = "found"
    /\ epc' = [at |-> "loop", req |-> None]
    /\ \/ /\ deleted
          /\ crashed' = TRUE
          /\ UNCHANGED <<queue, sleeping, state>>
       \/ /\ ~deleted /\ Len(queue) < MaxDepth
          /\ queue' = Append(queue, epc.req)
          /\ state' = [state EXCEPT ![epc.req] = "queued"]
          /\ sleeping' \in Woken(sleeping)
          /\ UNCHANGED crashed
       \/ /\ ~deleted /\ Len(queue) >= MaxDepth           \* HTTP_INTERNAL
          /\ state' = [state EXCEPT ![epc.req] = "replied"]
          /\ UNCHANGED <<queue, sleeping, crashed>>
    /\ UNCHANGED <<running, numThreads, deleted, workerVars, tip, mpc, serverVars, late>>

\* An event of HTTPRequest::WriteReply.
SendReply(r) ==
    /\ epc.at = "loop" /\ state[r] = "replied"
    /\ state' = [state EXCEPT ![r] = "sent"]
    /\ UNCHANGED <<queueVars, workerVars, tip, mpc, epc, serverVars, ghostVars>>

\* event_base_dispatch returns: nothing is listened to and nothing is pending, or the
\* loop is broken.
EventLoopEnds ==
    /\ epc.at = "loop"
    /\ \/ broken
       \/ gencb = "reject" /\ \A r \in Requests : state[r] \in {"none", "sent", "refused"}
    /\ epc' = [epc EXCEPT !.at = "ended"]
    /\ UNCHANGED <<queueVars, workerVars, tip, mpc, serverVars, state, ghostVars>>

-----------------------------------------------------------------------------
(* The worker threads: WorkQueue::Run.                                     *)

\* A thread inside Run whose queue is gone: its next use of it ends the process.
UseAfterDelete(w) ==
    /\ deleted /\ wpc[w] \in {"new", "test", "take", "leave"} /\ w \notin sleeping
    /\ crashed' = TRUE
    /\ UNCHANGED <<queueVars, workerVars, tip, mpc, epc, serverVars, state, late>>

\* ThreadCounter()
Register(w) ==
    /\ ~deleted /\ wpc[w] = "new"
    /\ numThreads' = numThreads + 1
    /\ wpc' = [wpc EXCEPT ![w] = "test"]
    /\ UNCHANGED <<queue, running, deleted, sleeping, item, watched, tip, mpc, epc,
                   serverVars, state, ghostVars>>

\* while (running), without the lock
TestRunning(w) ==
    /\ ~deleted /\ wpc[w] = "test"
    /\ wpc' = [wpc EXCEPT ![w] = IF running THEN "take" ELSE "leave"]
    /\ UNCHANGED <<queueVars, item, watched, tip, mpc, epc, serverVars, state, ghostVars>>

\* The mistake of leaving the item in the queue.
RestKept(q) == q
\* pop_front
Rest(q) == Tail(q)

\* Under the lock: wait while there is nothing to do, leave when interrupted, take an
\* item otherwise.
Take(w) ==
    /\ ~deleted /\ wpc[w] = "take" /\ w \notin sleeping
    /\ \/ /\ running /\ queue = <<>>
          /\ sleeping' = sleeping \cup {w}
          /\ UNCHANGED <<queue, workerVars>>
       \/ /\ ~running
          /\ wpc' = [wpc EXCEPT ![w] = "leave"]
          /\ UNCHANGED <<queue, sleeping, item, watched>>
       \/ /\ running /\ queue # <<>>
          /\ queue' = Rest(queue)
          /\ item' = [item EXCEPT ![w] = Head(queue)]
          /\ watched' = [watched EXCEPT ![w] = IF Head(queue) \in LongPolls THEN tip ELSE 0]
          /\ wpc' = [wpc EXCEPT ![w] = IF Head(queue) \in LongPolls THEN "poll" ELSE "exec"]
          /\ UNCHANGED sleeping
    /\ UNCHANGED <<running, numThreads, deleted, tip, mpc, epc, serverVars, state, ghostVars>>

\* The loop of the long poll tests the tip and IsRPCRunning...
PollTest(w) ==
    /\ wpc[w] = "poll"
    /\ wpc' = [wpc EXCEPT ![w] = IF tip = watched[w] /\ rpcRunning THEN "pollgo" ELSE "exec"]
    /\ UNCHANGED <<queueVars, item, watched, tip, mpc, epc, serverVars, state, ghostVars>>
\* ...and waits...
PollWait(w) ==
    /\ wpc[w] = "pollgo"
    /\ wpc' = [wpc EXCEPT ![w] = "pollwait"]
    /\ UNCHANGED <<queueVars, item, watched, tip, mpc, epc, serverVars, state, ghostVars>>
\* ...but not for ever: after a minute, then every ten seconds.  If there are new
\* transactions it returns.
MayTimeOutNever == FALSE
MayTimeOut == TRUE
PollTimeout(w) ==
    /\ wpc[w] = "pollwait" /\ MayTimeOut
    /\ \E more \in BOOLEAN : wpc' = [wpc EXCEPT ![w] = IF more THEN "exec" ELSE "poll"]
    /\ UNCHANGED <<queueVars, item, watched, tip, mpc, epc, serverVars, state, ghostVars>>

\* Those that wait on cvBlockChange when it is notified.
PollersWoken == [w \in Workers |-> IF wpc[w] = "pollwait" THEN "poll" ELSE wpc[w]]

\* The handler writes its reply and the item is deleted.
Execute(w) ==
    /\ wpc[w] = "exec"
    /\ state' = [state EXCEPT ![item[w]] = "replied"]
    /\ item' = [item EXCEPT ![w] = None]
    /\ watched' = [watched EXCEPT ![w] = 0]
    /\ wpc' = [wpc EXCEPT ![w] = "test"]
    /\ UNCHANGED <<queueVars, tip, mpc, epc, serverVars, ghostVars>>

\* The mistake of counting down where the loop is left as well.
ThreadsLeftTwice == numThreads - 2
\* ~ThreadCounter()
ThreadsLeft == numThreads - 1
Unregister(w) ==
    /\ ~deleted /\ wpc[w] = "leave"
    /\ numThreads' = ThreadsLeft
    /\ sleeping' = {}
    /\ wpc' = [wpc EXCEPT ![w] = "gone"]
    /\ UNCHANGED <<queue, running, deleted, item, watched, tip, mpc, epc, serverVars, state,
                   ghostVars>>

-----------------------------------------------------------------------------
(* The main thread.                                                        *)

MainGoes(from, to) == mpc = from /\ mpc' = to

\* A shutdown is requested, or AppInit2 has failed: InterruptHTTPServer stops
\* listening and sets the callback that rejects...
InterruptHTTPServer ==
    /\ MainGoes("serving", "interrupt")
    /\ gencb' = "reject"
    /\ UNCHANGED <<queueVars, workerVars, tip, epc, handlers, rpcRunning, broken, state,
                   ghostVars>>
\* ...and interrupts the queue.
InterruptQueue ==
    /\ MainGoes("interrupt", "rpc")
    /\ running' = FALSE /\ sleeping' = {}
    /\ UNCHANGED <<queue, numThreads, deleted, workerVars, tip, epc, serverVars, state, ghostVars>>
InterruptRPC ==
    /\ MainGoes("rpc", "stop")
    /\ rpcRunning' = FALSE
    /\ UNCHANGED <<queueVars, workerVars, tip, epc, gencb, handlers, broken, state, ghostVars>>
StopHTTPRPC ==
    /\ MainGoes("stop", "notify")
    /\ handlers' = FALSE
    /\ UNCHANGED <<queueVars, workerVars, tip, epc, gencb, rpcRunning, broken, state, ghostVars>>
\* StopRPC, whose signal reaches OnRPCStopped.
StopRPC ==
    /\ MainGoes("notify", "wait")
    /\ wpc' = PollersWoken
    /\ UNCHANGED <<queueVars, item, watched, tip, epc, serverVars, state, ghostVars>>

\* The mistake of waiting for all but one.
MayReturnEarly == numThreads <= 1
\* WaitExit returns when there is no thread inside Run.
MayReturn == numThreads = 0
WaitExit ==
    /\ mpc = "wait" /\ Main \notin sleeping
    /\ IF MayReturn
       THEN /\ mpc' = "free"
            /\ late' = {w \in Workers : wpc[w] = "new"}
            /\ UNCHANGED sleeping
       ELSE /\ sleeping' = sleeping \cup {Main}
            /\ UNCHANGED <<mpc, late>>
    /\ UNCHANGED <<queue, running, numThreads, deleted, workerVars, tip, epc, serverVars,
                   state, crashed>>

\* The mistake of freeing the items without answering them.
AnsweredByDeleteNone == {}
\* delete workQueue: the requests left in it are answered by ~HTTPRequest.
AnsweredByDelete == {queue[i] : i \in 1 .. Len(queue)}
DeleteQueue ==
    /\ MainGoes("free", "join")
    /\ deleted' = TRUE /\ queue' = <<>>
    /\ state' = [r \in Requests |-> IF r \in AnsweredByDelete THEN "replied" ELSE state[r]]
    /\ UNCHANGED <<running, numThreads, sleeping, workerVars, tip, epc, serverVars, ghostVars>>

\* The two seconds for the event thread are over.
BreakLoop ==
    /\ mpc = "join" /\ epc.at # "ended" /\ ~broken
    /\ broken' = TRUE
    /\ UNCHANGED <<queueVars, workerVars, tip, mpc, epc, gencb, handlers, rpcRunning, state,
                   ghostVars>>
JoinEventThread ==
    /\ MainGoes("join", "ended")
    /\ epc.at = "ended"
    /\ UNCHANGED <<queueVars, workerVars, tip, epc, serverVars, state, ghostVars>>

\* UpdateTip notifies the long polls without csBestBlock.
NewBlock ==
    /\ tip < MaxBlocks /\ mpc # "ended"
    /\ tip' = tip + 1
    /\ wpc' = PollersWoken
    /\ UNCHANGED <<queueVars, item, watched, mpc, epc, serverVars, state, ghostVars>>

\* A wait may end without a reason.
SpuriousWakeup(t) ==
    /\ t \in sleeping
    /\ sleeping' = sleeping \ {t}
    /\ UNCHANGED <<queue, running, numThreads, deleted, workerVars, tip, mpc, epc, serverVars,
                   state, ghostVars>>

Worker(w) ==
    \/ UseAfterDelete(w)
    \/ Register(w) \/ TestRunning(w) \/ Take(w) \/ Execute(w) \/ Unregister(w)
    \/ PollTest(w) \/ PollWait(w) \/ PollTimeout(w)
Event == FindHandler \/ Enqueue \/ EventLoopEnds \/ \E r \in Requests : SendReply(r)
Shutdown ==
    \/ InterruptQueue \/ InterruptRPC \/ StopHTTPRPC \/ StopRPC
    \/ WaitExit \/ DeleteQueue \/ BreakLoop \/ JoinEventThread

\* The process has ended.
Ended == mpc = "ended" \/ crashed

Next ==
    \/ \E w \in Workers : ~Ended /\ Worker(w)
    \/ ~Ended /\ Event
    \/ \E r \in Requests : ~Ended /\ Arrive(r)
    \/ ~Ended /\ InterruptHTTPServer
    \/ ~Ended /\ Shutdown
    \/ ~Ended /\ NewBlock
    \/ \E t \in Workers \cup {Main} : ~Ended /\ SpuriousWakeup(t)
    \/ Ended /\ UNCHANGED vars

Spec == Init /\ [][Next]_vars

\* The operating system runs every thread that can run; handlers return.  Nothing is
\* assumed of requests, blocks, wake-ups without reason or a request to shut down.
Fairness ==
    /\ \A w \in Workers : WF_vars(~Ended /\ Worker(w))
    /\ WF_vars(~Ended /\ Event) /\ WF_vars(~Ended /\ Shutdown)
FairSpec == Spec /\ Fairness

-----------------------------------------------------------------------------
(* Properties.                                                             *)

\* Every variable has its type.
TypeOK ==
    /\ queue \in Seq(Requests) /\ running \in BOOLEAN /\ deleted \in BOOLEAN
    /\ numThreads \in 0 .. Cardinality(Workers)
    /\ sleeping \subseteq Workers \cup {Main}
    /\ wpc \in [Workers -> WorkerPlaces] /\ item \in [Workers -> Requests \cup {None}]
    /\ watched \in [Workers -> 0 .. MaxBlocks] /\ tip \in 0 .. MaxBlocks
    /\ mpc \in MainPlaces
    /\ epc \in [at : {"loop", "callback", "found", "ended"}, req : Requests \cup {None}]
    /\ gencb \in {"serve", "reject"} /\ handlers \in BOOLEAN /\ rpcRunning \in BOOLEAN
    /\ broken \in BOOLEAN /\ crashed \in BOOLEAN /\ late \subseteq Workers
    /\ state \in [Requests -> States]

\* numThreads counts the threads inside Run, so WaitExit waits for just these.
ThreadsCounted == numThreads = Cardinality({w \in Workers : wpc[w] \in Registered})

\* Once WaitExit has returned, every worker it could know of is gone for good: only a
\* thread that had not begun Run by then can meet the queue that is deleted next.
QueueOutlivesWorkers ==
    /\ ThreadsCounted
    /\ mpc \in {"free", "join", "ended"} => \A w \in Workers \ late : wpc[w] = "gone"

\* No request is held twice, and none that was answered is held at all: the
\* assertion !replySent of WriteReply holds.
Holders(r) ==
    Cardinality({i \in 1 .. Len(queue) : queue[i] = r})
    + Cardinality({w \in Workers : item[w] = r})
    + (IF epc.req = r THEN 1 ELSE 0)
RepliedOnce ==
    \A r \in Requests : Holders(r) <= (IF state[r] \in {"taken", "queued"} THEN 1 ELSE 0)

\* When the queue is deleted no request is left unanswered: what was enqueued after
\* the workers had been interrupted is answered by the destructor, what they had
\* taken by them.
AnsweredWhenDeleted == deleted => \A r \in Requests : state[r] # "queued"

\* Every request is answered, and once, by whoever has it when the server is stopped.
\* (With the types of all variables.)
AnsweredOnce == TypeOK /\ RepliedOnce /\ AnsweredWhenDeleted

\* Once interrupted, the server comes to its end, although a long poll may miss the
\* notification and the main thread shares a condition variable with the workers.
ShutdownEnds == mpc = "interrupt" ~> Ended

\* A request other than a long poll that was queued is answered while the server runs,
\* unless all workers are in long polls: no wake-up of a worker is lost.
QueuedIsServed ==
    \A r \in Requests \ LongPolls :
        state[r] = "queued" ~>
            \/ state[r] \in {"replied", "sent"}
            \/ ~running
            \/ \A w \in Workers : item[w] \in LongPolls

=============================================================================
