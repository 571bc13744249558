-------------------------- MODULE HttpServerProofs --------------------------
(***************************************************************************)
(* Proofs about HttpServer, for any number of workers, requests, long      *)
(* polls and blocks and every depth of the queue: the queue outlives the   *)
(* workers that WaitExit can know of, and every request is answered once.  *)
(***************************************************************************)
EXTENDS HttpServer, FiniteSetTheorems, TLAPS

-----------------------------------------------------------------------------
(* The inductive invariant.                                                *)

\* TypeOK, without the range of numThreads, which follows from what it counts: the flags.
Flags ==
    /\ running \in BOOLEAN /\ deleted \in BOOLEAN /\ handlers \in BOOLEAN
    /\ rpcRunning \in BOOLEAN /\ broken \in BOOLEAN /\ crashed \in BOOLEAN

\* The other variables.
Types ==
    /\ queue \in Seq(Requests)
    /\ sleeping \subseteq Workers \cup {Main}
    /\ wpc \in [Workers -> WorkerPlaces] /\ item \in [Workers -> Requests \cup {None}]
    /\ watched \in [Workers -> 0 .. MaxBlocks] /\ tip \in 0 .. MaxBlocks
    /\ mpc \in MainPlaces
    /\ epc \in [at : {"loop", "callback", "found", "ended"}, req : Requests \cup {None}]
    /\ gencb \in {"serve", "reject"} /\ late \subseteq Workers
    /\ state \in [Requests -> States]

\* Where the main thread is after WaitExit.
AfterWait == {"free", "join", "ended"}

\* What the place of the main thread says about the queue.
MainKnows ==
    /\ running <=> mpc \in {"serving", "interrupt"}
    /\ deleted <=> mpc \in {"join", "ended"}
    /\ deleted => queue = <<>>

\* Once WaitExit has returned, the workers it knew of are gone, and the others will
\* not get beyond the test of running.
LateOnes ==
    mpc \in AfterWait =>
        \A w \in Workers : /\ w \notin late => wpc[w] = "gone"
                           /\ wpc[w] \in {"new", "test", "leave", "gone"}

\* A worker has an item exactly while it is in the handler, and the event thread a
\* request exactly while it is in the callback.
InHandler == {"exec", "poll", "pollgo", "pollwait"}

\* See InHandler.
Holding ==
    /\ \A w \in Workers : item[w] # None <=> wpc[w] \in InHandler
    /\ epc.req # None <=> epc.at \in {"callback", "found"}

\* Who holds a request, and in which state it then is.
InQueue(r) == \E i \in 1 .. Len(queue) : queue[i] = r
AtWorker(r) == \E w \in Workers : item[w] = r
QueueDistinct == \A i, j \in 1 .. Len(queue) : queue[i] = queue[j] => i = j
ItemsDistinct == \A v, w \in Workers : item[v] = item[w] /\ item[v] # None => v = w
HeldOnce ==
    /\ QueueDistinct /\ ItemsDistinct
    /\ \A r \in Requests :
          /\ InQueue(r) => state[r] = "queued" /\ ~AtWorker(r)
          /\ AtWorker(r) => state[r] = "queued"
          /\ state[r] = "queued" => InQueue(r) \/ AtWorker(r)
          /\ epc.req = r => state[r] = "taken"

\* numThreads counts the threads inside Run.
InRun == {w \in Workers : wpc[w] \in Registered}
Counted == numThreads = Cardinality(InRun)

\* The inductive invariant.
Inv == Flags /\ Types /\ MainKnows /\ LateOnes /\ Holding /\ HeldOnce /\ Counted

\* It holds at the start.
LEMMA InitInv == Init => Inv
<1> SUFFICES ASSUME Init PROVE Inv
  OBVIOUS
<1>0. Flags
  BY Zenon DEF Init, Flags
<1>1. Types
  BY HttpAssumption DEF Init, Types, WorkerPlaces, Registered, MainPlaces, States
<1>2. MainKnows /\ LateOnes
  BY DEF Init, MainKnows, LateOnes, AfterWait
<1>3. Holding
  BY DEF Init, Holding, InHandler
<1>4. HeldOnce
  BY HttpAssumption DEF Init, HeldOnce, QueueDistinct, ItemsDistinct, InQueue, AtWorker
<1>5. InRun = {}
  BY DEF Init, InRun, Registered
<1> QED BY <1>0, <1>1, <1>2, <1>3, <1>4, <1>5, FS_EmptySet DEF Inv, Counted, Init

-----------------------------------------------------------------------------
(* Every step keeps it.                                                    *)

\* The flags stay flags.
LEMMA FlagsStep ==
    ASSUME Flags, [Next]_vars
    PROVE  Flags'
<1>1. CASE UNCHANGED vars
  BY <1>1 DEF vars, queueVars, serverVars, ghostVars, Flags
<1>2. ASSUME NEW w \in Workers, Worker(w) PROVE Flags'
  BY <1>2, Zenon
     DEF Worker, UseAfterDelete, Register, TestRunning, Take, Execute, Unregister, PollTest,
     PollWait, PollTimeout, queueVars, serverVars, ghostVars, Flags
<1>3. ASSUME Event PROVE Flags'
  BY <1>3, Zenon DEF Event, FindHandler, Enqueue, EventLoopEnds, SendReply, queueVars,
     serverVars, ghostVars, Flags
<1>4. ASSUME NEW r \in Requests, Arrive(r) PROVE Flags'
  BY <1>4, Zenon DEF Arrive, queueVars, serverVars, ghostVars, Flags
<1>5. ASSUME InterruptHTTPServer \/ NewBlock PROVE Flags'
  BY <1>5, Zenon DEF InterruptHTTPServer, NewBlock, queueVars, serverVars, ghostVars, Flags
<1>6. ASSUME Shutdown PROVE Flags'
  BY <1>6, Zenon DEF Shutdown, InterruptQueue, InterruptRPC, StopHTTPRPC, StopRPC, WaitExit,
     DeleteQueue, BreakLoop, JoinEventThread, queueVars, serverVars, ghostVars, Flags
<1>7. ASSUME NEW t, SpuriousWakeup(t) PROVE Flags'
  BY <1>7, Zenon DEF SpuriousWakeup, queueVars, serverVars, ghostVars, Flags
<1> QED
  BY <1>1, <1>2, <1>3, <1>4, <1>5, <1>6, <1>7, Zenon DEF Next

\* The invariant but for the flags, which FlagsStep proves by itself.
Kept == Types /\ MainKnows /\ LateOnes /\ Holding /\ HeldOnce /\ Counted

\* Who holds what is told by four variables.
LEMMA HeldSame ==
    ASSUME HeldOnce, UNCHANGED <<queue, item, state, epc>>
    PROVE  HeldOnce'
BY DEF HeldOnce, QueueDistinct, ItemsDistinct, InQueue, AtWorker

\* A worker's steps that move it, and neither the queue nor its item.
LEMMA SimpleWorkerSteps ==
    ASSUME Inv, NEW w \in Workers,
           TestRunning(w) \/ PollTest(w) \/ PollWait(w) \/ PollTimeout(w) \/ UseAfterDelete(w)
    PROVE  Kept'
<1> USE DEF queueVars, serverVars, ghostVars, workerVars
<1>1. Types'
  BY DEF Inv, Types, TestRunning, PollTest, PollWait, PollTimeout, UseAfterDelete,
     WorkerPlaces, Registered
<1>2. MainKnows'
  BY DEF Inv, MainKnows, TestRunning, PollTest, PollWait, PollTimeout, UseAfterDelete
<1>3. LateOnes'
  BY DEF Inv, Types, MainKnows, LateOnes, AfterWait, TestRunning, PollTest, PollWait,
     PollTimeout, UseAfterDelete
<1>4. Holding'
  BY DEF Inv, Types, Holding, InHandler, TestRunning, PollTest, PollWait, PollTimeout,
     UseAfterDelete
<1>5. HeldOnce'
  BY HeldSame DEF Inv, TestRunning, PollTest, PollWait, PollTimeout, UseAfterDelete
<1>6. InRun' = InRun
  BY DEF Inv, Types, InRun, Registered, TestRunning, PollTest, PollWait, PollTimeout,
     UseAfterDelete
<1>7. Counted'
  BY <1>6 DEF Inv, Counted, TestRunning, PollTest, PollWait, PollTimeout, UseAfterDelete
<1> QED BY <1>1, <1>2, <1>3, <1>4, <1>5, <1>7 DEF Kept

\* ThreadCounter counts a worker when it enters Run ...
LEMMA RegisterStep ==
    ASSUME Inv, NEW w \in Workers, Register(w)
    PROVE  Kept'
<1> USE DEF queueVars, serverVars, ghostVars, workerVars, Register
<1>1. Types'
  BY DEF Inv, Types, WorkerPlaces, Registered
<1>2. MainKnows' /\ LateOnes'
  BY DEF Inv, Types, MainKnows, LateOnes, AfterWait
<1>3. Holding'
  BY DEF Inv, Types, Holding, InHandler
<1>7. HeldOnce'
  BY HeldSame DEF Inv
<1>4. InRun' = InRun \cup {w} /\ w \notin InRun
  BY DEF Inv, Types, InRun, Registered
<1>5. IsFiniteSet(InRun)
  BY HttpAssumption, FS_Subset DEF InRun
<1>6. Counted'
  BY <1>4, <1>5, FS_AddElement DEF Inv, Counted
<1> QED BY <1>1, <1>2, <1>3, <1>6, <1>7 DEF Kept

\* ... and when it leaves Run.
LEMMA UnregisterStep ==
    ASSUME Inv, NEW w \in Workers, Unregister(w)
    PROVE  Kept'
<1> USE DEF queueVars, serverVars, ghostVars, workerVars, Unregister
<1>1. Types'
  BY DEF Inv, Types, WorkerPlaces, Registered
<1>2. MainKnows' /\ LateOnes'
  BY DEF Inv, Types, MainKnows, LateOnes, AfterWait
<1>3. Holding'
  BY DEF Inv, Types, Holding, InHandler
<1>7. HeldOnce'
  BY HeldSame DEF Inv
<1>4. InRun' = InRun \ {w} /\ w \in InRun
  BY DEF Inv, Types, InRun, Registered
<1>5. IsFiniteSet(InRun)
  BY HttpAssumption, FS_Subset DEF InRun
<1>6. Counted'
  BY <1>4, <1>5, FS_RemoveElement DEF Inv, Counted, ThreadsLeft
<1> QED BY <1>1, <1>2, <1>3, <1>6, <1>7 DEF Kept

\* A worker waits, leaves or moves the head of the queue to its item.
LEMMA TakeStep ==
    ASSUME Inv, NEW w \in Workers, Take(w)
    PROVE  Kept'
<1> USE DEF queueVars, serverVars, ghostVars, workerVars
<1>1. CASE sleeping' = sleeping \cup {w} /\ UNCHANGED <<queue, workerVars>>
  BY <1>1 DEF Take, Inv, Kept, Types, MainKnows, LateOnes, AfterWait, Holding, HeldOnce,
     QueueDistinct, ItemsDistinct, InQueue, AtWorker, Counted, InRun
<1>2. CASE /\ ~running /\ wpc' = [wpc EXCEPT ![w] = "leave"]
           /\ UNCHANGED <<queue, sleeping, item, watched>>
  <2>1. Types' /\ MainKnows' /\ LateOnes'
    BY <1>2 DEF Take, Inv, Types, MainKnows, LateOnes, AfterWait, WorkerPlaces, Registered
  <2>2. Holding'
    BY <1>2 DEF Take, Inv, Types, Holding, InHandler
  <2>4. HeldOnce'
    BY <1>2, HeldSame DEF Take, Inv
  <2>3. Counted'
    BY <1>2 DEF Take, Inv, Types, Counted, InRun, Registered
  <2> QED BY <2>1, <2>2, <2>3, <2>4 DEF Kept
<1>3. CASE /\ running /\ queue # <<>>
           /\ queue' = Rest(queue)
           /\ item' = [item EXCEPT ![w] = Head(queue)]
           /\ watched' = [watched EXCEPT ![w] = IF Head(queue) \in LongPolls THEN tip ELSE 0]
           /\ wpc' = [wpc EXCEPT ![w] = IF Head(queue) \in LongPolls THEN "poll" ELSE "exec"]
           /\ UNCHANGED sleeping
  <2> DEFINE r == Head(queue)
  <2>0. queue \in Seq(Requests) /\ queue # <<>> /\ queue' = Tail(queue)
    BY <1>3 DEF Inv, Types, Rest
  <2>1. /\ r \in Requests /\ r = queue[1] /\ r # None /\ 1 \in 1 .. Len(queue)
        /\ queue' \in Seq(Requests) /\ Len(queue') = Len(queue) - 1 /\ Len(queue) \in Nat
        /\ \A i \in 1 .. Len(queue') : queue'[i] = queue[i + 1]
    BY <2>0, HttpAssumption
  <2> HIDE DEF r
  <2>2. Types'
    BY <1>3, <2>1, HttpAssumption DEF Take, Inv, Types, WorkerPlaces, Registered, r
  <2>3. MainKnows' /\ LateOnes'
    BY <1>3 DEF Take, Inv, Types, MainKnows, LateOnes, AfterWait
  <2>4. Holding'
    BY <1>3, <2>1 DEF Take, Inv, Types, Holding, InHandler, r
  <2>5. Counted'
    BY <1>3 DEF Take, Inv, Types, Counted, InRun, Registered
  <2>6. InQueue(r) /\ ~AtWorker(r) /\ state[r] = "queued"
    BY <2>1 DEF Inv, HeldOnce, InQueue
  <2>7. item[w] = None
    BY DEF Take, Inv, Holding, InHandler
  <2>8. item' = [item EXCEPT ![w] = r] /\ item \in [Workers -> Requests \cup {None}]
    BY <1>3 DEF Inv, Types, r
  <2>9. QueueDistinct'
    BY <2>1 DEF Inv, HeldOnce, QueueDistinct
  <2>10. ItemsDistinct'
    BY <2>6, <2>8 DEF Inv, HeldOnce, ItemsDistinct, AtWorker
  <2>11. ASSUME NEW q \in Requests
         PROVE  /\ InQueue(q)' <=> InQueue(q) /\ q # r
                /\ AtWorker(q)' <=> AtWorker(q) \/ q = r
    <3>1. InQueue(q)' => InQueue(q) /\ q # r
      <4> SUFFICES ASSUME NEW i \in 1 .. Len(queue'), queue'[i] = q
                   PROVE  InQueue(q) /\ q # r
        BY DEF InQueue
      <4>1. i + 1 \in 1 .. Len(queue) /\ queue[i + 1] = q /\ i + 1 # 1
        BY <2>1
      <4>2. QueueDistinct
        BY DEF Inv, HeldOnce
      <4> QED BY <2>1, <4>1, <4>2 DEF InQueue, QueueDistinct
    <3>2. InQueue(q) /\ q # r => InQueue(q)'
      <4> SUFFICES ASSUME NEW i \in 1 .. Len(queue), queue[i] = q, q # r
                   PROVE  \E j \in 1 .. Len(queue') : queue'[j] = q
        BY DEF InQueue
      <4>1. i - 1 \in 1 .. Len(queue') /\ queue'[i - 1] = q
        BY <2>1
      <4> QED BY <4>1
    <3>3. AtWorker(q)' <=> AtWorker(q) \/ q = r
      BY <2>7, <2>8, HttpAssumption DEF AtWorker
    <3> QED BY <3>1, <3>2, <3>3
  <2>12. state' = state /\ epc' = epc
    BY DEF Take
  <2>13. HeldOnce'
    BY <2>6, <2>9, <2>10, <2>11, <2>12 DEF Inv, HeldOnce
  <2> QED BY <2>2, <2>3, <2>4, <2>5, <2>13 DEF Kept
<1> QED BY <1>1, <1>2, <1>3 DEF Take

\* A worker answers its item, or starts to wait for a block with it.
LEMMA ExecuteStep ==
    ASSUME Inv, NEW w \in Workers, Execute(w)
    PROVE  Kept'
<1> USE DEF queueVars, serverVars, ghostVars, workerVars
<1> DEFINE r == item[w]
<1>1. r \in Requests /\ AtWorker(r) /\ ~InQueue(r) /\ state[r] = "queued" /\ r # None
  BY HttpAssumption DEF Execute, Inv, Types, Holding, InHandler, HeldOnce, AtWorker
<1>2. Types'
  BY HttpAssumption, <1>1 DEF Execute, Inv, Types, WorkerPlaces, Registered, States
<1>3. MainKnows' /\ LateOnes'
  BY DEF Execute, Inv, Types, MainKnows, LateOnes, AfterWait
<1>4. Holding'
  BY DEF Execute, Inv, Types, Holding, InHandler
<1>5. Counted'
  BY DEF Execute, Inv, Types, Counted, InRun, Registered
<1>6. /\ item' = [item EXCEPT ![w] = None] /\ item \in [Workers -> Requests \cup {None}]
      /\ state' = [state EXCEPT ![r] = "replied"] /\ state \in [Requests -> States]
      /\ queue' = queue /\ epc' = epc
  BY DEF Execute, Inv, Types
<1> HIDE DEF r
<1>7. QueueDistinct' /\ ItemsDistinct'
  BY <1>6 DEF Inv, HeldOnce, QueueDistinct, ItemsDistinct
<1>8. ASSUME NEW q \in Requests
      PROVE  /\ InQueue(q)' <=> InQueue(q)
             /\ AtWorker(q)' <=> AtWorker(q) /\ q # r
  BY <1>1, <1>6, HttpAssumption DEF InQueue, AtWorker, Inv, HeldOnce, ItemsDistinct, r
<1>9. HeldOnce'
  BY <1>1, <1>6, <1>7, <1>8 DEF Inv, HeldOnce
<1> QED BY <1>2, <1>3, <1>4, <1>5, <1>9 DEF Kept

\* The steps that move the main thread on, or wake somebody.
LEMMA SimpleMainSteps ==
    ASSUME Inv,
           \/ InterruptHTTPServer \/ InterruptQueue \/ InterruptRPC \/ StopHTTPRPC
           \/ BreakLoop \/ JoinEventThread \/ \E t \in Workers \cup {Main} : SpuriousWakeup(t)
    PROVE  Kept'
<1> USE DEF queueVars, serverVars, ghostVars, workerVars, MainGoes, InterruptHTTPServer,
            InterruptQueue, InterruptRPC, StopHTTPRPC, BreakLoop, JoinEventThread, SpuriousWakeup
<1>1. Types'
  BY DEF Inv, Types, MainPlaces
<1>2. MainKnows' /\ LateOnes'
  BY DEF Inv, MainKnows, LateOnes, AfterWait
<1>3. Holding'
  BY DEF Inv, Holding
<1>4. HeldOnce'
  BY HeldSame DEF Inv
<1>5. Counted'
  BY DEF Inv, Counted, InRun
<1> QED BY <1>1, <1>2, <1>3, <1>4, <1>5 DEF Kept

\* StopRPC and a new block wake the long polls.
LEMMA WakingSteps ==
    ASSUME Inv, StopRPC \/ NewBlock
    PROVE  Kept'
<1> USE DEF queueVars, serverVars, ghostVars, workerVars, MainGoes, StopRPC, NewBlock, PollersWoken
<1>1. Types'
  BY HttpAssumption DEF Inv, Types, MainPlaces, WorkerPlaces, Registered
<1>2. MainKnows'
  BY DEF Inv, MainKnows
<1>7. LateOnes'
  <2>1. mpc' \in AfterWait => mpc \in AfterWait
    BY DEF AfterWait
  <2>2. \A w \in Workers : wpc[w] # "pollwait" => wpc'[w] = wpc[w]
    OBVIOUS
  <2> QED BY <2>1, <2>2 DEF Inv, LateOnes
<1>3. Holding'
  BY DEF Inv, Types, Holding, InHandler
<1>4. HeldOnce'
  BY HeldSame DEF Inv
<1>5. InRun' = InRun /\ numThreads' = numThreads
  BY DEF Inv, Types, InRun, Registered
<1>6. Counted'
  BY <1>5 DEF Inv, Counted
<1> QED BY <1>1, <1>2, <1>3, <1>4, <1>6, <1>7 DEF Kept

\* WaitExit returns only when nobody is inside Run.
LEMMA WaitExitStep ==
    ASSUME Inv, WaitExit
    PROVE  Kept'
<1> USE DEF queueVars, serverVars, ghostVars, workerVars, WaitExit
<1>1. Types'
  BY DEF Inv, Types, MainPlaces
<1>2. MainKnows'
  BY DEF Inv, MainKnows
<1>3. IsFiniteSet(InRun)
  BY HttpAssumption, FS_Subset DEF InRun
<1>4. LateOnes'
  <2>1. CASE MayReturn
    <3>1. InRun = {}
      BY <1>3, <2>1, FS_EmptySet DEF Inv, Counted, MayReturn
    <3>2. \A w \in Workers : wpc[w] \in {"new", "gone"}
      BY <3>1 DEF InRun, Inv, Types, WorkerPlaces
    <3> QED BY <2>1, <3>2 DEF LateOnes
  <2>2. CASE ~MayReturn
    BY <2>2 DEF Inv, LateOnes, AfterWait
  <2> QED BY <2>1, <2>2
<1>5. Holding'
  BY DEF Inv, Holding
<1>6. HeldOnce'
  BY HeldSame DEF Inv
<1>7. Counted'
  BY DEF Inv, Counted, InRun
<1> QED BY <1>1, <1>2, <1>4, <1>5, <1>6, <1>7 DEF Kept

\* When the queue is deleted nobody has an item, and what is queued is in the queue.
LEMMA DeleteStep ==
    ASSUME Inv, DeleteQueue
    PROVE  Kept'
<1> USE DEF queueVars, serverVars, ghostVars, workerVars, MainGoes, DeleteQueue
<1>1. Types'
  BY DEF Inv, Types, MainPlaces, States
<1>2. MainKnows' /\ LateOnes'
  BY DEF Inv, MainKnows, LateOnes, AfterWait
<1>3. Holding'
  BY DEF Inv, Holding
<1>4. Counted'
  BY DEF Inv, Counted, InRun
<1>5. \A w \in Workers : item[w] = None
  BY DEF Inv, LateOnes, AfterWait, Holding, InHandler
<1>6. \A r \in Requests : ~AtWorker(r) /\ ~AtWorker(r)' /\ ~InQueue(r)'
  BY <1>5, HttpAssumption DEF AtWorker, InQueue
<1>7. \A r \in Requests : state'[r] = IF InQueue(r) THEN "replied" ELSE state[r]
  BY DEF AnsweredByDelete, InQueue
<1>8. QueueDistinct' /\ ItemsDistinct'
  BY <1>5 DEF QueueDistinct, ItemsDistinct
<1>9. HeldOnce'
  BY <1>6, <1>7, <1>8 DEF Inv, HeldOnce
<1> QED BY <1>1, <1>2, <1>3, <1>4, <1>9 DEF Kept

\* A request that is taken, refused, or sent is in nobody's hands but the event
\* thread's.
LEMMA EventSteps ==
    ASSUME Inv,
           \/ FindHandler \/ EventLoopEnds
           \/ \E r \in Requests : SendReply(r) \/ Arrive(r)
    PROVE  Kept'
<1> USE DEF queueVars, serverVars, ghostVars, workerVars
<1>1. Types'
  BY HttpAssumption DEF Inv, Types, States, FindHandler, EventLoopEnds, SendReply, Arrive
<1>2. MainKnows' /\ LateOnes'
  BY DEF Inv, MainKnows, LateOnes, AfterWait, FindHandler, EventLoopEnds, SendReply, Arrive
<1>3. Holding'
  BY HttpAssumption DEF Inv, Types, Holding, FindHandler, EventLoopEnds, SendReply, Arrive
<1>4. Counted'
  BY DEF Inv, Counted, InRun, FindHandler, EventLoopEnds, SendReply, Arrive
<1>5. /\ QueueDistinct' /\ ItemsDistinct'
      /\ \A r : (InQueue(r)' <=> InQueue(r)) /\ (AtWorker(r)' <=> AtWorker(r))
  BY DEF Inv, HeldOnce, QueueDistinct, ItemsDistinct, InQueue, AtWorker, FindHandler,
     EventLoopEnds, SendReply, Arrive
<1>6. \A r \in Requests : /\ state'[r] = "queued" <=> state[r] = "queued"
                          /\ epc'.req = r => state'[r] = "taken"
  BY HttpAssumption DEF Inv, Types, Holding, HeldOnce, FindHandler, EventLoopEnds, SendReply, Arrive
<1>7. HeldOnce'
  BY <1>5, <1>6 DEF Inv, HeldOnce
<1> QED BY <1>1, <1>2, <1>3, <1>4, <1>7 DEF Kept

\* Enqueue hands the request over to the queue, or answers it.
LEMMA EnqueueStep ==
    ASSUME Inv, Enqueue
    PROVE  Kept'
<1> USE DEF queueVars, serverVars, ghostVars, workerVars
<1> DEFINE r == epc.req
<1>1. /\ r \in Requests /\ state[r] = "taken" /\ ~InQueue(r) /\ ~AtWorker(r)
      /\ epc'.req = None /\ epc'.at = "loop"
  BY HttpAssumption DEF Enqueue, Inv, Types, Holding, HeldOnce
<1>2. Types'
  <2>1. sleeping' \subseteq Workers \cup {Main}
    BY DEF Enqueue, Inv, Types, Woken
  <2>2. queue \in Seq(Requests) /\ state \in [Requests -> States]
    BY DEF Inv, Types
  <2>3. queue' = queue \/ queue' = Append(queue, r)
    BY DEF Enqueue
  <2>4. queue' \in Seq(Requests)
    <3>1. Append(queue, r) \in Seq(Requests)
      BY <1>1, <2>2
    <3> QED BY <2>2, <2>3, <3>1
  <2>5. state' \in [Requests -> States]
    BY <1>1, <2>2 DEF Enqueue, States
  <2> QED BY <2>1, <2>4, <2>5, HttpAssumption DEF Enqueue, Inv, Types
<1>3. MainKnows' /\ LateOnes'
  BY DEF Inv, MainKnows, LateOnes, AfterWait, Enqueue
<1>4. Holding'
  BY <1>1 DEF Inv, Holding, Enqueue
<1>5. Counted'
  BY DEF Inv, Counted, InRun, Enqueue
<1>6. ItemsDistinct' /\ \A q : AtWorker(q)' <=> AtWorker(q)
  BY DEF Inv, HeldOnce, ItemsDistinct, AtWorker, Enqueue
<1>7. HeldOnce'
  <2>1. CASE deleted
    BY <1>1, <2>1, HttpAssumption
       DEF Inv, HeldOnce, QueueDistinct, ItemsDistinct, InQueue, AtWorker, Enqueue
  <2>2. CASE /\ ~deleted /\ Len(queue) >= MaxDepth
             /\ state' = [state EXCEPT ![r] = "replied"] /\ queue' = queue
    <3>1. QueueDistinct' /\ \A q : InQueue(q)' <=> InQueue(q)
      BY <2>2 DEF Inv, HeldOnce, QueueDistinct, InQueue
    <3>2. \A q \in Requests : state'[q] = IF q = r THEN "replied" ELSE state[q]
      BY <2>2 DEF Inv, Types
    <3> HIDE DEF r
    <3> QED BY <1>1, <1>6, <3>1, <3>2, HttpAssumption DEF Inv, HeldOnce
  <2>3. CASE ~deleted /\ queue' = Append(queue, r) /\ state' = [state EXCEPT ![r] = "queued"]
    <3>1. /\ Len(queue') = Len(queue) + 1 /\ Len(queue) \in Nat
          /\ \A i \in 1 .. Len(queue) : queue'[i] = queue[i]
          /\ queue'[Len(queue) + 1] = r
      BY <1>1, <2>3 DEF Inv, Types
    <3>2. \A q \in Requests : state'[q] = IF q = r THEN "queued" ELSE state[q]
      BY <2>3 DEF Inv, Types
    <3> HIDE DEF r
    <3>3. QueueDistinct'
      BY <1>1, <3>1 DEF Inv, HeldOnce, QueueDistinct, InQueue
    <3>4. \A q \in Requests : InQueue(q)' <=> InQueue(q) \/ q = r
      BY <3>1 DEF InQueue
    <3> QED BY <1>1, <1>6, <3>2, <3>3, <3>4, HttpAssumption DEF Inv, HeldOnce
  <2> QED BY <2>1, <2>2, <2>3 DEF Enqueue
<1> QED BY <1>2, <1>3, <1>4, <1>5, <1>7 DEF Kept

\* Every step keeps the invariant.
LEMMA StepInv == Inv /\ [Next]_vars => Inv'
<1> SUFFICES ASSUME Inv, [Next]_vars PROVE Inv'
  OBVIOUS
<1>1. Flags'
  BY FlagsStep DEF Inv
<1>2. Kept'
  <2>1. CASE UNCHANGED vars
    <3>1. HeldOnce'
      BY <2>1, HeldSame DEF Inv, vars, queueVars, workerVars
    <3> QED
      BY <2>1, <3>1 DEF vars, queueVars, workerVars, serverVars, ghostVars, Inv, Kept, Counted,
         Types, MainKnows, LateOnes, Holding, InRun
  <2>2. ASSUME NEW w \in Workers, Worker(w) PROVE Kept'
    BY <2>2, SimpleWorkerSteps, RegisterStep, UnregisterStep, TakeStep, ExecuteStep DEF Worker
  <2>3. CASE Event
    BY <2>3, EventSteps, EnqueueStep DEF Event
  <2>4. ASSUME NEW r \in Requests, Arrive(r) PROVE Kept'
    BY <2>4, EventSteps
  <2>5. CASE InterruptHTTPServer
    BY <2>5, SimpleMainSteps
  <2>6. CASE Shutdown
    BY <2>6, SimpleMainSteps, WakingSteps, WaitExitStep, DeleteStep DEF Shutdown
  <2>7. CASE NewBlock
    BY <2>7, WakingSteps
  <2>8. ASSUME NEW t \in Workers \cup {Main}, SpuriousWakeup(t) PROVE Kept'
    BY <2>8, SimpleMainSteps
  <2> QED BY <2>1, <2>2, <2>3, <2>4, <2>5, <2>6, <2>7, <2>8 DEF Next
<1> QED BY <1>1, <1>2 DEF Inv, Kept

-----------------------------------------------------------------------------
(* The theorems.                                                           *)

\* The invariant holds always.
THEOREM InvCorrect == Spec => []Inv
BY InitInv, StepInv, PTL DEF Spec

\* WaitExit returns only when every worker that had entered Run is gone, and they stay
\* away: of the workers only one that had not begun Run by then can meet the deleted
\* queue, for any number of them.
THEOREM OutlivesCorrect == Spec => []QueueOutlivesWorkers
<1>1. Inv => QueueOutlivesWorkers
  BY DEF Inv, Counted, InRun, LateOnes, AfterWait, QueueOutlivesWorkers, ThreadsCounted
<1> QED BY InvCorrect, <1>1, PTL

\* A set that has not two elements.
LEMMA AtMostOne ==
    ASSUME NEW S, \A x, y \in S : x = y
    PROVE  /\ Cardinality(S) \in {0, 1}
           /\ S = {} => Cardinality(S) = 0
<1>1. CASE S = {}
  BY <1>1, FS_EmptySet
<1>2. CASE S # {}
  <2>1. PICK x \in S : S = {x}
    BY <1>2
  <2>2. Cardinality({x}) = 1
    BY FS_Singleton
  <2> QED BY <1>2, <2>1, <2>2
<1> QED BY <1>1, <1>2

\* A request is held as often as its state says.
LEMMA HeldOnceCounts == Inv => RepliedOnce
<1> SUFFICES ASSUME Inv, NEW r \in Requests
             PROVE  Holders(r) <= (IF state[r] \in {"taken", "queued"} THEN 1 ELSE 0)
  BY DEF RepliedOnce
<1> DEFINE Q == {i \in 1 .. Len(queue) : queue[i] = r}
           W == {w \in Workers : item[w] = r}
<1>1. (\A i, j \in Q : i = j) /\ (Q = {} <=> ~InQueue(r))
  BY DEF Inv, HeldOnce, QueueDistinct, InQueue
<1>2. (\A v, w \in W : v = w) /\ (W = {} <=> ~AtWorker(r))
  BY HttpAssumption DEF Inv, HeldOnce, ItemsDistinct, AtWorker
<1>3. Holders(r) = Cardinality(Q) + Cardinality(W) + (IF epc.req = r THEN 1 ELSE 0)
  BY DEF Holders
<1> HIDE DEF Q, W
<1>4. Cardinality(Q) \in {0, 1} /\ (~InQueue(r) => Cardinality(Q) = 0)
  BY <1>1, AtMostOne
<1>5. Cardinality(W) \in {0, 1} /\ (~AtWorker(r) => Cardinality(W) = 0)
  BY <1>2, AtMostOne
<1>6. /\ InQueue(r) => state[r] = "queued" /\ ~AtWorker(r)
      /\ AtWorker(r) => state[r] = "queued"
      /\ epc.req = r => state[r] = "taken"
  BY DEF Inv, HeldOnce
<1>7. CASE state[r] = "taken"
  BY <1>3, <1>4, <1>5, <1>6, <1>7
<1>8. CASE state[r] = "queued"
  BY <1>3, <1>4, <1>5, <1>6, <1>8
<1>9. CASE state[r] \notin {"taken", "queued"}
  BY <1>3, <1>4, <1>5, <1>6, <1>9
<1> QED BY <1>7, <1>8, <1>9

\* Every request is answered, and once, by whoever has it when the server is stopped,
\* for any number of workers and requests and every depth of the queue.
THEOREM AnsweredCorrect == Spec => []AnsweredOnce
<1>1. Inv => TypeOK
  <2> SUFFICES ASSUME Inv PROVE TypeOK
    OBVIOUS
  <2>1. numThreads \in 0 .. Cardinality(Workers)
    <3>1. InRun \in SUBSET Workers
      BY DEF InRun
    <3>2. /\ Cardinality(InRun) \in Nat /\ Cardinality(Workers) \in Nat
          /\ Cardinality(InRun) <= Cardinality(Workers)
      BY <3>1, FS_Subset, FS_CardinalityType, HttpAssumption
    <3> QED BY <3>2 DEF Inv, Counted
  <2> QED BY <2>1, Zenon DEF Inv, Flags, Types, TypeOK
<1>2. Inv => AnsweredWhenDeleted
  <2> SUFFICES ASSUME Inv, deleted, NEW r \in Requests PROVE state[r] # "queued"
    BY DEF AnsweredWhenDeleted
  <2>1. ~AtWorker(r)
    BY HttpAssumption DEF Inv, MainKnows, LateOnes, AfterWait, Holding, InHandler, AtWorker
  <2>2. ~InQueue(r)
    BY DEF Inv, MainKnows, InQueue
  <2> QED BY <2>1, <2>2 DEF Inv, HeldOnce
<1>3. Inv => AnsweredOnce
  BY <1>1, <1>2, HeldOnceCounts DEF AnsweredOnce
<1> QED BY InvCorrect, <1>3, PTL

=============================================================================
