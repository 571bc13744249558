----------------------------- MODULE CheckQueue -----------------------------
(***************************************************************************)
(* The script-verification queue, CCheckQueue and CCheckQueueControl       *)
(* (src/checkqueue.h), as ConnectBlock uses it: one master thread adds     *)
(* batches of checks and then joins the pool of worker threads until every *)
(* check is done.                                                          *)
(*                                                                         *)
(* All the state of the queue is protected by one mutex, so everything a   *)
(* thread does between taking the mutex and releasing it (by leaving the   *)
(* block or by waiting on a condition variable) is one step.  The checks   *)
(* themselves run outside the mutex.  A thread that was notified still has *)
(* to take the mutex again: it is "woken" until it does.                   *)
(***************************************************************************)
EXTENDS Integers, FiniteSets

CONSTANTS Workers,     \* the threads running ThreadScriptCheck
          Master,      \* the thread that connects a block (it holds cs_main)
          Checks,      \* the checks one round may consist of
          nBatchSize   \* the largest number of checks taken at once

ASSUME QueueAssumption ==
    /\ Master \notin Workers
    /\ IsFiniteSet(Workers)
    /\ IsFiniteSet(Checks)
    /\ nBatchSize \in Nat \ {0}

Threads == Workers \cup {Master}

VARIABLES
    queue,     \* the checks not handed to a thread yet
    nIdle,     \* number of threads waiting in Loop
    nTotal,    \* number of threads inside Loop
    fAllOk,    \* whether every check cleaned up so far succeeded
    nTodo,     \* number of checks not cleaned up yet
    pc,        \* where each thread is
    vChecks,   \* the batch each thread works on
    fOk,       \* the outcome of each thread's batch
    pending,   \* the threads with an undelivered boost interruption
    shutdown,  \* whether interrupt_all() was called
    round,     \* history: the checks added since the control was created
    failing,   \* history: those of them whose evaluation returns false
    verdict    \* what the last Wait() returned

vars == <<queue, nIdle, nTotal, fAllOk, nTodo, pc, vChecks, fOk,
          pending, shutdown, round, failing, verdict>>

\* "out": not in the queue's code.  "adding": the master between creating the
\* control and Wait.  "enter": about to run Loop's first iteration.  "exec":
\* running its batch.  "cleanup": batch done, mutex not taken again.  "wait",
\* "woken": in cond.wait.  "gone": a worker that was interrupted.
Locations == {"out", "adding", "enter", "exec", "cleanup", "wait", "woken", "gone"}

-----------------------------------------------------------------------------
(* Condition variables.  notify_one wakes one waiter, if there is one.     *)

WaitingWorkers == {w \in Workers : pc[w] = "wait"}

Woken(locs, S) == [t \in Threads |-> IF t \in S THEN "woken" ELSE locs[t]]

\* The waiters a notification by Add of n checks may wake.
Notified(n) ==
    IF n = 1 /\ WaitingWorkers # {} THEN {{w} : w \in WaitingWorkers}
                                    ELSE {WaitingWorkers}

-----------------------------------------------------------------------------
(* The part of Loop after the clean-up, with the mutex held.  The arguments *)
(* are the values the variables have at that point.                         *)

\* How many checks to take: aim for smaller batches when many threads share.
BatchSize(total, idle) ==
    LET share == Cardinality(queue) \div (total + idle + 1)
        small == IF share < nBatchSize THEN share ELSE nBatchSize
    IN  IF small < 1 THEN 1 ELSE small

\* Mutant of LeaveLoop: fAllOk is not reset for the next round.
LeaveLoopDirty(t, total, idle, ok, todo, locs) ==
    /\ queue = {} /\ t = Master /\ todo = 0
    /\ nTotal' = total - 1
    /\ verdict' = ok
    /\ fAllOk' = ok
    /\ pc' = [locs EXCEPT ![t] = "out"]
    /\ vChecks' = [vChecks EXCEPT ![t] = {}]
    /\ nIdle' = idle
    /\ nTodo' = todo
    /\ UNCHANGED <<queue, fOk>>

\* Nothing queued and nothing outstanding: the master leaves with the result.
LeaveLoop(t, total, idle, ok, todo, locs) ==
    /\ queue = {} /\ t = Master /\ todo = 0
    /\ nTotal' = total - 1
    /\ verdict' = ok
    /\ fAllOk' = TRUE
    /\ pc' = [locs EXCEPT ![t] = "out"]
    /\ vChecks' = [vChecks EXCEPT ![t] = {}]
    /\ nIdle' = idle
    /\ nTodo' = todo
    /\ UNCHANGED <<queue, fOk>>

\* Nothing queued but checks outstanding, or a worker: wait.
Sleep(t, total, idle, ok, todo, locs) ==
    /\ queue = {} /\ ~(t = Master /\ todo = 0)
    /\ nIdle' = idle + 1
    /\ pc' = [locs EXCEPT ![t] = "wait"]
    /\ vChecks' = [vChecks EXCEPT ![t] = {}]
    /\ nTotal' = total
    /\ fAllOk' = ok
    /\ nTodo' = todo
    /\ UNCHANGED <<queue, fOk, verdict>>

\* Move a batch from the queue to the thread.  The code takes it from the
\* back of a vector; any subset of the right size is allowed here.
TakeBatch(t, total, idle, ok, todo, locs) ==
    /\ queue # {}
    /\ \E batch \in SUBSET queue :
          /\ Cardinality(batch) = BatchSize(total, idle)
          /\ vChecks' = [vChecks EXCEPT ![t] = batch]
          /\ queue' = queue \ batch
    /\ fOk' = [fOk EXCEPT ![t] = ok]
    /\ pc' = [locs EXCEPT ![t] = "exec"]
    /\ nTotal' = total
    /\ nIdle' = idle
    /\ fAllOk' = ok
    /\ nTodo' = todo
    /\ UNCHANGED verdict

LoopBody(t, total, idle, ok, todo, locs) ==
    \/ LeaveLoop(t, total, idle, ok, todo, locs)
    \/ Sleep(t, total, idle, ok, todo, locs)
    \/ TakeBatch(t, total, idle, ok, todo, locs)

-----------------------------------------------------------------------------
(* Loop, called by a worker (Thread) or by the master (Wait).              *)

\* First iteration: the thread joins the pool.
EnterLoop(t) ==
    /\ pc[t] = "enter"
    /\ LoopBody(t, nTotal + 1, nIdle, fAllOk, nTodo, pc)
    /\ UNCHANGED <<pending, shutdown, round, failing>>

\* Run the batch, skipping the rest after a failure or when one is known.
Execute(t) ==
    /\ pc[t] = "exec"
    /\ fOk' = [fOk EXCEPT ![t] = fOk[t] /\ vChecks[t] \cap failing = {}]
    /\ pc' = [pc EXCEPT ![t] = "cleanup"]
    /\ UNCHANGED <<queue, nIdle, nTotal, fAllOk, nTodo, vChecks,
                   pending, shutdown, round, failing, verdict>>

\* The clean-up accounts for the batch; a worker that finished the last check
\* wakes the master.  Mutants: a full batch is subtracted; the outcome of the
\* batch is dropped; nobody is woken.
TodoAfterFull(t) == nTodo - nBatchSize
TodoAfter(t) == nTodo - Cardinality(vChecks[t])

OkBefore(t) == fAllOk
OkAfter(t) == fAllOk /\ fOk[t]

WakesNobody(t) == {}
Wakes(t) == IF TodoAfter(t) = 0 /\ t # Master /\ pc[Master] = "wait" THEN {Master} ELSE {}

CleanUp(t) ==
    /\ pc[t] = "cleanup"
    /\ LoopBody(t, nTotal, nIdle, OkAfter(t), TodoAfter(t), Woken(pc, Wakes(t)))
    /\ UNCHANGED <<pending, shutdown, round, failing>>

\* cond.wait returns with the mutex taken again.
Resume(t) ==
    /\ pc[t] = "woken"
    /\ LoopBody(t, nTotal, nIdle - 1, fAllOk, nTodo, pc)
    /\ UNCHANGED <<pending, shutdown, round, failing>>

\* A condition variable may return although nobody notified it.
SpuriousWakeup(t) ==
    /\ pc[t] = "wait"
    /\ pc' = [pc EXCEPT ![t] = "woken"]
    /\ UNCHANGED <<queue, nIdle, nTotal, fAllOk, nTodo, vChecks, fOk,
                   pending, shutdown, round, failing, verdict>>

-----------------------------------------------------------------------------
(* The master: CCheckQueueControl.                                         *)

IsIdle == nTotal = nIdle /\ nTodo = 0 /\ fAllOk

\* The constructor (it asserts IsIdle; see IdleWhenCreated).
CreateControl ==
    /\ pc[Master] = "out"
    /\ pc' = [pc EXCEPT ![Master] = "adding"]
    /\ round' = {}
    /\ failing' = {}
    /\ UNCHANGED <<queue, nIdle, nTotal, fAllOk, nTodo, vChecks, fOk,
                   pending, shutdown, verdict>>

\* Mutant of Add: the call is counted instead of its checks.
AddOne(batch, bad) ==
    /\ pc[Master] = "adding"
    /\ batch # {} /\ batch \cap round = {}
    /\ queue' = queue \cup batch
    /\ nTodo' = nTodo + 1
    /\ round' = round \cup batch
    /\ failing' = failing \cup bad
    /\ \E S \in Notified(Cardinality(batch)) : pc' = Woken(pc, S)
    /\ UNCHANGED <<nIdle, nTotal, fAllOk, vChecks, fOk,
                   pending, shutdown, verdict>>

\* One call per transaction; bad are the checks of it that will fail.
Add(batch, bad) ==
    /\ pc[Master] = "adding"
    /\ batch # {} /\ batch \cap round = {}
    /\ queue' = queue \cup batch
    /\ nTodo' = nTodo + Cardinality(batch)
    /\ round' = round \cup batch
    /\ failing' = failing \cup bad
    /\ \E S \in Notified(Cardinality(batch)) : pc' = Woken(pc, S)
    /\ UNCHANGED <<nIdle, nTotal, fAllOk, vChecks, fOk,
                   pending, shutdown, verdict>>

\* Wait(), or the destructor's Wait() when ConnectBlock returns early.
CallWait ==
    /\ pc[Master] = "adding"
    /\ pc' = [pc EXCEPT ![Master] = "enter"]
    /\ UNCHANGED <<queue, nIdle, nTotal, fAllOk, nTodo, vChecks, fOk,
                   pending, shutdown, round, failing, verdict>>

-----------------------------------------------------------------------------
(* Shutdown: threadGroup.interrupt_all().  cond.wait is an interruption    *)
(* point: it throws out of Loop with nIdle and nTotal still counting the   *)
(* thread.  A worker is gone then; the exception takes the master through  *)
(* ~CCheckQueueControl, which calls Wait() again.                          *)

InterruptAll ==
    /\ ~shutdown
    /\ shutdown' = TRUE
    /\ pending' = Threads
    /\ UNCHANGED <<queue, nIdle, nTotal, fAllOk, nTodo, pc, vChecks, fOk,
                   round, failing, verdict>>

Interrupted(t) ==
    /\ t \in pending
    /\ pc[t] \in {"wait", "woken"}
    /\ pending' = pending \ {t}
    /\ pc' = [pc EXCEPT ![t] = IF t = Master THEN "enter" ELSE "gone"]
    /\ UNCHANGED <<queue, nIdle, nTotal, fAllOk, nTodo, vChecks, fOk,
                   shutdown, round, failing, verdict>>

-----------------------------------------------------------------------------

Init ==
    /\ queue = {}
    /\ nIdle = 0
    /\ nTotal = 0
    /\ fAllOk = TRUE
    /\ nTodo = 0
    /\ pc = [t \in Threads |-> IF t = Master THEN "out" ELSE "enter"]
    /\ vChecks = [t \in Threads |-> {}]
    /\ fOk = [t \in Threads |-> TRUE]
    /\ pending = {}
    /\ shutdown = FALSE
    /\ round = {}
    /\ failing = {}
    /\ verdict = TRUE

Loop(t) == EnterLoop(t) \/ Execute(t) \/ CleanUp(t) \/ Resume(t)

Next ==
    \/ \E t \in Threads : Loop(t) \/ SpuriousWakeup(t) \/ Interrupted(t)
    \/ CreateControl
    \/ \E batch \in SUBSET Checks : \E bad \in SUBSET batch : Add(batch, bad)
    \/ CallWait
    \/ InterruptAll

\* Every thread that can run does: the operating system schedules threads and
\* grants the mutex.  Nothing is assumed of spurious wake-ups, of interruptions
\* and of when the master adds checks.
Fairness == \A t \in Threads : WF_vars(Loop(t))

Spec == Init /\ [][Next]_vars
FairSpec == Spec /\ Fairness

-----------------------------------------------------------------------------
(* Properties.                                                             *)

\* Every variable has its type; in particular the counters of CCheckQueue, which
\* are unsigned or count threads, never go below zero.
TypeOK ==
    /\ queue \in SUBSET Checks
    /\ nIdle \in Nat /\ nTotal \in Nat /\ nTodo \in Nat
    /\ fAllOk \in BOOLEAN
    /\ pc \in [Threads -> Locations]
    /\ vChecks \in [Threads -> SUBSET Checks]
    /\ fOk \in [Threads -> BOOLEAN]
    /\ pending \in SUBSET Threads
    /\ shutdown \in BOOLEAN
    /\ round \in SUBSET Checks /\ failing \in SUBSET round
    /\ verdict \in BOOLEAN

\* Wait() returns true exactly when every check added since the control was
\* created evaluates to true, whatever thread ran it, whatever was skipped
\* after a failure, and however the previous round ended.
VerdictCorrect == pc[Master] = "out" => (verdict <=> failing = {})

\* The assertion in CCheckQueueControl's constructor never fails: when the
\* master is outside the queue, all threads in the loop are idle, nothing is
\* outstanding and a failure of the previous round is forgotten.
IdleWhenCreated == pc[Master] = "out" => IsIdle

\* Wait() returns: the master is never left waiting for a wake-up, even if
\* every worker was interrupted.
WaitReturns == (pc[Master] = "enter") ~> (pc[Master] = "out")

-----------------------------------------------------------------------------
(* The inductive invariant behind VerdictCorrect and IdleWhenCreated.      *)

Busy   == {t \in Threads : pc[t] \in {"exec", "cleanup"}}
Asleep == {t \in Threads : pc[t] \in {"wait", "woken"}}
Outstanding == queue \cup UNION {vChecks[t] : t \in Threads}

\* A thread holds checks exactly while it works on a batch, and no check is in
\* two hands.
BatchesApart ==
    /\ \A t \in Threads : vChecks[t] # {} <=> t \in Busy
    /\ \A t \in Threads : vChecks[t] \cap queue = {}
    /\ \A t, u \in Threads : t # u => vChecks[t] \cap vChecks[u] = {}

\* nTodo is exactly the number of checks that are queued or in a thread's
\* hands, so the unsigned subtraction in Loop never wraps.
TodoExact == nTodo = Cardinality(Outstanding)

\* The counters of CCheckQueue never go below zero and nTodo is what is outstanding.
CountersExact == TypeOK /\ TodoExact

\* nIdle and nTotal drift apart by exactly the threads that hold a batch, even
\* after interruptions have left both of them too large.
PoolCounts ==
    /\ nTotal = nIdle + Cardinality(Busy)
    /\ nIdle >= Cardinality(Asleep)

\* No failure is lost and none is invented while the master is in the round.
FailuresKnown ==
    pc[Master] # "out" =>
      /\ fAllOk => failing \subseteq Outstanding
      /\ ~fAllOk => failing # {}
      /\ \A t \in Busy : ~fOk[t] => failing # {}
      /\ \A t \in Busy : pc[t] = "cleanup" /\ fOk[t] => vChecks[t] \cap failing = {}

RoundOver == pc[Master] = "out" => /\ nTodo = 0 /\ fAllOk
                                   /\ verdict <=> failing = {}

IInv ==
    /\ TypeOK
    /\ pc[Master] # "gone"
    /\ \A w \in Workers : pc[w] \notin {"out", "adding"}
    /\ Outstanding \subseteq round
    /\ BatchesApart
    /\ TodoExact
    /\ PoolCounts
    /\ FailuresKnown
    /\ RoundOver

=============================================================================
