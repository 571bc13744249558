------------------------------ MODULE CoinsMap ------------------------------
(***************************************************************************)
(* What the stack of coin views promises its users: three plain copies of  *)
(* the set of unspent outputs, each with the block it belongs to.  Work is *)
(* done on a private copy and then taken over or forgotten as a whole; the *)
(* copy in memory is saved as a whole; a crash loses what was not saved.   *)
(***************************************************************************)
CONSTANTS Txids, Outs, Hashes

VARIABLES disk, mem, work,     \* unspent outputs, by transaction
          diskBest, memBest, workBest,
          active               \* somebody works on the private copy

vars == <<disk, mem, work, diskBest, memBest, workBest, active>>

Maps == [Txids -> SUBSET Outs]

Init ==
    /\ disk \in Maps /\ mem = disk /\ work = disk
    /\ diskBest \in Hashes /\ memBest = diskBest /\ workBest = diskBest
    /\ active = FALSE

Begin ==
    /\ ~active /\ active' = TRUE
    /\ work' = mem /\ workBest' = memBest
    /\ UNCHANGED <<disk, mem, diskBest, memBest>>

Change(t, c) ==
    /\ active
    /\ work' = [work EXCEPT ![t] = c]
    /\ UNCHANGED <<disk, mem, diskBest, memBest, workBest, active>>

SetBest(h) ==
    /\ active
    /\ workBest' = h
    /\ UNCHANGED <<disk, mem, work, diskBest, memBest, active>>

\* Only work that names the block it leads to is taken over.
TakeOver ==
    /\ active /\ active' = FALSE
    /\ mem' = work /\ memBest' = workBest
    /\ UNCHANGED <<disk, work, diskBest, workBest>>

Forget ==
    /\ active /\ active' = FALSE
    /\ work' = mem /\ workBest' = memBest
    /\ UNCHANGED <<disk, mem, diskBest, memBest>>

Save ==
    /\ ~active
    /\ disk' = mem /\ diskBest' = memBest
    /\ UNCHANGED <<mem, work, memBest, workBest, active>>

Crash ==
    /\ active' = FALSE
    /\ mem' = disk /\ memBest' = diskBest
    /\ work' = disk /\ workBest' = diskBest
    /\ UNCHANGED <<disk, diskBest>>

Next ==
    \/ Begin \/ TakeOver \/ Forget \/ Save \/ Crash
    \/ \E t \in Txids, c \in SUBSET Outs : Change(t, c)
    \/ \E h \in Hashes : SetBest(h)

Spec == Init /\ [][Next]_vars

=============================================================================
