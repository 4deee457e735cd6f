------------------------------ MODULE HashPool ------------------------------
(***************************************************************************)
(* The thread pool of hash_file (common/sha1.cpp), which resume_scan       *)
(* (client/piece_store.cpp) has too: threads draw piece numbers from an    *)
(* atomic counter, read the piece and write its hash to its own slot of a  *)
(* vector, without a lock.  A read that fails stops the pool of hash_file; *)
(* resume_scan leaves the slot of the piece as it was.                     *)
(*                                                                         *)
(* A slot is "none" until it is written.  Pieces are numbered from 0.      *)
(***************************************************************************)
EXTENDS Integers

CONSTANTS
    Thread,         \* the threads of the pool
    SlotCount      \* pc

Slot == 0..(SlotCount - 1)

ASSUME SlotAssumption == SlotCount \in Nat
ASSUME ThreadAssumption == Thread # {}

VARIABLES
    stops,      \* whether this is the pool of hash_file, which a failure stops
    readable,   \* the pieces that can be read
    pc,         \* per thread, where it is
    index,      \* per thread, i
    next,       \* next
    failed,     \* failed
    hashes,     \* per piece, how its slot was filled
    result      \* what the caller returns after the join

poolVars == <<stops, readable, pc, index, next, failed, hashes, result>>

PoolInit ==
    /\ stops \in BOOLEAN
    /\ readable \in SUBSET Slot
    /\ pc = [t \in Thread |-> "test"]
    /\ index = [t \in Thread |-> 0]
    /\ next = 0
    /\ failed = FALSE
    /\ hashes = [i \in Slot |-> "none"]
    /\ result = "none"

----------------------------------------------------------------------------

\* The loop condition, first half: is the pool stopped?
Test(t) ==
    /\ pc[t] = "test"
    /\ pc' = [pc EXCEPT ![t] = IF failed THEN "end" ELSE "draw"]
    /\ UNCHANGED <<stops, readable, index, next, failed, hashes, result>>

\* Slip: the counter is read and written, but not in one step.
DrawStale(t) ==
    /\ pc[t] = "draw"
    /\ \E seen \in {next} \cup {index[u] : u \in Thread} :
         /\ seen <= next
         /\ index' = [index EXCEPT ![t] = seen]
         /\ next' = seen + 1
         /\ pc' = [pc EXCEPT ![t] = IF seen < SlotCount THEN "read" ELSE "end"]
    /\ UNCHANGED <<stops, readable, failed, hashes, result>>

\* The loop condition, second half: fetch_add, and is that a piece?
Draw(t) ==
    /\ pc[t] = "draw"
    /\ index' = [index EXCEPT ![t] = next]
    /\ next' = next + 1
    /\ pc' = [pc EXCEPT ![t] = IF next < SlotCount THEN "read" ELSE "end"]
    /\ UNCHANGED <<stops, readable, failed, hashes, result>>

\* pread until the piece is whole, then hash it.
Read(t) ==
    /\ pc[t] = "read"
    /\ index[t] \in readable
    /\ pc' = [pc EXCEPT ![t] = "store"]
    /\ UNCHANGED <<stops, readable, index, next, failed, hashes, result>>

\* Slip: a read that fails is tried again.
ReadAgain(t) ==
    /\ pc[t] = "read"
    /\ index[t] \notin readable
    /\ UNCHANGED poolVars

\* pread fails.
ReadFails(t) ==
    /\ pc[t] = "read"
    /\ index[t] \notin readable
    /\ failed' = (failed \/ stops)
    /\ pc' = [pc EXCEPT ![t] = IF stops THEN "end" ELSE "test"]
    /\ UNCHANGED <<stops, readable, index, next, hashes, result>>

Store(t) ==
    /\ pc[t] = "store"
    /\ hashes' = [hashes EXCEPT ![index[t]] = "hash"]
    /\ pc' = [pc EXCEPT ![t] = "test"]
    /\ UNCHANGED <<stops, readable, index, next, failed, result>>

Joined == \A t \in Thread : pc[t] = "end"

\* Slip: failed is not looked at.
ReturnAnyhow ==
    /\ Joined /\ result = "none"
    /\ result' = "hashes"
    /\ UNCHANGED <<stops, readable, pc, index, next, failed, hashes>>

\* The caller goes on when every thread is joined.
Return ==
    /\ Joined /\ result = "none"
    /\ result' = IF failed THEN "failed" ELSE "hashes"
    /\ UNCHANGED <<stops, readable, pc, index, next, failed, hashes>>

Step(t) == Test(t) \/ Draw(t) \/ Read(t) \/ ReadFails(t) \/ Store(t)

PoolNext == Return \/ \E t \in Thread : Step(t)

\* Threads of a pool run.
PoolFairness == WF_poolVars(Return) /\ \A t \in Thread : WF_poolVars(Step(t))

PoolSpec == PoolInit /\ [][PoolNext]_poolVars /\ PoolFairness

----------------------------------------------------------------------------
(* Properties *)

\* sha1.cpp:100: each worker writes only its own slot: no two threads are ever
\* at the same piece, so the vector needs no lock.
OwnSlot ==
    \A t, u \in Thread :
        pc[t] \in {"read", "store"} /\ pc[u] \in {"read", "store"} /\ index[t] = index[u]
        => t = u

\* What the pool hands back is complete: every piece that can be read has its
\* hash, and hash_file, which publishes the hashes, hands back nothing when one
\* cannot be read, whichever thread met it and however far the others were.
HandsBackAll ==
    result = "hashes" =>
        /\ \A i \in readable : hashes[i] = "hash"
        /\ stops => readable = Slot

\* A pool that has begun ends, whichever reads fail.
PoolEnds == (\E t \in Thread : pc[t] # "test") ~> result # "none"

=============================================================================
