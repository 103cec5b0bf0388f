---------------------------- MODULE RingBuffer ----------------------------
(***************************************************************************)
(* sead::RingBuffer (sead/container/seadRingBuffer.h): items in a circle   *)
(* of cells, the first at mHead.  The cells outside of the queue keep what *)
(* was last written to them.                                               *)
(***************************************************************************)
EXTENDS Integers

CONSTANTS
  Items,
  RingCapacities  \* what clients pass to setBuffer

NothingYet == 0

ASSUME RingBufferAssumption ==
  /\ NothingYet \notin Items
  /\ RingCapacities \subseteq Int

VARIABLES
  mBuffer,
  mHead,
  ringSize,      \* mSize
  ringCapacity,  \* mCapacity
  returned       \* what popFront returned last

ringVars == <<mBuffer, mHead, ringSize, ringCapacity, returned>>

\* The cells of a buffer of n items.
Cells(n) == [0..n - 1 -> Items \cup {NothingYet}]

RingInit == /\ mBuffer \in Cells(0)
            /\ mHead = 0
            /\ ringSize = 0
            /\ ringCapacity = 0
            /\ returned = NothingYet

\* The cell of the idx-th item of a queue that begins at head.
calcRealIdx(head, idx) ==
  LET real_idx == head + idx
  IN IF real_idx >= ringCapacity THEN real_idx - ringCapacity ELSE real_idx

\* setBuffer: a capacity below 1 is refused.
SetRing(n) == /\ n >= 1
              /\ ringCapacity' = n
              /\ mBuffer' = [c \in 0..n - 1 |-> NothingYet]
              /\ mHead' = 0
              /\ ringSize' = 0
              /\ UNCHANGED returned

freeBuffer == /\ ringCapacity' = 0
              /\ mBuffer' = << >>
              /\ mHead' = 0
              /\ ringSize' = 0
              /\ UNCHANGED returned

pushBack(i) ==
  /\ ringSize < ringCapacity
  /\ mBuffer' = [mBuffer EXCEPT ![calcRealIdx(mHead, ringSize)] = i]
  /\ ringSize' = ringSize + 1
  /\ UNCHANGED <<mHead, ringCapacity, returned>>

\* A mutant: the head does not wrap around.
NextHeadUnwrapped == mHead + 1

\* The head after the first item is gone.
NextHead == IF mHead + 1 < ringCapacity THEN mHead + 1 ELSE 0

\* A mutant: the head stays, and the newest item is overwritten.
forcePushBackOnLast(i) ==
  \/ pushBack(i)
  \/ /\ ringSize >= ringCapacity
     /\ ringSize >= 1
     /\ mBuffer' = [mBuffer EXCEPT ![calcRealIdx(mHead, ringSize - 1)] = i]
     /\ UNCHANGED <<mHead, ringSize, ringCapacity, returned>>

\* Full: popFront, whose result is dropped, then pushBack.  The capacity is 0
\* where no buffer was given: then both do nothing.
forcePushBack(i) ==
  \/ pushBack(i)
  \/ /\ ringSize >= ringCapacity
     /\ ringSize >= 1
     /\ mHead' = NextHead
     /\ mBuffer' = [mBuffer EXCEPT ![calcRealIdx(NextHead, ringSize - 1)] = i]
     /\ UNCHANGED <<ringSize, ringCapacity, returned>>

\* pushBackwards, with forcePushBackwards and its offset of 1.  The latter is
\* public and does not look for room: here a client looks first.
pushBackwards(i) ==
  /\ ringSize < ringCapacity
  /\ mHead' = (IF mHead < 1 THEN ringCapacity ELSE mHead) - 1
  /\ mBuffer' = [mBuffer EXCEPT ![calcRealIdx(mHead', 0)] = i]
  /\ ringSize' = ringSize + 1
  /\ UNCHANGED <<ringCapacity, returned>>

popFront ==
  /\ IF ringSize >= 1
     THEN /\ returned' = mBuffer[calcRealIdx(mHead, 0)]
          /\ mHead' = NextHead
          /\ ringSize' = ringSize - 1
     ELSE returned' = NothingYet /\ UNCHANGED <<mHead, ringSize>>
  /\ UNCHANGED <<mBuffer, ringCapacity>>

clear == /\ mHead' = 0
         /\ ringSize' = 0
         /\ UNCHANGED <<mBuffer, ringCapacity, returned>>

RingNext == \/ \E n \in RingCapacities : SetRing(n)
            \/ \E i \in Items : pushBack(i) \/ forcePushBack(i) \/ pushBackwards(i)
            \/ popFront
            \/ clear
            \/ freeBuffer

RingSpec == RingInit /\ [][RingNext]_ringVars

-----------------------------------------------------------------------------
(* Every index the code computes stays in the buffer.                      *)
RingTypeOK == /\ ringCapacity \in RingCapacities \cup {0}
              /\ mBuffer \in Cells(ringCapacity)
              /\ ringSize \in 0..ringCapacity
              /\ mHead \in 0..ringCapacity
              /\ ringCapacity # 0 => mHead # ringCapacity
              /\ returned \in Items \cup {NothingYet}

(* The circle is a bounded queue: get(0), get(1), ... are the items pushed *)
(* and not yet popped, in the order of the pushes at either end, also      *)
(* after the head and the tail have wrapped around any number of times.    *)
Queue == INSTANCE BoundedQueue WITH
           Capacities <- RingCapacities,
           queue <- [n \in 1..ringSize |-> mBuffer[calcRealIdx(mHead, n - 1)]],
           bound <- ringCapacity, popped <- returned

QueueImplemented == Queue!QueueSpec
=============================================================================
