--------------------------- MODULE BoundedQueue ---------------------------
(***************************************************************************)
(* What sead::RingBuffer promises a client: a queue of bounded length that *)
(* takes items at both ends and gives them back at the front.  A full one  *)
(* refuses an item, or forgets its oldest for it where the push is forced. *)
(***************************************************************************)
EXTENDS Integers, Sequences

CONSTANTS Items, Capacities

VARIABLES
  queue,
  bound,  \* the most items it holds
  popped  \* what the last pop returned, NoItem when there was nothing

queueVars == <<queue, bound, popped>>

NoItem == 0

QueueInit == queue = << >> /\ bound = 0 /\ popped = NoItem

Bound(n) == /\ bound' = n
            /\ queue' = << >>
            /\ UNCHANGED popped

Room == Len(queue) < bound

PushLast(i) == /\ Room
               /\ queue' = Append(queue, i)
               /\ UNCHANGED <<bound, popped>>

PushFirst(i) == /\ Room
                /\ queue' = <<i>> \o queue
                /\ UNCHANGED <<bound, popped>>

ForceLast(i) == /\ ~Room /\ queue # << >>
                /\ queue' = Append(Tail(queue), i)
                /\ UNCHANGED <<bound, popped>>

Pop == /\ queue' = IF queue = << >> THEN << >> ELSE Tail(queue)
       /\ popped' = IF queue = << >> THEN NoItem ELSE Head(queue)
       /\ UNCHANGED bound

Forget == /\ queue' = << >>
          /\ UNCHANGED <<bound, popped>>

QueueNext == \/ \E n \in Capacities \cup {0} : Bound(n)
             \/ \E i \in Items : PushLast(i) \/ PushFirst(i) \/ ForceLast(i)
             \/ Pop
             \/ Forget

QueueSpec == QueueInit /\ [][QueueNext]_queueVars
=============================================================================
