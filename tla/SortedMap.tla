---------------------------- MODULE SortedMap ----------------------------
(***************************************************************************)
(* What sead::TreeMap promises a client: "essentially std::map<Key,        *)
(* Value>" (seadTreeMap.h:165) of bounded size, whose nodes an iteration   *)
(* visits in the order of their keys.                                      *)
(***************************************************************************)
EXTENDS Integers, FiniteSets, FiniteSetsExt, Functions

CONSTANTS Entries, Capacities

VARIABLES
  map,       \* the value of every key that is in the map
  capacity,  \* how many keys it may hold
  cursor     \* the key an iteration stands at, NoKey outside of one

mapVars == <<map, capacity, cursor>>

NoKey == 0

\* The smallest of some keys, NoKey when there is none.
Least(S) == IF S = {} THEN NoKey ELSE Min(S)

MapInit == /\ map = << >>
           /\ capacity = 0
           /\ cursor = NoKey

SetCapacity(n) == /\ DOMAIN map = {}
                  /\ capacity' = n
                  /\ cursor' = NoKey
                  /\ UNCHANGED map

Put(k, v) == /\ k \in DOMAIN map \/ Cardinality(DOMAIN map) < capacity
             /\ map' = [x \in DOMAIN map \cup {k} |-> IF x = k THEN v ELSE map[x]]
             /\ cursor' \in {cursor, NoKey}
             /\ UNCHANGED capacity

Remove(k) == /\ map' = Restrict(map, DOMAIN map \ {k})
             /\ cursor' = NoKey
             /\ UNCHANGED capacity

Empty(c) == /\ map' = << >>
            /\ cursor' = NoKey
            /\ capacity' = c

First == /\ cursor' = Least(DOMAIN map)
         /\ UNCHANGED <<map, capacity>>

Following == /\ cursor # NoKey
             /\ cursor' = Least({k \in DOMAIN map : k > cursor})
             /\ UNCHANGED <<map, capacity>>

MapNext == \/ \E n \in Capacities : SetCapacity(n)
           \/ \E e \in Entries : Put(e[1], e[2])
           \/ \E k \in DOMAIN map : Remove(k)
           \/ \E c \in {0, capacity} : Empty(c)
           \/ First
           \/ Following

MapSpec == MapInit /\ [][MapNext]_mapVars
=============================================================================
