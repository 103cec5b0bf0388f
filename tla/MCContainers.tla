--------------------------- MODULE MCContainers ---------------------------
(***************************************************************************)
(* The containers of sead on a small instance.  They share nothing, so a   *)
(* behaviour uses one of them: the other has no buffer.                    *)
(***************************************************************************)
EXTENDS TreeMap, RingBuffer

CONSTANTS one, other

MCKeys == 1..8

\* One key is inserted with two values, so that a value is overwritten.
MCEntries == (MCKeys \X {one}) \cup {<<2, other>>}

MCInit == TreeInit /\ RingInit

RingUnused == ringCapacity = 0 /\ returned = NothingYet

MCNext == \/ RingUnused /\ TreeNext /\ UNCHANGED ringVars
          \/ mCapacity = 0 /\ RingNext /\ UNCHANGED treeVars

MCSpec == MCInit /\ [][MCNext]_<<treeVars, ringVars>>
=============================================================================
