------------------------------ MODULE Virtmem ------------------------------
(***************************************************************************)
(* The address space of the process (lib/nx/kernel/virtmem.c): a list of   *)
(* ranges reserved by the mod, and the search for a free one.  Addresses   *)
(* are page numbers.                                                       *)
(***************************************************************************)
EXTENDS Integers, FiniteSets

CONSTANTS
  Cells,         \* what malloc has room for
  NULL,
  AslrRegion, AliasRegion, HeapRegion   \* [start, end) in pages

Regions == [start : Nat, end : Nat]

ASSUME VirtmemAssumption ==
  /\ NULL \notin Cells /\ NULL \notin Int
  /\ {AslrRegion, AliasRegion, HeapRegion} \subseteq Regions

VARIABLES
  g_Reservations,   \* the first reservation, or NULL
  nodes,            \* the reservations in memory: region, next and prev
  table             \* the kernel's page table: the memory behind each page

virtmemVars == <<g_Reservations, nodes, table>>

Pages(r) == r.start..(r.end - 1)

Overlaps(r, start, end) == start < r.end /\ r.start < end

\* S holds the first reservation and, with each, the one after it.
Closed(S) ==
  /\ g_Reservations # NULL => g_Reservations \in S
  /\ \A x \in S \cap DOMAIN nodes :
       nodes[x].next # NULL => nodes[x].next \in S

\* The reservations a walk along next meets: the smallest such set.
Listed == {c \in Cells : \A S \in SUBSET Cells : Closed(S) => c \in S}

-----------------------------------------------------------------------------
(* Finding and reserving *)

IsMapped(start, end) == \E p \in start..(end - 1) : p \in DOMAIN table

IsReserved(start, end) ==
  \E c \in Listed : Overlaps(nodes[c].region, start, end)

\* mutant: only the first page has to be free
FreeAtStart(a, size, guard) ==
  ~IsMapped(a - guard, a + 1) /\ ~IsReserved(a - guard, a + 1)

Free(a, size, guard) ==
  /\ ~IsMapped(a - guard, a + size + guard)
  /\ ~IsReserved(a - guard, a + size + guard)

\* Where a random range is tried.
Places(r, size) ==
  {a \in r.start..(r.end - size) :
     /\ ~Overlaps(AliasRegion, a, a + size)
     /\ ~Overlaps(HeapRegion, a, a + size)}

\* What the search may return: a range that is free, or NULL when it happens
\* to try others only.  (With no place to try it does not return.)
FindRandom(r, size, guard) ==
  IF size > r.end - r.start THEN {NULL}
  ELSE LET places == Places(r, size)
           free   == {a \in places : Free(a, size, guard)}
       IN  free \cup (IF free = places THEN {} ELSE {NULL})

virtmemFindAslr(size, guard) == FindRandom(AslrRegion, size, guard)

Malloc == IF DOMAIN nodes = Cells THEN {NULL} ELSE Cells \ DOMAIN nodes

virtmemAddReservation(rv, mem, size) ==
  /\ g_Reservations' = rv
  /\ nodes' = [c \in DOMAIN nodes \cup {rv} |->
       IF c = rv
         THEN [region |-> [start |-> mem, end |-> mem + size],
               next |-> g_Reservations, prev |-> NULL]
       ELSE IF c = g_Reservations THEN [nodes[c] EXCEPT !.prev = rv]
       ELSE nodes[c]]

\* mutant: the first of the list is removed like any other
RemoveNotFirst(rv) ==
  LET n == nodes[rv].next
      p == nodes[rv].prev
  IN  /\ g_Reservations' = IF g_Reservations = rv /\ n = NULL THEN NULL ELSE g_Reservations
      /\ nodes' = [c \in DOMAIN nodes \ {rv} |->
           [nodes[c] EXCEPT !.prev = IF c = n THEN p ELSE @,
                            !.next = IF c = p THEN n ELSE @]]

virtmemRemoveReservation(rv) ==
  LET n == nodes[rv].next
      p == nodes[rv].prev
  IN  /\ g_Reservations' = IF p = NULL THEN n ELSE g_Reservations
      /\ nodes' = [c \in DOMAIN nodes \ {rv} |->
           [nodes[c] EXCEPT !.prev = IF c = n THEN p ELSE @,
                            !.next = IF c = p THEN n ELSE @]]

-----------------------------------------------------------------------------
(* Properties *)

Nodes == [region : Regions, next : Cells \cup {NULL}, prev : Cells \cup {NULL}]

VirtmemTypeOK ==
  /\ g_Reservations \in Cells \cup {NULL}
  /\ DOMAIN nodes \subseteq Cells
  /\ nodes \in [DOMAIN nodes -> Nodes]

\* However reservations are added and removed, a walk along the list meets
\* every one that is left and nothing that was freed, and prev leads back from
\* each to the one it was reached from: the next removal, too, relies on that.
ReservationsListed ==
  /\ Listed = DOMAIN nodes
  /\ \A c \in DOMAIN nodes :
       /\ nodes[c].prev \in DOMAIN nodes \cup {NULL}
       /\ nodes[c].prev = NULL <=> c = g_Reservations
  /\ \A c, d \in DOMAIN nodes : nodes[c].next = d <=> nodes[d].prev = c
=============================================================================
