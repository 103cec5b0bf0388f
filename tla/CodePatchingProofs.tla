------------------------- MODULE CodePatchingProofs -------------------------
(***************************************************************************)
(* Proofs about reservations, claims and patchers.                         *)
(***************************************************************************)
EXTENDS CodePatching, TLAPS

-----------------------------------------------------------------------------
(* The list of reservations *)

\* What a walk meets is closed itself.
LEMMA ListedClosed ==
  ASSUME VirtmemTypeOK
  PROVE  Closed(Listed)
BY DEF VirtmemTypeOK, Closed, Listed, Nodes

\* What a new reservation is put in front of is met behind it.
LEMMA AddKeepsList ==
  ASSUME VirtmemTypeOK, ReservationsListed,
         NEW rv \in Cells \ DOMAIN nodes, NEW mem \in Nat, NEW size \in Nat,
         virtmemAddReservation(rv, mem, size)
  PROVE  /\ VirtmemTypeOK' /\ ReservationsListed'
         /\ DOMAIN nodes' = DOMAIN nodes \cup {rv}
         /\ nodes'[rv].region = [start |-> mem, end |-> mem + size]
         /\ \A c \in DOMAIN nodes : nodes'[c].region = nodes[c].region
PROOF
  <1> DEFINE N == DOMAIN nodes
  <1>1. /\ g_Reservations' = rv /\ DOMAIN nodes' = N \cup {rv}
        /\ nodes'[rv].next = g_Reservations /\ nodes'[rv].prev = NULL
        /\ nodes'[rv].region = [start |-> mem, end |-> mem + size]
        /\ nodes'[rv] \in Nodes
    BY DEF virtmemAddReservation, VirtmemTypeOK, Nodes, Regions
  <1>2. \A c \in N :
          /\ nodes'[c] \in Nodes
          /\ nodes'[c].next = nodes[c].next
          /\ nodes'[c].region = nodes[c].region
          /\ nodes'[c].prev = IF c = g_Reservations THEN rv ELSE nodes[c].prev
    BY DEF virtmemAddReservation, VirtmemTypeOK, Nodes
  <1>3. VirtmemTypeOK'
    <2>1. nodes' \in [DOMAIN nodes' -> Nodes]
      <3>1. nodes' = [c \in DOMAIN nodes' |-> nodes'[c]]
        BY <1>1 DEF virtmemAddReservation
      <3> QED  BY <3>1, <1>1, <1>2
    <2> QED  BY <1>1, <2>1 DEF VirtmemTypeOK, Nodes
  <1>4. Closed(N)
    BY ListedClosed DEF ReservationsListed
  <1>5. Listed' = N \cup {rv}
    <2> PICK M : M = N \cup {rv}
      OBVIOUS
    <2>1. Closed(M)'
      BY <1>1, <1>2, <1>4 DEF Closed, VirtmemTypeOK, Nodes
    <2>2. ASSUME NEW S \in SUBSET Cells, Closed(S)'
          PROVE  Closed(S) /\ rv \in S
      <3>1. rv \in S
        BY <2>2, <1>1, VirtmemAssumption DEF Closed
      <3>2. g_Reservations # NULL => g_Reservations \in S
        BY <2>2, <3>1, <1>1 DEF Closed
      <3>3. \A x \in S \cap N : nodes[x].next # NULL => nodes[x].next \in S
        BY <2>2, <1>1, <1>2 DEF Closed
      <3> QED  BY <3>1, <3>2, <3>3 DEF Closed
    <2>3. N \cup {rv} \in SUBSET Cells
      BY DEF VirtmemTypeOK
    <2>4. \A c \in Listed' : c \in N \cup {rv}
      BY <2>1, <2>3 DEF Listed
    <2>5. \A c \in N \cup {rv} : c \in Listed'
      BY <2>2, <2>3 DEF Listed, ReservationsListed
    <2> QED  BY <2>4, <2>5
  <1>6. rv # NULL
    BY VirtmemAssumption
  <1>7. \A c \in N \cup {rv} :
          /\ nodes'[c].prev \in N \cup {rv} \cup {NULL}
          /\ nodes'[c].prev = NULL <=> c = rv
    BY <1>1, <1>2, <1>6 DEF ReservationsListed
  <1>8. \A c, d \in N \cup {rv} : nodes'[c].next = d <=> nodes'[d].prev = c
    <2> TAKE c, d \in N \cup {rv}
    <2>1. CASE c = rv
      BY <2>1, <1>1, <1>2, <1>4, <1>6 DEF ReservationsListed, Closed
    <2>2. CASE c # rv /\ d = rv
      BY <2>2, <1>1, <1>2, <1>4, <1>6, VirtmemAssumption DEF ReservationsListed, Closed, VirtmemTypeOK
    <2>3. CASE c # rv /\ d # rv
      BY <2>3, <1>1, <1>2 , <1>4, <1>6, VirtmemAssumption DEF ReservationsListed, VirtmemTypeOK
    <2> QED  BY <2>1, <2>2, <2>3
  <1> QED  BY <1>1, <1>2, <1>3, <1>5, <1>7, <1>8 DEF ReservationsListed

\* Without one reservation, the one before it leads to the one after it: a set
\* closed now, with the one removed, was closed before.
LEMMA RemoveKeepsList ==
  ASSUME VirtmemTypeOK, ReservationsListed, NEW rv \in DOMAIN nodes,
         virtmemRemoveReservation(rv)
  PROVE  /\ VirtmemTypeOK' /\ ReservationsListed'
         /\ DOMAIN nodes' = DOMAIN nodes \ {rv}
         /\ \A c \in DOMAIN nodes \ {rv} : nodes'[c].region = nodes[c].region
PROOF
  <1> DEFINE N == DOMAIN nodes
             n == nodes[rv].next
             p == nodes[rv].prev
  <1>1. /\ g_Reservations' = IF p = NULL THEN n ELSE g_Reservations
        /\ DOMAIN nodes' = N \ {rv}
    BY DEF virtmemRemoveReservation
  <1>2. \A c \in N \ {rv} :
          /\ nodes'[c] \in Nodes
          /\ nodes'[c].region = nodes[c].region
          /\ nodes'[c].next = IF c = p THEN n ELSE nodes[c].next
          /\ nodes'[c].prev = IF c = n THEN p ELSE nodes[c].prev
    BY DEF virtmemRemoveReservation, VirtmemTypeOK, Nodes
  <1>3. VirtmemTypeOK'
    <2>1. nodes' = [c \in DOMAIN nodes' |-> nodes'[c]]
      BY <1>1 DEF virtmemRemoveReservation
    <2>2. nodes' \in [DOMAIN nodes' -> Nodes]
      BY <2>1, <1>1, <1>2
    <2> QED  BY <1>1, <2>2 DEF VirtmemTypeOK, Nodes
  <1>4. Closed(N) /\ N \subseteq Cells /\ NULL \notin Cells
    BY ListedClosed, VirtmemAssumption DEF ReservationsListed, VirtmemTypeOK
  <1>5. /\ n \in N \cup {NULL} /\ p \in N \cup {NULL}
        /\ p = NULL <=> rv = g_Reservations
    BY <1>4 DEF Closed, ReservationsListed
  <1>6. \A c \in N : nodes[c].next = rv <=> c = p
    BY <1>4, <1>5 DEF ReservationsListed
  <1> PICK M : M = N \ {rv}
    OBVIOUS
  <1>7. Closed(M)'
    <2>1. g_Reservations' # NULL => g_Reservations' \in N \ {rv}
      <3>1. CASE p = NULL
        BY <3>1, <1>1, <1>5, <1>6, <1>4
      <3>2. CASE p # NULL
        BY <3>2, <1>1, <1>5, <1>4 DEF Closed
      <3> QED  BY <3>1, <3>2
    <2>2. \A x \in N \ {rv} : nodes'[x].next # NULL => nodes'[x].next \in N \ {rv}
      <3> TAKE x \in N \ {rv}
      <3>1. CASE x = p
        <4>1. n # rv
          BY <3>1, <1>6, <1>4
        <4> QED  BY <3>1, <4>1, <1>2, <1>5
      <3>2. CASE x # p
        BY <3>2, <1>2, <1>6, <1>4 DEF Closed
      <3> QED  BY <3>1, <3>2
    <2> QED  BY <2>1, <2>2, <1>1 DEF Closed
  <1>8. ASSUME NEW S \in SUBSET Cells, Closed(S)'
        PROVE  N \ {rv} \subseteq S
    <2>1. ASSUME p # NULL PROVE p \in S
      <3>1. SUFFICES ASSUME p \notin S PROVE FALSE
        OBVIOUS
      <3>2. Closed(S \ {rv})
        <4>1. g_Reservations # rv /\ g_Reservations' = g_Reservations
          BY <2>1, <1>1, <1>5
        <4>2. \A x \in (S \ {rv}) \cap N : nodes[x].next = nodes'[x].next /\ nodes[x].next # rv
          BY <3>1, <1>2, <1>6
        <4> QED  BY <4>1, <4>2, <1>8, <1>1 DEF Closed
      <3>3. p \in S \ {rv}
        <4>1. p \in Listed
          BY <2>1, <1>5 DEF ReservationsListed
        <4> QED  BY <3>2, <4>1 DEF Listed
      <3> QED  BY <3>1, <3>3
    <2>2. Closed(S \cup {rv})
      <3>1. g_Reservations # NULL => g_Reservations \in S \cup {rv}
        BY <1>1, <1>5, <1>8 DEF Closed
      <3>2. n # NULL => n \in S \cup {rv}
        <4>1. CASE p = NULL
          BY <4>1, <1>1, <1>8 DEF Closed
        <4>2. CASE p # NULL /\ p # rv
          BY <4>2, <2>1, <1>1, <1>2, <1>5, <1>8 DEF Closed
        <4>3. CASE p = rv
          BY <4>3, <1>6
        <4> QED  BY <4>1, <4>2, <4>3
      <3>3. \A x \in S \cap (N \ {rv}) : nodes[x].next # NULL => nodes[x].next \in S \cup {rv}
        <4> TAKE x \in S \cap (N \ {rv})
        <4>1. CASE x = p
          BY <4>1, <1>6
        <4>2. CASE x # p
          BY <4>2, <1>1, <1>2, <1>8 DEF Closed
        <4> QED  BY <4>1, <4>2
      <3> QED  BY <3>1, <3>2, <3>3 DEF Closed
    <2>3. S \cup {rv} \in SUBSET Cells
      BY <1>4
    <2> QED  BY <2>2, <2>3 DEF Listed, ReservationsListed
  <1>9. Listed' = N \ {rv}
    <2>1. \A c \in Listed' : c \in N \ {rv}
      BY <1>7, <1>4 DEF Listed
    <2>2. \A c \in N \ {rv} : c \in Listed'
      BY <1>8, <1>4 DEF Listed
    <2> QED  BY <2>1, <2>2
  <1>10. \A c \in N \ {rv} :
           /\ nodes'[c].prev \in (N \ {rv}) \cup {NULL}
           /\ nodes'[c].prev = NULL <=> c = g_Reservations'
    <2> TAKE c \in N \ {rv}
    <2>1. /\ nodes[c].prev \in N \cup {NULL}
          /\ nodes[c].prev = NULL <=> c = g_Reservations
          /\ n = c <=> nodes[c].prev = rv
      BY DEF ReservationsListed
    <2>2. CASE c = n
      <3>1. p # rv
        BY <2>2, <1>6
      <3> QED  BY <3>1, <2>1, <2>2, <1>1, <1>2, <1>4, <1>5
    <2>3. CASE c # n
      BY <2>1, <2>3, <1>1, <1>2, <1>4, <1>5
    <2> QED  BY <2>2, <2>3
  <1>11. \A c, d \in N \ {rv} : nodes'[c].next = d <=> nodes'[d].prev = c
    <2> TAKE c, d \in N \ {rv}
    <2>1. nodes[c].next = d <=> nodes[d].prev = c
      BY DEF ReservationsListed
    <2>2. n = d <=> nodes[d].prev = rv
      BY DEF ReservationsListed
    <2>3. nodes[c].next = rv <=> c = p
      BY <1>6
    <2> QED  BY <2>1, <2>2, <2>3, <1>2
  <1> QED  BY <1>1, <1>2, <1>3, <1>9, <1>10, <1>11 DEF ReservationsListed

-----------------------------------------------------------------------------
(* Claims *)

\* What the search returns is free.
LEMMA FoundIsFree ==
  ASSUME VirtmemTypeOK, NEW size \in Nat \ {0},
         NEW at \in virtmemFindAslr(size, 0) \ {NULL}
  PROVE  /\ at \in Nat
         /\ at..(at + size - 1) \subseteq Pages(AslrRegion)
         /\ at..(at + size - 1) \cap
              (DOMAIN table \cup Pages(AliasRegion) \cup Pages(HeapRegion)) = {}
PROOF
  <1>1. at \in Places(AslrRegion, size) /\ Free(at, size, 0)
    BY DEF virtmemFindAslr, FindRandom
  <1>2. /\ AslrRegion.start \in Nat /\ AslrRegion.end \in Nat
        /\ AliasRegion.start \in Nat /\ AliasRegion.end \in Nat
        /\ HeapRegion.start \in Nat /\ HeapRegion.end \in Nat
    BY VirtmemAssumption DEF Regions
  <1>3. /\ at \in AslrRegion.start..(AslrRegion.end - size)
        /\ ~Overlaps(AliasRegion, at, at + size)
        /\ ~Overlaps(HeapRegion, at, at + size)
    BY <1>1 DEF Places
  <1>4. \A p \in at..(at + size - 1) : p \notin DOMAIN table
    BY <1>1, <1>2, <1>3 DEF Free, IsMapped
  <1> QED  BY <1>2, <1>3, <1>4 DEF Overlaps, Pages

\* Where a claim's alias starts, in pages.
LEMMA ClaimPages ==
  ASSUME NEW ro \in Nat, NEW size \in Nat \ {0}, NEW at \in Nat, NEW rv
  PROVE  LET c == Claim(ro, size, at, rv)
         IN  /\ AlignUp(size) \in Nat \ {0}
             /\ c.rw \in Nat /\ Page(c.rw) = at
             /\ c.rw % PageWords = ro % PageWords
             /\ RwPagesOf(c) = at..(at + AlignUp(size) - 1)
PROOF
  <1>1. ro % 1024 \in 0..1023
    OBVIOUS
  <1>2. AlignUp(size) \in Nat \ {0}
    BY DEF AlignUp, PageWords
  <1>3. \A b \in 0..1023 : (at * 1024 + b) \div 1024 = at /\ (at * 1024 + b) % 1024 = b
    OBVIOUS
  <1> QED  BY <1>1, <1>2, <1>3 DEF Claim, Page, RwPagesOf, AlignUp, PageWords

\* The page table has what was mapped at first and the aliases; whoever owns an
\* alias is an object; and nobody takes the patchers' claim.
TableIs ==
  /\ table \in [DOMAIN table -> Code \cup OtherPages]
  /\ DOMAIN table = Code \cup OtherPages
       \cup UNION {Pages(nodes[c].region) : c \in DOMAIN nodes}

ObjectsOK ==
  /\ DOMAIN objects \subseteq Objects
  /\ objects \in [DOMAIN objects -> Objs]
  /\ Storage \in DOMAIN objects => objects[Storage].m_Owner

InAslrRegion ==
  \A c \in DOMAIN nodes : Pages(nodes[c].region) \subseteq Pages(AslrRegion)

ClaimsOK ==
  /\ VirtmemTypeOK /\ ReservationsListed
  /\ TableIs /\ InAslrRegion /\ AliasesApart
  /\ ObjectsOK /\ OneOwnerEach

LEMMA ConstructKeeps ==
  ASSUME ClaimsOK, NEW o \in Objects \ DOMAIN objects,
         NEW ro \in Nat, NEW size \in Nat \ {0}, Construct(o, ro, size)
  PROVE  ClaimsOK'
PROOF
  <1>1. PICK at \in virtmemFindAslr(AlignUp(size), 0) \ {NULL}, rv \in Reservation :
          LET c == Claim(ro, size, at, rv)
          IN  /\ RoPages(c) \subseteq DOMAIN table
              /\ virtmemAddReservation(rv, at, AlignUp(size))
              /\ table' = Mapped(c)
              /\ objects' = [x \in DOMAIN objects \cup {o} |->
                   IF x = o THEN [m_Claim |-> c, m_Owner |-> TRUE] ELSE objects[x]]
    BY DEF Construct
  <1> DEFINE c == Claim(ro, size, at, rv)
             new == at..(at + AlignUp(size) - 1)
  <1>2. AlignUp(size) \in Nat \ {0}
    BY DEF AlignUp, PageWords
  <1>3. /\ at \in Nat /\ new \subseteq Pages(AslrRegion)
        /\ new \cap (DOMAIN table \cup Pages(AliasRegion) \cup Pages(HeapRegion)) = {}
    BY <1>2, FoundIsFree DEF ClaimsOK
  <1>4. rv \in Cells \ DOMAIN nodes
    BY DEF Reservation, Malloc
  <1>5. /\ VirtmemTypeOK' /\ ReservationsListed'
        /\ DOMAIN nodes' = DOMAIN nodes \cup {rv}
        /\ nodes'[rv].region = [start |-> at, end |-> at + AlignUp(size)]
        /\ \A d \in DOMAIN nodes : nodes'[d].region = nodes[d].region
    BY <1>1, <1>2, <1>3, <1>4, AddKeepsList DEF ClaimsOK
  <1>6. Pages(nodes'[rv].region) = new
    BY <1>2, <1>3, <1>5 DEF Pages
  <1>7. /\ c.rw \in Nat /\ RwPagesOf(c) = new /\ Page(c.rw) = at
        /\ c.ro = ro /\ c.size = size /\ c.rv = rv
    BY <1>3, ClaimPages DEF Claim
  <1>8. TableIs'
    <2>1. DOMAIN table' = DOMAIN table \cup new
      BY <1>1, <1>7 DEF Mapped
    <2>2. \A p \in new : p - at + Page(ro) \in DOMAIN table
      BY <1>1, <1>2, <1>3, <1>7 DEF RoPages, Page, PageWords
    <2>3. \A p \in DOMAIN table' : table'[p] \in Code \cup OtherPages
      BY <1>1, <1>7, <2>1, <2>2 DEF Mapped, ClaimsOK, TableIs
    <2>4. table' \in [DOMAIN table' -> Code \cup OtherPages]
      BY <2>3, <1>1 DEF Mapped
    <2>5. UNION {Pages(nodes'[d].region) : d \in DOMAIN nodes'}
            = (UNION {Pages(nodes[d].region) : d \in DOMAIN nodes}) \cup new
      <3> DEFINE after == UNION {Pages(nodes'[d].region) : d \in DOMAIN nodes'}
                 before == UNION {Pages(nodes[d].region) : d \in DOMAIN nodes}
      <3>1. \A p \in after : p \in before \cup new
        BY <1>5, <1>6
      <3>2. \A p \in before \cup new : p \in after
        BY <1>4, <1>5, <1>6
      <3> QED  BY <3>1, <3>2
    <2> QED  BY <2>1, <2>4, <2>5 DEF ClaimsOK, TableIs
  <1>9. InAslrRegion'
    BY <1>3, <1>5, <1>6 DEF ClaimsOK, InAslrRegion
  <1>10. AliasesApart'
    <2>1. \A d \in DOMAIN nodes : Pages(nodes[d].region) \subseteq DOMAIN table
      BY DEF ClaimsOK, TableIs
    <2>2. Code \cup OtherPages \subseteq DOMAIN table
      BY DEF ClaimsOK, TableIs
    <2>3. \A d \in DOMAIN nodes : Pages(nodes'[d].region) = Pages(nodes[d].region)
      BY <1>5
    <2>4. \A d \in DOMAIN nodes' :
            Pages(nodes'[d].region) \cap (Code \cup OtherPages
              \cup Pages(AliasRegion) \cup Pages(HeapRegion)) = {}
      <3> TAKE d \in DOMAIN nodes'
      <3>1. CASE d = rv
        BY <3>1, <1>3, <1>6, <2>2
      <3>2. CASE d \in DOMAIN nodes
        BY <3>2, <2>3 DEF ClaimsOK, AliasesApart
      <3> QED  BY <3>1, <3>2, <1>5
    <2>5. \A d, e \in DOMAIN nodes' :
            d # e => Pages(nodes'[d].region) \cap Pages(nodes'[e].region) = {}
      <3> TAKE d, e \in DOMAIN nodes'
      <3>1. CASE d \in DOMAIN nodes /\ e \in DOMAIN nodes
        BY <3>1, <2>3 DEF ClaimsOK, AliasesApart
      <3>2. CASE d = rv /\ e \in DOMAIN nodes
        BY <3>2, <2>1, <2>3, <1>3, <1>6
      <3>3. CASE d \in DOMAIN nodes /\ e = rv
        BY <3>3, <2>1, <2>3, <1>3, <1>6
      <3> QED  BY <3>1, <3>2, <3>3, <1>5
    <2> QED  BY <2>4, <2>5 DEF AliasesApart
  <1>11. /\ DOMAIN objects' = DOMAIN objects \cup {o}
         /\ objects'[o] = [m_Claim |-> c, m_Owner |-> TRUE]
         /\ \A x \in DOMAIN objects : objects'[x] = objects[x]
    BY <1>1
  <1>12. ObjectsOK'
    <2>1. c \in [ro : Nat, rw : Nat, size : Nat, rv : Cells \cup {NULL}]
      BY <1>7, <1>4 DEF Claim
    <2>2. \A x \in DOMAIN objects' : objects'[x] \in Objs
      <3>1. objects'[o] \in Objs
        <4> HIDE DEF c
        <4> QED  BY <2>1, <1>11 DEF Objs
      <3> QED  BY <3>1, <1>11 DEF ClaimsOK, ObjectsOK
    <2>3. objects' \in [DOMAIN objects' -> Objs]
      BY <2>2, <1>1
    <2> QED  BY <2>3, <1>11 DEF ClaimsOK, ObjectsOK
  <1>13. OneOwnerEach'
    <2>1. Owners' = Owners \cup {o}
      BY <1>11 DEF Owners
    <2>2. \A x \in Owners : objects'[x] = objects[x] /\ x # o
      BY <1>11 DEF Owners
    <2>3. objects'[o].m_Claim = c
      BY <1>11
    <2>4. \A x \in Owners' :
            /\ objects'[x].m_Claim.rv \in DOMAIN nodes'
            /\ Pages(nodes'[objects'[x].m_Claim.rv].region) = RwPagesOf(objects'[x].m_Claim)
      <3> TAKE x \in Owners'
      <3>1. CASE x = o
        BY <3>1, <2>3, <1>5, <1>6, <1>7
      <3>2. CASE x \in Owners
        BY <3>2, <2>2, <1>5 DEF ClaimsOK, OneOwnerEach
      <3> QED  BY <3>1, <3>2, <2>1
    <2>5. \A x, y \in Owners' :
            objects'[x].m_Claim.rv = objects'[y].m_Claim.rv => x = y
      BY <2>1, <2>2, <2>3, <1>4, <1>7 DEF ClaimsOK, OneOwnerEach
    <2>6. \A d \in DOMAIN nodes' : \E x \in Owners' : objects'[x].m_Claim.rv = d
      BY <2>1, <2>2, <2>3, <1>5, <1>7 DEF ClaimsOK, OneOwnerEach
    <2> QED  BY <2>4, <2>5, <2>6 DEF OneOwnerEach
  <1> QED  BY <1>5, <1>8, <1>9, <1>10, <1>12, <1>13 DEF ClaimsOK

LEMMA MoveKeeps ==
  ASSUME ClaimsOK, Storage \in DOMAIN objects,
         NEW o \in Objects \ DOMAIN objects,
         NEW other \in DOMAIN objects \ {Storage}, MoveConstruct(o, other)
  PROVE  ClaimsOK'
PROOF
  <1>1. /\ DOMAIN objects' = DOMAIN objects \cup {o}
        /\ objects'[o] = objects[other]
        /\ objects'[other] = [m_Claim |-> NoClaim, m_Owner |-> FALSE]
        /\ \A x \in DOMAIN objects \ {other} : objects'[x] = objects[x]
    BY DEF MoveConstruct
  <1>2. g_Reservations' = g_Reservations /\ nodes' = nodes /\ table' = table
    BY DEF MoveConstruct, virtmemVars
  <1>3. ObjectsOK'
    <2>1. [m_Claim |-> NoClaim, m_Owner |-> FALSE] \in Objs
      BY DEF Objs, NoClaim
    <2>2. \A x \in DOMAIN objects' : objects'[x] \in Objs
      BY <1>1, <2>1 DEF ClaimsOK, ObjectsOK
    <2>3. objects' \in [DOMAIN objects' -> Objs]
      BY <2>2 DEF MoveConstruct
    <2> QED  BY <2>3, <1>1 DEF ClaimsOK, ObjectsOK
  <1>4. OneOwnerEach'
    <2>1. CASE objects[other].m_Owner
      <3>1. Owners' = (Owners \ {other}) \cup {o}
        BY <1>1, <2>1 DEF Owners
      <3>2. other \in Owners /\ \A x \in Owners \ {other} : objects'[x] = objects[x] /\ x # o
        BY <1>1, <2>1 DEF Owners
      <3>3. \A x \in Owners' :
              /\ objects'[x].m_Claim.rv \in DOMAIN nodes
              /\ Pages(nodes[objects'[x].m_Claim.rv].region) = RwPagesOf(objects'[x].m_Claim)
        BY <3>1, <3>2, <1>1 DEF ClaimsOK, OneOwnerEach
      <3>4. \A x, y \in Owners' :
              objects'[x].m_Claim.rv = objects'[y].m_Claim.rv => x = y
        BY <3>1, <3>2, <1>1 DEF ClaimsOK, OneOwnerEach
      <3>5. \A d \in DOMAIN nodes : \E x \in Owners' : objects'[x].m_Claim.rv = d
        BY <3>1, <3>2, <1>1 DEF ClaimsOK, OneOwnerEach
      <3> QED  BY <3>3, <3>4, <3>5, <1>2 DEF OneOwnerEach
    <2>2. CASE ~objects[other].m_Owner
      <3>1. Owners' = Owners
        BY <1>1, <2>2 DEF Owners
      <3>2. \A x \in Owners : objects'[x] = objects[x]
        BY <1>1, <2>2 DEF Owners
      <3> QED  BY <3>1, <3>2, <1>2 DEF ClaimsOK, OneOwnerEach
    <2> QED  BY <2>1, <2>2
  <1>5. VirtmemTypeOK' /\ TableIs' /\ InAslrRegion' /\ AliasesApart'
    BY <1>2 DEF ClaimsOK, VirtmemTypeOK, TableIs, InAslrRegion, AliasesApart
  <1>6. ReservationsListed'
    BY <1>2 DEF ClaimsOK, ReservationsListed, Listed, Closed
  <1> QED  BY <1>3, <1>4, <1>5, <1>6 DEF ClaimsOK

LEMMA DestroyKeeps ==
  ASSUME ClaimsOK, NEW o \in DOMAIN objects \ {Storage}, Destroy(o)
  PROVE  ClaimsOK'
PROOF
  <1>1. /\ DOMAIN objects' = DOMAIN objects \ {o}
        /\ objects' = [x \in DOMAIN objects \ {o} |-> objects[x]]
        /\ \A x \in DOMAIN objects' : objects'[x] = objects[x]
    BY DEF Destroy
  <1>2. ObjectsOK'
    BY <1>1 DEF ClaimsOK, ObjectsOK
  <1>3. Owners' = Owners \ {o}
    BY <1>1 DEF Owners
  <1>4. CASE ~objects[o].m_Owner
    <2>1. g_Reservations' = g_Reservations /\ nodes' = nodes /\ table' = table
      BY <1>4 DEF Destroy, virtmemVars
    <2>2. Owners' = Owners
      BY <1>3, <1>4 DEF Owners
    <2>3. \A x \in Owners : objects'[x] = objects[x]
      BY <1>1, <2>2 DEF Owners
    <2>4. OneOwnerEach'
      BY <2>1, <2>2, <2>3 DEF ClaimsOK, OneOwnerEach
    <2>5. VirtmemTypeOK' /\ TableIs' /\ InAslrRegion' /\ AliasesApart'
      BY <2>1 DEF ClaimsOK, VirtmemTypeOK, TableIs, InAslrRegion, AliasesApart
    <2>6. ReservationsListed'
      BY <2>1 DEF ClaimsOK, ReservationsListed, Listed, Closed
    <2> QED  BY <1>2, <2>4, <2>5, <2>6 DEF ClaimsOK
  <1>5. CASE objects[o].m_Owner
    <2> DEFINE c == objects[o].m_Claim
    <2>1. o \in Owners /\ c.rv \in DOMAIN nodes
          /\ Pages(nodes[c.rv].region) = RwPagesOf(c)
      BY <1>5 DEF ClaimsOK, OneOwnerEach, Owners
    <2>2. /\ table' = [p \in DOMAIN table \ RwPagesOf(c) |-> table[p]]
          /\ virtmemRemoveReservation(c.rv)
      BY <1>5 DEF Destroy
    <2>3. /\ VirtmemTypeOK' /\ ReservationsListed'
          /\ DOMAIN nodes' = DOMAIN nodes \ {c.rv}
          /\ \A d \in DOMAIN nodes \ {c.rv} : nodes'[d].region = nodes[d].region
      BY <2>1, <2>2, RemoveKeepsList DEF ClaimsOK
    <2>4. \A d \in DOMAIN nodes' : Pages(nodes'[d].region) = Pages(nodes[d].region)
      BY <2>3
    <2>5. InAslrRegion' /\ AliasesApart'
      BY <2>3, <2>4 DEF ClaimsOK, InAslrRegion, AliasesApart
    <2>6. TableIs'
      <3> DEFINE after == UNION {Pages(nodes'[d].region) : d \in DOMAIN nodes'}
                 before == UNION {Pages(nodes[d].region) : d \in DOMAIN nodes}
      <3>1. \A p \in after : p \in before /\ p \notin RwPagesOf(c)
        BY <2>1, <2>3, <2>4 DEF ClaimsOK, AliasesApart
      <3>2. \A p \in before : p \notin RwPagesOf(c) => p \in after
        BY <2>1, <2>3, <2>4
      <3>3. (Code \cup OtherPages) \cap RwPagesOf(c) = {}
        BY <2>1 DEF ClaimsOK, AliasesApart
      <3>4. DOMAIN table' = Code \cup OtherPages \cup after
        BY <2>2, <3>1, <3>2, <3>3 DEF ClaimsOK, TableIs
      <3>5. table' \in [DOMAIN table' -> Code \cup OtherPages]
        BY <2>2 DEF ClaimsOK, TableIs
      <3> QED  BY <3>4, <3>5 DEF TableIs
    <2>7. OneOwnerEach'
      <3>1. \A x \in Owners' : x \in Owners /\ x # o /\ objects'[x] = objects[x]
        BY <1>1, <1>3 DEF Owners
      <3>2. \A x \in Owners' : objects[x].m_Claim.rv # c.rv
        BY <3>1, <2>1 DEF ClaimsOK, OneOwnerEach
      <3>3. \A x \in Owners' :
              /\ objects'[x].m_Claim.rv \in DOMAIN nodes'
              /\ Pages(nodes'[objects'[x].m_Claim.rv].region) = RwPagesOf(objects'[x].m_Claim)
        BY <3>1, <3>2, <2>3, <2>4 DEF ClaimsOK, OneOwnerEach
      <3>4. \A x, y \in Owners' :
              objects'[x].m_Claim.rv = objects'[y].m_Claim.rv => x = y
        BY <3>1 DEF ClaimsOK, OneOwnerEach
      <3>5. \A d \in DOMAIN nodes' : \E x \in Owners' : objects'[x].m_Claim.rv = d
        <4> TAKE d \in DOMAIN nodes'
        <4>1. PICK x \in Owners : objects[x].m_Claim.rv = d
          BY <2>3 DEF ClaimsOK, OneOwnerEach
        <4>2. x # o
          BY <4>1, <2>3
        <4> QED  BY <4>1, <4>2, <3>1, <1>3
      <3> QED  BY <3>3, <3>4, <3>5 DEF OneOwnerEach
    <2> QED  BY <1>2, <2>3, <2>5, <2>6, <2>7 DEF ClaimsOK
  <1> QED  BY <1>4, <1>5 DEF ClaimsOK, ObjectsOK, Objs

\* Steps that leave reservations, page table and objects alone.
LEMMA OthersKeep ==
  ASSUME ClaimsOK, UNCHANGED virtmemVars, objects' = objects
  PROVE  ClaimsOK'
PROOF
  <1>1. g_Reservations' = g_Reservations /\ nodes' = nodes /\ table' = table
    BY DEF virtmemVars
  <1>2. VirtmemTypeOK' /\ TableIs' /\ InAslrRegion' /\ AliasesApart'
    BY <1>1 DEF ClaimsOK, VirtmemTypeOK, TableIs, InAslrRegion, AliasesApart
  <1>3. ReservationsListed'
    BY <1>1 DEF ClaimsOK, ReservationsListed, Listed, Closed
  <1>4. ObjectsOK' /\ OneOwnerEach'
    BY <1>1 DEF ClaimsOK, ObjectsOK, OneOwnerEach, Owners
  <1> QED  BY <1>2, <1>3, <1>4 DEF ClaimsOK

LEMMA AbortLeaves ==
  ASSUME NEW o, NEW ro, NEW size, ConstructAborts(o, ro, size)
  PROVE  /\ UNCHANGED virtmemVars /\ objects' = objects /\ stale' = stale
         /\ aborted' \in {"no address", "no reservation", "not mapped", "not the same data"}
BY DEF ConstructAborts, Abort

LEMMA InitClaims == Init => ClaimsOK
PROOF
  <1> SUFFICES ASSUME Init PROVE ClaimsOK
    OBVIOUS
  <1>1. /\ g_Reservations = NULL /\ DOMAIN nodes = {} /\ DOMAIN objects = {}
        /\ nodes = [c \in {} |-> c] /\ objects = [o \in {} |-> o]
        /\ table = [p \in Code \cup OtherPages |-> p]
    BY DEF Init
  <1>2. VirtmemTypeOK /\ ObjectsOK
    <2>1. nodes \in [DOMAIN nodes -> Nodes] /\ objects \in [DOMAIN objects -> Objs]
      BY <1>1
    <2> QED  BY <1>1, <2>1 DEF VirtmemTypeOK, ObjectsOK
  <1>3. Listed = {}
    <2>1. Closed({})
      BY <1>1 DEF Closed
    <2> QED  BY <2>1 DEF Listed
  <1>4. ReservationsListed
    BY <1>1, <1>3 DEF ReservationsListed
  <1>5. OneOwnerEach /\ AliasesApart /\ InAslrRegion
    BY <1>1 DEF OneOwnerEach, Owners, AliasesApart, InAslrRegion
  <1>6. TableIs
    <2>1. UNION {Pages(nodes[d].region) : d \in DOMAIN nodes} = {}
      BY <1>1
    <2> QED  BY <1>1, <2>1 DEF TableIs
  <1> QED  BY <1>2, <1>4, <1>5, <1>6 DEF ClaimsOK

LEMMA NextKeepsClaims == ClaimsOK /\ [Next]_vars => ClaimsOK'
PROOF
  <1> SUFFICES ASSUME ClaimsOK, [Next]_vars PROVE ClaimsOK'
    OBVIOUS
  <1>1. CASE InitPatcherImpl
    <2>1. MainModule.ro \in Nat /\ MainModule.size \in Nat \ {0} /\ Storage \in Objects \ DOMAIN objects
      BY <1>1, PatchingAssumption DEF InitPatcherImpl, Claims
    <2>2. CASE Construct(Storage, MainModule.ro, MainModule.size)
      BY <2>1, <2>2, ConstructKeeps
    <2>3. CASE ConstructAborts(Storage, MainModule.ro, MainModule.size)
      BY <2>3, AbortLeaves, OthersKeep
    <2> QED  BY <1>1, <2>2, <2>3 DEF InitPatcherImpl
  <1>2. CASE Claiming
    <2>1. PICK o \in Objects \ DOMAIN objects, h \in Hooked :
            Construct(o, h.ro, h.size) \/ ConstructAborts(o, h.ro, h.size)
      BY <1>2 DEF Claiming
    <2>2. h.ro \in Nat /\ h.size \in Nat \ {0}
      BY PatchingAssumption DEF Claims
    <2>3. CASE Construct(o, h.ro, h.size)
      BY <2>2, <2>3, ConstructKeeps
    <2>4. CASE ConstructAborts(o, h.ro, h.size)
      BY <2>4, AbortLeaves, OthersKeep
    <2> QED  BY <2>1, <2>3, <2>4
  <1>3. CASE Moving
    BY <1>3, MoveKeeps DEF Moving, Ready
  <1>4. CASE Releasing
    BY <1>4, DestroyKeeps DEF Releasing
  <1>5. CASE Writing \/ StreamPatcher \/ Write \/ Seek \/ Finish \/ UNCHANGED vars
    BY <1>5, OthersKeep DEF Writing, StreamPatcher, Write, Seek, Finish, vars, claimVars
  <1> QED  BY <1>1, <1>2, <1>3, <1>4, <1>5 DEF Next

\* For any reservations that come and go in any order, the list stays whole:
\* virtmemAddReservation and virtmemRemoveReservation.
THEOREM PatchingLists == Spec => []ReservationsListed
PROOF
  <1>1. ClaimsOK => ReservationsListed
    BY DEF ClaimsOK
  <1> QED  BY <1>1, InitClaims, NextKeepsClaims, PTL DEF Spec

\* For any claims, the aliases share no page: the search of virtmemFindAslr
\* against the page table and the reservations.
THEOREM PatchingApart == Spec => []AliasesApart
PROOF
  <1>1. ClaimsOK => AliasesApart
    BY DEF ClaimsOK
  <1> QED  BY <1>1, InitClaims, NextKeepsClaims, PTL DEF Spec

\* For any objects made, moved and destroyed in any order, each reservation has
\* one owner: the constructors and the destructor of RwPages.
THEOREM PatchingOwners == Spec => []OneOwnerEach
PROOF
  <1>1. ClaimsOK => OneOwnerEach
    BY DEF ClaimsOK
  <1> QED  BY <1>1, InitClaims, NextKeepsClaims, PTL DEF Spec

-----------------------------------------------------------------------------
(* What is written *)

\* Claims that do not run into a page more than their size has, of code or of
\* where nothing is ever mapped; patchers stay inside the main module.
Fits ==
  /\ \A h \in Hooked \cup {MainModule} :
       /\ Page(h.ro + h.size - 1) \in RoPages(h)
       /\ \/ RoPages(h) \subseteq Code \cup OtherPages
          \/ RoPages(h) \cap (Code \cup OtherPages \cup Pages(AslrRegion)) = {}
  /\ \A start \in Patched : start + MaxWritten <= MainModule.size

\* The alias of c has the memory of the pages of c.
Arrives(c) ==
  /\ c.rw % PageWords = c.ro % PageWords
  /\ Page(c.ro + c.size - 1) \in RoPages(c)
  /\ c.size # 0
  /\ RoPages(c) \subseteq Code \cup OtherPages
  /\ \A p \in RwPagesOf(c) :
       p \in DOMAIN table /\ table[p] = p - Page(c.rw) + Page(c.ro)

MappingsOK ==
  /\ \A p \in Code \cup OtherPages : table[p] = p
  /\ \A o \in Owners : Arrives(objects[o].m_Claim)

PatcherOK ==
  /\ Storage \in DOMAIN objects =>
       /\ objects[Storage].m_Claim.ro = MainModule.ro
       /\ objects[Storage].m_Claim.size = MainModule.size
  /\ patcher \in Patchers \cup {NULL}
  /\ patcher # NULL =>
       /\ Storage \in DOMAIN objects
       /\ patcher.m_Start \in Patched
       /\ patcher.m_Current \in patcher.m_Start..(patcher.m_Start + MaxWritten)

Reasons == {"no", "no address", "no reservation", "not mapped", "not the same data"}

PatchingOK ==
  /\ ClaimsOK /\ MappingsOK /\ PatcherOK
  /\ stale \subseteq Nat /\ NothingStale
  /\ aborted \in Reasons

\* Numbers of words in pages.
LEMMA PageAndRest ==
  ASSUME NEW x \in Nat
  PROVE  /\ x \div 1024 \in Nat /\ x % 1024 \in 0..1023
         /\ x = (x \div 1024) * 1024 + (x % 1024)
OBVIOUS

LEMMA PagesAdd ==
  ASSUME NEW q \in Nat, NEW r \in Nat
  PROVE  /\ (q * 1024 + r) \div 1024 = q + (r \div 1024)
         /\ (q * 1024 + r) % 1024 = r % 1024
OBVIOUS

\* A word of the alias is the word of the claim: the distance between the two
\* is a number of pages.
LEMMA ArrivesSame ==
  ASSUME NEW c \in [ro : Nat, rw : Nat, size : Nat, rv : Cells \cup {NULL}],
         Arrives(c), TableIs, \A p \in Code \cup OtherPages : table[p] = p,
         NEW i \in 0..(c.size - 1)
  PROVE  Same(table, c, i) /\ Physical(c.rw + i) = c.ro + i
PROOF
  <1> DEFINE P == c.ro \div 1024
             Q == c.rw \div 1024
             r == c.ro % 1024
             k == (r + i) \div 1024
             n == AlignUp(c.size)
  <1>1. /\ c.ro \in Nat /\ c.rw \in Nat /\ c.size \in Nat /\ i \in Nat /\ i <= c.size - 1
        /\ P \in Nat /\ Q \in Nat /\ r \in 0..1023 /\ k \in Nat /\ n \in Nat
        /\ c.ro = P * 1024 + r
    <2>1. c.ro \in Nat /\ c.rw \in Nat /\ c.size \in Nat /\ i \in Nat /\ i <= c.size - 1
      OBVIOUS
    <2>2. P \in Nat /\ Q \in Nat /\ r \in 0..1023 /\ c.ro = P * 1024 + r
      BY <2>1, PageAndRest
    <2>3. r + i \in Nat
      <3> HIDE DEF r
      <3> QED  BY <2>1, <2>2
    <2>4. k \in Nat
      BY <2>3, PageAndRest
    <2>5. n \in Nat
      BY <2>1 DEF AlignUp, PageWords
    <2> QED  BY <2>1, <2>2, <2>4, <2>5
  <1>2. c.rw = Q * 1024 + r
    BY <1>1, PageAndRest DEF Arrives, PageWords
  <1>3. /\ Page(c.ro) = P /\ Page(c.rw) = Q
        /\ Page(c.ro + i) = P + k /\ Page(c.rw + i) = Q + k
        /\ (c.rw + i) % 1024 = (r + i) % 1024
        /\ r + i = k * 1024 + ((r + i) % 1024)
    <2>1. r + i \in Nat
      <3> HIDE DEF r
      <3> QED  BY <1>1
    <2>2. r + i = k * 1024 + ((r + i) % 1024)
      BY <2>1, PageAndRest
    <2>3. c.ro + i = P * 1024 + (r + i) /\ c.rw + i = Q * 1024 + (r + i)
      <3> HIDE DEF P, Q, r
      <3> QED  BY <1>1, <1>2
    <2>4. /\ (P * 1024 + (r + i)) \div 1024 = P + k
          /\ (Q * 1024 + (r + i)) \div 1024 = Q + k
          /\ (Q * 1024 + (r + i)) % 1024 = (r + i) % 1024
      <3> HIDE DEF P, Q, r
      <3> QED  BY <2>1, <1>1, PagesAdd DEF k
    <2> QED  BY <2>2, <2>3, <2>4 DEF Page, PageWords
  <1>4. k <= n - 1
    <2>1. Page(c.ro + c.size - 1) <= P + n - 1
      BY <1>1, <1>3 DEF Arrives, RoPages
    <2>2. Page(c.ro + i) <= Page(c.ro + c.size - 1)
      BY <1>1 DEF Page, PageWords
    <2>3. Page(c.ro + c.size - 1) \in Int
      BY <1>1 DEF Page, PageWords
    <2> HIDE DEF k, n, P
    <2> QED  BY <2>1, <2>2, <2>3, <1>1, <1>3
  <1>5. Q + k \in RwPagesOf(c) /\ P + k \in RoPages(c)
    <2> HIDE DEF k, P, Q, n
    <2>1. Q + k \in Q..(Q + n - 1) /\ P + k \in P..(P + n - 1)
      BY <1>1, <1>4
    <2> QED  BY <1>3, <2>1 DEF RwPagesOf, RoPages, n
  <1>6. table[Q + k] = P + k /\ Q + k \in DOMAIN table /\ table[P + k] = P + k /\ P + k \in DOMAIN table
    <2>1. table[Q + k] = (Q + k) - Q + P /\ Q + k \in DOMAIN table
      BY <1>3, <1>5 DEF Arrives
    <2>2. table[P + k] = P + k /\ P + k \in DOMAIN table
      BY <1>5 DEF Arrives, TableIs
    <2> HIDE DEF k, P, Q
    <2> QED  BY <2>1, <2>2, <1>1
  <1>7. (c.rw - c.ro) % PageWords = 0
    <2>1. c.rw - c.ro = (Q - P) * 1024
      BY <1>1, <1>2
    <2>2. Q - P \in Int
      BY <1>1
    <2> HIDE DEF P, Q
    <2> QED  BY <2>1, <2>2 DEF PageWords
  <1>8. Same(table, c, i)
    BY <1>3, <1>6, <1>7 DEF Same, Readable
  <1>9. Physical(c.rw + i) = (P + k) * 1024 + ((r + i) % 1024)
    BY <1>3, <1>6 DEF Physical, PageWords
  <1>10. (P + k) * 1024 + ((r + i) % 1024) = c.ro + i
    <2> DEFINE m == (r + i) % 1024
    <2>1. m \in Int /\ r + i = k * 1024 + m
      BY <1>1, <1>3
    <2> HIDE DEF k, P, r, m
    <2>2. (P + k) * 1024 + m = c.ro + i
      BY <2>1, <1>1
    <2> QED  BY <2>2 DEF m
  <1> QED  BY <1>8, <1>9, <1>10

\* A word of an owner's claim.
LEMMA OwnersWords ==
  ASSUME PatchingOK, NEW o \in Owners, NEW i \in 0..(objects[o].m_Claim.size - 1)
  PROVE  LET c == objects[o].m_Claim
         IN  /\ Same(table, c, i)
             /\ Physical(c.rw + i) = c.ro + i
             /\ c.ro + i \in Words(c.ro, c.size) /\ c.ro + i \in Nat
PROOF
  <1> DEFINE c == objects[o].m_Claim
  <1>1. c \in [ro : Nat, rw : Nat, size : Nat, rv : Cells \cup {NULL}]
    BY DEF PatchingOK, ClaimsOK, ObjectsOK, Objs, Owners
  <1>2. Arrives(c) /\ TableIs /\ \A p \in Code \cup OtherPages : table[p] = p
    BY DEF PatchingOK, MappingsOK, ClaimsOK
  <1>3. Same(table, c, i) /\ Physical(c.rw + i) = c.ro + i
    <2> HIDE DEF c
    <2> QED  BY <1>1, <1>2, ArrivesSame DEF c
  <1>4. c.ro + i \in Words(c.ro, c.size) /\ c.ro + i \in Nat
    BY <1>1 DEF Words
  <1> QED  BY <1>3, <1>4

\* A claim that fits its pages gets an alias that is the same memory, and the
\* aliases of the others stay what they are.
LEMMA ConstructMaps ==
  ASSUME ClaimsOK, MappingsOK, NEW o \in Objects \ DOMAIN objects,
         NEW h \in Claims, Construct(o, h.ro, h.size),
         Page(h.ro + h.size - 1) \in RoPages(h),
         \/ RoPages(h) \subseteq Code \cup OtherPages
         \/ RoPages(h) \cap (Code \cup OtherPages \cup Pages(AslrRegion)) = {}
  PROVE  /\ MappingsOK'
         /\ DOMAIN objects' = DOMAIN objects \cup {o} /\ Owners' = Owners \cup {o}
         /\ \A x \in DOMAIN objects : objects'[x] = objects[x]
         /\ objects'[o].m_Claim.ro = h.ro /\ objects'[o].m_Claim.size = h.size
         /\ stale' = stale /\ aborted' = aborted
PROOF
  <1>1. PICK at \in virtmemFindAslr(AlignUp(h.size), 0) \ {NULL}, rv \in Reservation :
          LET c == Claim(h.ro, h.size, at, rv)
          IN  /\ RoPages(c) \subseteq DOMAIN table
              /\ table' = Mapped(c)
              /\ objects' = [x \in DOMAIN objects \cup {o} |->
                   IF x = o THEN [m_Claim |-> c, m_Owner |-> TRUE] ELSE objects[x]]
              /\ stale' = stale /\ aborted' = aborted
    BY DEF Construct
  <1> DEFINE c == Claim(h.ro, h.size, at, rv)
             n == AlignUp(h.size)
             P == Page(h.ro)
  <1>2. h.ro \in Nat /\ h.size \in Nat \ {0} /\ n \in Nat \ {0} /\ P \in Nat
    BY DEF Claims, AlignUp, Page, PageWords
  <1>3. at \in Nat /\ at..(at + n - 1) \cap DOMAIN table = {}
    BY <1>2, FoundIsFree DEF ClaimsOK
  <1>4. /\ c.rw \in Nat /\ Page(c.rw) = at /\ RwPagesOf(c) = at..(at + n - 1)
        /\ c.rw % PageWords = h.ro % PageWords
        /\ c.ro = h.ro /\ c.size = h.size /\ Page(c.ro) = P
        /\ RoPages(c) = P..(P + n - 1) /\ RoPages(h) = P..(P + n - 1)
    BY <1>2, <1>3, ClaimPages DEF Claim, RoPages
  <1> HIDE DEF c, n, P
  <1>5. P..(P + n - 1) \subseteq Code \cup OtherPages
    <2>1. P \in P..(P + n - 1)
      BY <1>2
    <2>2. DOMAIN table \subseteq Code \cup OtherPages \cup Pages(AslrRegion)
      BY DEF ClaimsOK, TableIs, InAslrRegion
    <2>3. P \in DOMAIN table
      BY <1>1, <1>4, <2>1 DEF c
    <2> QED  BY <1>4, <2>1, <2>2, <2>3
  <1>6. /\ DOMAIN table' = DOMAIN table \cup RwPagesOf(c)
        /\ \A p \in DOMAIN table : table'[p] = table[p]
        /\ \A p \in RwPagesOf(c) : table'[p] = table[p - Page(c.rw) + Page(c.ro)]
    BY <1>1, <1>3, <1>4 DEF Mapped, c
  <1>7. /\ DOMAIN objects' = DOMAIN objects \cup {o}
        /\ objects'[o] = [m_Claim |-> c, m_Owner |-> TRUE]
        /\ \A x \in DOMAIN objects : objects'[x] = objects[x]
    BY <1>1 DEF c
  <1>8. Owners' = Owners \cup {o} /\ o \notin Owners
    BY <1>7 DEF Owners
  <1>9. \A p \in Code \cup OtherPages : table'[p] = p
    BY <1>6 DEF MappingsOK, ClaimsOK, TableIs
  <1>10. Arrives(c)'
    <2>1. \A p \in at..(at + n - 1) : p - at + P \in P..(P + n - 1)
      BY <1>2, <1>3
    <2>2. \A p \in RwPagesOf(c) : p \in DOMAIN table' /\ table'[p] = p - Page(c.rw) + Page(c.ro)
      BY <2>1, <1>4, <1>5, <1>6 DEF MappingsOK
    <2>3. PICK d : d = c
      OBVIOUS
    <2>4. \A p \in RwPagesOf(d) : p \in DOMAIN table' /\ table'[p] = p - Page(d.rw) + Page(d.ro)
      BY <2>2, <2>3
    <2>5. /\ d.rw % PageWords = d.ro % PageWords
          /\ Page(d.ro + d.size - 1) \in RoPages(d)
          /\ d.size # 0
          /\ RoPages(d) \subseteq Code \cup OtherPages
      BY <2>3, <1>2, <1>4, <1>5
    <2>6. Arrives(d)'
      BY <2>4, <2>5 DEF Arrives, RwPagesOf, RoPages, Page, PageWords, AlignUp
    <2> QED  BY <2>3, <2>6 DEF c
  <1>11. ASSUME NEW x \in Owners, NEW d, d = objects[x].m_Claim
         PROVE  Arrives(d)'
    <2>1. /\ d.rw % PageWords = d.ro % PageWords
          /\ Page(d.ro + d.size - 1) \in RoPages(d)
          /\ d.size # 0
          /\ RoPages(d) \subseteq Code \cup OtherPages
          /\ \A p \in RwPagesOf(d) :
               p \in DOMAIN table /\ table[p] = p - Page(d.rw) + Page(d.ro)
      BY <1>11 DEF MappingsOK, Arrives
    <2>2. \A p \in RwPagesOf(d) :
            p \in DOMAIN table' /\ table'[p] = p - Page(d.rw) + Page(d.ro)
      BY <2>1, <1>6
    <2> QED  BY <2>1, <2>2 DEF Arrives, RwPagesOf, RoPages, Page, PageWords, AlignUp
  <1>12. \A x \in Owners' : Arrives(objects[x].m_Claim)'
    <2> TAKE x \in Owners'
    <2>1. PICK d : d = objects'[x].m_Claim
      OBVIOUS
    <2>2. Arrives(d)'
      <3>1. CASE x = o
        <4>1. d = c
          BY <2>1, <3>1, <1>7
        <4> QED  BY <4>1, <1>10 DEF Arrives, c
      <3>2. CASE x \in Owners
        <4>1. d = objects[x].m_Claim
          BY <2>1, <3>2, <1>7 DEF Owners
        <4> QED  BY <4>1, <3>2, <1>11
      <3> QED  BY <3>1, <3>2, <1>8
    <2> QED  BY <2>1, <2>2 DEF Arrives, RwPagesOf, RoPages, Page, AlignUp
  <1> QED  BY <1>1, <1>2, <1>4, <1>7, <1>8, <1>9, <1>12 DEF MappingsOK

\* Table and owners' claims stay.
LEMMA MappingsStay ==
  ASSUME MappingsOK, table' = table,
         \A o \in Owners' : \E x \in Owners : objects'[o].m_Claim = objects[x].m_Claim
  PROVE  MappingsOK'
PROOF
  <1>1. \A o \in Owners' : Arrives(objects[o].m_Claim)'
    <2> TAKE o \in Owners'
    <2>1. PICK x \in Owners : objects'[o].m_Claim = objects[x].m_Claim
      OBVIOUS
    <2>2. Arrives(objects[x].m_Claim)
      BY DEF MappingsOK
    <2> QED  BY <2>1, <2>2 DEF Arrives, RwPagesOf, RoPages, Page, AlignUp
  <1> QED  BY <1>1 DEF MappingsOK

\* A step that leaves claims and page table alone.
LEMMA PatchingStays ==
  ASSUME PatchingOK, UNCHANGED virtmemVars, objects' = objects,
         PatcherOK', stale' \subseteq Nat, NothingStale', aborted' \in Reasons
  PROVE  PatchingOK'
PROOF
  <1>1. ClaimsOK'
    BY OthersKeep DEF PatchingOK
  <1>2. table' = table /\ Owners' = Owners
    BY DEF virtmemVars, Owners
  <1>3. MappingsOK'
    BY <1>2, MappingsStay DEF PatchingOK
  <1> QED  BY <1>1, <1>3 DEF PatchingOK

LEMMA InitPatching == Init => PatchingOK
PROOF
  <1> SUFFICES ASSUME Init PROVE PatchingOK
    OBVIOUS
  <1>1. ClaimsOK
    BY InitClaims
  <1>2. MappingsOK /\ PatcherOK
    BY DEF Init, MappingsOK, PatcherOK, Owners
  <1> QED  BY <1>1, <1>2 DEF Init, PatchingOK, NothingStale, Reasons

LEMMA NextKeepsPatching == Fits /\ PatchingOK /\ [Next]_vars => PatchingOK'
PROOF
  <1> SUFFICES ASSUME Fits, PatchingOK, [Next]_vars PROVE PatchingOK'
    OBVIOUS
  <1>1. ClaimsOK'
    BY NextKeepsClaims DEF PatchingOK
  <1>2. ClaimsOK /\ MappingsOK /\ PatcherOK /\ stale \subseteq Nat /\ NothingStale
    BY DEF PatchingOK
  <1>3. NULL \notin Patchers
    BY PatchingAssumption
  <1>4. CASE InitPatcherImpl
    <2>1. MainModule \in Claims /\ Storage \in Objects \ DOMAIN objects /\ patcher' = patcher
      BY <1>4, PatchingAssumption DEF InitPatcherImpl
    <2>2. CASE Construct(Storage, MainModule.ro, MainModule.size)
      <3>1. /\ MappingsOK'
            /\ DOMAIN objects' = DOMAIN objects \cup {Storage} /\ Owners' = Owners \cup {Storage}
            /\ \A x \in DOMAIN objects : objects'[x] = objects[x]
            /\ objects'[Storage].m_Claim.ro = MainModule.ro
            /\ objects'[Storage].m_Claim.size = MainModule.size
            /\ stale' = stale /\ aborted' = aborted
        BY <2>1, <2>2, <1>2, ConstructMaps DEF Fits
      <3>2. patcher = NULL
        BY <2>1, <1>2 DEF PatcherOK
      <3>3. PatcherOK'
        BY <2>1, <3>1, <3>2, <1>2 DEF PatcherOK
      <3>4. NothingStale'
        BY <2>1, <3>1, <3>2, <1>2 DEF NothingStale, Owners
      <3> QED  BY <1>1, <1>2, <3>1, <3>3, <3>4 DEF PatchingOK
    <2>3. CASE ConstructAborts(Storage, MainModule.ro, MainModule.size)
      <3>1. /\ UNCHANGED virtmemVars /\ objects' = objects /\ stale' = stale
            /\ aborted' \in Reasons
        BY <2>3, AbortLeaves DEF Reasons
      <3>2. PatcherOK' /\ NothingStale'
        BY <3>1, <2>1, <1>2 DEF PatcherOK, NothingStale, Owners, Base
      <3> QED  BY <3>1, <3>2, <1>2, PatchingStays
    <2> QED  BY <1>4, <2>2, <2>3 DEF InitPatcherImpl
  <1>5. CASE Claiming
    <2>1. PICK o \in Objects \ DOMAIN objects, h \in Hooked :
            Construct(o, h.ro, h.size) \/ ConstructAborts(o, h.ro, h.size)
      BY <1>5 DEF Claiming
    <2>2. h \in Claims /\ patcher' = patcher /\ Storage \in DOMAIN objects /\ o # Storage
      BY <1>5, PatchingAssumption DEF Claiming, Ready
    <2>3. CASE Construct(o, h.ro, h.size)
      <3>1. /\ MappingsOK'
            /\ DOMAIN objects' = DOMAIN objects \cup {o} /\ Owners' = Owners \cup {o}
            /\ \A x \in DOMAIN objects : objects'[x] = objects[x]
            /\ stale' = stale /\ aborted' = aborted
        BY <2>2, <2>3, <1>2, ConstructMaps DEF Fits
      <3>2. PatcherOK'
        BY <2>2, <3>1, <1>2 DEF PatcherOK
      <3>3. NothingStale'
        BY <2>2, <3>1, <1>2 DEF NothingStale, Owners, Base
      <3> QED  BY <1>1, <3>1, <3>2, <3>3 DEF PatchingOK
    <2>4. CASE ConstructAborts(o, h.ro, h.size)
      <3>1. /\ UNCHANGED virtmemVars /\ objects' = objects /\ stale' = stale
            /\ aborted' \in Reasons
        BY <2>4, AbortLeaves DEF Reasons
      <3>2. PatcherOK' /\ NothingStale'
        BY <3>1, <2>2, <1>2 DEF PatcherOK, NothingStale, Owners, Base
      <3> QED  BY <3>1, <3>2, <1>2, PatchingStays
    <2> QED  BY <2>1, <2>3, <2>4
  <1>6. CASE Moving
    <2>1. PICK o \in Objects \ DOMAIN objects, other \in DOMAIN objects \ {Storage} :
            MoveConstruct(o, other)
      BY <1>6 DEF Moving
    <2>2. patcher' = patcher /\ Storage \in DOMAIN objects /\ o # Storage
      BY <1>6 DEF Moving, Ready
    <2>3. /\ DOMAIN objects' = DOMAIN objects \cup {o}
          /\ objects'[o] = objects[other]
          /\ objects'[other] = [m_Claim |-> NoClaim, m_Owner |-> FALSE]
          /\ \A x \in DOMAIN objects \ {other} : objects'[x] = objects[x]
          /\ stale' = stale /\ aborted' = aborted /\ table' = table
      BY <2>1 DEF MoveConstruct, virtmemVars
    <2>4. \A x \in Owners' : \E y \in Owners : objects'[x].m_Claim = objects[y].m_Claim
      BY <2>3 DEF Owners
    <2>5. MappingsOK'
      BY <2>3, <2>4, <1>2, MappingsStay
    <2>6. PatcherOK'
      BY <2>2, <2>3, <1>2 DEF PatcherOK
    <2>7. \A y \in Owners \ {Storage} : \E x \in Owners' \ {Storage} :
            objects'[x].m_Claim = objects[y].m_Claim
      <3> TAKE y \in Owners \ {Storage}
      <3>1. CASE y = other
        <4>1. o \in Owners' \ {Storage} /\ objects'[o].m_Claim = objects[y].m_Claim
          BY <2>2, <2>3, <3>1 DEF Owners
        <4> QED  BY <4>1
      <3>2. CASE y # other
        <4>1. y \in Owners' \ {Storage} /\ objects'[y].m_Claim = objects[y].m_Claim
          BY <2>3, <3>2 DEF Owners
        <4> QED  BY <4>1
      <3> QED  BY <3>1, <3>2
    <2>8. Base' = Base
      BY <2>2, <2>3 DEF Base
    <2>9. NothingStale'
      BY <2>2, <2>3, <2>7, <2>8, <1>2 DEF NothingStale
    <2> QED  BY <1>1, <2>3, <2>5, <2>6, <2>9, <1>2 DEF PatchingOK
  <1>7. CASE Releasing
    <2>1. PICK o \in DOMAIN objects \ {Storage} : Destroy(o)
      BY <1>7 DEF Releasing
    <2>2. patcher' = patcher /\ Storage \in DOMAIN objects /\ aborted' = aborted
      BY <1>7, <2>1 DEF Releasing, Ready, Destroy
    <2>3. /\ DOMAIN objects' = DOMAIN objects \ {o}
          /\ \A x \in DOMAIN objects' : objects'[x] = objects[x]
          /\ Owners' = Owners \ {o}
      BY <2>1 DEF Destroy, Owners
    <2>4. PatcherOK' /\ Base' = Base
      BY <2>2, <2>3, <1>2 DEF PatcherOK, Base
    <2>5. CASE ~objects[o].m_Owner
      <3>1. stale' = stale /\ table' = table /\ o \notin Owners
        BY <2>1, <2>5 DEF Destroy, virtmemVars, Owners
      <3>2. MappingsOK'
        BY <2>3, <3>1, <1>2, MappingsStay DEF Owners
      <3>3. NothingStale'
        BY <2>2, <2>3, <2>4, <3>1, <1>2 DEF NothingStale, Owners
      <3> QED  BY <1>1, <2>2, <2>4, <3>1, <3>2, <3>3, <1>2 DEF PatchingOK
    <2>6. CASE objects[o].m_Owner
      <3> DEFINE c == objects[o].m_Claim
      <3>1. /\ stale' = stale \ Words(c.ro, c.size)
            /\ table' = [p \in DOMAIN table \ RwPagesOf(c) |-> table[p]]
        BY <2>1, <2>6 DEF Destroy, Flush
      <3>2. o \in Owners
        BY <2>6 DEF Owners
      <3>3. /\ \A x \in Owners \ {o} : RwPagesOf(objects[x].m_Claim) \cap RwPagesOf(c) = {}
            /\ (Code \cup OtherPages) \cap RwPagesOf(c) = {}
        <4>1. c.rv \in DOMAIN nodes /\ Pages(nodes[c.rv].region) = RwPagesOf(c)
          BY <3>2, <1>2 DEF ClaimsOK, OneOwnerEach
        <4>2. ASSUME NEW x \in Owners \ {o}
              PROVE  RwPagesOf(objects[x].m_Claim) \cap RwPagesOf(c) = {}
          <5> DEFINE d == objects[x].m_Claim
          <5>1. /\ d.rv \in DOMAIN nodes /\ d.rv # c.rv
                /\ Pages(nodes[d.rv].region) = RwPagesOf(d)
            BY <3>2, <1>2 DEF ClaimsOK, OneOwnerEach
          <5> QED  BY <4>1, <5>1, <1>2 DEF ClaimsOK, AliasesApart
        <4>3. (Code \cup OtherPages) \cap RwPagesOf(c) = {}
          BY <4>1, <1>2 DEF ClaimsOK, AliasesApart
        <4> QED  BY <4>2, <4>3
      <3>4. MappingsOK'
        <4>1. \A p \in Code \cup OtherPages : table'[p] = p
          BY <3>1, <3>3, <1>2 DEF MappingsOK, ClaimsOK, TableIs
        <4>2. \A x \in Owners' : Arrives(objects[x].m_Claim)'
          <5> TAKE x \in Owners'
          <5>1. PICK d : d = objects[x].m_Claim
            OBVIOUS
          <5>2. Arrives(d) /\ RwPagesOf(d) \cap RwPagesOf(c) = {} /\ objects'[x].m_Claim = d
            BY <5>1, <2>3, <3>3, <1>2 DEF MappingsOK, Owners
          <5>3. \A p \in RwPagesOf(d) :
                  p \in DOMAIN table' /\ table'[p] = p - Page(d.rw) + Page(d.ro)
            BY <5>2, <3>1 DEF Arrives
          <5>4. /\ d.rw % PageWords = d.ro % PageWords
                /\ Page(d.ro + d.size - 1) \in RoPages(d)
                /\ d.size # 0
                /\ RoPages(d) \subseteq Code \cup OtherPages
            BY <5>2 DEF Arrives
          <5> QED  BY <5>2, <5>3, <5>4 DEF Arrives, RwPagesOf, RoPages, Page, AlignUp
        <4> QED  BY <4>1, <4>2 DEF MappingsOK
      <3>5. NothingStale'
        <4> SUFFICES ASSUME NEW w \in stale'
                     PROVE  \/ \E x \in Owners' \ {Storage} :
                                 w \in Words(objects'[x].m_Claim.ro, objects'[x].m_Claim.size)
                            \/ /\ patcher' # NULL
                               /\ w \in Words(Base'.ro + patcher'.m_Start,
                                            patcher'.m_Current - patcher'.m_Start)
          BY DEF NothingStale, Words
        <4>1. w \in stale /\ w \notin Words(c.ro, c.size)
          BY <3>1
        <4>2. CASE \E x \in Owners \ {Storage} :
                     w \in Words(objects[x].m_Claim.ro, objects[x].m_Claim.size)
          <5>1. PICK x \in Owners \ {Storage} :
                  w \in Words(objects[x].m_Claim.ro, objects[x].m_Claim.size)
            BY <4>2
          <5>2. x # o
            BY <5>1, <4>1
          <5>3. x \in Owners' \ {Storage} /\ objects'[x] = objects[x]
            BY <5>2, <2>3 DEF Owners
          <5> QED  BY <5>1, <5>3
        <4> QED  BY <4>1, <4>2, <2>2, <2>4, <1>2 DEF NothingStale
      <3> QED  BY <1>1, <2>2, <2>4, <3>1, <3>4, <3>5, <1>2 DEF PatchingOK
    <2> QED  BY <2>5, <2>6 DEF PatchingOK, ClaimsOK, ObjectsOK, Objs
  <1>8. CASE Writing
    <2>1. PICK o \in Owners \ {Storage} : \E i \in Ends(objects[o].m_Claim) :
            stale' = stale \cup {Physical(objects[o].m_Claim.rw + i)}
      BY <1>8 DEF Writing
    <2> DEFINE c == objects[o].m_Claim
    <2>2. PICK i \in Ends(c) : stale' = stale \cup {Physical(c.rw + i)}
      BY <2>1
    <2>3. i \in 0..(c.size - 1)
      <3>1. c.size \in Nat /\ c.size # 0
        BY <1>2 DEF ClaimsOK, ObjectsOK, Objs, Owners, MappingsOK, Arrives
      <3> HIDE DEF c
      <3> QED  BY <2>2, <3>1 DEF Ends
    <2>4. Physical(c.rw + i) \in Words(c.ro, c.size) /\ Physical(c.rw + i) \in Nat
      BY <2>3, OwnersWords
    <2>5. /\ UNCHANGED virtmemVars /\ objects' = objects
          /\ aborted' = aborted /\ patcher' = patcher
      BY <1>8 DEF Writing
    <2>6. PatcherOK' /\ Owners' = Owners /\ Base' = Base
      BY <2>5, <1>2 DEF PatcherOK, Owners, Base
    <2>7. NothingStale'
      BY <2>2, <2>4, <2>5, <2>6, <1>2 DEF NothingStale, Words
    <2> QED  BY <2>2, <2>4, <2>5, <2>6, <2>7, <1>2, PatchingStays DEF PatchingOK
  <1>9. CASE StreamPatcher
    <2>1. /\ UNCHANGED <<virtmemVars, claimVars>> /\ patcher = NULL
          /\ Storage \in DOMAIN objects
      BY <1>9 DEF StreamPatcher, Ready
    <2>2. PICK start \in Patched : patcher' = [m_Start |-> start, m_Current |-> start]
      BY <1>9 DEF StreamPatcher
    <2>3. start \in Nat /\ MaxWritten \in Nat
      BY PatchingAssumption
    <2>4. PatcherOK'
      BY <2>1, <2>2, <2>3, <1>2 DEF PatcherOK, Patchers, claimVars
    <2>5. NothingStale'
      BY <2>1, <1>2 DEF NothingStale, claimVars, Owners
    <2> QED  BY <2>1, <2>4, <2>5, <1>2, PatchingStays DEF PatchingOK, claimVars
  <1>10. Storage \in DOMAIN objects /\ patcher # NULL =>
           LET p == patcher
           IN  /\ p.m_Start \in Nat /\ p.m_Current \in Nat /\ p.m_Start <= p.m_Current
               /\ p.m_Start \in Patched /\ p.m_Current <= p.m_Start + MaxWritten
               /\ p.m_Start + MaxWritten <= Base.size
               /\ Base.ro \in Nat /\ Base.rw \in Nat /\ Base.size \in Nat /\ MaxWritten \in Nat
               /\ p = [m_Start |-> p.m_Start, m_Current |-> p.m_Current]
               /\ Storage \in Owners
    <2> SUFFICES ASSUME Storage \in DOMAIN objects, patcher # NULL
                 PROVE  LET p == patcher
                        IN  /\ p.m_Start \in Nat /\ p.m_Current \in Nat /\ p.m_Start <= p.m_Current
                            /\ p.m_Start \in Patched /\ p.m_Current <= p.m_Start + MaxWritten
                            /\ p.m_Start + MaxWritten <= Base.size
                            /\ Base.ro \in Nat /\ Base.rw \in Nat /\ Base.size \in Nat
                            /\ MaxWritten \in Nat
                            /\ p = [m_Start |-> p.m_Start, m_Current |-> p.m_Current]
                            /\ Storage \in Owners
      OBVIOUS
    <2>1. patcher \in Patchers /\ MaxWritten \in Nat
      BY <1>2, PatchingAssumption DEF PatcherOK
    <2>2. Base.ro \in Nat /\ Base.rw \in Nat /\ Base.size \in Nat /\ Storage \in Owners
      BY <1>2 DEF ClaimsOK, ObjectsOK, Objs, Base, Owners
    <2>3. Base.size = MainModule.size
      BY <1>2 DEF PatcherOK, Base
    <2> QED  BY <2>1, <2>2, <2>3, <1>2 DEF PatcherOK, Patchers, Fits
  <1>11. CASE Write
    <2>1. /\ UNCHANGED <<virtmemVars, objects, aborted>>
          /\ Storage \in DOMAIN objects /\ patcher # NULL
          /\ patcher.m_Current < patcher.m_Start + MaxWritten
          /\ stale' = stale \cup {Physical(Base.rw + patcher.m_Current)}
          /\ patcher' = [patcher EXCEPT !.m_Current = @ + 1]
      BY <1>11 DEF Write, Ready
    <2>2. /\ patcher'.m_Start = patcher.m_Start
          /\ patcher'.m_Current = patcher.m_Current + 1
          /\ patcher' \in Patchers
      BY <2>1, <1>10 DEF Patchers
    <2>3. Physical(Base.rw + patcher.m_Current) = Base.ro + patcher.m_Current
      <3>1. patcher.m_Current \in 0..(Base.size - 1)
        BY <2>1, <1>10
      <3> QED  BY <3>1, <2>1, <1>10, OwnersWords DEF Base
    <2>4. Base' = Base /\ Owners' = Owners
      BY <2>1 DEF Base, Owners
    <2>5. PatcherOK'
      BY <2>1, <2>2, <1>2, <1>3, <1>10 DEF PatcherOK
    <2>6. /\ Words(Base.ro + patcher.m_Start, patcher.m_Current - patcher.m_Start)
               \subseteq Words(Base.ro + patcher.m_Start, patcher'.m_Current - patcher'.m_Start)
          /\ Base.ro + patcher.m_Current
               \in Words(Base.ro + patcher.m_Start, patcher'.m_Current - patcher'.m_Start)
      BY <2>1, <2>2, <1>10 DEF Words
    <2>7. NothingStale'
      <3> SUFFICES ASSUME NEW w \in stale'
                   PROVE  \/ \E x \in Owners \ {Storage} :
                               w \in Words(objects[x].m_Claim.ro, objects[x].m_Claim.size)
                          \/ w \in Words(Base.ro + patcher'.m_Start,
                                        patcher'.m_Current - patcher'.m_Start)
        BY <2>1, <2>2, <2>4, <1>3 DEF NothingStale, Words
      <3>1. CASE w \in stale
        BY <3>1, <2>2, <2>6, <1>2 DEF NothingStale
      <3>2. CASE w = Base.ro + patcher.m_Current
        BY <3>2, <2>2, <2>6
      <3> QED  BY <3>1, <3>2, <2>1, <2>3
    <2>8. stale' \subseteq Nat
      BY <2>1, <2>3, <1>2, <1>10
    <2> QED  BY <2>1, <2>5, <2>7, <2>8, PatchingStays DEF PatchingOK
  <1>12. CASE Seek
    <2>1. PICK address \in Patched :
            IF address = patcher.m_Current THEN UNCHANGED <<stale, patcher>>
            ELSE /\ FlushPatcher
                 /\ patcher' = [m_Start |-> address, m_Current |-> address]
      BY <1>12 DEF Seek
    <2>2. /\ UNCHANGED <<virtmemVars, objects, aborted>>
          /\ Storage \in DOMAIN objects /\ patcher # NULL /\ address \in Nat
          /\ MaxWritten \in Nat
      BY <1>12, PatchingAssumption DEF Seek, Ready
    <2>3. Base' = Base /\ Owners' = Owners
      BY <2>2 DEF Base, Owners
    <2>4. CASE UNCHANGED <<stale, patcher>>
      <3>1. PatcherOK' /\ NothingStale'
        BY <2>2, <2>3, <2>4, <1>2 DEF PatcherOK, NothingStale, Words
      <3> QED  BY <2>2, <2>4, <3>1, <1>2, PatchingStays DEF PatchingOK
    <2>5. CASE FlushPatcher /\ patcher' = [m_Start |-> address, m_Current |-> address]
      <3>1. stale' = stale \ Words(Base.ro + patcher.m_Start, patcher.m_Current - patcher.m_Start)
        BY <2>5 DEF FlushPatcher, Flush
      <3>2. PatcherOK'
        BY <2>2, <2>5, <1>2 DEF PatcherOK, Patchers
      <3>3. NothingStale'
        BY <2>2, <2>3, <3>1, <1>2 DEF NothingStale
      <3> QED  BY <2>2, <3>1, <3>2, <3>3, <1>2, PatchingStays DEF PatchingOK
    <2> QED  BY <2>1, <2>4, <2>5
  <1>13. CASE Finish
    <2>1. /\ UNCHANGED <<virtmemVars, objects, aborted>>
          /\ stale' = stale \ Words(Base.ro + patcher.m_Start, patcher.m_Current - patcher.m_Start)
          /\ patcher' = NULL
      BY <1>13 DEF Finish, FlushPatcher, Flush
    <2>2. PatcherOK'
      BY <2>1, <1>2 DEF PatcherOK
    <2>3. NothingStale'
      BY <2>1, <1>2 DEF NothingStale, Owners
    <2> QED  BY <2>1, <2>2, <2>3, <1>2, PatchingStays DEF PatchingOK
  <1>14. CASE UNCHANGED vars
    <2>1. UNCHANGED <<virtmemVars, objects, stale, aborted, patcher>>
      BY <1>14 DEF vars, claimVars
    <2>2. PatcherOK' /\ NothingStale'
      BY <2>1, <1>2 DEF PatcherOK, NothingStale, Owners, Base, Words
    <2> QED  BY <2>1, <2>2, <1>2, PatchingStays DEF PatchingOK
  <1> QED  BY <1>4, <1>5, <1>6, <1>7, <1>8, <1>9, <1>11, <1>12, <1>13, <1>14 DEF Next

\* The invariant holds for hooks and patchers that fit.
LEMMA PatchingInvariant == Fits => (Spec => []PatchingOK)
PROOF
  <1> SUFFICES ASSUME Fits PROVE Spec => []PatchingOK
    OBVIOUS
  <1>1. PatchingOK /\ [Next]_vars => PatchingOK'
    BY NextKeepsPatching
  <1> QED  BY <1>1, InitPatching, PTL DEF Spec

\* For any claims that do not run into one more page, and patchers that stay in
\* the main module, the model's variables keep their types.
THEOREM PatchingTypes == Fits => (Spec => []TypeOK)
PROOF
  <1>1. PatchingOK => TypeOK
    BY DEF PatchingOK, ClaimsOK, TypeOK, TableIs, ObjectsOK, PatcherOK, Reasons
  <1> QED  BY <1>1, PatchingInvariant, PTL

\* For such claims, every word of an alias is the word it stands for:
\* RwPages' constructor, and what Destroy takes out of the page table.
THEOREM PatchingArrives == Fits => (Spec => []WritesArrive)
PROOF
  <1>1. PatchingOK => WritesArrive
    <2> SUFFICES ASSUME PatchingOK, NEW o \in Owners, NEW i \in Ends(objects[o].m_Claim)
                 PROVE  Same(table, objects[o].m_Claim, i)
      BY DEF WritesArrive
    <2> DEFINE c == objects[o].m_Claim
    <2>1. c.size \in Nat /\ c.size # 0
      BY DEF PatchingOK, ClaimsOK, ObjectsOK, Objs, Owners, MappingsOK, Arrives
    <2>2. i \in 0..(c.size - 1)
      <3>1. i \in Ends(c)
        OBVIOUS
      <3> HIDE DEF c
      <3> QED  BY <2>1, <3>1 DEF Ends
    <2> QED  BY <2>2, OwnersWords
  <1> QED  BY <1>1, PatchingInvariant, PTL

\* For such claims and patchers, nothing that was written stays unflushed: the
\* destructor of RwPages, Seek and the destructor of StreamPatcher.
THEOREM PatchingFlushes == Fits => (Spec => []NothingStale)
PROOF
  <1>1. PatchingOK => NothingStale
    BY DEF PatchingOK
  <1> QED  BY <1>1, PatchingInvariant, PTL
=============================================================================
