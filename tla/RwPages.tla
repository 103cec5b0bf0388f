------------------------------ MODULE RwPages ------------------------------
(***************************************************************************)
(* Writable aliases of code (lib/util/sys/rw_pages.hpp and .cpp).  A claim *)
(* finds and reserves a range of addresses, maps the pages of the code     *)
(* there a second time and, when its owner dies, makes what was written    *)
(* visible to instruction fetch, unmaps the range and gives it back.       *)
(*                                                                         *)
(* Addresses and sizes of claims are in words of 4 bytes.                  *)
(***************************************************************************)
EXTENDS Virtmem

CONSTANTS
  Objects,       \* the objects of class RwPages there may be at a time
  Code,          \* the pages of the game's code
  OtherPages     \* what else is mapped

PageWords == 1024

Claims == [ro : Nat, size : Nat \ {0}]

ASSUME CodeAssumption == Code \cup OtherPages \subseteq Nat

VARIABLES
  objects,    \* the live objects: m_Claim and m_Owner
  stale,      \* words of code written that may still be fetched as they were
  aborted     \* why the process ended, or "no"

claimVars == <<objects, stale, aborted>>

Page(w) == w \div PageWords

AlignUp(size) == (size + PageWords - 1) \div PageWords

Words(start, size) == start..(start + size - 1)

\* The pages of a claim in the code and in its alias.
RoPages(c) == Page(c.ro)..(Page(c.ro) + AlignUp(c.size) - 1)
RwPagesOf(c) == Page(c.rw)..(Page(c.rw) + AlignUp(c.size) - 1)

Objs == [m_Claim : [ro : Nat, rw : Nat, size : Nat, rv : Cells \cup {NULL}],
         m_Owner : BOOLEAN]

Owners == {o \in DOMAIN objects : objects[o].m_Owner}

\* What the page table has when the alias of c is mapped.
Mapped(c) ==
  [p \in DOMAIN table \cup RwPagesOf(c) |->
     IF p \in RwPagesOf(c) THEN table[p - Page(c.rw) + Page(c.ro)] ELSE table[p]]

\* Word i of the claim is the same memory at both mappings of t.
Readable(t, c, i) == Page(c.rw + i) \in DOMAIN t
Same(t, c, i) ==
  /\ Readable(t, c, i) /\ Page(c.ro + i) \in DOMAIN t
  /\ t[Page(c.rw + i)] = t[Page(c.ro + i)]
  /\ (c.rw - c.ro) % PageWords = 0

\* The words where a claim may first leave its pages.
Ends(c) == {0, c.size - 1}

-----------------------------------------------------------------------------
(* The constructors and the destructor *)

\* mutant: the alias is said to start where its first page does
ClaimAtPage(ro, size, at, rv) ==
  [ro |-> ro, rw |-> at * PageWords, size |-> size, rv |-> rv]

Claim(ro, size, at, rv) ==
  [ro |-> ro, rw |-> at * PageWords + (ro % PageWords), size |-> size, rv |-> rv]

\* mutant: a reservation that could not be made is not noticed
ReservationUnchecked == Malloc

\* EXL_ASSERT(reserve != NULL)
Reservation == Malloc \ {NULL}

\* Memory that is not the same may still compare equal, if it can be read.
Construct(o, ro, size) ==
  \E at \in virtmemFindAslr(AlignUp(size), 0) \ {NULL}, rv \in Reservation :
    LET c == Claim(ro, size, at, rv)
    IN  /\ RoPages(c) \subseteq DOMAIN table
        /\ \A i \in Ends(c) : Readable(Mapped(c), c, i)
        /\ virtmemAddReservation(rv, at, AlignUp(size))
        /\ table' = Mapped(c)
        /\ objects' = [x \in DOMAIN objects \cup {o} |->
             IF x = o THEN [m_Claim |-> c, m_Owner |-> TRUE] ELSE objects[x]]
        /\ UNCHANGED <<stale, aborted>>

Abort(why) == aborted' = why /\ UNCHANGED <<virtmemVars, objects, stale>>

\* No address, no memory for the reservation, memory that cannot be mapped,
\* or an alias that is not what it should be.
ConstructAborts(o, ro, size) ==
  LET found == virtmemFindAslr(AlignUp(size), 0)
  IN  \/ NULL \in found /\ Abort("no address")
      \/ found # {NULL} /\ NULL \in Malloc /\ Abort("no reservation")
      \/ \E at \in found \ {NULL}, rv \in Reservation :
           LET c == Claim(ro, size, at, rv)
           IN  IF RoPages(c) \subseteq DOMAIN table
                 THEN /\ \E i \in Ends(c) : ~Same(Mapped(c), c, i)
                      /\ Abort("not the same data")
                 ELSE Abort("not mapped")

NoClaim == [ro |-> 0, rw |-> 0, size |-> 0, rv |-> NULL]

\* mutant: both objects own the claim
MoveKeepsOwner(o, other) ==
  /\ objects' = [x \in DOMAIN objects \cup {o} |->
       IF x = o THEN objects[other] ELSE objects[x]]
  /\ UNCHANGED <<virtmemVars, stale, aborted>>

MoveConstruct(o, other) ==
  /\ objects' = [x \in DOMAIN objects \cup {o} |->
       IF x = o THEN objects[other]
       ELSE IF x = other THEN [m_Claim |-> NoClaim, m_Owner |-> FALSE]
       ELSE objects[x]]
  /\ UNCHANGED <<virtmemVars, stale, aborted>>

\* Flushing the data cache and the instruction cache.
Flush(start, size) == stale \ Words(start, size)

Destroy(o) ==
  /\ objects' = [x \in DOMAIN objects \ {o} |-> objects[x]]
  /\ IF objects[o].m_Owner
       THEN LET c == objects[o].m_Claim
            IN  /\ stale' = Flush(c.ro, c.size)
                /\ table' = [p \in DOMAIN table \ RwPagesOf(c) |-> table[p]]
                /\ virtmemRemoveReservation(c.rv)
       ELSE UNCHANGED <<virtmemVars, stale>>
  /\ UNCHANGED aborted

\* The word of memory behind the word at address w.
Physical(w) == table[Page(w)] * PageWords + (w % PageWords)

-----------------------------------------------------------------------------
(* Properties *)

\* No alias shares a page with another one, with other memory, or with the
\* regions the kernel keeps for itself: writing through one reaches nothing
\* else, and unmapping one takes nothing else away.
AliasesApart ==
  /\ \A c \in DOMAIN nodes :
       Pages(nodes[c].region) \cap (Code \cup OtherPages
         \cup Pages(AliasRegion) \cup Pages(HeapRegion)) = {}
  /\ \A c, d \in DOMAIN nodes :
       c # d => Pages(nodes[c].region) \cap Pages(nodes[d].region) = {}

\* Whatever objects are made, moved and destroyed in which order, each
\* reservation has exactly one owner: the range is given back once, and by
\* somebody.
OneOwnerEach ==
  /\ \A o \in Owners :
       LET c == objects[o].m_Claim
       IN  c.rv \in DOMAIN nodes /\ Pages(nodes[c.rv].region) = RwPagesOf(c)
  /\ \A o, x \in Owners : objects[o].m_Claim.rv = objects[x].m_Claim.rv => o = x
  /\ \A c \in DOMAIN nodes : \E o \in Owners : objects[o].m_Claim.rv = c

\* Every word of a claim, at its alias, is the word of the code it stands for,
\* for as long as the claim has an owner.
WritesArrive ==
  \A o \in Owners : \A i \in Ends(objects[o].m_Claim) :
    Same(table, objects[o].m_Claim, i)

\* The constructor's EXL_ASSERT ("Ensure the data at the different mapping is
\* the same") does not end the process.  (It does for a claim that runs into a
\* page more than its size has.)
MappingIsTheSame == aborted # "not the same data"
=============================================================================
