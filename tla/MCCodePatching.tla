--------------------------- MODULE MCCodePatching ---------------------------
(***************************************************************************)
(* A main module of two pages, the words of hooks in it, and an address    *)
(* space with a little more room than they take.                           *)
(***************************************************************************)
EXTENDS CodePatching, TLC

MCAslrRegion  == [start |-> 4, end |-> 13]
MCAliasRegion == [start |-> 9, end |-> 10]
MCHeapRegion  == [start |-> 1, end |-> 3]

MCCode       == {16, 17}
MCOtherPages == {6}

MCMainModule == [ro |-> 16 * PageWords, size |-> 2 * PageWords]

HookAt(page, word, size) == [ro |-> page * PageWords + word, size |-> size]

\* Five words at the end of a page, one, and one behind the code.
MCHooked == {HookAt(16, PageWords - 5, 5), HookAt(16, PageWords - 1, 1),
             HookAt(18, 0, 1)}

\* Five words, the last of them in the next page.
RunsOver == {HookAt(16, PageWords - 4, 5)}

\* Before the words of the hooks, and the last of the first page.
MCPatched == {PageWords - 6, PageWords - 1}

\* Which memory and which object is taken makes no difference.
Symmetry == Permutations(Cells) \cup Permutations(Objects \ {Storage})
=============================================================================
