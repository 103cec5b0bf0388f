------------------------------ MODULE TASProofs ------------------------------
(***************************************************************************)
(* Proofs about the script player, for every set of scripts, files and     *)
(* buttons, every size of the heap and every way the card fails; and that  *)
(* it does what Playback promises: every step of TAS is a step of          *)
(* Playback, or none, under the mapping of the instance Promise.           *)
(***************************************************************************)
EXTENDS TAS, FiniteSetTheorems, WellFoundedInduction, TLAPS

-----------------------------------------------------------------------------
(* The last of a set of line numbers *)

NatOrder == OpToRel(<, Nat)

LEMMA NatOrderIs == \A x, y \in Nat : <<x, y>> \in NatOrder <=> x < y
BY DEF NatOrder, OpToRel

\* A set of numbers that are not above N has a last one.
LEMMA LastOfIn ==
  ASSUME NEW N \in Nat, NEW S \in SUBSET (0..N), S # {}
  PROVE  LastOf(S) \in S /\ \A j \in S : j <= LastOf(S)
<1> DEFINE T == {N - i : i \in S}
<1>1. T \subseteq Nat /\ T # {}
  <2>1. T \subseteq Nat
    OBVIOUS
  <2>2. PICK k \in S : TRUE
    OBVIOUS
  <2>3. N - k \in T
    OBVIOUS
  <2>4. QED
    BY <2>1, <2>3
<1>2. IsWellFoundedOn(NatOrder, Nat)
  BY NatLessThanWellFounded DEF NatOrder
<1>3. PICK x \in T : \A y \in T : ~(<<y, x>> \in NatOrder)
  BY <1>1, <1>2, WFMin
<1>4. PICK i \in S : x = N - i
  OBVIOUS
<1>5. \A j \in S : j <= i
  <2>1. TAKE j \in S
  <2>2. N - j \in T
    OBVIOUS
  <2>3. ~(N - j < N - i)
    BY <1>1, <1>3, <1>4, <2>2, NatOrderIs
  <2>4. QED
    BY <2>3
<1>6. QED
  BY <1>5 DEF LastOf

-----------------------------------------------------------------------------
(* Scripts and the lines a step applies *)

LEMMA ScriptFacts ==
  ASSUME NEW s \in Scripts
  PROVE  /\ mFrameCount(s) \in Nat
         /\ \A i \in 1..mFrameCount(s) : s.mFrames[i].mButtons \in SUBSET Buttons
         /\ s.isTwoPlayer \in BOOLEAN
         /\ s.changesStage \in BOOLEAN
         /\ s.hasStartPosition \in BOOLEAN
<1>1. s \in ScriptType
  BY ScriptsAssumption
<1>2. s.mFrames \in Seq(Lines)
  BY <1>1 DEF ScriptType
<1>3. mFrameCount(s) \in Nat
  BY <1>2 DEF mFrameCount
<1>4. \A i \in 1..mFrameCount(s) : s.mFrames[i] \in Lines
  BY <1>2 DEF mFrameCount
<1>5. \A i \in 1..mFrameCount(s) : s.mFrames[i].mButtons \in SUBSET Buttons
  BY <1>4 DEF Lines
<1>6. QED
  BY <1>1, <1>3, <1>5 DEF ScriptType

\* The loop of exeUpdate stops between where it started and the end.
LEMMA LastDueIn ==
  ASSUME NEW s \in Scripts, NEW from \in 0..mFrameCount(s), NEW t
  PROVE  LastDue(s, from, t) \in from..mFrameCount(s)
<1> DEFINE S == {k \in from..mFrameCount(s) :
                   \A j \in (from + 1)..k : s.mFrames[j].mStep <= t}
<1>1. mFrameCount(s) \in Nat
  BY ScriptFacts
<1>2. S \in SUBSET (0..mFrameCount(s))
  BY <1>1
<1>3. from \in S
  BY <1>1
<1>4. LastOf(S) \in S
  BY <1>1, <1>2, <1>3, LastOfIn
<1>5. QED
  BY <1>4 DEF LastDue

\* The buttons of the last of some of a script's lines.
LEMMA ButtonsOfType ==
  ASSUME NEW s \in Scripts, NEW lines \in SUBSET (1..mFrameCount(s)),
         NEW default \in SUBSET Buttons
  PROVE  ButtonsOf(s, lines, default) \in SUBSET Buttons
<1>1. CASE lines = {}
  BY <1>1 DEF ButtonsOf
<1>2. CASE lines # {}
  <2>1. mFrameCount(s) \in Nat
    BY ScriptFacts
  <2>2. lines \in SUBSET (0..mFrameCount(s))
    BY <2>1
  <2>3. LastOf(lines) \in lines
    BY <1>2, <2>1, <2>2, LastOfIn
  <2>4. QED
    BY <1>2, <2>3, ScriptFacts DEF ButtonsOf
<1>3. QED
  BY <1>1, <1>2

LEMMA PadIsPad ==
  ASSUME NEW line \in Int, NEW buttons \in SUBSET Buttons,
         NEW prev \in SUBSET Buttons
  PROVE  Pad(line, buttons, prev) \in PadType
BY DEF Pad, PadType

LEMMA AppliedPadType ==
  ASSUME NEW s \in Scripts, NEW p \in Players,
         NEW lines \in SUBSET (1..mFrameCount(s)), NEW prev \in SUBSET Buttons
  PROVE  AppliedPad(s, p, lines, prev) \in PadType
<1>1. CASE lines = {}
  BY <1>1, PadIsPad DEF AppliedPad, NeutralPad
<1>2. CASE lines # {}
  <2> DEFINE i == LastOf(lines)
  <2>1. mFrameCount(s) \in Nat
    BY ScriptFacts
  <2>2. i \in 1..mFrameCount(s)
    <3>1. lines \in SUBSET (0..mFrameCount(s))
      BY <2>1
    <3>2. QED
      BY <1>2, <2>1, <3>1, LastOfIn
  <2>3. s.mFrames[i].mButtons \in SUBSET Buttons
    BY <2>2, ScriptFacts
  <2>4. ButtonsOf(s, {j \in lines : j < i}, prev) \in SUBSET Buttons
    BY ButtonsOfType
  <2>5. Pad(i, s.mFrames[i].mButtons,
            ButtonsOf(s, {j \in lines : j < i}, prev)) \in PadType
    BY <2>1, <2>2, <2>3, <2>4, PadIsPad
  <2>6. QED
    BY <1>2, <2>5 DEF AppliedPad
<1>3. QED
  BY <1>1, <1>2

LEMMA HardwarePadsType == HardwarePads \in [Players -> PadType]
<1>1. HardwarePad \in PadType
  BY DEF HardwarePad, PadType
<1>2. QED
  BY <1>1 DEF HardwarePads

-----------------------------------------------------------------------------
(* The invariant.  A step of a run indexes the script from mFrameIndex: the *)
(* type of mFrameIndex' needs mScript to be a script that long, which needs *)
(* PlaysNamedScript, which needs the types.                                 *)

CardTypes ==
  /\ content \in [Names -> Contents]
  /\ sd \in SUBSET Names
DirTypes ==
  /\ mEntries \in Seq(Names)
  /\ mEntryCount \in Int
BufTypes ==
  /\ currentScriptEntry \in Names \cup {NoName}
  /\ mScriptName \in Names \cup {NoName}
  /\ mScript \in Contents \cup {NoScript, NotAScript}
  /\ heapLeft \in 0..HeapBlocks
NerveTypes ==
  /\ nerve \in Nerves
  /\ step \in Nat
PlayTypes ==
  /\ mFrameIndex \in Nat
  /\ mPrevButtons \in [Players -> SUBSET Buttons]
  /\ pad \in [Players -> PadType]
  /\ teleported \in BOOLEAN
GameTypes ==
  /\ separatePlay \in BOOLEAN
  /\ stageRequested \in BOOLEAN
  /\ crashed \in BOOLEAN

LEMMA TypeParts ==
  TypeOK <=> /\ CardTypes /\ DirTypes /\ BufTypes
             /\ NerveTypes /\ PlayTypes /\ GameTypes
BY DEF TypeOK, CardTypes, DirTypes, BufTypes, NerveTypes, PlayTypes, GameTypes

\* A run that has taken its first step stands inside its script.
InsideScript ==
  nerve = "Update" /\ step > 0 => mFrameIndex <= mFrameCount(mScript)

IInv == TypeOK /\ PlaysNamedScript /\ InsideScript

\* Nothing but a run depends on the script.
LEMMA IdleIInv ==
  ASSUME TypeOK, nerve = "Wait"
  PROVE  IInv
BY DEF IInv, PlaysNamedScript, Running, InsideScript

-----------------------------------------------------------------------------
(* The directory and loading *)

LEMMA ListingsType ==
  ASSUME sd \in SUBSET Names, NEW l \in Listings
  PROVE  l \in Seq(Names) /\ Len(l) \in Nat
<1>1. Cardinality(sd) \in Nat
  BY NamesAssumption, FS_Subset, FS_CardinalityType
<1>2. l \in [1..Cardinality(sd) -> Names]
  BY DEF Listings
<1>3. l \in Seq(Names)
  BY <1>1, <1>2
<1>4. QED
  BY <1>3

LEMMA DirKept ==
  ASSUME CardTypes, DirTypes, ReadListing \/ KeepListing
  PROVE  DirTypes'
<1>1. CASE ReadListing
  BY <1>1, ListingsType DEF ReadListing, CardTypes, DirTypes
<1>2. CASE KeepListing
  BY <1>2 DEF KeepListing, dirVars, DirTypes
<1>3. QED
  BY <1>1, <1>2

\* A name that is found was listed, and only a file's name is listed.
LEMMA FoundIsName ==
  ASSUME DirTypes', NEW n, Found(n)
  PROVE  n \in Names
<1>1. PICK i \in 1..Len(mEntries') : n = mEntries'[i]
  BY DEF Found, Listed
<1>2. QED
  BY <1>1 DEF DirTypes

LEMMA AllocateType ==
  ASSUME heapLeft \in 0..HeapBlocks, Allocate
  PROVE  heapLeft' \in 0..HeapBlocks
BY HeapAssumption DEF Allocate

LEMMA LoadFailsTypes ==
  ASSUME CardTypes, BufTypes, DirTypes', NEW n \in Names \cup {NoName},
         LoadFails(n)
  PROVE  BufTypes'
<1>1. CASE FreeScript /\ UNCHANGED mScriptName
  BY <1>1 DEF LoadFails, FreeScript, BufTypes
<1>2. CASE Found(n) /\ (OpenFails(n) \/ AllocFails(n) \/ ReadFails(n) \/ WrongMagic(n))
  <2>1. n \in Names
    BY <1>2, FoundIsName
  <2>2. CASE OpenFails(n)
    BY <2>1, <2>2 DEF LoadFails, OpenFails, FreeScript, BufTypes
  <2>3. CASE AllocFails(n)
    BY <2>3 DEF LoadFails, AllocFails, BufTypes
  <2>4. CASE ReadFails(n) \/ WrongMagic(n)
    <3>1. heapLeft' \in 0..HeapBlocks
      BY <2>4, AllocateType DEF ReadFails, WrongMagic, BufTypes
    <3>2. QED
      BY <2>4, <3>1 DEF LoadFails, ReadFails, WrongMagic, BufTypes
  <2>5. QED
    BY <1>2, <2>2, <2>3, <2>4
<1>3. QED
  BY <1>1, <1>2 DEF LoadFails

LEMMA LoadSucceedsTypes ==
  ASSUME CardTypes, BufTypes, DirTypes', NEW n \in Names \cup {NoName},
         LoadSucceeds(n)
  PROVE  /\ BufTypes'
         /\ mScript' \in Scripts
         /\ mScriptName' \in Names
         /\ mScript' = content[mScriptName']
<1>1. n \in Names
  BY FoundIsName DEF LoadSucceeds
<1>2. content[n] \in Contents /\ content[n] # NotAScript
  BY <1>1 DEF CardTypes, LoadSucceeds, Loads
<1>3. content[n] \in Scripts
  BY <1>2, ContentsAssumption
<1>4. heapLeft' \in 0..HeapBlocks
  BY AllocateType DEF LoadSucceeds, Loads, BufTypes
<1>5. QED
  BY <1>1, <1>2, <1>3, <1>4 DEF LoadSucceeds, Loads, BufTypes

-----------------------------------------------------------------------------
(* The calls of the menu *)

LEMMA NewNerveTypes ==
  ASSUME NEW n \in Nerves, SetNerve(n)
  PROVE  NerveTypes'
BY DEF SetNerve, NerveTypes

\* A run that is about to start has its script.
LEMMA StartingIInv ==
  ASSUME TypeOK', step' = 0, mScript' \in Scripts, mScriptName' \in Names,
         mScript' = content'[mScriptName']
  PROVE  IInv'
BY DEF IInv, PlaysNamedScript, InsideScript

LEMMA CrashIInv ==
  ASSUME IInv, CardTypes', DirTypes', NEW n \in Names \cup {NoName},
         SearchCrashes(n), UNCHANGED playVars
  PROVE  IInv'
<1>1. BufTypes'
  BY TypeParts DEF SearchCrashes, IInv, BufTypes
<1>2. NerveTypes' /\ GameTypes'
  BY TypeParts, NewNerveTypes
  DEF SearchCrashes, IInv, GameTypes, gameVars, Nerves
<1>3. PlayTypes'
  BY TypeParts DEF IInv, PlayTypes, playVars
<1>4. TypeOK'
  BY <1>1, <1>2, <1>3 DEF TypeOK, CardTypes, DirTypes, BufTypes, NerveTypes,
                          PlayTypes, GameTypes
<1>5. nerve' = "Wait"
  BY DEF SearchCrashes, SetNerve
<1>6. QED
  BY <1>4, <1>5 DEF IInv, PlaysNamedScript, Running, InsideScript

LEMMA TryLoadIInv ==
  ASSUME IInv, NEW n \in Names \cup {NoName}, tryLoadScript(n)
  PROVE  IInv'
<1>1. /\ CardTypes /\ DirTypes /\ BufTypes
      /\ NerveTypes /\ PlayTypes /\ GameTypes
  BY TypeParts DEF IInv
<1>2. DirTypes'
  BY <1>1, DirKept DEF tryLoadScript
<1>3. CardTypes'
  BY <1>1 DEF tryLoadScript, CardTypes, cardVars
<1>4. PlayTypes' /\ UNCHANGED playVars
  BY <1>1 DEF tryLoadScript, PlayTypes, playVars
<1>5. CASE SearchCrashes(n)
  BY <1>2, <1>3, <1>4, <1>5, CrashIInv
<1>6. CASE /\ LoadFails(n) \/ LoadSucceeds(n)
           /\ SetNerve("Wait")
           /\ UNCHANGED <<gameVars, crashed>>
  <2>1. BufTypes'
    BY <1>1, <1>2, <1>6, LoadFailsTypes, LoadSucceedsTypes
  <2>2. NerveTypes' /\ GameTypes'
    BY <1>1, <1>6, NewNerveTypes DEF Nerves, GameTypes, gameVars
  <2>3. TypeOK'
    BY <1>2, <1>3, <1>4, <2>1, <2>2
    DEF TypeOK, CardTypes, DirTypes, BufTypes, NerveTypes, PlayTypes, GameTypes
  <2>4. QED
    BY <1>6, <2>3 DEF SetNerve, IInv, PlaysNamedScript, Running, InsideScript
<1>7. QED
  BY <1>5, <1>6 DEF tryLoadScript

LEMMA StartScriptTypes ==
  ASSUME GameTypes, NEW s \in Scripts, startScript(s), UNCHANGED crashed
  PROVE  NerveTypes' /\ GameTypes' /\ step' = 0
<1>1. s.isTwoPlayer \in BOOLEAN /\ s.changesStage \in BOOLEAN
  BY ScriptFacts
<1>2. CASE ConnectFails(s)
  BY <1>2, NewNerveTypes
  DEF ConnectFails, SetNerve, GameTypes, gameVars, Nerves
<1>3. CASE Starts(s)
  <2>1. GameTypes'
    BY <1>1, <1>3 DEF Starts, GameTypes
  <2>2. NerveTypes' /\ step' = 0
    BY <1>3, NewNerveTypes DEF Starts, SetNerve, Nerves, NerveTypes
  <2>3. QED
    BY <2>1, <2>2
<1>4. QED
  BY <1>2, <1>3 DEF startScript

LEMMA TryStartIInv ==
  ASSUME IInv, tryStartScript
  PROVE  IInv'
<1> DEFINE n == currentScriptEntry
<1>1. /\ CardTypes /\ DirTypes /\ BufTypes
      /\ NerveTypes /\ PlayTypes /\ GameTypes
  BY TypeParts DEF IInv
<1>2. n \in Names \cup {NoName}
  BY <1>1 DEF BufTypes
<1>3. DirTypes'
  BY <1>1, DirKept DEF tryStartScript
<1>4. CardTypes' /\ UNCHANGED content
  BY <1>1 DEF tryStartScript, CardTypes, cardVars
<1>5. PlayTypes' /\ UNCHANGED playVars
  BY <1>1 DEF tryStartScript, PlayTypes, playVars
<1>6. CASE SearchCrashes(n)
  BY <1>2, <1>3, <1>4, <1>5, <1>6, CrashIInv
<1>7. CASE LoadFails(n) /\ SetNerve("Wait") /\ UNCHANGED <<gameVars, crashed>>
  <2>1. BufTypes'
    BY <1>1, <1>2, <1>3, <1>7, LoadFailsTypes
  <2>2. NerveTypes' /\ GameTypes'
    BY <1>1, <1>7, NewNerveTypes DEF Nerves, GameTypes, gameVars
  <2>3. TypeOK'
    BY <1>3, <1>4, <1>5, <2>1, <2>2
    DEF TypeOK, CardTypes, DirTypes, BufTypes, NerveTypes, PlayTypes, GameTypes
  <2>4. QED
    BY <1>7, <2>3 DEF SetNerve, IInv, PlaysNamedScript, Running, InsideScript
<1>8. CASE LoadSucceeds(n) /\ startScript(mScript') /\ UNCHANGED crashed
  <2>1. /\ BufTypes'
        /\ mScript' \in Scripts
        /\ mScriptName' \in Names
        /\ mScript' = content[mScriptName']
    BY <1>1, <1>2, <1>3, <1>8, LoadSucceedsTypes
  <2>2. NerveTypes' /\ GameTypes' /\ step' = 0
    BY <1>1, <1>8, <2>1, StartScriptTypes
  <2>3. TypeOK'
    BY <1>3, <1>4, <1>5, <2>1, <2>2
    DEF TypeOK, CardTypes, DirTypes, BufTypes, NerveTypes, PlayTypes, GameTypes
  <2>4. mScript' = content'[mScriptName']
    BY <1>4, <2>1
  <2>5. QED
    BY <2>1, <2>2, <2>3, <2>4, StartingIInv
<1>9. QED
  BY <1>6, <1>7, <1>8 DEF tryStartScript

LEMMA MenuCallIInv ==
  ASSUME IInv, MenuCall
  PROVE  IInv'
<1>1. /\ CardTypes /\ DirTypes /\ BufTypes
      /\ NerveTypes /\ PlayTypes /\ GameTypes
  BY TypeParts DEF IInv
<1>2. CASE tryStartScript
  BY <1>2, TryStartIInv
<1>3. CASE endScript
  BY <1>1, <1>3
  DEF endScript, SetNerve, FreeScript, cardVars, dirVars, playVars, gameVars,
      CardTypes, DirTypes, BufTypes, NerveTypes, PlayTypes, GameTypes, Nerves,
      IInv, TypeOK, PlaysNamedScript, Running, InsideScript
<1>4. CASE updateDir
  <2>1. DirTypes'
    BY <1>1, <1>4, DirKept DEF updateDir
  <2>2. QED
    BY <1>1, <1>4, <2>1
    DEF updateDir, cardVars, bufVars, nerveVars, playVars, gameVars,
        CardTypes, DirTypes, BufTypes, NerveTypes, PlayTypes, GameTypes,
        IInv, TypeOK, PlaysNamedScript, Running, InsideScript
<1>5. ASSUME NEW i \in 0..(mEntryCount - 1), SelectEntry(i)
      PROVE  IInv'
  <2>1. i \in Nat /\ i + 1 \in 1..Len(mEntries)
    BY <1>1, <1>5 DEF SelectEntry, DirTypes
  <2>2. mEntries[i + 1] \in Names
    BY <1>1, <2>1 DEF DirTypes
  <2>3. QED
    BY <1>5, <2>2, TryLoadIInv DEF SelectEntry
<1>6. ASSUME NEW i \in 0..(mEntryCount - 1), SelectMissingEntry(i)
      PROVE  IInv'
  BY <1>1, <1>6
  DEF SelectMissingEntry, cardVars, dirVars, bufVars, nerveVars, playVars,
      gameVars, CardTypes, DirTypes, BufTypes, NerveTypes, PlayTypes, GameTypes,
      IInv, TypeOK, PlaysNamedScript, Running, InsideScript
<1>7. QED
  BY <1>2, <1>3, <1>4, <1>5, <1>6 DEF MenuCall

-----------------------------------------------------------------------------
(* A movement of the scene *)

LEMMA LeavePadsTypes ==
  ASSUME PlayTypes, LeavePads
  PROVE  PlayTypes'
BY HardwarePadsType DEF LeavePads, PlayTypes

LEMMA exeUpdateTypes ==
  ASSUME PlayTypes, NerveTypes, nerve = "Update", mScript \in Scripts,
         InsideScript, NEW playerExists \in BOOLEAN, exeUpdate(playerExists)
  PROVE  PlayTypes' /\ NerveTypes' /\ InsideScript'
<1> DEFINE to       == LastDue(mScript, FirstIndex, step)
           lines(p) == AppliedLines(mScript, p, FirstIndex, to)
<1>1. mFrameCount(mScript) \in Nat
  BY ScriptFacts
<1>2. FirstIndex \in 0..mFrameCount(mScript)
  BY <1>1 DEF FirstIndex, PlayTypes, NerveTypes, InsideScript
<1>3. to \in FirstIndex..mFrameCount(mScript)
  BY <1>2, LastDueIn
<1>4. to \in 0..mFrameCount(mScript)
  BY <1>1, <1>2, <1>3
<1>5. \A p \in Players : lines(p) \in SUBSET (1..mFrameCount(mScript))
  BY <1>1, <1>2, <1>4 DEF AppliedLines
<1>6. \A p \in Players : FirstButtons[p] \in SUBSET Buttons
  BY DEF FirstButtons, PlayTypes
<1>7. mFrameIndex' = to
  BY DEF exeUpdate
<1>8. mPrevButtons' \in [Players -> SUBSET Buttons]
  <2>1. \A p \in Players : ButtonsOf(mScript, lines(p), {}) \in SUBSET Buttons
    BY <1>5, ButtonsOfType
  <2>2. mPrevButtons' = [p \in Players |-> ButtonsOf(mScript, lines(p), {})]
    BY DEF exeUpdate
  <2>3. QED
    BY <2>1, <2>2
<1>9. pad' \in [Players -> PadType]
  <2>1. \A p \in Players :
          AppliedPad(mScript, p, lines(p), FirstButtons[p]) \in PadType
    BY <1>5, <1>6, AppliedPadType
  <2>2. pad' = [p \in Players |->
                  AppliedPad(mScript, p, lines(p), FirstButtons[p])]
    BY DEF exeUpdate
  <2>3. QED
    BY <2>1, <2>2
<1>10. teleported' \in BOOLEAN
  BY ScriptFacts DEF exeUpdate, Teleports
<1>11. PlayTypes'
  BY <1>4, <1>7, <1>8, <1>9, <1>10 DEF PlayTypes
<1>12. NerveTypes'
  BY DEF exeUpdate, SetNerve, NerveTypes, Nerves
<1>13. InsideScript'
  BY <1>4, <1>7 DEF exeUpdate, InsideScript, FreeScript
<1>14. QED
  BY <1>11, <1>12, <1>13

LEMMA UpdateNerveIInv ==
  ASSUME IInv, UpdateNerve
  PROVE  IInv'
<1>1. /\ CardTypes /\ DirTypes /\ BufTypes
      /\ NerveTypes /\ PlayTypes /\ GameTypes
  BY TypeParts DEF IInv
<1>2. /\ UNCHANGED <<content, sd, mEntries, mEntryCount, currentScriptEntry>>
      /\ UNCHANGED <<mScriptName, mScript, heapLeft>>
      /\ UNCHANGED <<separatePlay, stageRequested, crashed>>
  BY DEF UpdateNerve, exeWait, exeWaitUpdate, exeUpdate, FreeScript, cardVars,
         dirVars, gameVars
<1>3. CardTypes' /\ DirTypes' /\ BufTypes' /\ GameTypes'
  BY <1>1, <1>2 DEF CardTypes, DirTypes, BufTypes, GameTypes
<1>4. Running' => Running
  BY DEF UpdateNerve, exeWait, exeWaitUpdate, exeUpdate, SetNerve, Running,
         nerveVars
<1>5. PlaysNamedScript'
  BY <1>2, <1>4 DEF IInv, PlaysNamedScript
<1>6. CASE nerve = "Wait" /\ exeWait
  <2>1. PlayTypes' /\ NerveTypes'
    BY <1>1, <1>6, LeavePadsTypes DEF exeWait, nerveVars, NerveTypes
  <2>2. InsideScript'
    BY <1>6 DEF exeWait, nerveVars, InsideScript
  <2>3. QED
    BY <1>3, <1>5, <2>1, <2>2
    DEF IInv, TypeOK, CardTypes, DirTypes, BufTypes, NerveTypes, PlayTypes,
        GameTypes
<1>7. CASE nerve = "WaitUpdate" /\ exeWaitUpdate
  <2>1. PlayTypes' /\ NerveTypes'
    BY <1>1, <1>7, LeavePadsTypes, NewNerveTypes DEF exeWaitUpdate, Nerves
  <2>2. InsideScript'
    BY <1>7 DEF exeWaitUpdate, SetNerve, InsideScript
  <2>3. QED
    BY <1>3, <1>5, <2>1, <2>2
    DEF IInv, TypeOK, CardTypes, DirTypes, BufTypes, NerveTypes, PlayTypes,
        GameTypes
<1>8. ASSUME nerve = "Update", NEW playerExists \in BOOLEAN,
             exeUpdate(playerExists)
      PROVE  IInv'
  <2>1. mScript \in Scripts /\ InsideScript
    BY <1>8 DEF IInv, PlaysNamedScript, Running
  <2>2. PlayTypes' /\ NerveTypes' /\ InsideScript'
    BY <1>1, <1>8, <2>1, exeUpdateTypes
  <2>3. QED
    BY <1>3, <1>5, <2>2
    DEF IInv, TypeOK, CardTypes, DirTypes, BufTypes, NerveTypes, PlayTypes,
        GameTypes
<1>9. QED
  BY <1>6, <1>7, <1>8 DEF UpdateNerve

-----------------------------------------------------------------------------
(* The environment, and the theorems *)

LEMMA InitIInv == Init => IInv
<1> SUFFICES ASSUME Init PROVE IInv
  OBVIOUS
<1>1. CardTypes /\ DirTypes
  BY GarbageAssumption DEF Init, CardTypes, DirTypes
<1>2. BufTypes
  BY HeapAssumption DEF Init, BufTypes
<1>3. NerveTypes /\ GameTypes
  BY DEF Init, NerveTypes, GameTypes, Nerves
<1>4. PlayTypes
  BY HardwarePadsType DEF Init, PlayTypes
<1>5. TypeOK
  BY <1>1, <1>2, <1>3, <1>4, TypeParts
<1>6. QED
  BY <1>5, IdleIInv DEF Init

LEMMA RestartIInv ==
  ASSUME IInv, Restart
  PROVE  IInv'
<1>1. CardTypes' /\ DirTypes'
  BY TypeParts, GarbageAssumption
  DEF IInv, Restart, cardVars, CardTypes, DirTypes
<1>2. BufTypes'
  BY HeapAssumption DEF Restart, BufTypes
<1>3. NerveTypes' /\ GameTypes'
  BY NewNerveTypes DEF Restart, GameTypes, Nerves
<1>4. PlayTypes'
  BY HardwarePadsType DEF Restart, PlayTypes
<1>5. TypeOK'
  BY <1>1, <1>2, <1>3, <1>4
  DEF TypeOK, CardTypes, DirTypes, BufTypes, NerveTypes, PlayTypes, GameTypes
<1>6. QED
  BY <1>5
  DEF Restart, SetNerve, IInv, PlaysNamedScript, Running, InsideScript

LEMMA NextIInv == IInv /\ [Next]_vars => IInv'
<1> SUFFICES ASSUME IInv, [Next]_vars PROVE IInv'
  OBVIOUS
<1> USE DEF IInv, PlaysNamedScript, Running, InsideScript, TypeOK, cardVars,
            dirVars, bufVars, nerveVars, playVars, gameVars
<1>1. CASE MenuCall
  BY <1>1, MenuCallIInv
<1>2. CASE Movement
  BY <1>2, UpdateNerveIInv DEF Movement
<1>3. CASE ChangeCard
  BY <1>3 DEF ChangeCard
<1>4. CASE ChangeStage
  BY <1>4 DEF ChangeStage
<1>5. CASE SwitchMode
  BY <1>5 DEF SwitchMode
<1>6. CASE Restart
  BY <1>6, RestartIInv
<1>7. CASE UNCHANGED vars
  BY <1>7 DEF vars
<1>8. QED
  BY <1>1, <1>2, <1>3, <1>4, <1>5, <1>6, <1>7 DEF Next

LEMMA Invariance == Spec => []IInv
BY InitIInv, NextIInv, PTL DEF Spec

\* Every variable of the player keeps its type; for mFrameIndex and the
\* controllers this says that exeUpdate never reads past the script.
THEOREM TASTypes == Spec => []TypeOK
<1>1. IInv => TypeOK
  BY DEF IInv
<1>2. QED
  BY <1>1, Invariance, PTL

\* exeUpdate never runs on a null, failed or stale buffer, whatever fails and
\* whenever the menu loads, starts or ends a script.
THEOREM TASPlaysNamedScript == Spec => []PlaysNamedScript
<1>1. IInv => PlaysNamedScript
  BY DEF IInv
<1>2. QED
  BY <1>1, Invariance, PTL

\* Only startScript starts a run, and it has switched the mode before.
LEMMA NextStartsInMode ==
  ASSUME Next, Running', ~Running
  PROVE  separatePlay' = mScript'.isTwoPlayer
<1>1. CASE tryStartScript
  BY <1>1 DEF tryStartScript, startScript, ConnectFails, Starts, SetNerve,
              SearchCrashes, Running
<1>2. CASE Next /\ ~tryStartScript
  <2>1. nerve' = "Wait" \/ nerve' = nerve
    BY <1>2 DEF Next, MenuCall, endScript, updateDir, SelectEntry,
         SelectMissingEntry, tryLoadScript, SearchCrashes, Movement,
         UpdateNerve, exeWait, exeWaitUpdate, exeUpdate, ChangeCard,
         ChangeStage, SwitchMode, Restart, SetNerve, nerveVars, Running
  <2>2. QED
    BY <2>1 DEF Running
<1>3. QED
  BY <1>1, <1>2

\* Whatever the menu does, a run begins in the mode its script is written for.
THEOREM TASStartsInScriptMode == Spec => StartsInScriptMode
<1>1. [Next]_vars
        => [Running' /\ ~Running => separatePlay' = mScript'.isTwoPlayer]_vars
  BY NextStartsInMode
<1>2. QED
  BY <1>1, PTL DEF Spec, StartsInScriptMode

-----------------------------------------------------------------------------
(* The promise of Playback *)

Due(s, i, t)   == Promise!DueBy(s, i, t)
At(s, p, t)    == Promise!LinesAt(s, p, t)

\* A run that has taken t steps has applied the lines due by step t - 1 and
\* no other, and remembers the buttons each player held in that step.
RunInv ==
  nerve = "Update" /\ step > 0 =>
    /\ mFrameIndex < mFrameCount(mScript)
    /\ Due(mScript, mFrameIndex, step - 1)
    /\ ~Due(mScript, mFrameIndex + 1, step - 1)
    /\ \A p \in Players :
         mPrevButtons[p] = ButtonsOf(mScript, At(mScript, p, step - 1), {})

-----------------------------------------------------------------------------
(* Playback's data is TasScript's *)

LEMMA SameData ==
  /\ Promise!Players = Players
  /\ \A s : Promise!mFrameCount(s) = mFrameCount(s)
  /\ \A S : Promise!LastOf(S) = LastOf(S)
  /\ Promise!ScriptType = ScriptType
BY DEF Promise!Players, Players, Promise!mFrameCount, mFrameCount,
       Promise!LastOf, LastOf, Promise!ScriptType, ScriptType,
       Promise!Lines, Lines

LEMMA StepsAreNat ==
  ASSUME NEW s \in Scripts
  PROVE  \A i \in 1..mFrameCount(s) : s.mFrames[i].mStep \in Nat
<1>1. s.mFrames \in Seq(Lines)
  BY ScriptsAssumption DEF ScriptType
<1>2. \A i \in 1..mFrameCount(s) : s.mFrames[i] \in Lines
  BY <1>1 DEF mFrameCount
<1>3. QED
  BY <1>2 DEF Lines

-----------------------------------------------------------------------------
(* Lines that are due *)

LEMMA DueIs ==
  ASSUME NEW s, NEW i, NEW t
  PROVE  Due(s, i, t) <=> \A j \in 1..i : s.mFrames[j].mStep <= t
BY DEF Due, Promise!DueBy

\* An earlier line is due when a later one is, and stays due.
LEMMA DueBefore ==
  ASSUME NEW s \in Scripts, NEW i \in 0..mFrameCount(s), NEW k \in 0..i,
         NEW t \in Int, NEW u \in Int, t <= u, Due(s, i, t)
  PROVE  Due(s, k, u)
<1>1. mFrameCount(s) \in Nat
  BY ScriptFacts
<1>2. \A j \in 1..k : j \in 1..i /\ j \in 1..mFrameCount(s)
  BY <1>1
<1>3. \A j \in 1..k : s.mFrames[j].mStep <= t /\ s.mFrames[j].mStep \in Nat
  BY <1>2, DueIs, StepsAreNat
<1>4. \A j \in 1..k : s.mFrames[j].mStep <= u
  BY <1>3
<1>5. QED
  BY <1>4, DueIs

\* Where the loop of exeUpdate stops: before the first line that is not due.
LEMMA LoopStops ==
  ASSUME NEW s \in Scripts, NEW from \in 0..mFrameCount(s), NEW t \in Nat,
         Due(s, from, t)
  PROVE  LET to == LastDue(s, from, t)
         IN  /\ to \in from..mFrameCount(s)
             /\ Due(s, to, t)
             /\ to < mFrameCount(s) => ~Due(s, to + 1, t)
<1> DEFINE S  == {k \in from..mFrameCount(s) :
                    \A j \in (from + 1)..k : s.mFrames[j].mStep <= t}
           to == LastDue(s, from, t)
<1>1. mFrameCount(s) \in Nat
  BY ScriptFacts
<1>2. S \in SUBSET (0..mFrameCount(s)) /\ from \in S
  BY <1>1
<1>3. to = LastOf(S)
  BY DEF LastDue
<1>4. to \in S /\ \A k \in S : k <= to
  BY <1>1, <1>2, <1>3, LastOfIn
<1>5. to \in from..mFrameCount(s)
  BY <1>4
<1>6. \A j \in (from + 1)..to : s.mFrames[j].mStep <= t
  BY <1>4
<1>7. Due(s, to, t)
  <2>1. \A j \in 1..from : s.mFrames[j].mStep <= t
    BY DueIs
  <2>2. \A j \in 1..to : j \in 1..from \/ j \in (from + 1)..to
    BY <1>1, <1>5
  <2>3. \A j \in 1..to : s.mFrames[j].mStep <= t
    BY <1>6, <2>1, <2>2
  <2>4. QED
    BY <2>3, DueIs
<1>8. ASSUME to < mFrameCount(s), Due(s, to + 1, t)
      PROVE  FALSE
  <2>1. \A j \in 1..(to + 1) : s.mFrames[j].mStep <= t
    BY <1>8, DueIs
  <2>2. \A j \in (from + 1)..(to + 1) : j \in 1..(to + 1)
    BY <1>1, <1>5
  <2>3. to + 1 \in from..mFrameCount(s)
    BY <1>1, <1>5, <1>8
  <2>4. to + 1 \in S
    BY <2>1, <2>2, <2>3
  <2>5. to + 1 <= to
    BY <1>4, <2>4
  <2>6. to \in Int
    BY <1>1, <1>5
  <2>7. QED
    BY <2>5, <2>6
<1>9. QED
  BY <1>5, <1>7, <1>8

-----------------------------------------------------------------------------
(* The lines a step applies *)

\* Where a run stands at the start of step t.
Stands(s, from, t) ==
  /\ from \in 0..mFrameCount(s)
  /\ t = 0 => from = 0
  /\ t > 0 => /\ from < mFrameCount(s)
              /\ Due(s, from, t - 1)
              /\ ~Due(s, from + 1, t - 1)

LEMMA AtIs ==
  ASSUME NEW s, NEW p, NEW t
  PROVE  At(s, p, t) =
           {i \in 1..mFrameCount(s) :
              /\ Due(s, i, t)
              /\ t > 0 => ~Due(s, i, t - 1)
              /\ s.mFrames[i].secondPlayer = p}
BY SameData DEF At, Promise!LinesAt, Promise!PlayedAt, Due

LEMMA StandsDue ==
  ASSUME NEW s \in Scripts, NEW from, NEW t \in Nat, Stands(s, from, t)
  PROVE  Due(s, from, t)
<1>1. CASE t = 0
  BY <1>1, DueIs DEF Stands
<1>2. CASE t > 0
  <2>1. mFrameCount(s) \in Nat /\ from \in 0..from
    BY ScriptFacts DEF Stands
  <2>2. t - 1 \in Int /\ t - 1 <= t
    OBVIOUS
  <2>3. QED
    BY <1>2, <2>1, <2>2, DueBefore DEF Stands
<1>3. QED
  BY <1>1, <1>2

\* The loop applies the lines that become due in this step.
LEMMA AppliedIs ==
  ASSUME NEW s \in Scripts, NEW from, NEW t \in Nat, Stands(s, from, t),
         NEW p
  PROVE  AppliedLines(s, p, from, LastDue(s, from, t)) = At(s, p, t)
<1> DEFINE N  == mFrameCount(s)
           to == LastDue(s, from, t)
<1>1. N \in Nat /\ from \in 0..N
  BY ScriptFacts DEF Stands
<1>2. to \in from..N /\ Due(s, to, t) /\ (to < N => ~Due(s, to + 1, t))
  BY <1>1, StandsDue, LoopStops
<1> HIDE DEF N, to
<1>3. \A i \in (from + 1)..to :
        i \in 1..N /\ Due(s, i, t) /\ (t > 0 => ~Due(s, i, t - 1))
  <2> SUFFICES ASSUME NEW i \in (from + 1)..to
               PROVE  i \in 1..N /\ Due(s, i, t) /\ (t > 0 => ~Due(s, i, t - 1))
    OBVIOUS
  <2>1. i \in 1..N /\ i \in 0..to /\ to \in 0..N
    BY <1>1, <1>2
  <2>2. Due(s, i, t)
    BY <1>2, <2>1, DueBefore DEF N
  <2>3. ASSUME t > 0, Due(s, i, t - 1)
        PROVE  FALSE
    <3>1. from + 1 \in 0..i /\ i \in 0..N /\ t - 1 \in Int /\ t - 1 <= t - 1
      BY <1>1, <2>1
    <3>2. Due(s, from + 1, t - 1)
      BY <2>3, <3>1, DueBefore DEF N
    <3>3. QED
      BY <2>3, <3>2 DEF Stands
  <2>4. QED
    BY <2>1, <2>2, <2>3
<1>4. ASSUME NEW i \in 1..N, Due(s, i, t), t > 0 => ~Due(s, i, t - 1)
      PROVE  i \in (from + 1)..to
  <2>1. i <= to
    <3>1. SUFFICES ASSUME to < i PROVE FALSE
      BY <1>1, <1>2
    <3>2. to < N /\ to + 1 \in 0..i /\ i \in 0..N
      BY <1>1, <1>2, <3>1
    <3>3. Due(s, to + 1, t)
      BY <1>4, <3>2, DueBefore DEF N
    <3>4. QED
      BY <1>2, <3>2, <3>3
  <2>2. from < i
    <3>1. SUFFICES ASSUME i <= from PROVE FALSE
      BY <1>1
    <3>2. t > 0
      BY <1>1, <3>1 DEF Stands
    <3>3. i \in 0..from /\ t - 1 \in Int /\ t - 1 <= t - 1
      BY <1>1, <3>1
    <3>4. Due(s, i, t - 1)
      BY <1>1, <3>2, <3>3, DueBefore DEF Stands, N
    <3>5. QED
      BY <1>4, <3>2, <3>4
  <2>3. QED
    BY <1>1, <1>2, <2>1, <2>2
<1>5. At(s, p, t) = {i \in 1..N : /\ Due(s, i, t)
                                  /\ t > 0 => ~Due(s, i, t - 1)
                                  /\ s.mFrames[i].secondPlayer = p}
  BY AtIs DEF N
<1>6. AppliedLines(s, p, from, to)
        = {i \in (from + 1)..to : s.mFrames[i].secondPlayer = p}
  BY DEF AppliedLines
<1>7. QED
  BY <1>3, <1>4, <1>5, <1>6 DEF to

\* The lines of the step before are behind where the run stands, those of
\* this step ahead of it.
LEMMA LinesAround ==
  ASSUME NEW s \in Scripts, NEW from, NEW t \in Nat, Stands(s, from, t),
         NEW p
  PROVE  /\ \A i \in At(s, p, t - 1) : i <= from
         /\ \A i \in At(s, p, t) : from < i
<1> DEFINE N == mFrameCount(s)
<1>1. N \in Nat /\ from \in 0..N
  BY ScriptFacts DEF Stands
<1>2. ASSUME NEW i \in At(s, p, t - 1)
      PROVE  i <= from
  <2>1. i \in 1..N /\ Due(s, i, t - 1)
    BY AtIs
  <2>2. CASE t = 0
    <3>1. s.mFrames[i].mStep \in Nat
      BY <2>1, StepsAreNat
    <3>2. i \in 1..i
      BY <2>1
    <3>3. s.mFrames[i].mStep <= t - 1
      BY <2>1, <3>2, DueIs
    <3>4. QED
      BY <2>2, <3>1, <3>3
  <2>3. CASE t > 0
    <3>1. SUFFICES ASSUME from < i PROVE FALSE
      BY <1>1, <2>1
    <3>2. from + 1 \in 0..i /\ i \in 0..N /\ t - 1 \in Int /\ t - 1 <= t - 1
      BY <1>1, <2>1, <3>1
    <3>3. Due(s, from + 1, t - 1)
      BY <2>1, <3>2, DueBefore
    <3>4. QED
      BY <2>3, <3>3 DEF Stands
  <2>4. QED
    BY <2>2, <2>3
<1>3. \A i \in At(s, p, t) : from < i
  <2>1. At(s, p, t) = AppliedLines(s, p, from, LastDue(s, from, t))
    BY AppliedIs
  <2>2. LastDue(s, from, t) \in from..N
    BY <1>1, LastDueIn
  <2>3. QED
    BY <1>1, <2>1, <2>2 DEF AppliedLines
<1>4. QED
  BY <1>2, <1>3

-----------------------------------------------------------------------------
(* The controllers *)

\* What mPrevButtons holds of player p at the start of step t.
Held(s, p, t) == ButtonsOf(s, At(s, p, t - 1), {})

LEMMA AtIsLines ==
  ASSUME NEW s \in Scripts, NEW p, NEW t
  PROVE  At(s, p, t) \in SUBSET (0..mFrameCount(s))
BY AtIs, ScriptFacts

\* A line's buttons are compared with those of the line Playback names.
LEMMA ComparesWithLineBefore ==
  ASSUME NEW s \in Scripts, NEW from, NEW t \in Nat, Stands(s, from, t),
         NEW p, NEW i \in At(s, p, t)
  PROVE  ButtonsOf(s, {j \in At(s, p, t) : j < i}, Held(s, p, t))
           = Promise!HeldBefore(s, p, i, t)
<1> DEFINE N      == mFrameCount(s)
           now    == At(s, p, t)
           last   == At(s, p, t - 1)
           mine   == {j \in now : j < i}
           before == Promise!LinesJustBefore(s, p, i, t)
<1>1. N \in Nat /\ from \in 0..N
  BY ScriptFacts DEF Stands
<1>2. now \in SUBSET (0..N) /\ last \in SUBSET (0..N)
  BY AtIsLines
<1>3. (\A j \in last : j <= from) /\ (\A j \in now : from < j)
  BY LinesAround
<1>4. before = {j \in now \cup last : j < i}
  BY DEF Promise!LinesJustBefore, At
<1>5. Promise!HeldBefore(s, p, i, t)
        = IF before = {} THEN {} ELSE s.mFrames[LastOf(before)].mButtons
  BY SameData DEF Promise!HeldBefore
<1> HIDE DEF N, now, last, before
<1>6. mine \in SUBSET (0..N) /\ before \in SUBSET (0..N)
  BY <1>2, <1>4
<1>7. from < i /\ i \in Int
  BY <1>2, <1>3 DEF now
<1>8. last \in SUBSET before
  <2>1. ASSUME NEW j \in last
        PROVE  j < i
    <3>1. j \in Int /\ j <= from /\ from \in Int
      BY <1>1, <1>2, <1>3
    <3>2. QED
      BY <1>7, <3>1
  <2>2. QED
    BY <1>4, <2>1
<1>9. CASE mine # {}
  <2>1. LastOf(mine) \in mine /\ \A j \in mine : j <= LastOf(mine)
    BY <1>1, <1>6, <1>9, LastOfIn
  <2>2. LastOf(mine) \in before
    BY <1>4, <2>1
  <2>3. before # {}
    BY <2>2
  <2>4. LastOf(before) \in before /\ \A j \in before : j <= LastOf(before)
    BY <1>1, <1>6, <2>3, LastOfIn
  <2>5. \A j \in before : j <= LastOf(mine)
    <3>1. ASSUME NEW j \in before
          PROVE  j <= LastOf(mine)
      <4>1. CASE j \in now
        BY <1>4, <2>1, <4>1
      <4>2. CASE j \in last
        <5>1. j <= from /\ j \in Int /\ from \in Int
          BY <1>1, <1>2, <1>3, <4>2
        <5>2. from < LastOf(mine) /\ LastOf(mine) \in Int
          BY <1>3, <1>6, <2>1
        <5>3. QED
          BY <5>1, <5>2
      <4>3. QED
        BY <1>4, <4>1, <4>2
    <3>2. QED
      BY <3>1
  <2>6. LastOf(before) = LastOf(mine)
    <3>1. LastOf(before) \in Int /\ LastOf(mine) \in Int
      <4>1. LastOf(before) \in 0..N
        BY <1>6, <2>4
      <4>2. LastOf(mine) \in 0..N
        BY <1>6, <2>1
      <4>3. QED
        BY <1>1, <4>1, <4>2
    <3>2. LastOf(before) <= LastOf(mine) /\ LastOf(mine) <= LastOf(before)
      BY <2>2, <2>4, <2>5
    <3>3. QED
      BY <3>1, <3>2
  <2>7. QED
    BY <1>5, <1>9, <2>3, <2>6 DEF ButtonsOf, now
<1>10. CASE mine = {}
  <2>1. before = last
    BY <1>4, <1>8, <1>10
  <2>2. ButtonsOf(s, mine, Held(s, p, t)) = ButtonsOf(s, last, {})
    BY <1>10 DEF ButtonsOf, Held, last
  <2>3. QED
    BY <1>5, <2>1, <2>2 DEF ButtonsOf, now
<1>11. QED
  BY <1>9, <1>10

\* A controller as Playback sees it: what counts as released is left out.
Shown(c) == [line |-> c.line, hold |-> c.hold, trig |-> c.trig]

LEMMA PadAsExpected ==
  ASSUME NEW s \in Scripts, NEW from, NEW t \in Nat, Stands(s, from, t),
         NEW p
  PROVE  Shown(AppliedPad(s, p, At(s, p, t), Held(s, p, t)))
           = Promise!Expected(s, p, t)
<1> DEFINE lines == At(s, p, t)
           i     == LastOf(lines)
           hold  == s.mFrames[i].mButtons
<1>1. Promise!Expected(s, p, t)
        = IF lines = {} THEN Promise!Neutral
          ELSE Promise!Shows(i, hold, hold \ Promise!HeldBefore(s, p, i, t))
  BY SameData DEF Promise!Expected, At
<1>2. CASE lines = {}
  BY <1>1, <1>2
  DEF AppliedPad, NeutralPad, Pad, Shown, Promise!Neutral, Promise!Shows
<1>3. CASE lines # {}
  <2>1. i \in lines
    BY <1>3, AtIsLines, ScriptFacts, LastOfIn
  <2>2. ButtonsOf(s, {j \in lines : j < i}, Held(s, p, t))
          = Promise!HeldBefore(s, p, i, t)
    BY <2>1, ComparesWithLineBefore
  <2>3. AppliedPad(s, p, lines, Held(s, p, t))
          = Pad(i, hold, Promise!HeldBefore(s, p, i, t))
    BY <1>3, <2>2 DEF AppliedPad
  <2>4. QED
    BY <1>1, <1>3, <2>3 DEF Pad, Shown, Promise!Shows
<1>4. QED
  BY <1>2, <1>3

-----------------------------------------------------------------------------
(* Where a run stands *)

\* At the start of a movement the run stands where Playback's run does, and
\* remembers the buttons of the step before.
LEMMA Standing ==
  ASSUME IInv, RunInv, nerve = "Update"
  PROVE  /\ mScript \in Scripts
         /\ Stands(mScript, FirstIndex, step)
         /\ \A p \in Players : FirstButtons[p] = Held(mScript, p, step)
<1>1. mScript \in Scripts /\ step \in Nat /\ mFrameIndex \in Nat
  BY DEF IInv, PlaysNamedScript, Running, TypeOK
<1>2. mFrameCount(mScript) \in Nat
  BY <1>1, ScriptFacts
<1>3. CASE step = 0
  <2>1. Stands(mScript, FirstIndex, step)
    BY <1>2, <1>3 DEF Stands, FirstIndex
  <2>2. ASSUME NEW p \in Players
        PROVE  FirstButtons[p] = Held(mScript, p, step)
    <3>1. \A i \in At(mScript, p, step - 1) : i <= 0
      BY <1>1, <1>3, <2>1, LinesAround DEF FirstIndex
    <3>2. \A i \in At(mScript, p, step - 1) : i \in 1..mFrameCount(mScript)
      BY AtIs
    <3>3. At(mScript, p, step - 1) = {}
      BY <1>2, <3>1, <3>2
    <3>4. QED
      BY <1>3, <3>3 DEF FirstButtons, Held, ButtonsOf
  <2>3. QED
    BY <1>1, <2>1, <2>2
<1>4. CASE step > 0
  <2>1. FirstIndex = mFrameIndex /\ FirstButtons = mPrevButtons
    BY <1>4 DEF FirstIndex, FirstButtons
  <2>2. mFrameIndex \in 0..mFrameCount(mScript)
    BY <1>1, <1>2, <1>4 DEF RunInv
  <2>3. QED
    BY <1>1, <1>4, <2>1, <2>2 DEF RunInv, Stands, Held
<1>5. QED
  BY <1>1, <1>3, <1>4

LEMMA LastStepIs ==
  ASSUME NEW s \in Scripts, NEW from, NEW t \in Nat, Stands(s, from, t)
  PROVE  LET to == LastDue(s, from, t)
         IN  /\ Promise!IsLastStep(s, t) <=> to >= mFrameCount(s)
             /\ to < mFrameCount(s) =>
                  /\ to \in 0..mFrameCount(s)
                  /\ Due(s, to, t)
                  /\ ~Due(s, to + 1, t)
<1> DEFINE N  == mFrameCount(s)
           to == LastDue(s, from, t)
<1>1. N \in Nat /\ from \in 0..N
  BY ScriptFacts DEF Stands
<1>2. to \in from..N /\ Due(s, to, t) /\ (to < N => ~Due(s, to + 1, t))
  BY <1>1, StandsDue, LoopStops
<1>3. Promise!IsLastStep(s, t) <=> Due(s, N, t)
  BY SameData DEF Promise!IsLastStep, Due
<1> HIDE DEF N, to
<1>4. CASE to >= N
  BY <1>1, <1>2, <1>3, <1>4 DEF N, to
<1>5. CASE to < N
  <2>1. to + 1 \in 0..N /\ N \in 0..N /\ to \in 0..N
    BY <1>1, <1>2, <1>5
  <2>2. ~Due(s, N, t)
    BY <1>2, <1>5, <2>1, DueBefore DEF N
  <2>3. ~(to >= N)
    BY <1>1, <1>5, <2>1
  <2>4. QED
    BY <1>2, <1>3, <1>5, <2>1, <2>2, <2>3 DEF N, to
<1>6. QED
  BY <1>1, <1>2, <1>4, <1>5

\* What a step of exeUpdate leaves behind, in Playback's words.
LEMMA exeUpdatePlays ==
  ASSUME IInv, RunInv, nerve = "Update", NEW playerExists \in BOOLEAN,
         exeUpdate(playerExists)
  PROVE  /\ \A p \in Players :
              Shown(pad'[p]) = Promise!Expected(mScript, p, step)
         /\ \A p \in Players :
              mPrevButtons'[p] = ButtonsOf(mScript, At(mScript, p, step), {})
<1> DEFINE to       == LastDue(mScript, FirstIndex, step)
           lines(p) == AppliedLines(mScript, p, FirstIndex, to)
<1>1. /\ mScript \in Scripts
      /\ Stands(mScript, FirstIndex, step)
      /\ \A p \in Players : FirstButtons[p] = Held(mScript, p, step)
  BY Standing
<1>2. step \in Nat
  BY DEF IInv, TypeOK
<1>3. \A p \in Players : lines(p) = At(mScript, p, step)
  BY <1>1, <1>2, AppliedIs
<1>4. pad' = [p \in Players |->
                AppliedPad(mScript, p, lines(p), FirstButtons[p])]
  BY DEF exeUpdate
<1>5. mPrevButtons' = [p \in Players |-> ButtonsOf(mScript, lines(p), {})]
  BY DEF exeUpdate
<1> HIDE DEF lines
<1>6. ASSUME NEW p \in Players
      PROVE  Shown(pad'[p]) = Promise!Expected(mScript, p, step)
  <2>1. pad'[p] = AppliedPad(mScript, p, At(mScript, p, step),
                             Held(mScript, p, step))
    BY <1>1, <1>3, <1>4
  <2>2. QED
    BY <1>1, <1>2, <2>1, PadAsExpected
<1>7. QED
  BY <1>3, <1>5, <1>6

\* Every action but exeUpdate leaves a run alone or starts it over.
RunLeftAlone ==
  \/ nerve' # "Update"
  \/ step' = 0
  \/ UNCHANGED <<nerve, step, mScript, mFrameIndex, mPrevButtons>>

LEMMA LeftAloneRunInv ==
  ASSUME RunInv, RunLeftAlone
  PROVE  RunInv'
<1>1. CASE nerve' # "Update"
  BY <1>1 DEF RunInv
<1>2. CASE step' = 0
  BY <1>2 DEF RunInv
<1>3. CASE UNCHANGED <<nerve, step, mScript, mFrameIndex, mPrevButtons>>
  BY <1>3 DEF RunInv, Due, At, Promise!DueBy, Promise!LinesAt,
              Promise!PlayedAt
<1>4. QED
  BY <1>1, <1>2, <1>3 DEF RunLeftAlone

LEMMA exeUpdateRunInv ==
  ASSUME IInv, RunInv, nerve = "Update", NEW playerExists \in BOOLEAN,
         exeUpdate(playerExists)
  PROVE  RunInv'
<1> DEFINE to == LastDue(mScript, FirstIndex, step)
<1>1. mScript \in Scripts /\ Stands(mScript, FirstIndex, step) /\ step \in Nat
  BY Standing DEF IInv, TypeOK
<1>2. mFrameCount(mScript) \in Nat
  BY <1>1, ScriptFacts
<1>3. to < mFrameCount(mScript) =>
        Due(mScript, to, step) /\ ~Due(mScript, to + 1, step)
  BY <1>1, LastStepIs
<1>4. mFrameIndex' = to /\ mScript' = mScript
  BY DEF exeUpdate, FreeScript
<1>5. \A p \in Players :
        mPrevButtons'[p] = ButtonsOf(mScript, At(mScript, p, step), {})
  BY exeUpdatePlays
<1>6. CASE to >= mFrameCount(mScript)
  <2>1. nerve' = "Wait"
    BY <1>6 DEF exeUpdate, SetNerve
  <2>2. QED
    BY <2>1 DEF RunInv
<1>7. CASE ~(to >= mFrameCount(mScript))
  <2>1. step' = step + 1
    BY <1>7 DEF exeUpdate
  <2>2. step' - 1 = step
    BY <1>1, <2>1
  <2>3. to < mFrameCount(mScript)
    <3>1. FirstIndex \in 0..mFrameCount(mScript)
      BY <1>1 DEF Stands
    <3>2. to \in FirstIndex..mFrameCount(mScript)
      BY <1>1, <3>1, LastDueIn
    <3>3. QED
      BY <1>2, <1>7, <3>1, <3>2
  <2>4. QED
    BY <1>3, <1>4, <1>5, <2>2, <2>3
    DEF RunInv, Due, At, Promise!DueBy, Promise!LinesAt, Promise!PlayedAt
<1>8. QED
  BY <1>6, <1>7

-----------------------------------------------------------------------------
(* RunInv is invariant *)

LEMMA InitRunInv == Init => RunInv
BY DEF Init, RunInv

LEMMA MenuLeavesAlone ==
  ASSUME MenuCall
  PROVE  RunLeftAlone
<1>1. CASE tryStartScript
  BY <1>1 DEF tryStartScript, SearchCrashes, startScript, ConnectFails, Starts,
              SetNerve, RunLeftAlone
<1>2. CASE endScript
  BY <1>2 DEF endScript, SetNerve, RunLeftAlone
<1>3. CASE updateDir
  BY <1>3 DEF updateDir, bufVars, nerveVars, playVars, RunLeftAlone
<1>4. ASSUME NEW i, SelectEntry(i)
      PROVE  RunLeftAlone
  BY <1>4 DEF SelectEntry, tryLoadScript, SearchCrashes, SetNerve, RunLeftAlone
<1>5. ASSUME NEW i, SelectMissingEntry(i)
      PROVE  RunLeftAlone
  BY <1>5 DEF SelectMissingEntry, bufVars, nerveVars, playVars, RunLeftAlone
<1>6. QED
  BY <1>1, <1>2, <1>3, <1>4, <1>5 DEF MenuCall

LEMMA NextRunInv == IInv /\ RunInv /\ [Next]_vars => RunInv'
<1> SUFFICES ASSUME IInv, RunInv, [Next]_vars PROVE RunInv'
  OBVIOUS
<1> USE DEF bufVars, nerveVars, playVars
<1>1. CASE MenuCall
  BY <1>1, MenuLeavesAlone, LeftAloneRunInv
<1>2. CASE nerve = "Wait" /\ exeWait
  BY <1>2, LeftAloneRunInv DEF exeWait, RunLeftAlone
<1>3. CASE exeWaitUpdate
  BY <1>3, LeftAloneRunInv DEF exeWaitUpdate, SetNerve, RunLeftAlone
<1>4. ASSUME nerve = "Update", NEW playerExists \in BOOLEAN,
             exeUpdate(playerExists)
      PROVE  RunInv'
  BY <1>4, exeUpdateRunInv
<1>5. CASE ChangeCard \/ ChangeStage \/ SwitchMode
  BY <1>5, LeftAloneRunInv DEF ChangeCard, ChangeStage, SwitchMode, RunLeftAlone
<1>6. CASE Restart
  BY <1>6, LeftAloneRunInv DEF Restart, SetNerve, RunLeftAlone
<1>7. CASE UNCHANGED vars
  BY <1>7, LeftAloneRunInv DEF vars, RunLeftAlone
<1>8. QED
  BY <1>1, <1>2, <1>3, <1>4, <1>5, <1>6, <1>7 DEF Next, Movement, UpdateNerve

LEMMA RunInvariance == Spec => [](IInv /\ RunInv)
BY InitIInv, NextIInv, InitRunInv, NextRunInv, PTL DEF Spec

-----------------------------------------------------------------------------
(* The mapping *)

\* Playback's variables, as the instance Promise defines them.
Mode   == CASE nerve = "Wait" -> "idle"
            [] nerve = "WaitUpdate" -> "queued"
            [] nerve = "Update" -> "playing"
Script == IF Running THEN mScript ELSE NoScript
Step   == IF nerve = "Update" THEN step ELSE 0
Pads   == [p \in Players |-> [line |-> pad[p].line, hold |-> pad[p].hold,
                              trig |-> pad[p].trig]]

\* Playback's actions, in those words.
LEMMA PromiseIs ==
  /\ Promise!Idle <=> Mode' = "idle" /\ Script' = NoScript /\ Step' = 0
  /\ Promise!Stop <=> Promise!Idle /\ UNCHANGED <<Pads, teleported>>
  /\ Promise!Begin <=> /\ Mode' \in {"queued", "playing"}
                       /\ Script' \in ScriptType
                       /\ Step' = 0
                       /\ UNCHANGED <<Pads, teleported>>
  /\ Promise!Restart <=> /\ Promise!Idle
                         /\ Pads' = [p \in Players |-> Promise!Untouched]
                         /\ teleported' = FALSE
  /\ UNCHANGED Promise!vars <=> UNCHANGED <<Mode, Script, Step, Pads, teleported>>
BY SameData
DEF Promise!Idle, Promise!Stop, Promise!Begin, Promise!Restart, Promise!vars,
    Mode, Script, Step, Pads

LEMMA PromiseFrameIs ==
  /\ Promise!FrameIdle <=> /\ Mode = "idle"
                           /\ Pads' = [p \in Players |-> Promise!Untouched]
                           /\ teleported' = FALSE
                           /\ UNCHANGED <<Mode, Script, Step>>
  /\ Promise!FrameQueued <=> /\ Mode = "queued"
                             /\ Mode' = "playing"
                             /\ Pads' = [p \in Players |-> Promise!Untouched]
                             /\ teleported' = FALSE
                             /\ UNCHANGED <<Script, Step>>
  /\ Promise!FramePlaying <=>
       /\ Mode = "playing"
       /\ Pads' = [p \in Players |-> Promise!Expected(Script, p, Step)]
       /\ teleported' \in (IF Step = 0 /\ Script.hasStartPosition
                             THEN BOOLEAN ELSE {FALSE})
       /\ IF Promise!IsLastStep(Script, Step)
            THEN Promise!Idle
            ELSE Step' = Step + 1 /\ UNCHANGED <<Mode, Script>>
BY SameData
DEF Promise!FrameIdle, Promise!FrameQueued, Promise!FramePlaying,
    Promise!Idle, Mode, Script, Step, Pads

LEMMA ModeIs ==
  /\ nerve = "Wait" => Mode = "idle" /\ Script = NoScript /\ Step = 0
  /\ nerve = "WaitUpdate" => Mode = "queued" /\ Script = mScript /\ Step = 0
  /\ nerve = "Update" => Mode = "playing" /\ Script = mScript /\ Step = step
BY DEF Mode, Script, Step, Running

LEMMA NewModeIs ==
  /\ nerve' = "Wait" => Mode' = "idle" /\ Script' = NoScript /\ Step' = 0
  /\ nerve' = "WaitUpdate" =>
       Mode' = "queued" /\ Script' = mScript' /\ Step' = 0
  /\ nerve' = "Update" =>
       Mode' = "playing" /\ Script' = mScript' /\ Step' = step'
BY DEF Mode, Script, Step, Running

\* The controllers no run has touched.
LEMMA HardwareShown ==
  pad' = HardwarePads => Pads' = [p \in Players |-> Promise!Untouched]
BY DEF HardwarePads, HardwarePad, Pads, Promise!Untouched, Promise!Shows

-----------------------------------------------------------------------------
(* Every step of the player is one of Playback *)

LEMMA InitPromise == Init => Promise!Init
<1> SUFFICES ASSUME Init PROVE Promise!Init
  OBVIOUS
<1>1. Mode = "idle" /\ Script = NoScript /\ Step = 0
  BY ModeIs DEF Init
<1>2. Pads = [p \in Players |-> Promise!Untouched]
  BY DEF Init, HardwarePads, HardwarePad, Pads, Promise!Untouched,
         Promise!Shows
<1>3. QED
  BY <1>1, <1>2, SameData DEF Init, Promise!Init, Mode, Script, Step, Pads

\* A call that leaves the player idle stops the run, if there was one.
LEMMA StopsPromised ==
  ASSUME nerve' = "Wait", UNCHANGED playVars
  PROVE  Promise!Next
<1>1. UNCHANGED <<Pads, teleported>>
  BY DEF playVars, Pads
<1>2. QED
  BY <1>1, NewModeIs, PromiseIs DEF Promise!Next

LEMMA StartsPromised ==
  ASSUME nerve' \in {"WaitUpdate", "Update"}, step' = 0, mScript' \in Scripts,
         UNCHANGED playVars
  PROVE  Promise!Next
<1>1. UNCHANGED <<Pads, teleported>>
  BY DEF playVars, Pads
<1>2. mScript' \in ScriptType
  BY ScriptsAssumption
<1>3. QED
  BY <1>1, <1>2, NewModeIs, PromiseIs DEF Promise!Next

\* A step the player's run does not notice.
LEMMA Stutters ==
  ASSUME UNCHANGED <<nerve, step, mScript, pad, teleported>>
  PROVE  UNCHANGED Promise!vars
<1>1. UNCHANGED <<Mode, Script, Step, Pads, teleported>>
  BY DEF Mode, Script, Step, Pads, Running
<1>2. QED
  BY <1>1, PromiseIs

LEMMA MenuPromised ==
  ASSUME IInv, IInv', MenuCall
  PROVE  Promise!Next \/ UNCHANGED Promise!vars
<1>1. CASE tryStartScript
  <2>1. UNCHANGED playVars
    BY <1>1 DEF tryStartScript
  <2>2. CASE nerve' = "Wait"
    BY <2>1, <2>2, StopsPromised
  <2>3. CASE nerve' \in {"WaitUpdate", "Update"}
    <3>1. step' = 0
      BY <1>1 DEF tryStartScript, SearchCrashes, startScript, ConnectFails,
                  Starts, SetNerve
    <3>2. mScript' \in Scripts
      BY <2>3 DEF IInv, PlaysNamedScript, Running
    <3>3. QED
      BY <2>1, <2>3, <3>1, <3>2, StartsPromised
  <2>4. QED
    BY <2>2, <2>3 DEF IInv, TypeOK, Nerves
<1>2. CASE endScript
  BY <1>2, StopsPromised DEF endScript, SetNerve
<1>3. CASE updateDir
  BY <1>3, Stutters DEF updateDir, bufVars, nerveVars, playVars
<1>4. ASSUME NEW i, SelectEntry(i)
      PROVE  Promise!Next
  BY <1>4, StopsPromised DEF SelectEntry, tryLoadScript, SearchCrashes, SetNerve
<1>5. ASSUME NEW i, SelectMissingEntry(i)
      PROVE  UNCHANGED Promise!vars
  BY <1>5, Stutters DEF SelectMissingEntry, bufVars, nerveVars, playVars
<1>6. QED
  BY <1>1, <1>2, <1>3, <1>4, <1>5 DEF MenuCall

LEMMA exeUpdatePromised ==
  ASSUME IInv, RunInv, nerve = "Update", NEW playerExists \in BOOLEAN,
         exeUpdate(playerExists)
  PROVE  Promise!Next
<1> DEFINE to == LastDue(mScript, FirstIndex, step)
<1>1. /\ mScript \in Scripts
      /\ Stands(mScript, FirstIndex, step)
      /\ step \in Nat
  BY Standing DEF IInv, TypeOK
<1>2. Mode = "playing" /\ Script = mScript /\ Step = step
  BY ModeIs
<1>3. Pads' = [p \in Players |-> Promise!Expected(Script, p, Step)]
  <2>1. \A p \in Players :
          Shown(pad'[p]) = Promise!Expected(mScript, p, step)
    BY exeUpdatePlays
  <2>2. Pads' = [p \in Players |-> Shown(pad'[p])]
    BY DEF Pads, Shown
  <2>3. QED
    BY <1>2, <2>1, <2>2
<1>4. teleported' \in (IF Step = 0 /\ Script.hasStartPosition
                         THEN BOOLEAN ELSE {FALSE})
  <2>1. mScript.hasStartPosition \in BOOLEAN
    BY <1>1, ScriptFacts
  <2>2. teleported' = (step = 0 /\ playerExists /\ mScript.hasStartPosition)
    BY DEF exeUpdate, Teleports
  <2>3. QED
    BY <1>2, <2>1, <2>2
<1>5. Promise!IsLastStep(mScript, step) <=> to >= mFrameCount(mScript)
  BY <1>1, LastStepIs
<1>6. CASE to >= mFrameCount(mScript)
  <2>1. nerve' = "Wait"
    BY <1>6 DEF exeUpdate, SetNerve
  <2>2. Promise!Idle
    BY <2>1, NewModeIs, PromiseIs
  <2>3. QED
    BY <1>2, <1>3, <1>4, <1>5, <1>6, <2>2, PromiseFrameIs DEF Promise!Next
<1>7. CASE ~(to >= mFrameCount(mScript))
  <2>1. nerve' = nerve /\ step' = step + 1 /\ mScript' = mScript
    BY <1>7 DEF exeUpdate, FreeScript
  <2>2. Step' = Step + 1 /\ UNCHANGED <<Mode, Script>>
    BY <1>2, <2>1, NewModeIs
  <2>3. QED
    BY <1>2, <1>3, <1>4, <1>5, <1>7, <2>2, PromiseFrameIs DEF Promise!Next
<1>8. QED
  BY <1>6, <1>7

LEMMA MovementPromised ==
  ASSUME IInv, RunInv, UpdateNerve
  PROVE  Promise!Next
<1>1. CASE nerve = "Wait" /\ exeWait
  <2>1. UNCHANGED <<Mode, Script, Step>>
    BY <1>1, ModeIs, NewModeIs DEF exeWait, nerveVars
  <2>2. QED
    BY <1>1, <2>1, ModeIs, HardwareShown, PromiseFrameIs
    DEF exeWait, LeavePads, Promise!Next
<1>2. CASE nerve = "WaitUpdate" /\ exeWaitUpdate
  <2>1. Mode' = "playing" /\ UNCHANGED <<Script, Step>>
    BY <1>2, ModeIs, NewModeIs DEF exeWaitUpdate, SetNerve
  <2>2. QED
    BY <1>2, <2>1, ModeIs, HardwareShown, PromiseFrameIs
    DEF exeWaitUpdate, LeavePads, Promise!Next
<1>3. ASSUME nerve = "Update", NEW playerExists \in BOOLEAN,
             exeUpdate(playerExists)
      PROVE  Promise!Next
  BY <1>3, exeUpdatePromised
<1>4. QED
  BY <1>1, <1>2, <1>3 DEF UpdateNerve

LEMMA RestartPromised ==
  ASSUME Restart
  PROVE  Promise!Next
<1>1. nerve' = "Wait" /\ pad' = HardwarePads /\ teleported' = FALSE
  BY DEF Restart, SetNerve
<1>2. QED
  BY <1>1, NewModeIs, HardwareShown, PromiseIs DEF Promise!Next

LEMMA NextPromised ==
  IInv /\ IInv' /\ RunInv /\ [Next]_vars => [Promise!Next]_(Promise!vars)
<1> SUFFICES ASSUME IInv, IInv', RunInv, [Next]_vars
             PROVE  Promise!Next \/ UNCHANGED Promise!vars
  OBVIOUS
<1>1. CASE MenuCall
  BY <1>1, MenuPromised
<1>2. CASE Movement
  BY <1>2, MovementPromised DEF Movement
<1>3. CASE ChangeCard \/ ChangeStage \/ SwitchMode
  BY <1>3, Stutters
  DEF ChangeCard, ChangeStage, SwitchMode, bufVars, nerveVars, playVars
<1>4. CASE Restart
  BY <1>4, RestartPromised
<1>5. CASE UNCHANGED vars
  BY <1>5, Stutters DEF vars, bufVars, nerveVars, playVars
<1>6. QED
  BY <1>1, <1>2, <1>3, <1>4, <1>5 DEF Next

\* Whatever script is played, whenever it is started, queued, stopped or
\* replaced, each controller holds in every step of a run what the script
\* gives it for that step, and the run ends with the last line.
THEOREM TASPlaysAsPromised == Spec => PlaysAsPromised
BY InitPromise, NextPromised, RunInvariance, PTL
DEF Spec, PlaysAsPromised, Promise!Spec
=============================================================================
