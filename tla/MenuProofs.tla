----------------------------- MODULE MenuProofs -----------------------------
(***************************************************************************)
(* Proofs about the menu, for every number of patterns, alpha steps, flags *)
(* and listed entries, and every way of pressing buttons.                  *)
(***************************************************************************)
EXTENDS Menu, TLAPS

\* The lines of each page.
LEMMA LineCounts ==
  /\ LineCount("Main") = 5
  /\ LineCount("Options") = 5
  /\ LineCount("HitSensor") = 14
  /\ LineCount("Info") = 2
  /\ LineCount("TAS") = 17
  /\ LineCount("About") = 1
  /\ LineCount("Debug") = 1
<1>1. Rows["Main"] = MainRows /\ Rows["Options"] = OptionsRows
      /\ Rows["HitSensor"] = HitSensorRows
  BY DEF Rows, Pages
<1>2. Rows["Info"] = InfoRows /\ Rows["TAS"] = TASRows
      /\ Rows["About"] = AboutRows /\ Rows["Debug"] = DebugRows
  BY DEF Rows, Pages
<1>3. QED
  BY <1>1, <1>2 DEF LineCount, MainRows, OptionsRows, HitSensorRows, InfoRows,
                    TASRows, AboutRows, DebugRows

\* Every page has a line.
LEMMA LineCountType == \A p \in Pages : LineCount(p) \in Nat \ {0}
BY LineCounts DEF Pages

\* The inductive invariant: a page's handler finds the next page by the line
\* the cursor is on, so types and cursor ranges hold only together.
IInv == TypeOK /\ CursorsInRange

\* The cursor that handleInput hands to the page is one of its lines.
LEMMA MovedInRange ==
  ASSUME IInv, NEW pressed
  PROVE  Moved(pressed) \in 0..(LineCount(mCurPage) - 1)
<1>1. /\ mCurPage \in Pages
      /\ mCursorIndex \in 0..(LineCount(mCurPage) - 1)
  BY DEF IInv, TypeOK, CursorsInRange, CursorOnPage
<1>2. LineCount(mCurPage) \in Nat \ {0}
  BY <1>1, LineCountType
<1>3. QED
  BY <1>1, <1>2 DEF Moved, Wrap, One

\* What a page handler has to keep: the cursors, and the options it changes.
CursorsKept ==
  /\ mCurPage \in Pages
  /\ mCursorIndex \in Int
  /\ pageCursor \in [Pages -> Int]
  /\ CursorsInRange
OptionsKept ==
  /\ isShow \in [ShowLines -> BOOLEAN]
  /\ mSensorAlpha \in 0..AlphaMax
  /\ mofumofuPatternIndex \in 0..(PatternCount - 1)
  /\ stored \in SaveFiles
  /\ saveRequested \in BOOLEAN
  /\ tasCall \in Calls

LEMMA IInvParts ==
  IInv <=> /\ CursorsKept
           /\ OptionsKept
           /\ isHandleInputs \in BOOLEAN
           /\ mPrevPadInputs \in SUBSET Dirs
BY DEF IInv, TypeOK, CursorsKept, OptionsKept

\* Staying on the page, or leaving it through setCurPage, keeps the cursors.
LEMMA StayOnKeeps ==
  ASSUME CursorsKept, NEW cursor \in 0..(LineCount(mCurPage) - 1),
         StayOn(cursor)
  PROVE  CursorsKept'
<1>1. mCurPage \in Pages
  BY DEF CursorsKept
<1>2. cursor \in Int
  BY <1>1, LineCountType
<1>3. CursorOnPage'
  BY DEF CursorOnPage, StayOn
<1>4. SavedCursorsOnPages'
  BY DEF StayOn, SavedCursorsOnPages, CursorsKept, CursorsInRange
<1>5. QED
  BY <1>1, <1>2, <1>3, <1>4 DEF StayOn, CursorsKept, CursorsInRange

LEMMA SetCurPageKeeps ==
  ASSUME CursorsKept, NEW cursor \in 0..(LineCount(mCurPage) - 1),
         NEW page \in Pages, setCurPage(page, cursor)
  PROVE  CursorsKept'
<1>1. mCurPage \in Pages /\ pageCursor \in [Pages -> Int]
  BY DEF CursorsKept
<1>2. cursor \in Int
  BY <1>1, LineCountType
<1>3. pageCursor' \in [Pages -> Int]
  BY <1>1, <1>2 DEF setCurPage
<1>4. \A p \in Pages : pageCursor'[p] \in 0..(LineCount(p) - 1)
  <2>1. TAKE p \in Pages
  <2>2. pageCursor[p] \in 0..(LineCount(p) - 1)
    BY DEF CursorsKept, CursorsInRange, SavedCursorsOnPages
  <2>3. CASE p = mCurPage
    BY <1>1, <2>3 DEF setCurPage
  <2>4. CASE p # mCurPage
    BY <1>1, <2>2, <2>4 DEF setCurPage
  <2>5. QED
    BY <2>3, <2>4
<1>5. mCursorIndex' = pageCursor'[page] /\ mCurPage' = page
  BY DEF setCurPage
<1>6. CursorOnPage' /\ SavedCursorsOnPages'
  BY <1>4, <1>5 DEF CursorOnPage, SavedCursorsOnPages
<1>7. QED
  BY <1>3, <1>5, <1>6 DEF CursorsKept, CursorsInRange

\* PageOptions keeps the line number of a page it leaves: it exists on the
\* page it goes to because Main has a line 4 and HitSensor a line 0.
LEMMA AssignCurPageKeeps ==
  ASSUME CursorsKept, NEW page \in Pages, NEW cursor \in Int,
         cursor \in 0..(LineCount(page) - 1), assignCurPage(page, cursor)
  PROVE  CursorsKept'
BY DEF assignCurPage, CursorsKept, CursorsInRange, CursorOnPage,
       SavedCursorsOnPages

LEMMA CallTypes ==
  /\ NoCall \in Calls
  /\ \A op \in CallOps : Call(op) \in Calls
  /\ \A i \in Nat : Select(i) \in Calls
BY DEF NoCall, Call, Select, Calls, CallOps

-----------------------------------------------------------------------------
(* The page handlers *)

LEMMA PageMainKeeps ==
  ASSUME CursorsKept, OptionsKept, NEW pressed,
         NEW cursor \in 0..(LineCount(mCurPage) - 1), PageMain(cursor, pressed)
  PROVE  CursorsKept' /\ OptionsKept'
<1>1. cursor \in 0..4
  BY LineCounts DEF PageMain
<1>2. MainTarget[cursor + 1] \in Pages
  BY <1>1 DEF MainTarget, Pages
<1>3. CursorsKept'
  BY <1>2, StayOnKeeps, SetCurPageKeeps DEF PageMain
<1>4. tasCall' \in Calls
  BY CallTypes DEF PageMain, CallOps
<1>5. OptionsKept'
  BY <1>4 DEF PageMain, OptionsKept, settingVars, saveVars
<1>6. QED
  BY <1>3, <1>5

LEMMA PageOptionsKeeps ==
  ASSUME CursorsKept, OptionsKept, NEW pressed,
         NEW cursor \in 0..(LineCount(mCurPage) - 1),
         PageOptions(cursor, pressed)
  PROVE  CursorsKept' /\ OptionsKept'
<1>1. cursor \in 0..4
  BY LineCounts DEF PageOptions
<1>2. CursorsKept'
  <2>1. CASE "Right" \in pressed /\ cursor \in {0, 4}
    <3>1. CASE cursor = 0
      BY <2>1, <3>1, AssignCurPageKeeps, LineCounts DEF PageOptions, Pages
    <3>2. CASE cursor = 4
      BY <2>1, <3>2, AssignCurPageKeeps, LineCounts DEF PageOptions, Pages
    <3>3. QED
      BY <2>1, <3>1, <3>2
  <2>2. CASE ~("Right" \in pressed /\ cursor \in {0, 4})
    BY <2>2, StayOnKeeps DEF PageOptions
  <2>3. QED
    BY <2>1, <2>2
<1>3. mofumofuPatternIndex' \in 0..(PatternCount - 1)
  BY PatternAssumption DEF PageOptions, NextPattern, OptionsKept
<1>4. tasCall' \in Calls
  BY CallTypes DEF PageOptions
<1>5. OptionsKept'
  BY <1>3, <1>4 DEF PageOptions, OptionsKept, settingVars, saveVars
<1>6. QED
  BY <1>2, <1>5

LEMMA HitSensorOptionsKeeps ==
  ASSUME OptionsKept, NEW pressed, NEW cursor, HitSensorOptions(cursor, pressed)
  PROVE  isShow' \in [ShowLines -> BOOLEAN] /\ mSensorAlpha' \in 0..AlphaMax
<1>1. isShow' \in [ShowLines -> BOOLEAN]
  BY DEF HitSensorOptions, OptionsKept
<1>2. mSensorAlpha' \in 0..AlphaMax
  BY AlphaAssumption DEF HitSensorOptions, OptionsKept, Clamp, One
<1>3. QED
  BY <1>1, <1>2

LEMMA PageHitSensorKeeps ==
  ASSUME CursorsKept, OptionsKept, NEW pressed,
         NEW cursor \in 0..(LineCount(mCurPage) - 1),
         PageHitSensor(cursor, pressed)
  PROVE  CursorsKept' /\ OptionsKept'
<1>1. CursorsKept'
  BY StayOnKeeps, SetCurPageKeeps DEF PageHitSensor, LeaveHitSensor, Pages
<1>2. isShow' \in [ShowLines -> BOOLEAN] /\ mSensorAlpha' \in 0..AlphaMax
  BY HitSensorOptionsKeeps DEF PageHitSensor, OptionsKept, settingVars
<1>3. saveRequested' \in BOOLEAN
  BY DEF PageHitSensor, LeaveHitSensor, OptionsKept
<1>4. tasCall' \in Calls
  BY CallTypes DEF PageHitSensor
<1>5. OptionsKept'
  BY <1>2, <1>3, <1>4 DEF PageHitSensor, OptionsKept
<1>6. QED
  BY <1>1, <1>5

LEMMA PageInfoKeeps ==
  ASSUME CursorsKept, OptionsKept, NEW pressed,
         NEW cursor \in 0..(LineCount(mCurPage) - 1), PageInfo(cursor, pressed)
  PROVE  CursorsKept' /\ OptionsKept'
<1>1. CursorsKept'
  BY StayOnKeeps, SetCurPageKeeps DEF PageInfo, Pages
<1>2. tasCall' \in Calls
  BY CallTypes DEF PageInfo, CallOps
<1>3. OptionsKept'
  BY <1>2 DEF PageInfo, OptionsKept, settingVars, saveVars
<1>4. QED
  BY <1>1, <1>3

LEMMA PageTASKeeps ==
  ASSUME CursorsKept, OptionsKept, NEW pressed, NEW entryCount \in Int,
         NEW cursor \in 0..(LineCount(mCurPage) - 1),
         PageTAS(cursor, pressed, entryCount)
  PROVE  CursorsKept' /\ OptionsKept'
<1>1. CursorsKept'
  BY StayOnKeeps, SetCurPageKeeps DEF PageTAS, Pages
<1>2. cursor \in Nat
  BY LineCounts DEF PageTAS
<1>3. TASPageCall(cursor, entryCount) \in Calls
  <2>1. CASE cursor \in 0..2
    BY <1>2, <2>1, CallTypes DEF TASPageCall, CallOps
  <2>2. CASE cursor \notin 0..2
    BY <1>2, <2>2, CallTypes DEF TASPageCall
  <2>3. QED
    BY <2>1, <2>2
<1>4. tasCall' \in Calls
  BY <1>3, CallTypes DEF PageTAS
<1>5. OptionsKept'
  BY <1>4 DEF PageTAS, OptionsKept, settingVars, saveVars
<1>6. QED
  BY <1>1, <1>5

LEMMA PageReturnOnlyKeeps ==
  ASSUME CursorsKept, OptionsKept, NEW pressed,
         NEW cursor \in 0..(LineCount(mCurPage) - 1),
         PageReturnOnly(cursor, pressed)
  PROVE  CursorsKept' /\ OptionsKept'
<1>1. CursorsKept'
  BY StayOnKeeps, SetCurPageKeeps DEF PageReturnOnly, Pages
<1>2. tasCall' \in Calls
  BY CallTypes DEF PageReturnOnly
<1>3. OptionsKept'
  BY <1>2 DEF PageReturnOnly, OptionsKept, settingVars, saveVars
<1>4. QED
  BY <1>1, <1>3
-----------------------------------------------------------------------------
(* The invariant *)

LEMMA InputKeeps ==
  ASSUME IInv, NEW held \in SUBSET Dirs, NEW stick \in BOOLEAN,
         NEW n \in Int, HandleInput(held, stick, n)
  PROVE  IInv'
<1>1. CursorsKept /\ OptionsKept
  BY IInvParts
<1>2. /\ isHandleInputs' \in BOOLEAN
      /\ mPrevPadInputs' \in SUBSET Dirs
  BY IInvParts DEF HandleInput
<1>3. CASE HandlePage(Moved(Pressed(held)), Pressed(held), n)
  <2>1. Moved(Pressed(held)) \in 0..(LineCount(mCurPage) - 1)
    BY MovedInRange
  <2>2. CursorsKept' /\ OptionsKept'
    BY <1>1, <1>3, <2>1, PageMainKeeps, PageOptionsKeeps, PageHitSensorKeeps,
       PageInfoKeeps, PageTASKeeps, PageReturnOnlyKeeps DEF HandlePage
  <2>3. QED
    BY <1>2, <2>2, IInvParts DEF IInv, TypeOK, CursorsKept, OptionsKept
<1>4. CASE IgnoreInput
  <2>1. CursorsKept'
    BY <1>1, <1>4 DEF IgnoreInput, CursorsKept, CursorsInRange, CursorOnPage,
                      SavedCursorsOnPages, cursorVars
  <2>2. OptionsKept'
    BY <1>1, <1>4, CallTypes
    DEF IgnoreInput, OptionsKept, settingVars, saveVars
  <2>3. QED
    BY <1>2, <2>1, <2>2 DEF IInv, TypeOK, CursorsKept, OptionsKept
<1>5. QED
  BY <1>3, <1>4 DEF HandleInput

\* The options read back from a save file.
LEMMA ReadBack ==
  ASSUME NEW f \in SaveFiles
  PROVE  /\ ShowFrom(f) = f.isShow
         /\ AlphaFrom(f) = f.mSensorAlpha
         /\ f.isShow \in [ShowLines -> BOOLEAN]
         /\ f.mSensorAlpha \in 0..AlphaMax
<1>1. CASE f = NoKeys
  BY <1>1, AlphaAssumption DEF NoKeys, ShowFrom, AlphaFrom
<1>2. CASE f # NoKeys
  BY <1>2 DEF SaveFiles, ShowFrom, AlphaFrom
<1>3. QED
  BY <1>1, <1>2

LEMMA LoadedOptions ==
  ASSUME NEW f \in SaveFiles
  PROVE  /\ ShowFrom(f) \in [ShowLines -> BOOLEAN]
         /\ AlphaFrom(f) \in 0..AlphaMax
         /\ 0 \in 0..(PatternCount - 1)
<1>1. 0 \in 0..(PatternCount - 1)
  BY PatternAssumption
<1>2. QED
  BY <1>1, ReadBack

\* Line 0 is a line of every page: where every page starts.
LEMMA FirstLines ==
  ASSUME NEW p \in Pages
  PROVE  0 \in 0..(LineCount(p) - 1)
BY LineCountType

LEMMA InitIInv == Init => IInv
<1> SUFFICES ASSUME Init PROVE IInv
  OBVIOUS
<1>1. CursorsKept
  BY FirstLines DEF Init, CursorsKept, CursorsInRange, CursorOnPage,
                    SavedCursorsOnPages, Pages
<1>2. OptionsKept
  BY LoadedOptions, CallTypes DEF Init, OptionsKept
<1>3. QED
  BY <1>1, <1>2 DEF Init, IInv, TypeOK, CursorsKept, OptionsKept

LEMMA DataWriteKeeps ==
  ASSUME IInv, DataWrite
  PROVE  IInv'
<1>1. CursorsKept'
  BY IInvParts DEF DataWrite, CursorsKept, CursorsInRange, CursorOnPage,
                   SavedCursorsOnPages, cursorVars
<1>2. stored' \in SaveFiles
  BY IInvParts DEF DataWrite, Written, SaveFiles, OptionsKept
<1>3. OptionsKept'
  BY <1>2, IInvParts DEF DataWrite, OptionsKept, settingVars
<1>4. QED
  BY <1>1, <1>3, IInvParts
  DEF DataWrite, padVars, IInv, TypeOK, CursorsKept, OptionsKept

LEMMA RestartKeeps ==
  ASSUME IInv, Restart
  PROVE  IInv'
<1>1. CursorsKept'
  BY FirstLines DEF Restart, CursorsKept, CursorsInRange, CursorOnPage,
                    SavedCursorsOnPages, Pages
<1>2. OptionsKept'
  <2>1. stored \in SaveFiles
    BY IInvParts DEF OptionsKept
  <2>2. QED
    BY <2>1, LoadedOptions, CallTypes DEF Restart, OptionsKept
<1>3. QED
  BY <1>1, <1>2 DEF Restart, IInv, TypeOK, CursorsKept, OptionsKept

LEMMA NextIInv == IInv /\ [Next]_vars => IInv'
<1> SUFFICES ASSUME IInv, [Next]_vars PROVE IInv'
  OBVIOUS
<1>1. CASE AnyInput
  BY <1>1, InputKeeps, InputAssumption DEF AnyInput
<1>2. CASE DataWrite
  BY <1>2, DataWriteKeeps
<1>3. CASE Restart
  BY <1>3, RestartKeeps
<1>4. CASE UNCHANGED vars
  BY <1>4 DEF vars, cursorVars, padVars, settingVars, saveVars, IInv, TypeOK,
              CursorsInRange, CursorOnPage, SavedCursorsOnPages
<1>5. QED
  BY <1>1, <1>2, <1>3, <1>4 DEF Next

LEMMA Invariance == Spec => []IInv
BY InitIInv, NextIInv, PTL DEF Spec

\* Every variable of the menu keeps its type, mSensorAlpha its bounds and
\* mofumofuPatternIndex the length of its table.
THEOREM MenuTypes == Spec => []TypeOK
<1>1. IInv => TypeOK
  BY DEF IInv
<1>2. QED
  BY <1>1, Invariance, PTL

\* Menu::draw never indexes outside a page's cursor positions, whatever page
\* the cursor came from and whatever lines the pages remember.
THEOREM MenuCursors == Spec => []CursorsInRange
<1>1. IInv => CursorsInRange
  BY DEF IInv
<1>2. QED
  BY <1>1, Invariance, PTL

-----------------------------------------------------------------------------
(* Options and the save file *)

\* Only the HitSensor page changes the options that are stored, and leaving
\* it asks for a save.
LEMMA HandlePageSaves ==
  ASSUME UnsavedOnlyWhileEditing, NEW cursor, NEW pressed, NEW n,
         HandlePage(cursor, pressed, n)
  PROVE  UnsavedOnlyWhileEditing'
<1>1. CASE PageHitSensor(cursor, pressed)
  BY <1>1 DEF PageHitSensor, LeaveHitSensor, StayOn, UnsavedOnlyWhileEditing
<1>2. CASE mCurPage # "HitSensor" /\ UNCHANGED <<settingVars, saveVars>>
  BY <1>2 DEF UnsavedOnlyWhileEditing, SettingsStored, settingVars, saveVars
<1>3. QED
  BY <1>1, <1>2 DEF HandlePage, PageMain, PageOptions, PageInfo, PageTAS,
                    PageReturnOnly

LEMMA NextSaves ==
  ASSUME IInv, UnsavedOnlyWhileEditing, [Next]_vars
  PROVE  UnsavedOnlyWhileEditing'
<1>1. CASE AnyInput
  <2>1. PICK held, stick, n : HandleInput(held, stick, n)
    BY <1>1 DEF AnyInput
  <2>2. CASE HandlePage(Moved(Pressed(held)), Pressed(held), n)
    BY <2>2, HandlePageSaves
  <2>3. CASE IgnoreInput
    BY <2>3 DEF IgnoreInput, UnsavedOnlyWhileEditing, SettingsStored,
                cursorVars, settingVars, saveVars
  <2>4. QED
    BY <2>1, <2>2, <2>3 DEF HandleInput
<1>2. CASE DataWrite
  BY <1>2 DEF DataWrite, Written, settingVars, UnsavedOnlyWhileEditing,
              SettingsStored
<1>3. CASE Restart
  <2>1. stored \in SaveFiles
    BY IInvParts DEF OptionsKept
  <2>2. QED
    BY <1>3, <2>1, ReadBack DEF Restart, UnsavedOnlyWhileEditing, SettingsStored
<1>4. CASE UNCHANGED vars
  BY <1>4 DEF vars, cursorVars, settingVars, saveVars, UnsavedOnlyWhileEditing,
              SettingsStored
<1>5. QED
  BY <1>1, <1>2, <1>3, <1>4 DEF Next

\* No way off the HitSensor page, and no restart, leaves an option that
\* differs from the save file without a save under way.
THEOREM MenuSaves == Spec => []UnsavedOnlyWhileEditing
<1>1. Init => UnsavedOnlyWhileEditing
  BY ReadBack DEF Init, UnsavedOnlyWhileEditing, SettingsStored
<1>2. IInv /\ UnsavedOnlyWhileEditing /\ [Next]_vars => UnsavedOnlyWhileEditing'
  BY NextSaves
<1>3. QED
  BY <1>1, <1>2, Invariance, PTL DEF Spec

-----------------------------------------------------------------------------
(* Presses *)

\* Without a new direction the cursor stays where it is.
LEMMA NotMoved ==
  ASSUME IInv, NEW held, held \subseteq mPrevPadInputs
  PROVE  Pressed(held) = {} /\ Moved(Pressed(held)) = mCursorIndex
<1>1. Pressed(held) = {}
  BY DEF Pressed
<1>2. /\ mCurPage \in Pages
      /\ mCursorIndex \in 0..(LineCount(mCurPage) - 1)
  BY DEF IInv, TypeOK, CursorsInRange, CursorOnPage
<1>3. LineCount(mCurPage) \in Nat \ {0}
  BY <1>2, LineCountType
<1>4. Moved({}) = mCursorIndex
  BY <1>2, <1>3 DEF Moved, Wrap, One
<1>5. QED
  BY <1>1, <1>4

LEMMA HandlePageQuiet ==
  ASSUME NEW n, HandlePage(mCursorIndex, {}, n)
  PROVE  NothingActs
BY DEF HandlePage, PageMain, PageOptions, PageHitSensor, PageInfo, PageTAS,
       PageReturnOnly, StayOn, NothingActs, cursorVars, settingVars, saveVars

\* handleInput acts on a press once, however long it is held.
THEOREM MenuPresses == Spec => NoRepeatWhileHeld
<1>1. IInv /\ [Next]_vars
        => [AnyInput /\ mPrevPadInputs' \subseteq mPrevPadInputs
              => NothingActs]_vars
  <2> SUFFICES ASSUME IInv, AnyInput, mPrevPadInputs' \subseteq mPrevPadInputs
               PROVE  NothingActs
    OBVIOUS
  <2>1. PICK held, stick, n : HandleInput(held, stick, n)
    BY DEF AnyInput
  <2>2. held \subseteq mPrevPadInputs
    BY <2>1 DEF HandleInput
  <2>3. CASE HandlePage(Moved(Pressed(held)), Pressed(held), n)
    BY <2>2, <2>3, NotMoved, HandlePageQuiet
  <2>4. CASE IgnoreInput
    BY <2>4 DEF IgnoreInput, NothingActs, saveVars
  <2>5. QED
    BY <2>1, <2>3, <2>4 DEF HandleInput
<1>2. QED
  BY <1>1, Invariance, PTL DEF Spec, NoRepeatWhileHeld

-----------------------------------------------------------------------------
(* The entry that is loaded *)

\* Line c of the TAS page stands on the row of entry c - 3.
LEMMA EntryRows ==
  ASSUME NEW c \in 3..15
  PROVE  TASRows[c + 1] = FirstEntryRow + (c - 3)
BY DEF TASRows, FirstEntryRow

LEMMA NotSelect ==
  /\ NoCall.op # "select"
  /\ \A op : op # "select" => Call(op).op # "select"
BY DEF NoCall, Call

LEMMA TASPageSelects ==
  ASSUME NEW cursor \in Nat, NEW n, TASPageCall(cursor, n).op = "select"
  PROVE  cursor >= 3 /\ TASPageCall(cursor, n).entry = cursor - 3
<1>1. CASE cursor \in 0..2
  BY <1>1, NotSelect DEF TASPageCall
<1>2. CASE cursor \notin 0..2 /\ cursor - 3 < n
  BY <1>2 DEF TASPageCall, Select
<1>3. CASE cursor \notin 0..2 /\ ~(cursor - 3 < n)
  BY <1>3, NotSelect DEF TASPageCall
<1>4. QED
  BY <1>1, <1>2, <1>3

LEMMA HandlePageSelects ==
  ASSUME CursorsKept, NEW pressed, NEW n,
         NEW cursor \in 0..(LineCount(mCurPage) - 1),
         HandlePage(cursor, pressed, n)
  PROVE  LoadedEntryUnderCursor'
<1>1. CASE PageTAS(cursor, pressed, n)
  <2> SUFFICES ASSUME tasCall'.op = "select", tasCall'.entry < EntryLines
               PROVE  /\ mCurPage' = "TAS"
                      /\ TASRows[mCursorIndex' + 1]
                           = FirstEntryRow + tasCall'.entry
    BY DEF LoadedEntryUnderCursor
  <2>1. cursor \in 0..16
    BY <1>1, LineCounts DEF PageTAS
  <2>2. tasCall' = TASPageCall(cursor, n)
    BY <1>1, NotSelect DEF PageTAS
  <2>3. cursor >= 3 /\ tasCall'.entry = cursor - 3
    BY <2>1, <2>2, TASPageSelects
  <2>4. cursor \in 3..15
    BY <2>1, <2>3 DEF EntryLines
  <2>5. StayOn(cursor)
    BY <1>1, <2>4 DEF PageTAS
  <2>6. QED
    BY <1>1, <2>3, <2>4, <2>5, EntryRows DEF PageTAS, StayOn
<1>2. CASE ~PageTAS(cursor, pressed, n)
  <2>1. tasCall'.op # "select"
    BY <1>2, NotSelect DEF HandlePage, PageMain, PageOptions, PageHitSensor,
                           PageInfo, PageReturnOnly
  <2>2. QED
    BY <2>1 DEF LoadedEntryUnderCursor
<1>3. QED
  BY <1>1, <1>2

\* The script that a press on the TAS page loads is the one drawn on the
\* cursor's row, for any number of listed scripts that have a row.
THEOREM MenuLoadsEntryUnderCursor == Spec => []LoadedEntryUnderCursor
<1>1. Init => LoadedEntryUnderCursor
  BY NotSelect DEF Init, LoadedEntryUnderCursor
<1>2. IInv /\ LoadedEntryUnderCursor /\ [Next]_vars => LoadedEntryUnderCursor'
  <2> SUFFICES ASSUME IInv, LoadedEntryUnderCursor, [Next]_vars
               PROVE  LoadedEntryUnderCursor'
    OBVIOUS
  <2>1. CASE AnyInput
    <3>1. PICK held, stick, n : HandleInput(held, stick, n)
      BY <2>1 DEF AnyInput
    <3>2. CASE HandlePage(Moved(Pressed(held)), Pressed(held), n)
      BY <3>2, MovedInRange, HandlePageSelects, IInvParts
    <3>3. CASE IgnoreInput
      BY <3>3, NotSelect DEF IgnoreInput, LoadedEntryUnderCursor
    <3>4. QED
      BY <3>1, <3>2, <3>3 DEF HandleInput
  <2>2. CASE DataWrite
    BY <2>2 DEF DataWrite, cursorVars, LoadedEntryUnderCursor
  <2>3. CASE Restart
    BY <2>3, NotSelect DEF Restart, LoadedEntryUnderCursor
  <2>4. CASE UNCHANGED vars
    BY <2>4 DEF vars, cursorVars, LoadedEntryUnderCursor
  <2>5. QED
    BY <2>1, <2>2, <2>3, <2>4 DEF Next
<1>3. QED
  BY <1>1, <1>2, Invariance, PTL DEF Spec
=============================================================================
