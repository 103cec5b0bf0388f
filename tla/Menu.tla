-------------------------------- MODULE Menu --------------------------------
(***************************************************************************)
(* The on-screen menu (debug-menu/Menu.cpp and the Page*.cpp handlers):    *)
(* seven pages, a cursor, the options they change, and the way the options *)
(* reach the game's save file.                                             *)
(*                                                                         *)
(* One HandleInput step is one call of Menu::handleInput, with the page    *)
(* handler it ends in.  The TAS functions a handler calls are recorded in  *)
(* tasCall; module SmoTas composes this module with TAS, which carries     *)
(* them out.  The environment is the player (buttons), the game (it writes *)
(* the save file, on request or by itself) and the power switch.           *)
(***************************************************************************)
EXTENDS Integers, Sequences

CONSTANTS
  ShowLines,      \* lines of the HitSensor page whose flag is tracked
  AlphaMax,       \* 1.00 in steps of 0.05: 20 in the code
  AlphaInit,      \* 0.15 in steps of 0.05: 3 in the code
  PatternCount,   \* length of mPatternEntries: 23 in the code
  PadStates,      \* what the D-pad may report, a set of sets of directions
  StickStates,    \* what isPadTriggerPressLeftStick may report
  EntryCounts     \* what TAS::mEntryCount may be when a handler reads it

\* Lines 0..9 and 11 of the page toggle a flag, line 10 is the alpha.
AllShowLines == (0..9) \cup {11}

Dirs == {"Up", "Down", "Left", "Right"}

ASSUME ShowLinesAssumption == ShowLines \subseteq AllShowLines
ASSUME AlphaAssumption ==
  /\ AlphaMax \in Nat
  /\ AlphaInit \in 0..AlphaMax
ASSUME PatternAssumption == PatternCount \in Nat \ {0}
ASSUME InputAssumption ==
  /\ PadStates \subseteq SUBSET Dirs
  /\ StickStates \subseteq BOOLEAN
  /\ EntryCounts \subseteq Int

VARIABLES
  mCurPage,             \* Menu::mCurPage
  mCursorIndex,         \* Menu::mCursorIndex
  pageCursor,           \* PageBase::mCursorIndex of each page
  isHandleInputs,       \* menu shown and listening
  mPrevPadInputs,       \* directions held at the previous call
  isShow,               \* the isShow* flags, by their line
  mSensorAlpha,
  mofumofuPatternIndex,
  stored,               \* the options in the save file
  saveRequested,        \* startSaveDataWriteSync was called, no write yet
  tasCall               \* the call the last HandleInput made on TAS

cursorVars  == <<mCurPage, mCursorIndex, pageCursor>>
padVars     == <<isHandleInputs, mPrevPadInputs>>
settingVars == <<isShow, mSensorAlpha>>
saveVars    == <<stored, saveRequested>>
vars == <<cursorVars, padVars, settingVars, mofumofuPatternIndex, saveVars,
          tasCall>>

-----------------------------------------------------------------------------
(* Pages.  A page's rows are the text lines its selectable lines stand on. *)

Pages == {"Main", "Options", "HitSensor", "Info", "TAS", "About", "Debug"}

MainRows      == <<3, 4, 5, 6, 7>>
OptionsRows   == <<4, 5, 6, 8, 21>>
HitSensorRows == <<2, 3, 4, 5, 6, 7, 8, 9, 10, 11, 12, 13, 20, 21>>
InfoRows      == <<2, 21>>
TASRows       == <<2, 3, 5, 7, 8, 9, 10, 11, 12, 13, 14, 15, 16, 17, 18, 19, 21>>
AboutRows     == <<21>>
DebugRows     == <<21>>

Rows == [p \in Pages |->
  CASE p = "Main"      -> MainRows
    [] p = "Options"   -> OptionsRows
    [] p = "HitSensor" -> HitSensorRows
    [] p = "Info"      -> InfoRows
    [] p = "TAS"       -> TASRows
    [] p = "About"     -> AboutRows
    [] p = "Debug"     -> DebugRows]

\* mCursorPositions.size() of page p
LineCount(p) == Len(Rows[p])

\* The calls page handlers make on TAS.  "select" stands for the assignment
\* of currentScriptEntry followed by tryLoadScript.
NoCall      == [op |-> "none", entry |-> 0]
Call(op)    == [op |-> op, entry |-> 0]
Select(i)   == [op |-> "select", entry |-> i]
CallOps     == {"none", "updateDir", "tryStartScript", "endScript", "select"}

-----------------------------------------------------------------------------
(* The save file: either without the mod's keys, or with all of them.      *)

NoKeys == [has |-> FALSE, isShow |-> [l \in ShowLines |-> TRUE],
           mSensorAlpha |-> AlphaInit]

\* What DataWriteHook writes.
Written == [has |-> TRUE, isShow |-> isShow, mSensorAlpha |-> mSensorAlpha]

SaveFiles ==
  [has : {TRUE}, isShow : [ShowLines -> BOOLEAN], mSensorAlpha : 0..AlphaMax]
    \cup {NoKeys}

\* The flags and the alpha once DataReadHook has read save file f: a key that
\* is missing keeps its default.
ShowFrom(f)  == IF f.has THEN f.isShow ELSE [l \in ShowLines |-> TRUE]
AlphaFrom(f) == IF f.has THEN f.mSensorAlpha ELSE AlphaInit

\* The menu as GameSystemInit leaves it, the game having then read its save.
Init ==
  /\ stored \in SaveFiles
  /\ mCurPage = "Main"
  /\ mCursorIndex = 0
  /\ pageCursor = [p \in Pages |-> 0]
  /\ isHandleInputs = TRUE
  /\ mPrevPadInputs = {}
  /\ isShow = ShowFrom(stored)
  /\ mSensorAlpha = AlphaFrom(stored)
  /\ mofumofuPatternIndex = 0
  /\ saveRequested = FALSE
  /\ tasCall = NoCall

-----------------------------------------------------------------------------
(* Handlers.  cursor is the line the cursor is on once it has moved,       *)
(* pressed the directions that went down since the previous call.          *)

\* mutant: the last line's test is off by one
WrapPastEnd(i, lines) ==
  IF i < 0 THEN lines - 1 ELSE IF i > lines THEN 0 ELSE i

Wrap(i, lines) ==
  IF i < 0 THEN lines - 1 ELSE IF i >= lines THEN 0 ELSE i

One(b) == IF b THEN 1 ELSE 0

\* The line the cursor moves to on the current page.
Moved(pressed) ==
  Wrap(mCursorIndex - One("Up" \in pressed) + One("Down" \in pressed),
       LineCount(mCurPage))

StayOn(cursor) ==
  /\ mCursorIndex' = cursor
  /\ UNCHANGED <<mCurPage, pageCursor>>

setCurPage(page, cursor) ==
  /\ pageCursor' = [pageCursor EXCEPT ![mCurPage] = cursor]
  /\ mCurPage' = page
  /\ mCursorIndex' = pageCursor'[page]

\* PageOptions assigns mCurPage itself: the cursor keeps its line number.
assignCurPage(page, cursor) ==
  /\ mCurPage' = page
  /\ mCursorIndex' = cursor
  /\ UNCHANGED pageCursor

MainTarget == <<"Options", "Info", "TAS", "About", "Debug">>

PageMain(cursor, pressed) ==
  /\ mCurPage = "Main"
  /\ IF "Right" \in pressed
       THEN /\ setCurPage(MainTarget[cursor + 1], cursor)
            /\ tasCall' = IF cursor = 2 THEN Call("updateDir") ELSE NoCall
       ELSE StayOn(cursor) /\ tasCall' = NoCall
  /\ UNCHANGED <<settingVars, mofumofuPatternIndex, saveVars>>

\* mutant: the wrap compares with the number of patterns
NextPatternLate(i) == IF i = PatternCount THEN 0 ELSE i + 1

NextPattern(i) == IF i = PatternCount - 1 THEN 0 ELSE i + 1

PageOptions(cursor, pressed) ==
  /\ mCurPage = "Options"
  /\ IF "Right" \in pressed /\ cursor \in {0, 4}
       THEN assignCurPage(IF cursor = 0 THEN "HitSensor" ELSE "Main", cursor)
       ELSE StayOn(cursor)
  /\ mofumofuPatternIndex' =
       IF "Right" \in pressed /\ cursor = 3
         THEN NextPattern(mofumofuPatternIndex)
         ELSE mofumofuPatternIndex
  /\ tasCall' = NoCall
  /\ UNCHANGED <<settingVars, saveVars>>

\* mutant: the upper bound is not clamped
ClampBelow(a) == IF a < 0 THEN 0 ELSE a

Clamp(a) == IF a < 0 THEN 0 ELSE IF a > AlphaMax THEN AlphaMax ELSE a

\* The options after a press of Left or Right on line cursor.
HitSensorOptions(cursor, pressed) ==
  /\ isShow' = [l \in ShowLines |-> IF l = cursor THEN ~isShow[l] ELSE isShow[l]]
  /\ mSensorAlpha' =
       IF cursor = 10
         THEN Clamp(mSensorAlpha - One("Left" \in pressed)
                                 + One("Right" \in pressed))
         ELSE mSensorAlpha

\* mutant: only the way back to the options saves
LeaveHitSensorUnsaved(cursor) ==
  /\ setCurPage(IF cursor = 12 THEN "Options" ELSE "Main", cursor)
  /\ saveRequested' = (saveRequested \/ cursor = 12)

LeaveHitSensor(cursor) ==
  /\ setCurPage(IF cursor = 12 THEN "Options" ELSE "Main", cursor)
  /\ saveRequested' = TRUE

PageHitSensor(cursor, pressed) ==
  /\ mCurPage = "HitSensor"
  /\ IF pressed \cap {"Left", "Right"} # {}
       THEN HitSensorOptions(cursor, pressed)
       ELSE UNCHANGED settingVars
  /\ IF "Right" \in pressed /\ cursor \in {12, 13}
       THEN LeaveHitSensor(cursor)
       ELSE StayOn(cursor) /\ UNCHANGED saveRequested
  /\ tasCall' = NoCall
  /\ UNCHANGED <<mofumofuPatternIndex, stored>>

PageInfo(cursor, pressed) ==
  /\ mCurPage = "Info"
  /\ IF "Right" \in pressed /\ cursor = 1
       THEN setCurPage("Main", cursor)
       ELSE StayOn(cursor)
  /\ tasCall' = IF "Right" \in pressed /\ cursor = 0
                  THEN Call("tryStartScript") ELSE NoCall
  /\ UNCHANGED <<settingVars, mofumofuPatternIndex, saveVars>>

\* mutant: the entries are counted from the line above
TASPageCallLineAbove(cursor, entryCount) ==
  CASE cursor = 0 -> Call("tryStartScript")
    [] cursor = 1 -> Call("endScript")
    [] cursor >= 2 /\ cursor - 2 < entryCount -> Select(cursor - 2)
    [] OTHER -> NoCall

\* The TAS page tests its fixed lines, then every listed entry.
TASPageCall(cursor, entryCount) ==
  CASE cursor = 0 -> Call("tryStartScript")
    [] cursor = 1 -> Call("endScript")
    [] cursor = 2 -> Call("updateDir")
    [] cursor >= 3 /\ cursor - 3 < entryCount -> Select(cursor - 3)
    [] OTHER -> NoCall

PageTAS(cursor, pressed, entryCount) ==
  /\ mCurPage = "TAS"
  /\ IF "Right" \in pressed /\ cursor = 16
       THEN setCurPage("Main", cursor)
       ELSE StayOn(cursor)
  /\ tasCall' = IF "Right" \in pressed THEN TASPageCall(cursor, entryCount)
                ELSE NoCall
  /\ UNCHANGED <<settingVars, mofumofuPatternIndex, saveVars>>

\* PageAbout and PageDebug have one line, which leads back.
PageReturnOnly(cursor, pressed) ==
  /\ mCurPage \in {"About", "Debug"}
  /\ IF "Right" \in pressed /\ cursor = 0
       THEN setCurPage("Main", cursor)
       ELSE StayOn(cursor)
  /\ tasCall' = NoCall
  /\ UNCHANGED <<settingVars, mofumofuPatternIndex, saveVars>>

HandlePage(cursor, pressed, entryCount) ==
  \/ PageMain(cursor, pressed)
  \/ PageOptions(cursor, pressed)
  \/ PageHitSensor(cursor, pressed)
  \/ PageInfo(cursor, pressed)
  \/ PageTAS(cursor, pressed, entryCount)
  \/ PageReturnOnly(cursor, pressed)

\* mutant: every direction that is held counts
PressedWhileHeld(held) == held

\* mCurPadInputs: the directions that are held and were not.
Pressed(held) == held \ mPrevPadInputs

\* A disabled menu only follows the pad.
IgnoreInput ==
  /\ ~isHandleInputs
  /\ tasCall' = NoCall
  /\ UNCHANGED <<cursorVars, settingVars, mofumofuPatternIndex, saveVars>>

HandleInput(held, stick, entryCount) ==
  /\ mPrevPadInputs' = held
  /\ isHandleInputs' = IF stick THEN ~isHandleInputs ELSE isHandleInputs
  /\ \/ /\ isHandleInputs
        /\ HandlePage(Moved(Pressed(held)), Pressed(held), entryCount)
     \/ IgnoreInput

\* The game writes its configuration data, with DataWriteHook's keys.  A
\* write that was not asked for (an autosave) is the same action.
DataWrite ==
  /\ stored' = Written
  /\ saveRequested' = FALSE
  /\ UNCHANGED <<cursorVars, padVars, settingVars, mofumofuPatternIndex,
                 tasCall>>

\* Power off, or a crash, and a new boot; a write not yet made is lost.
Restart ==
  /\ mCurPage' = "Main"
  /\ mCursorIndex' = 0
  /\ pageCursor' = [p \in Pages |-> 0]
  /\ isHandleInputs' = TRUE
  /\ mPrevPadInputs' = {}
  /\ isShow' = ShowFrom(stored)
  /\ mSensorAlpha' = AlphaFrom(stored)
  /\ mofumofuPatternIndex' = 0
  /\ saveRequested' = FALSE
  /\ tasCall' = NoCall
  /\ UNCHANGED stored

AnyInput ==
  \E held \in PadStates, stick \in StickStates, n \in EntryCounts :
    HandleInput(held, stick, n)

Next == AnyInput \/ DataWrite \/ Restart

Spec == Init /\ [][Next]_vars

-----------------------------------------------------------------------------
(* Properties *)

Calls == [op : CallOps, entry : Nat]

TypeOK ==
  /\ mCurPage \in Pages
  /\ mCursorIndex \in Int
  /\ pageCursor \in [Pages -> Int]
  /\ isHandleInputs \in BOOLEAN
  /\ mPrevPadInputs \in SUBSET Dirs
  /\ isShow \in [ShowLines -> BOOLEAN]
  /\ mSensorAlpha \in 0..AlphaMax
  /\ mofumofuPatternIndex \in 0..(PatternCount - 1)
  /\ stored \in SaveFiles
  /\ saveRequested \in BOOLEAN
  /\ tasCall \in Calls

\* Menu::draw indexes the cursor positions of the current page with
\* mCursorIndex: the cursor, and every cursor a page will hand back to it,
\* is one of the page's lines.  PageOptions changes the page without
\* changing the cursor, so this rests on the line counts of three pages.
CursorOnPage == mCursorIndex \in 0..(LineCount(mCurPage) - 1)
SavedCursorsOnPages == \A p \in Pages : pageCursor[p] \in 0..(LineCount(p) - 1)
CursorsInRange == CursorOnPage /\ SavedCursorsOnPages

\* Whatever the player does, an option that differs from the save file is
\* either still being edited on the HitSensor page or about to be written:
\* no way off that page forgets startSaveDataWriteSync.
SettingsStored ==
  /\ isShow = stored.isShow
  /\ mSensorAlpha = stored.mSensorAlpha
UnsavedOnlyWhileEditing ==
  SettingsStored \/ mCurPage = "HitSensor" \/ saveRequested

\* A press acts once: a call of handleInput that sees no new direction moves
\* nothing and starts nothing, also when the menu was hidden in between.
NothingActs ==
  /\ UNCHANGED <<cursorVars, settingVars, mofumofuPatternIndex, saveRequested>>
  /\ tasCall' = NoCall
NoRepeatWhileHeld ==
  [][AnyInput /\ mPrevPadInputs' \subseteq mPrevPadInputs => NothingActs]_vars

\* The script the TAS page loads is the one drawn on the cursor's row:
\* PageTAS::init, handleInput and draw number the entries independently.
\* The page has lines for thirteen entries.
FirstEntryRow == 7
EntryLines == 13
LoadedEntryUnderCursor ==
  tasCall.op = "select" /\ tasCall.entry < EntryLines =>
    /\ mCurPage = "TAS"
    /\ TASRows[mCursorIndex + 1] = FirstEntryRow + tasCall.entry

\* "Return to Main" on the TAS page returns to Main and does nothing else.
ReturnToMainOnlyReturns ==
  [][mCurPage = "TAS" /\ mCurPage' = "Main" => tasCall' = NoCall]_vars
=============================================================================
