-------------------------------- MODULE TAS --------------------------------
(***************************************************************************)
(* The script player (smo-tas/TAS.cpp): the listing of the script          *)
(* directory, loading a script into the sequence heap, starting and ending *)
(* it, and playing it through a nerve state machine, one step per          *)
(* movement of the scene.                                                  *)
(*                                                                         *)
(* All functions run on the game's main thread.  tryStartScript,           *)
(* tryLoadScript, endScript and updateDir are called by the menu;          *)
(* UpdateNerve is called once per scene movement.  Every call on the SD    *)
(* card may fail.                                                          *)
(***************************************************************************)
EXTENDS TasScript, FiniteSets

CONSTANTS
  Names,          \* the file names that may be in sd:/scripts
  NoName,         \* a name no file has: "", or an entry never assigned
  NoScript,       \* mScript before the first load, or after a failed one
  Contents,       \* what a file may hold: scripts and NotAScript
  HeapBlocks,     \* script buffers that fit in the sequence heap
  GarbageCounts,  \* what mEntryCount may hold before it is assigned
  CardMayChange   \* files come and go while the game runs

ASSUME NamesAssumption ==
  /\ IsFiniteSet(Names)
  /\ NoName \notin Names
ASSUME ContentsAssumption ==
  /\ Contents \subseteq Scripts \cup {NotAScript}
  /\ NoScript \notin Scripts
ASSUME HeapAssumption == HeapBlocks \in Nat
ASSUME GarbageAssumption == GarbageCounts \subseteq Int
ASSUME CardAssumption == CardMayChange \in BOOLEAN

VARIABLES
  content,             \* what each file holds when it is on the card
  sd,                  \* the names of the files on the card
  mEntries,            \* TAS::mEntries, <<>> for nullptr
  mEntryCount,
  currentScriptEntry,  \* its m_Name
  mScriptName,
  mScript,             \* what the script buffer holds
  heapLeft,            \* script buffers the sequence heap still has room for
  nerve,               \* the nerve that will execute next
  step,                \* its step, kept for Update only
  mFrameIndex,
  mPrevButtons,
  pad,                 \* the controllers at the end of the last movement
  teleported,          \* the last movement moved the player to the start
  separatePlay,        \* the game is in two-player mode
  stageRequested,      \* changeNextStage was called
  crashed

cardVars  == <<content, sd>>
dirVars   == <<mEntries, mEntryCount>>
bufVars   == <<currentScriptEntry, mScriptName, mScript, heapLeft>>
nerveVars == <<nerve, step>>
playVars  == <<mFrameIndex, mPrevButtons, pad, teleported>>
gameVars  == <<separatePlay, stageRequested>>
vars == <<cardVars, dirVars, bufVars, nerveVars, playVars, gameVars, crashed>>

Nerves == {"Wait", "WaitUpdate", "Update"}

HardwarePads == [p \in Players |-> HardwarePad]

Init ==
  /\ content \in [Names -> Contents]
  /\ sd \in SUBSET Names
  /\ mEntries = <<>>
  /\ mEntryCount \in GarbageCounts
  /\ currentScriptEntry = NoName
  /\ mScriptName = NoName
  /\ mScript = NoScript
  /\ heapLeft = HeapBlocks
  /\ nerve = "Wait"
  /\ step = 0
  /\ mFrameIndex = 0
  /\ mPrevButtons = [p \in Players |-> {}]
  /\ pad = HardwarePads
  /\ teleported = FALSE
  /\ separatePlay = FALSE
  /\ stageRequested = FALSE
  /\ crashed = FALSE

-----------------------------------------------------------------------------
(* The directory *)

Listed(entries) == {entries[i] : i \in 1..Len(entries)}

\* The orders in which ReadDirectory may list the files.
Listings ==
  {l \in [1..Cardinality(sd) -> sd] : \A n \in sd : \E i \in DOMAIN l : l[i] = n}

\* updateDir as a part of other functions: it keeps the old listing when the
\* directory cannot be opened, counted or read.
ReadListing ==
  /\ mEntries' \in Listings
  /\ mEntryCount' = Len(mEntries')
KeepListing == UNCHANGED dirVars

updateDir ==
  /\ ReadListing \/ KeepListing
  /\ UNCHANGED <<cardVars, bufVars, nerveVars, playVars, gameVars, crashed>>

-----------------------------------------------------------------------------
(* Loading and starting *)

\* al::setNerve: the nerve executes from its step 0 in the next update.
SetNerve(n) == nerve' = n /\ step' = 0

\* operator delete(ptr, heap) is the placement form, which frees nothing:
\* the buffer stays where it is and mScript keeps pointing to it.
FreeScript == UNCHANGED <<mScript, heapLeft>>

endScript ==
  /\ SetNerve("Wait")
  /\ FreeScript
  /\ UNCHANGED <<cardVars, dirVars, currentScriptEntry, mScriptName, playVars,
                 gameVars, crashed>>

\* refreshCurrentScriptEntry for name n.
Found(n) == n \in Listed(mEntries')

\* The search runs over mEntryCount entries: before the first listing there
\* are none behind mEntries, whatever mEntryCount happens to hold.
SearchFaults == mEntryCount' > Len(mEntries')

OpenFails(n) ==
  /\ mScriptName' = n
  /\ FreeScript

\* The heap is full: ReadFile gets no buffer, and fails.
AllocFails(n) ==
  /\ n \in sd
  /\ heapLeft = 0
  /\ mScriptName' = NoName
  /\ mScript' = NoScript
  /\ UNCHANGED heapLeft

\* mutant: the buffer is taken from a full heap too
AllocateAlways == heapLeft' = heapLeft - 1

Allocate ==
  /\ heapLeft > 0
  /\ heapLeft' = heapLeft - 1

ReadFails(n) ==
  /\ n \in sd
  /\ Allocate
  /\ mScriptName' = NoName
  /\ mScript' = NoScript

WrongMagic(n) ==
  /\ n \in sd
  /\ content[n] = NotAScript
  /\ Allocate
  /\ mScriptName' = NoName
  /\ mScript' = NotAScript

Loads(n) ==
  /\ n \in sd
  /\ content[n] # NotAScript
  /\ Allocate
  /\ mScriptName' = n
  /\ mScript' = content[n]

\* tryLoadScript with current entry n, but for the nerve: endScript at its
\* start, and again when the read or the magic is wrong, sets Wait.
LoadFails(n) ==
  /\ currentScriptEntry' = n
  /\ ~SearchFaults
  /\ \/ ~Found(n) /\ FreeScript /\ UNCHANGED mScriptName
     \/ Found(n) /\ (OpenFails(n) \/ AllocFails(n) \/ ReadFails(n) \/ WrongMagic(n))
LoadSucceeds(n) ==
  /\ currentScriptEntry' = n
  /\ ~SearchFaults
  /\ Found(n) /\ Loads(n)

\* The null mEntries is read.
SearchCrashes(n) ==
  /\ currentScriptEntry' = n
  /\ SearchFaults
  /\ crashed' = TRUE
  /\ SetNerve("Wait")
  /\ UNCHANGED <<mScriptName, mScript, heapLeft, gameVars>>

\* mutant: no endScript at the start, so that a failed open leaves the nerve
tryLoadScriptInRun(n) ==
  /\ ReadListing \/ KeepListing
  /\ \/ /\ currentScriptEntry' = n
        /\ ~SearchFaults
        /\ Found(n) /\ OpenFails(n)
        /\ UNCHANGED <<nerveVars, gameVars, crashed>>
     \/ /\ LoadFails(n) \/ LoadSucceeds(n)
        /\ SetNerve("Wait")
        /\ UNCHANGED <<gameVars, crashed>>
     \/ SearchCrashes(n)
  /\ UNCHANGED <<cardVars, playVars>>

tryLoadScript(n) ==
  /\ ReadListing \/ KeepListing
  /\ \/ /\ LoadFails(n) \/ LoadSucceeds(n)
        /\ SetNerve("Wait")
        /\ UNCHANGED <<gameVars, crashed>>
     \/ SearchCrashes(n)
  /\ UNCHANGED <<cardVars, playVars>>

\* startScript.  Connecting the controllers for the other mode may fail:
\* then nothing is started.
ConnectFails(s) ==
  /\ s.isTwoPlayer # separatePlay
  /\ SetNerve("Wait")
  /\ UNCHANGED gameVars

\* mutant: the mode is only switched on for two players, never off
StartsWithoutSingle(s) ==
  /\ separatePlay' = (separatePlay \/ s.isTwoPlayer)
  /\ stageRequested' = (stageRequested \/ s.changesStage)
  /\ SetNerve(IF s.isTwoPlayer # separatePlay \/ s.changesStage
                THEN "WaitUpdate" ELSE "Update")

Starts(s) ==
  /\ separatePlay' = s.isTwoPlayer
  /\ stageRequested' = (stageRequested \/ s.changesStage)
  /\ SetNerve(IF s.isTwoPlayer # separatePlay \/ s.changesStage
                THEN "WaitUpdate" ELSE "Update")

startScript(s) == ConnectFails(s) \/ Starts(s)

tryStartScript ==
  /\ ReadListing \/ KeepListing
  /\ \/ /\ LoadFails(currentScriptEntry)
        /\ SetNerve("Wait")
        /\ UNCHANGED <<gameVars, crashed>>
     \/ /\ LoadSucceeds(currentScriptEntry)
        /\ startScript(mScript')
        /\ UNCHANGED crashed
     \/ SearchCrashes(currentScriptEntry)
  /\ UNCHANGED <<cardVars, playVars>>

\* A line of the TAS page: currentScriptEntry = mEntries[i]; tryLoadScript().
SelectEntry(i) ==
  /\ i < mEntryCount
  /\ i < Len(mEntries)
  /\ tryLoadScript(mEntries[i + 1])

SelectMissingEntry(i) ==
  /\ i < mEntryCount
  /\ i >= Len(mEntries)
  /\ crashed' = TRUE
  /\ UNCHANGED <<cardVars, dirVars, bufVars, nerveVars, playVars, gameVars>>

-----------------------------------------------------------------------------
(* Playing *)

\* The line before which the loop of exeUpdate stops in step t: the first of
\* the lines left whose mStep is not yet due, or the end of the script.
LastDue(s, from, t) ==
  LastOf({k \in from..mFrameCount(s) :
            \A j \in (from + 1)..k : s.mFrames[j].mStep <= t})

\* The lines of player p among those the loop applies.
AppliedLines(s, p, from, to) ==
  {i \in (from + 1)..to : s.mFrames[i].secondPlayer = p}

ButtonsOf(s, lines, default) ==
  IF lines = {} THEN default ELSE s.mFrames[LastOf(lines)].mButtons

\* Player p's controller after the loop: its lines are applied in turn, each
\* against the buttons of the one before; without a line, the empty frame.
AppliedPad(s, p, lines, prev) ==
  LET i == LastOf(lines)
  IN  IF lines = {} THEN NeutralPad
      ELSE Pad(i, s.mFrames[i].mButtons,
               ButtonsOf(s, {j \in lines : j < i}, prev))

\* mutant: a run goes on where the one before was left
FirstIndexKept == mFrameIndex

\* Where a run stands when exeUpdate enters its loop: the first step resets
\* mFrameIndex and mPrevButtons.
FirstIndex   == IF step = 0 THEN 0 ELSE mFrameIndex
FirstButtons == IF step = 0 THEN [p \in Players |-> {}] ELSE mPrevButtons

Teleports(playerExists) ==
  step = 0 /\ playerExists /\ mScript.hasStartPosition

exeUpdate(playerExists) ==
  LET to       == LastDue(mScript, FirstIndex, step)
      lines(p) == AppliedLines(mScript, p, FirstIndex, to)
  IN  /\ teleported' = Teleports(playerExists)
      /\ mFrameIndex' = to
      /\ pad' = [p \in Players |->
                   AppliedPad(mScript, p, lines(p), FirstButtons[p])]
      /\ mPrevButtons' = [p \in Players |-> ButtonsOf(mScript, lines(p), {})]
      /\ IF to >= mFrameCount(mScript)
           THEN SetNerve("Wait")
           ELSE nerve' = nerve /\ step' = step + 1
      /\ FreeScript

\* Neither handler touches the controllers.
LeavePads ==
  /\ pad' = HardwarePads
  /\ teleported' = FALSE
  /\ UNCHANGED <<mFrameIndex, mPrevButtons>>

exeWait == LeavePads /\ UNCHANGED <<nerveVars, mScript, heapLeft>>

\* mutant: the nerve waits for itself
exeWaitUpdateAgain ==
  LeavePads /\ SetNerve("WaitUpdate") /\ UNCHANGED <<mScript, heapLeft>>

exeWaitUpdate ==
  LeavePads /\ SetNerve("Update") /\ UNCHANGED <<mScript, heapLeft>>

\* NerveExecutor::updateNerve, once per movement of the scene.
UpdateNerve ==
  /\ \/ nerve = "Wait" /\ exeWait
     \/ nerve = "WaitUpdate" /\ exeWaitUpdate
     \/ nerve = "Update" /\ \E playerExists \in BOOLEAN : exeUpdate(playerExists)
  /\ UNCHANGED <<cardVars, dirVars, currentScriptEntry, mScriptName, gameVars,
                 crashed>>

-----------------------------------------------------------------------------
(* The environment *)

\* Files appear on the card and disappear from it.
ChangeCard ==
  /\ CardMayChange
  /\ sd' \in SUBSET Names
  /\ UNCHANGED <<content, dirVars, bufVars, nerveVars, playVars, gameVars,
                 crashed>>

\* The game enters the stage that was asked for.
ChangeStage ==
  /\ stageRequested
  /\ stageRequested' = FALSE
  /\ UNCHANGED <<cardVars, dirVars, bufVars, nerveVars, playVars, separatePlay,
                 crashed>>

\* The players switch between one- and two-player mode in the game's menu.
SwitchMode ==
  /\ separatePlay' = ~separatePlay
  /\ UNCHANGED <<cardVars, dirVars, bufVars, nerveVars, playVars,
                 stageRequested, crashed>>

\* The console is switched off and on; the card keeps its files.
Restart ==
  /\ mEntries' = <<>>
  /\ mEntryCount' \in GarbageCounts
  /\ currentScriptEntry' = NoName
  /\ mScriptName' = NoName
  /\ mScript' = NoScript
  /\ heapLeft' = HeapBlocks
  /\ SetNerve("Wait")
  /\ mFrameIndex' = 0
  /\ mPrevButtons' = [p \in Players |-> {}]
  /\ pad' = HardwarePads
  /\ teleported' = FALSE
  /\ separatePlay' = FALSE
  /\ stageRequested' = FALSE
  /\ crashed' = FALSE
  /\ UNCHANGED cardVars

-----------------------------------------------------------------------------

MenuCall ==
  \/ tryStartScript
  \/ endScript
  \/ updateDir
  \/ \E i \in 0..(mEntryCount - 1) : SelectEntry(i) \/ SelectMissingEntry(i)

Movement == ~crashed /\ UpdateNerve

Next ==
  \/ ~crashed /\ MenuCall
  \/ Movement
  \/ ~crashed /\ (ChangeCard \/ ChangeStage \/ SwitchMode)
  \/ Restart

Spec == Init /\ [][Next]_vars

\* While a scene is on, the game moves it every frame.
FairSpec == Spec /\ WF_vars(Movement)

-----------------------------------------------------------------------------
(* Properties *)

TypeOK ==
  /\ content \in [Names -> Contents]
  /\ sd \in SUBSET Names
  /\ mEntries \in Seq(Names)
  /\ mEntryCount \in Int
  /\ currentScriptEntry \in Names \cup {NoName}
  /\ mScriptName \in Names \cup {NoName}
  /\ mScript \in Contents \cup {NoScript, NotAScript}
  /\ heapLeft \in 0..HeapBlocks
  /\ nerve \in Nerves
  /\ step \in Nat
  /\ mFrameIndex \in Nat
  /\ mPrevButtons \in [Players -> SUBSET Buttons]
  /\ pad \in [Players -> PadType]
  /\ teleported \in BOOLEAN
  /\ separatePlay \in BOOLEAN
  /\ stageRequested \in BOOLEAN
  /\ crashed \in BOOLEAN

Running == nerve \in {"WaitUpdate", "Update"}

\* exeUpdate, and the menu pages while isRunning(), read *mScript without
\* looking: whenever a run is under way or queued, mScript holds a script,
\* and it is the one mScriptName shows.  Loads that fail, a full heap, a new
\* selection and a restart in mid-run must all leave it so.
PlaysNamedScript ==
  Running => /\ mScript \in Scripts
             /\ mScriptName \in Names
             /\ mScript = content[mScriptName]

\* A run begins in the mode its script is written for.
StartsInScriptMode ==
  [][Running' /\ ~Running => separatePlay' = mScript'.isTwoPlayer]_vars

\* mFrameIndex, mPrevButtons and the nerve's step play a script as Playback
\* says, whatever the run before left in them and however often the menu
\* loads, starts and ends scripts in between.
Promise == INSTANCE Playback WITH
  mode   <- CASE nerve = "Wait" -> "idle"
              [] nerve = "WaitUpdate" -> "queued"
              [] nerve = "Update" -> "playing",
  script <- IF Running THEN mScript ELSE NoScript,
  at     <- IF nerve = "Update" THEN step ELSE 0,
  pad    <- [p \in Players |-> [line |-> pad[p].line, hold |-> pad[p].hold,
                                trig |-> pad[p].trig]]
PlaysAsPromised == Promise!Spec

\* A run ends of itself, and a queued run begins: unless scripts are started
\* over and over, the player is idle again and again.
RunEnds == []<>(~Running) \/ []<><<tryStartScript>>_vars
=============================================================================
