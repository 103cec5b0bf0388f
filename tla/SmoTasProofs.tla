---------------------------- MODULE SmoTasProofs ----------------------------
(***************************************************************************)
(* Proofs about the mod in the game: what is proved of the menu and of the *)
(* player alone holds where the hook on the scene's movement composes them *)
(* and scenes come and go, and the scene the player refers to is the one   *)
(* the game moves.                                                         *)
(***************************************************************************)
EXTENDS SmoTas, TASProofs

\* The menu with its proofs.  The hook hands it whatever mEntryCount holds.
MI == INSTANCE MenuProofs WITH EntryCounts <- Int

-----------------------------------------------------------------------------
(* The menu that is composed is the one the proofs are about *)

LEMMA MenuAssumptions ==
  /\ ShowLines \subseteq MI!AllShowLines
  /\ AlphaMax \in Nat /\ AlphaInit \in 0..AlphaMax
  /\ PatternCount \in Nat \ {0}
  /\ PadStates \subseteq SUBSET MI!Dirs /\ StickStates \subseteq BOOLEAN
BY MenuAssumption DEF M!AllShowLines, MI!AllShowLines, M!Dirs, MI!Dirs

LEMMA SameInit == M!Init <=> MI!Init
BY DEF M!Init, MI!Init, M!SaveFiles, MI!SaveFiles, M!NoKeys, MI!NoKeys,
       M!Pages, MI!Pages, M!ShowFrom, MI!ShowFrom, M!AlphaFrom, MI!AlphaFrom,
       M!NoCall, MI!NoCall

LEMMA SameTypes == M!TypeOK <=> MI!TypeOK
BY DEF M!TypeOK, MI!TypeOK, M!Pages, MI!Pages, M!Dirs, MI!Dirs,
       M!SaveFiles, MI!SaveFiles, M!NoKeys, MI!NoKeys, M!Calls, MI!Calls,
       M!CallOps, MI!CallOps

LEMMA SameWrite == M!DataWrite <=> MI!DataWrite
BY DEF M!DataWrite, MI!DataWrite, M!Written, MI!Written,
       M!cursorVars, MI!cursorVars, M!padVars, MI!padVars,
       M!settingVars, MI!settingVars

LEMMA SameRestart == M!Restart <=> MI!Restart
BY DEF M!Restart, MI!Restart, M!ShowFrom, MI!ShowFrom, M!AlphaFrom, MI!AlphaFrom,
       M!Pages, MI!Pages, M!NoCall, MI!NoCall

LEMMA SameInput ==
  \A held, stick, n : M!HandleInput(held, stick, n) <=> MI!HandleInput(held, stick, n)
BY DEF M!HandleInput, MI!HandleInput, M!HandlePage, MI!HandlePage,
  M!Pressed, MI!Pressed, M!Moved, MI!Moved, M!LineCount, MI!LineCount,
  M!Pages, MI!Pages, M!Rows, MI!Rows, M!MainRows, MI!MainRows,
  M!OptionsRows, MI!OptionsRows, M!HitSensorRows, MI!HitSensorRows,
  M!InfoRows, MI!InfoRows, M!TASRows, MI!TASRows, M!AboutRows, MI!AboutRows,
  M!DebugRows, MI!DebugRows, M!One, MI!One, M!Wrap, MI!Wrap,
  M!IgnoreInput, MI!IgnoreInput, M!PageMain, MI!PageMain,
  M!PageOptions, MI!PageOptions, M!PageHitSensor, MI!PageHitSensor,
  M!PageInfo, MI!PageInfo, M!PageTAS, MI!PageTAS,
  M!PageReturnOnly, MI!PageReturnOnly, M!cursorVars, MI!cursorVars,
  M!settingVars, MI!settingVars, M!saveVars, MI!saveVars, M!StayOn, MI!StayOn,
  M!setCurPage, MI!setCurPage, M!assignCurPage, MI!assignCurPage,
  M!MainTarget, MI!MainTarget, M!NextPattern, MI!NextPattern, M!Clamp, MI!Clamp,
  M!HitSensorOptions, MI!HitSensorOptions, M!LeaveHitSensor, MI!LeaveHitSensor,
  M!NoCall, MI!NoCall, M!Call, MI!Call, M!Select, MI!Select,
  M!TASPageCall, MI!TASPageCall

\* Every step of the game is a step of the menu, or leaves it alone.
LEMMA MenuStep == TypeOK /\ [SmoNext]_allVars => [MI!Next]_(MI!vars)
<1> SUFFICES ASSUME TypeOK, [SmoNext]_allVars
             PROVE  MI!Next \/ UNCHANGED menuVars
  BY DEF menuVars, MI!vars, MI!cursorVars, MI!padVars, MI!settingVars, MI!saveVars
<1>1. CASE HandleInput
  <2>1. PICK held \in PadStates, stick \in StickStates :
          M!HandleInput(held, stick, mEntryCount)
    BY <1>1 DEF HandleInput
  <2>2. MI!HandleInput(held, stick, mEntryCount) /\ mEntryCount \in Int
    BY <2>1, SameInput DEF TypeOK
  <2>3. QED
    BY <2>2 DEF MI!Next, MI!AnyInput
<1>2. CASE SetSceneAndUpdate \/ NewScene \/ EndScene \/ UNCHANGED allVars
  BY <1>2 DEF SetSceneAndUpdate, NewScene, EndScene, allVars
<1>3. CASE SaveOptions
  BY <1>3, SameWrite DEF SaveOptions, MI!Next
<1>4. CASE PowerCycle
  BY <1>4, SameRestart DEF PowerCycle, MI!Next
<1>5. QED
  BY <1>1, <1>2, <1>3, <1>4 DEF SmoNext

LEMMA MenuKept == TypeOK /\ MI!IInv /\ [SmoNext]_allVars => MI!IInv'
BY MenuStep, MI!NextIInv, MenuAssumptions

-----------------------------------------------------------------------------
(* The player that is composed *)

\* A stale scene was read: nothing the player knows is different.
CrashOnly ==
  /\ crashed' = TRUE
  /\ UNCHANGED <<cardVars, dirVars, bufVars, nerveVars, playVars, gameVars>>

\* A call the menu records is one of the calls the player offers it.
LEMMA CallIsMenuCall ==
  ASSUME MI!TypeOK', TypeOK, CarryOut(tasCall')
  PROVE  MenuCall \/ UNCHANGED vars
<1>1. ASSUME NEW i, tasCall'.entry = i, SelectEntry(i) \/ SelectMissingEntry(i)
      PROVE  MenuCall
  <2>1. i \in Nat
    BY <1>1 DEF MI!TypeOK, MI!Calls
  <2>2. i \in 0..(mEntryCount - 1)
    BY <1>1, <2>1 DEF SelectEntry, SelectMissingEntry, TypeOK
  <2>3. QED
    BY <1>1, <2>2 DEF MenuCall
<1>2. QED
  BY <1>1 DEF CarryOut, MenuCall

\* Every step of the game is a step of the player, or the crash a stale scene
\* may bring.
LEMMA PlayerStep ==
  TypeOK /\ MI!TypeOK' /\ [SmoNext]_allVars => [Next]_vars \/ CrashOnly
<1> SUFFICES ASSUME TypeOK, MI!TypeOK', [SmoNext]_allVars
             PROVE  Next \/ UNCHANGED vars \/ CrashOnly
  OBVIOUS
<1>1. CASE HandleInput
  <2>1. ~crashed
    BY <1>1 DEF HandleInput
  <2>2. CASE CarryOut(tasCall')
    BY <2>1, <2>2, CallIsMenuCall DEF Next
  <2>3. CASE \E held : ReadsStaleScene(held)
    BY <2>3 DEF ReadsStaleScene, CrashOnly
  <2>4. QED
    BY <1>1, <2>2, <2>3 DEF HandleInput
<1>2. CASE SetSceneAndUpdate
  BY <1>2 DEF SetSceneAndUpdate, Next, Movement
<1>3. CASE NewScene
  <2>1. CASE stageRequested
    BY <1>3, <2>1 DEF NewScene, Next, ChangeStage
  <2>2. CASE ~stageRequested
    BY <1>3, <2>2 DEF NewScene, TypeOK, vars, gameVars
  <2>3. QED
    BY <2>1, <2>2
<1>4. CASE EndScene \/ SaveOptions \/ UNCHANGED allVars
  BY <1>4 DEF EndScene, SaveOptions, allVars
<1>5. CASE PowerCycle
  BY <1>5 DEF PowerCycle, Next
<1>6. QED
  BY <1>1, <1>2, <1>3, <1>4, <1>5 DEF SmoNext

LEMMA CrashKeeps == IInv /\ RunInv /\ CrashOnly => IInv' /\ RunInv'
<1> SUFFICES ASSUME IInv, RunInv, CrashOnly PROVE IInv' /\ RunInv'
  OBVIOUS
<1>1. UNCHANGED <<content, sd, mEntries, mEntryCount, currentScriptEntry, mScriptName,
                  mScript, heapLeft, nerve, step, mFrameIndex, mPrevButtons, pad,
                  teleported, separatePlay, stageRequested>>
      /\ crashed' = TRUE
  BY DEF CrashOnly, cardVars, dirVars, bufVars, nerveVars, playVars, gameVars
<1>2. IInv'
  BY <1>1 DEF IInv, TypeOK, PlaysNamedScript, Running, InsideScript
<1>3. RunInv'
  BY <1>1, LeftAloneRunInv DEF RunLeftAlone, nerveVars, playVars, bufVars
<1>4. QED
  BY <1>2, <1>3

LEMMA PlayerKept ==
  IInv /\ RunInv /\ MI!TypeOK' /\ [SmoNext]_allVars => IInv' /\ RunInv'
<1> SUFFICES ASSUME IInv, RunInv, MI!TypeOK', [SmoNext]_allVars
             PROVE  IInv' /\ RunInv'
  OBVIOUS
<1>1. TypeOK
  BY DEF IInv
<1>2. [Next]_vars \/ CrashOnly
  BY <1>1, PlayerStep
<1>3. QED
  BY <1>2, NextIInv, NextRunInv, CrashKeeps

-----------------------------------------------------------------------------
(* The scene *)

\* In the middle of a movement there is a scene.  Between two movements of the
\* same scene the player refers to it, and before the first movement of all
\* the menu is on the page it starts with.
SceneKnown ==
  /\ scene \in Scenes \cup {NoScene}
  /\ mScene \in Scenes \cup {UnsetScene}
  /\ phase \in {"handleInput", "update"}
  /\ moved \in BOOLEAN
  /\ phase = "update" => scene \in Scenes
  /\ moved => mScene = scene
  /\ phase = "handleInput" /\ mScene = UnsetScene => mCurPage = "Main"

\* The count of the listed files is right from the first listing on.
CountKnown == mEntries # <<>> => mEntryCount = Len(mEntries)

SmoIInv == IInv /\ RunInv /\ MI!IInv /\ SceneKnown /\ CountKnown

LEMMA InitSmoIInv == SmoInit => SmoIInv
<1> SUFFICES ASSUME SmoInit PROVE SmoIInv
  OBVIOUS
<1>1. IInv /\ RunInv
  BY InitIInv, InitRunInv DEF SmoInit
<1>2. MI!IInv
  BY SameInit, MI!InitIInv, MenuAssumptions DEF SmoInit
<1>3. SceneKnown /\ CountKnown
  BY DEF SmoInit, Init, M!Init, SceneKnown, CountKnown
<1>4. QED
  BY <1>1, <1>2, <1>3 DEF SmoIInv

LEMMA SceneKept == SceneKnown /\ [SmoNext]_allVars => SceneKnown'
<1> SUFFICES ASSUME SceneKnown, [SmoNext]_allVars PROVE SceneKnown'
  OBVIOUS
<1> USE DEF SceneKnown
<1>1. CASE HandleInput
  BY <1>1 DEF HandleInput
<1>2. CASE SetSceneAndUpdate
  BY <1>2, SceneAssumption DEF SetSceneAndUpdate, setScene
<1>3. CASE NewScene
  BY <1>3 DEF NewScene, menuVars
<1>4. CASE EndScene
  BY <1>4 DEF EndScene, menuVars
<1>5. CASE SaveOptions
  BY <1>5 DEF SaveOptions, sceneVars, M!DataWrite, M!cursorVars
<1>6. CASE PowerCycle
  BY <1>6 DEF PowerCycle, M!Restart
<1>7. CASE UNCHANGED allVars
  BY <1>7 DEF allVars, menuVars, sceneVars
<1>8. QED
  BY <1>1, <1>2, <1>3, <1>4, <1>5, <1>6, <1>7 DEF SmoNext

LEMMA CountKept == CountKnown /\ ([Next]_vars \/ CrashOnly) => CountKnown'
<1> SUFFICES ASSUME CountKnown, [Next]_vars \/ CrashOnly PROVE CountKnown'
  OBVIOUS
<1>1. CASE ReadListing
  BY <1>1 DEF ReadListing, CountKnown
<1>2. CASE UNCHANGED dirVars
  BY <1>2 DEF dirVars, CountKnown
<1>3. CASE Restart
  BY <1>3 DEF Restart, CountKnown
<1>4. ReadListing \/ UNCHANGED dirVars \/ Restart
  BY DEF Next, MenuCall, tryStartScript, endScript, updateDir, SelectEntry,
         SelectMissingEntry, tryLoadScript, KeepListing, Movement, UpdateNerve,
         ChangeCard, ChangeStage, SwitchMode, vars, CrashOnly
<1>5. QED
  BY <1>1, <1>2, <1>3, <1>4

LEMMA NextSmoIInv == SmoIInv /\ [SmoNext]_allVars => SmoIInv'
<1> SUFFICES ASSUME SmoIInv, [SmoNext]_allVars PROVE SmoIInv'
  OBVIOUS
<1>1. IInv /\ RunInv /\ MI!IInv /\ SceneKnown /\ CountKnown /\ TypeOK
  BY DEF SmoIInv, IInv
<1>2. MI!IInv' /\ MI!TypeOK'
  BY <1>1, MenuKept DEF MI!IInv
<1>3. IInv' /\ RunInv'
  BY <1>1, <1>2, PlayerKept
<1>4. SceneKnown' /\ CountKnown'
  BY <1>1, <1>2, PlayerStep, SceneKept, CountKept
<1>5. QED
  BY <1>2, <1>3, <1>4 DEF SmoIInv

LEMMA SmoInvariance == SmoSpec => []SmoIInv
BY InitSmoIInv, NextSmoIInv, PTL DEF SmoSpec

\* The menu and the player keep their types when they are composed, and the
\* scene the player refers to is always one the game had.
THEOREM SmoTypes == SmoSpec => []SmoTypeOK
<1>1. SmoIInv => SmoTypeOK
  BY SameTypes DEF SmoIInv, IInv, MI!IInv, SceneKnown, SmoTypeOK
<1>2. QED
  BY <1>1, SmoInvariance, PTL

-----------------------------------------------------------------------------
(* Reading the scene *)

\* A call of the menu brings the game down only before the first listing.
LEMMA CallCrashes ==
  ASSUME TypeOK, TypeOK', MI!TypeOK', CountKnown, mEntries # <<>>,
         CarryOut(tasCall'), ~crashed
  PROVE  ~crashed'
<1>1. mEntryCount = Len(mEntries)
  BY DEF CountKnown
<1>2. ASSUME NEW n, SearchCrashes(n), ReadListing \/ KeepListing PROVE FALSE
  <2>1. mEntryCount' = Len(mEntries')
    BY <1>1, <1>2 DEF ReadListing, KeepListing, dirVars
  <2>2. Len(mEntries') \in Nat
    BY DEF TypeOK
  <2>3. QED
    BY <1>2, <2>1, <2>2 DEF SearchCrashes, SearchFaults
<1>3. ASSUME SelectMissingEntry(tasCall'.entry) PROVE FALSE
  <2>1. tasCall'.entry \in Nat
    BY DEF MI!TypeOK, MI!Calls
  <2>2. QED
    BY <1>1, <1>3, <2>1 DEF SelectMissingEntry, TypeOK
<1>4. CASE tryStartScript
  BY <1>2, <1>4 DEF tryStartScript
<1>5. ASSUME NEW i, SelectEntry(i) PROVE ~crashed'
  BY <1>2, <1>5 DEF SelectEntry, tryLoadScript
<1>6. CASE updateDir \/ endScript \/ UNCHANGED vars
  BY <1>6 DEF updateDir, endScript, vars
<1>7. QED
  BY <1>3, <1>4, <1>5, <1>6 DEF CarryOut

\* From the end of its first movement on, a scene is the one the player refers
\* to, however scenes replaced each other before: only the pad handling of a
\* first movement, or the time before the first listing, can crash.
THEOREM SmoCrashes == SmoSpec => CrashOnlyInFirstMovement
<1>1. SmoIInv /\ SmoIInv' /\ [SmoNext]_allVars
        => [crashed' /\ ~crashed /\ mEntries # <<>> => ~moved]_allVars
  <2> SUFFICES ASSUME SmoIInv, SmoIInv', SmoNext, crashed', ~crashed, mEntries # <<>>
               PROVE  ~moved
    OBVIOUS
  <2>0. TypeOK /\ TypeOK' /\ MI!TypeOK' /\ SceneKnown /\ CountKnown
    BY DEF SmoIInv, IInv, MI!IInv
  <2>1. HandleInput
    <3>1. ~SetSceneAndUpdate
      BY DEF SetSceneAndUpdate, UpdateNerve
    <3>2. ~(NewScene \/ EndScene \/ SaveOptions)
      BY DEF NewScene, EndScene, SaveOptions, vars
    <3>3. ~PowerCycle
      BY DEF PowerCycle, Restart
    <3>4. QED
      BY <3>1, <3>2, <3>3 DEF SmoNext
  <2>2. \E held : ReadsStaleScene(held)
    BY <2>0, <2>1, CallCrashes DEF HandleInput
  <2>3. mScene # scene
    BY <2>2 DEF ReadsStaleScene
  <2>4. QED
    BY <2>0, <2>3 DEF SceneKnown
<1>2. QED
  BY <1>1, SmoInvariance, PTL DEF SmoSpec, CrashOnlyInFirstMovement

\* The pages whose handlers read the scene take a movement to reach, and the
\* first movement of all has set mScene by then.
THEOREM SmoScene == SmoSpec => SceneSetBeforeRead
<1>1. SmoIInv /\ [SmoNext]_allVars
        => [HandleInput /\ (HitSensorReadsScene(mPrevPadInputs') \/ StartReadsScene)
              => mScene # UnsetScene]_allVars
  <2> SUFFICES ASSUME SmoIInv, HandleInput,
                      HitSensorReadsScene(mPrevPadInputs') \/ StartReadsScene,
                      mScene = UnsetScene
               PROVE  FALSE
    OBVIOUS
  <2>1. mCurPage = "Main"
    BY DEF SmoIInv, SceneKnown, HandleInput
  <2>2. PICK held \in PadStates, stick \in StickStates :
          M!HandleInput(held, stick, mEntryCount)
    BY DEF HandleInput
  <2>3. tasCall'.op \in {"none", "updateDir"}
    BY <2>1, <2>2 DEF M!HandleInput, M!HandlePage, M!IgnoreInput, M!PageMain,
       M!PageOptions, M!PageHitSensor, M!PageInfo, M!PageTAS, M!PageReturnOnly,
       M!NoCall, M!Call
  <2>4. QED
    BY <2>1, <2>3 DEF HitSensorReadsScene, StartReadsScene
<1>2. QED
  BY <1>1, SmoInvariance, PTL DEF SmoSpec, SceneSetBeforeRead

-----------------------------------------------------------------------------
(* What the parts promise, in the game *)

\* A run that is under way or queued has its script, also where scenes are
\* replaced and calls of the menu and movements alternate.
THEOREM SmoPlaysNamedScript == SmoSpec => []PlaysNamedScript
<1>1. SmoIInv => PlaysNamedScript
  BY DEF SmoIInv, IInv
<1>2. QED
  BY <1>1, SmoInvariance, PTL

\* Every controller gets what the script that was chosen in the menu gives it,
\* step by step, whatever scene it is played in.
THEOREM SmoPlaysAsPromised == SmoSpec => PlaysAsPromised
<1>1. SmoInit => Promise!Init
  BY InitPromise DEF SmoInit
<1>2. SmoIInv /\ SmoIInv' /\ [SmoNext]_allVars => [Promise!Next]_(Promise!vars)
  <2> SUFFICES ASSUME SmoIInv, SmoIInv', [SmoNext]_allVars
               PROVE  [Promise!Next]_(Promise!vars)
    OBVIOUS
  <2>1. IInv /\ IInv' /\ RunInv /\ TypeOK /\ MI!TypeOK'
    BY DEF SmoIInv, IInv, MI!IInv
  <2>2. CASE CrashOnly
    BY <2>2, Stutters DEF CrashOnly, bufVars, nerveVars, playVars
  <2>3. CASE [Next]_vars
    BY <2>1, <2>3, NextPromised
  <2>4. QED
    BY <2>1, <2>2, <2>3, PlayerStep
<1>3. QED
  BY <1>1, <1>2, SmoInvariance, PTL DEF SmoSpec, PlaysAsPromised, Promise!Spec

\* The hook composes the menu without changing it: what the game, the scenes
\* and the player do is nothing the menu's own specification does not allow,
\* so all that is proved of it holds in the game.
THEOREM SmoMenu == SmoSpec => MI!Spec
<1>1. SmoInit => MI!Init
  BY SameInit DEF SmoInit
<1>2. SmoIInv /\ [SmoNext]_allVars => [MI!Next]_(MI!vars)
  BY MenuStep DEF SmoIInv, IInv
<1>3. QED
  BY <1>1, <1>2, SmoInvariance, PTL DEF SmoSpec, MI!Spec

\* In the game too the cursor stays on its page, the script that is loaded is
\* the one on the cursor's row, no option that was changed is forgotten, and a
\* press acts once.
THEOREM SmoMenuKeeps ==
  SmoSpec => /\ [](/\ MI!CursorsInRange
                   /\ MI!LoadedEntryUnderCursor
                   /\ MI!UnsavedOnlyWhileEditing)
             /\ MI!NoRepeatWhileHeld
<1>1. /\ MI!Spec => []MI!CursorsInRange
      /\ MI!Spec => []MI!LoadedEntryUnderCursor
      /\ MI!Spec => []MI!UnsavedOnlyWhileEditing
      /\ MI!Spec => MI!NoRepeatWhileHeld
  BY MenuAssumptions, MI!MenuCursors, MI!MenuLoadsEntryUnderCursor, MI!MenuSaves,
     MI!MenuPresses
<1>2. QED
  BY <1>1, SmoMenu, PTL

\* Also where the new scene comes before the run, a run begins in the mode its
\* script is written for.
THEOREM SmoStartsInScriptMode == SmoSpec => StartsInScriptMode
<1>1. SmoIInv /\ SmoIInv' /\ [SmoNext]_allVars
        => [Running' /\ ~Running => separatePlay' = mScript'.isTwoPlayer]_vars
  <2> SUFFICES ASSUME SmoIInv, SmoIInv', [SmoNext]_allVars, Running', ~Running
               PROVE  separatePlay' = mScript'.isTwoPlayer
    OBVIOUS
  <2>1. [Next]_vars \/ CrashOnly
    BY PlayerStep DEF SmoIInv, IInv, MI!IInv
  <2>2. CASE CrashOnly \/ UNCHANGED vars
    BY <2>2 DEF CrashOnly, vars, nerveVars, Running
  <2>3. CASE Next
    BY <2>3, NextStartsInMode
  <2>4. QED
    BY <2>1, <2>2, <2>3
<1>2. QED
  BY <1>1, SmoInvariance, PTL DEF SmoSpec, StartsInScriptMode
=============================================================================
