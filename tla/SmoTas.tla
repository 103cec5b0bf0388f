------------------------------- MODULE SmoTas -------------------------------
(***************************************************************************)
(* The mod in the game (program/main.cpp): the hook on al::Scene::movement *)
(* lets the menu handle the pad, hands the scene to the player, and lets   *)
(* the player's nerve run, once per frame of a scene; the game creates and *)
(* destroys scenes in between.  Menu and TAS are composed here: the call a *)
(* page handler records in tasCall is carried out by TAS in the same step. *)
(*                                                                         *)
(* A movement is two steps, HandleInput and then SetSceneAndUpdate: the    *)
(* first still sees the scene of the movement before.                      *)
(***************************************************************************)
EXTENDS TAS

CONSTANTS
  ShowLines, AlphaMax, AlphaInit, PatternCount, PadStates, StickStates,
  Scenes,       \* scene objects
  NoScene,      \* HakoniwaSequence has no scene
  UnsetScene    \* mScene before the first setScene

ASSUME SceneAssumption == NoScene \notin Scenes /\ UnsetScene \notin Scenes

VARIABLES
  mCurPage, mCursorIndex, pageCursor, isHandleInputs, mPrevPadInputs, isShow,
  mSensorAlpha, mofumofuPatternIndex, stored, saveRequested, tasCall,
  scene,        \* the scene the game moves, or NoScene
  mScene,       \* TAS::mScene
  phase,        \* the part of the movement hook that runs next
  moved         \* the scene has completed a movement

M == INSTANCE Menu WITH EntryCounts <- {}

ASSUME MenuAssumption ==
  /\ ShowLines \subseteq M!AllShowLines
  /\ AlphaMax \in Nat /\ AlphaInit \in 0..AlphaMax
  /\ PatternCount \in Nat \ {0}
  /\ PadStates \subseteq SUBSET M!Dirs
  /\ StickStates \subseteq BOOLEAN

menuVars  == <<mCurPage, mCursorIndex, pageCursor, isHandleInputs,
               mPrevPadInputs, isShow, mSensorAlpha, mofumofuPatternIndex,
               stored, saveRequested, tasCall>>
sceneVars == <<scene, mScene, phase, moved>>
allVars   == <<vars, menuVars, sceneVars>>

SmoInit ==
  /\ Init
  /\ M!Init
  /\ scene = NoScene
  /\ mScene = UnsetScene
  /\ phase = "handleInput"
  /\ moved = FALSE

-----------------------------------------------------------------------------
(* The movement hook *)

\* TAS carries out the call the page handler made.
CarryOut(call) ==
  \/ call.op = "none" /\ UNCHANGED vars
  \/ call.op = "updateDir" /\ updateDir
  \/ call.op = "tryStartScript" /\ tryStartScript
  \/ call.op = "endScript" /\ endScript
  \/ call.op = "select" /\ (SelectEntry(call.entry) \/ SelectMissingEntry(call.entry))

\* The handler reads *mScene: the HitSensor page on every Left or Right ...
HitSensorReadsScene(held) ==
  /\ isHandleInputs
  /\ mCurPage = "HitSensor"
  /\ M!Pressed(held) \cap {"Left", "Right"} # {}

\* ... and startScript, once the current script is loaded.
StartReadsScene ==
  /\ tasCall'.op = "tryStartScript"
  /\ currentScriptEntry \in sd
  /\ content[currentScriptEntry] \in Scripts
  /\ heapLeft > 0

\* A scene that is gone, or none, is read: whatever lies there now may bring
\* the game down.
ReadsStaleScene(held) ==
  /\ HitSensorReadsScene(held) \/ StartReadsScene
  /\ mScene # scene
  /\ crashed' = TRUE
  /\ UNCHANGED <<cardVars, dirVars, bufVars, nerveVars, playVars, gameVars>>

HandleInput ==
  /\ phase = "handleInput"
  /\ scene # NoScene
  /\ ~crashed
  /\ \E held \in PadStates, stick \in StickStates :
       /\ M!HandleInput(held, stick, mEntryCount)
       /\ CarryOut(tasCall') \/ ReadsStaleScene(held)
  /\ phase' = "update"
  /\ UNCHANGED <<scene, mScene, moved>>

\* mutant: the scene is handed over once
setSceneOnce == mScene' = IF mScene = UnsetScene THEN scene ELSE mScene

setScene == mScene' = scene

\* mutant: the player updates without being handed the scene
SetSceneAndUpdateOnly ==
  /\ phase = "update"
  /\ ~crashed
  /\ UpdateNerve
  /\ phase' = "handleInput"
  /\ moved' = TRUE
  /\ UNCHANGED <<menuVars, scene, mScene>>

SetSceneAndUpdate ==
  /\ phase = "update"
  /\ ~crashed
  /\ setScene
  /\ UpdateNerve
  /\ phase' = "handleInput"
  /\ moved' = TRUE
  /\ UNCHANGED <<menuVars, scene>>

-----------------------------------------------------------------------------
(* The game around it *)

\* HakoniwaSequence replaces its scene, entering the stage that was asked
\* for if one was.
NewScene ==
  /\ phase = "handleInput"
  /\ ~crashed
  /\ scene' \in Scenes \ {scene}
  /\ moved' = FALSE
  /\ stageRequested' = FALSE
  /\ UNCHANGED <<menuVars, mScene, phase, separatePlay, crashed>>
  /\ UNCHANGED <<cardVars, dirVars, bufVars, nerveVars, playVars>>

EndScene ==
  /\ phase = "handleInput"
  /\ ~crashed
  /\ scene' = NoScene
  /\ moved' = FALSE
  /\ UNCHANGED <<vars, menuVars, mScene, phase>>

SaveOptions ==
  /\ ~crashed
  /\ M!DataWrite
  /\ UNCHANGED <<vars, sceneVars>>

PowerCycle ==
  /\ Restart
  /\ M!Restart
  /\ scene' = NoScene
  /\ mScene' = UnsetScene
  /\ phase' = "handleInput"
  /\ moved' = FALSE

SmoNext ==
  \/ HandleInput
  \/ SetSceneAndUpdate
  \/ NewScene
  \/ EndScene
  \/ SaveOptions
  \/ PowerCycle

SmoSpec == SmoInit /\ [][SmoNext]_allVars

-----------------------------------------------------------------------------
(* Properties *)

SmoTypeOK ==
  /\ TypeOK
  /\ M!TypeOK
  /\ scene \in Scenes \cup {NoScene}
  /\ mScene \in Scenes \cup {UnsetScene}
  /\ phase \in {"handleInput", "update"}
  /\ moved \in BOOLEAN

\* From the end of its first movement on, a scene is the one TAS refers to:
\* once the script directory has been listed, only the pad handling of a
\* scene's very first movement can still crash, on the scene before.
CrashOnlyInFirstMovement ==
  [][crashed' /\ ~crashed /\ mEntries # <<>> => ~moved]_allVars

\* mScene is uninitialised at first, but no page whose handler reads it can
\* be reached before a movement has set it.
SceneSetBeforeRead ==
  [][HandleInput /\ (HitSensorReadsScene(mPrevPadInputs') \/ StartReadsScene)
       => mScene # UnsetScene]_allVars
=============================================================================
