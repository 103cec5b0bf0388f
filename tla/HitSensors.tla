----------------------------- MODULE HitSensors ----------------------------
(***************************************************************************)
(* Drawing the hit sensors (program/main.cpp): once per frame the hook on  *)
(* the drawing of the sequence goes through the actors of the scene and    *)
(* through the sensors of each, finds the colour and the transparency of a *)
(* sensor by what it is and by the menu's options, and draws it.           *)
(*                                                                         *)
(* A behaviour is one frame: nothing is kept from one to the next.         *)
(***************************************************************************)
EXTENDS Integers, Sequences

CONSTANTS
  Frames,      \* what the game has to draw: sets of scenes with their actors
  OptionSets,  \* the options as the menu may have them
  Alphas       \* mSensorAlpha, in steps of 0.05

\* What the SDK's predicates, or its name, say of a sensor.
Kinds ==
  {"Attack", "Eye", "Trample", "Npc", "Bindable", "EnemyBody", "MapObj",
   "PlayerAll", "HoldObj"}

Options == {"Sensors", "Trans", "Other"} \cup (Kinds \ {"Trample"})

Sensor == [isValid : BOOLEAN, kinds : SUBSET Kinds]

Null == [null |-> TRUE]

Actor == [mDead : BOOLEAN, mClipped : BOOLEAN, mDrawClipped : BOOLEAN,
          mPoseKeeper : BOOLEAN, mSensors : Seq(Sensor \cup {Null})]

Frame == [curScene : BOOLEAN, destroys : BOOLEAN, mLiveActorKit : BOOLEAN,
          mLiveActorGroup2 : BOOLEAN, mActors : Seq(Actor \cup {Null})]

ASSUME HitSensorsAssumption ==
  /\ Frames \subseteq Frame
  /\ OptionSets \subseteq [Options -> BOOLEAN]
  /\ Alphas \subseteq 0..20

VARIABLES
  frame,         \* the scene and its actors
  isShow,        \* the menu's options
  mSensorAlpha,
  phase,         \* which of the two loops runs
  i, j,          \* their indices
  begun,         \* between the renderer's begin and end
  drawn          \* what was drawn, with its opacity

vars == <<frame, isShow, mSensorAlpha, phase, i, j, begun, drawn>>

Init ==
  /\ frame \in Frames /\ isShow \in OptionSets /\ mSensorAlpha \in Alphas
  /\ phase = "scene" /\ i = 1 /\ j = 1
  /\ begun = FALSE
  /\ drawn = {}

-----------------------------------------------------------------------------
(* One sensor *)

Order ==
  <<"Attack", "Eye", "Trample", "Npc", "Bindable", "EnemyBody", "MapObj",
    "PlayerAll", "HoldObj">>

\* The branch that takes a sensor: the first of its kinds, in the code's order.
Branch(kinds) ==
  IF kinds = {} THEN "Other"
  ELSE Order[CHOOSE n \in DOMAIN Order :
               /\ Order[n] \in kinds
               /\ \A m \in 1..(n - 1) : Order[m] \notin kinds]

\* mutant: an option that is off keeps what the branch has set
OpacityKept(branch) ==
  CASE branch = "Eye"     -> IF isShow["Eye"] THEN 18 ELSE 0
    [] branch = "Trample" -> 0
    [] branch = "Other"   -> 1
    [] OTHER              -> IF isShow[branch] THEN mSensorAlpha ELSE 0

\* c.a: the same for all of the menu's sensors but eyes and unnamed ones.
Opacity(branch) ==
  CASE branch = "Eye"     -> IF isShow["Eye"] THEN 18 ELSE 0
    [] branch = "Trample" -> 0
    [] branch = "Other"   -> IF isShow["Other"] THEN 1 ELSE 0
    [] OTHER              -> IF isShow[branch] THEN mSensorAlpha ELSE 0

Drawing(n, m, opacity) == [actor |-> n, sensor |-> m, opacity |-> opacity]

-----------------------------------------------------------------------------
(* The loops *)

Actors == frame.mActors
Sensors == Actors[i].mSensors

\* The conditions before the loop over the actors.
SceneDrawn ==
  frame.curScene /\ ~frame.destroys /\ frame.mLiveActorKit /\ frame.mLiveActorGroup2

StartScene ==
  /\ phase = "scene"
  /\ phase' = IF SceneDrawn THEN "actors" ELSE "done"
  /\ UNCHANGED <<frame, isShow, mSensorAlpha, i, j, begun, drawn>>

ActorDrawn(actor) ==
  actor # Null /\ ~actor.mDead /\ (~actor.mClipped \/ actor.mDrawClipped)

SkipActor ==
  /\ phase = "actors" /\ i <= Len(Actors) /\ ~ActorDrawn(Actors[i])
  /\ i' = i + 1
  /\ UNCHANGED <<frame, isShow, mSensorAlpha, phase, j, begun, drawn>>

\* drawHitSensors as far as its loop; without isShowSensors it draws nothing.
BeginActor ==
  /\ phase = "actors" /\ i <= Len(Actors) /\ ActorDrawn(Actors[i])
  /\ IF isShow["Sensors"]
       THEN /\ phase' = "sensors" /\ j' = 1 /\ begun' = TRUE
            /\ drawn' = IF Actors[i].mPoseKeeper /\ isShow["Trans"]
                          THEN drawn \cup {Drawing(i, 0, 20)}
                          ELSE drawn
            /\ UNCHANGED i
       ELSE i' = i + 1 /\ UNCHANGED <<phase, j, begun, drawn>>
  /\ UNCHANGED <<frame, isShow, mSensorAlpha>>

SensorDrawn(sensor) == sensor # Null /\ sensor.isValid

\* mutant: the renderer is not ended on the way out of an eye's branch
NextActorBegun == phase' = "actors" /\ i' = i + 1 /\ UNCHANGED begun

\* The renderer's end, behind drawHitSensors.
NextActor == phase' = "actors" /\ i' = i + 1 /\ begun' = FALSE

\* mutant: the loop ends at the first sensor that is not drawn
SkipSensorEnds ==
  /\ phase = "sensors" /\ j <= Len(Sensors) /\ ~SensorDrawn(Sensors[j])
  /\ NextActor
  /\ UNCHANGED <<frame, isShow, mSensorAlpha, j, drawn>>

SkipSensor ==
  /\ phase = "sensors" /\ j <= Len(Sensors) /\ ~SensorDrawn(Sensors[j])
  /\ j' = j + 1
  /\ UNCHANGED <<frame, isShow, mSensorAlpha, phase, i, begun, drawn>>

\* Having drawn an eye, drawHitSensors returns.
AfterDrawing(branch) ==
  IF branch = "Eye" THEN NextActor /\ UNCHANGED j
                    ELSE j' = j + 1 /\ UNCHANGED <<phase, i, begun>>

DrawSensor ==
  /\ phase = "sensors" /\ j <= Len(Sensors) /\ SensorDrawn(Sensors[j])
  /\ LET branch == Branch(Sensors[j].kinds)
     IN  /\ drawn' = drawn \cup {Drawing(i, j, Opacity(branch))}
         /\ AfterDrawing(branch)
  /\ UNCHANGED <<frame, isShow, mSensorAlpha>>

EndActor ==
  /\ phase = "sensors" /\ j > Len(Sensors)
  /\ NextActor
  /\ UNCHANGED <<frame, isShow, mSensorAlpha, j, drawn>>

EndScene ==
  /\ phase = "actors" /\ i > Len(Actors)
  /\ phase' = "done"
  /\ UNCHANGED <<frame, isShow, mSensorAlpha, i, j, begun, drawn>>

Next ==
  \/ StartScene \/ SkipActor \/ BeginActor
  \/ SkipSensor \/ DrawSensor \/ EndActor \/ EndScene

Spec == Init /\ [][Next]_vars

-----------------------------------------------------------------------------
(* Properties *)

\* The variables keep their types, and the renderer is begun once for each
\* actor and ended whichever way drawHitSensors returns.
TypeOK ==
  /\ frame \in Frames /\ isShow \in OptionSets /\ mSensorAlpha \in Alphas
  /\ phase \in {"scene", "actors", "sensors", "done"}
  /\ i \in 1..(Len(Actors) + 1) /\ j \in Nat
  /\ begun \in BOOLEAN /\ begun = (phase = "sensors")
  /\ phase = "sensors" => i <= Len(Actors) /\ ActorDrawn(Actors[i])
  /\ phase = "sensors" => j \in 1..(Len(Sensors) + 1)
  /\ drawn \subseteq [actor : 1..Len(Actors), sensor : Nat, opacity : 0..20]

\* Who sees a sensor has asked for it: the sensors are shown, and the option
\* of one of the kinds it is of is on, or it is of none and those are shown.
Asked(d) ==
  /\ isShow["Sensors"]
  /\ d.sensor = 0 => isShow["Trans"]
  /\ d.sensor > 0 =>
       LET kinds == Actors[d.actor].mSensors[d.sensor].kinds
       IN  \/ \E kind \in kinds \ {"Trample"} : isShow[kind]
           \/ kinds = {} /\ isShow["Other"]

VisibleIsAsked == \A d \in drawn : d.opacity > 0 => Asked(d)

Valid(n, m) == SensorDrawn(Actors[n].mSensors[m])

BranchOf(n, m) == Branch(Actors[n].mSensors[m].kinds)

SensorsOf(n) ==
  {Drawing(n, m, Opacity(BranchOf(n, m))) : m \in {k \in DOMAIN Actors[n].mSensors : Valid(n, k)}}

PoseOf(n) ==
  IF Actors[n].mPoseKeeper /\ isShow["Trans"] THEN {Drawing(n, 0, 20)} ELSE {}

\* What is promised of actor n: its position and all its sensors, each as the
\* options of the menu say.
Promised(n) ==
  IF ActorDrawn(Actors[n]) /\ isShow["Sensors"] THEN PoseOf(n) \cup SensorsOf(n) ELSE {}

ScenePromised == IF SceneDrawn THEN UNION {Promised(n) : n \in DOMAIN Actors} ELSE {}

Visible(drawings) == {d \in drawings : d.opacity > 0}

\* "Ability to show all HitSensors of actors in the scene, with tons of
\* toggleable options" (README.md:7): what is visible at the end of a frame is
\* what the options ask for.  The return behind an eye (main.cpp:95) breaks it.
FrameAsPromised == phase = "done" => Visible(drawn) = Visible(ScenePromised)

\* Sensor m of actor n has an eye of the same actor before it.
BehindEye(n, m) == \E k \in 1..(m - 1) : Valid(n, k) /\ BranchOf(n, k) = "Eye"

\* The return out of the loop over an actor's sensors hides no more than the
\* rest of that actor: what a frame lacks is behind an eye of its own actor, no
\* actor, eye or sensor that is passed over hides a sensor of another actor or
\* one before it, and nothing is drawn besides what is promised, in a scene
\* that is being destroyed nothing at all.
EyesHideOnlyTheirOwn ==
  phase = "done" =>
    /\ drawn \subseteq ScenePromised
    /\ \A d \in ScenePromised \ drawn : BehindEye(d.actor, d.sensor)
=============================================================================
