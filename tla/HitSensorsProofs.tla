-------------------------- MODULE HitSensorsProofs -------------------------
(***************************************************************************)
(* What a frame shows, for every number of actors and sensors and however  *)
(* the options are set.                                                    *)
(***************************************************************************)
EXTENDS HitSensors, TLAPS

\* What is drawn of actor n: of its sensors those that no eye is before.
SensorsShown(n) ==
  {Drawing(n, m, Opacity(BranchOf(n, m))) :
     m \in {k \in DOMAIN Actors[n].mSensors : Valid(n, k) /\ ~BehindEye(n, k)}}

Shown(n) ==
  IF ActorDrawn(Actors[n]) /\ isShow["Sensors"] THEN PoseOf(n) \cup SensorsShown(n) ELSE {}

FrameShown ==
  phase = "done" =>
    drawn = IF SceneDrawn THEN UNION {Shown(n) : n \in DOMAIN Actors} ELSE {}

\* What the loop over the actors has drawn when it comes to actor n.
Before(n) == UNION {Shown(k) : k \in 1..(n - 1)}

\* What the loop over the sensors of actor n has drawn when it comes to m.
SensorsBefore(n, m) ==
  {Drawing(n, k, Opacity(BranchOf(n, k))) :
     k \in {l \in 1..(m - 1) : Valid(n, l) /\ ~BehindEye(n, l)}}

LoopsOK ==
  /\ phase = "scene" => i = 1 /\ drawn = {}
  /\ phase \in {"actors", "sensors"} => SceneDrawn
  /\ phase = "actors" => drawn = Before(i)
  /\ phase = "sensors" =>
       /\ isShow["Sensors"]
       /\ drawn = Before(i) \cup PoseOf(i) \cup SensorsBefore(i, j)
       /\ ~BehindEye(i, j)

IInv == TypeOK /\ VisibleIsAsked /\ LoopsOK /\ FrameShown

\* The branch that takes a sensor is the one of a kind it is of, or the last.
LEMMA BranchIsKind ==
  ASSUME NEW kinds \in SUBSET Kinds
  PROVE  /\ kinds = {} => Branch(kinds) = "Other"
         /\ kinds # {} => Branch(kinds) \in kinds
PROOF
  <1>1. CASE kinds = {}
    BY <1>1 DEF Branch
  <1>2. CASE kinds # {}
    <2> DEFINE First(n) == /\ Order[n] \in kinds
                           /\ \A m \in 1..(n - 1) : Order[m] \notin kinds
    <2>1. DOMAIN Order = 1..9
      BY DEF Order
    <2>2. \E n \in 1..9 : First(n)
      <3>1. \/ Order[1] \in kinds \/ Order[2] \in kinds \/ Order[3] \in kinds
            \/ Order[4] \in kinds \/ Order[5] \in kinds \/ Order[6] \in kinds
            \/ Order[7] \in kinds \/ Order[8] \in kinds \/ Order[9] \in kinds
        BY <1>2 DEF Order, Kinds
      <3>2. /\ 1..(1 - 1) = {} /\ 1..(2 - 1) = {1} /\ 1..(3 - 1) = 1..2 /\ 1..(4 - 1) = 1..3
            /\ 1..(5 - 1) = 1..4 /\ 1..(6 - 1) = 1..5 /\ 1..(7 - 1) = 1..6
            /\ 1..(8 - 1) = 1..7 /\ 1..(9 - 1) = 1..8
        OBVIOUS
      <3> HIDE DEF First
      <3>3. \A n \in 1..9 : First(n) \/ Order[n] \notin kinds \/ \E m \in 1..(n - 1) : Order[m] \in kinds
        BY DEF First
      <3>4. ASSUME \A n \in 1..9 : ~First(n)
            PROVE  FALSE
        <4>1. Order[1] \notin kinds
          BY <3>2, <3>3, <3>4
        <4>2. Order[2] \notin kinds
          BY <3>2, <3>3, <3>4, <4>1
        <4>3. Order[3] \notin kinds
          BY <3>2, <3>3, <3>4, <4>1, <4>2
        <4>4. Order[4] \notin kinds
          BY <3>2, <3>3, <3>4, <4>1, <4>2, <4>3
        <4>5. Order[5] \notin kinds
          BY <3>2, <3>3, <3>4, <4>1, <4>2, <4>3, <4>4
        <4>6. Order[6] \notin kinds
          BY <3>2, <3>3, <3>4, <4>1, <4>2, <4>3, <4>4, <4>5
        <4>7. Order[7] \notin kinds
          BY <3>2, <3>3, <3>4, <4>1, <4>2, <4>3, <4>4, <4>5, <4>6
        <4>8. Order[8] \notin kinds
          BY <3>2, <3>3, <3>4, <4>1, <4>2, <4>3, <4>4, <4>5, <4>6, <4>7
        <4>9. Order[9] \notin kinds
          BY <3>2, <3>3, <3>4, <4>1, <4>2, <4>3, <4>4, <4>5, <4>6, <4>7, <4>8
        <4> QED  BY <3>1, <4>1, <4>2, <4>3, <4>4, <4>5, <4>6, <4>7, <4>8, <4>9
      <3> QED  BY <3>4
    <2>3. Branch(kinds) = Order[CHOOSE n \in 1..9 : First(n)]
      BY <1>2, <2>1 DEF Branch
    <2>4. First(CHOOSE n \in 1..9 : First(n))
      BY <2>2
    <2> QED  BY <1>2, <2>3, <2>4
  <1> QED  BY <1>1, <1>2

\* What is known of the scene.
LEMMA FrameTypes ==
  ASSUME TypeOK
  PROVE  /\ frame \in Frame /\ Actors \in Seq(Actor \cup {Null}) /\ Len(Actors) \in Nat
         /\ isShow \in [Options -> BOOLEAN] /\ mSensorAlpha \in 0..20
         /\ \A n \in 1..Len(Actors) : ActorDrawn(Actors[n]) =>
              /\ Actors[n] \in Actor
              /\ Actors[n].mSensors \in Seq(Sensor \cup {Null})
              /\ Len(Actors[n].mSensors) \in Nat
              /\ \A m \in 1..Len(Actors[n].mSensors) :
                   Valid(n, m) => Actors[n].mSensors[m].kinds \in SUBSET Kinds
PROOF
  <1>1. frame \in Frame /\ isShow \in [Options -> BOOLEAN] /\ mSensorAlpha \in 0..20
    BY HitSensorsAssumption DEF TypeOK
  <1>2. Actors \in Seq(Actor \cup {Null}) /\ Len(Actors) \in Nat
    BY <1>1 DEF Frame, Actors
  <1>3. ASSUME NEW n \in 1..Len(Actors), ActorDrawn(Actors[n])
        PROVE  /\ Actors[n] \in Actor
               /\ Actors[n].mSensors \in Seq(Sensor \cup {Null})
               /\ Len(Actors[n].mSensors) \in Nat
               /\ \A m \in 1..Len(Actors[n].mSensors) :
                    Valid(n, m) => Actors[n].mSensors[m].kinds \in SUBSET Kinds
    <2>1. Actors[n] \in Actor
      BY <1>2, <1>3 DEF ActorDrawn
    <2>2. Actors[n].mSensors \in Seq(Sensor \cup {Null}) /\ Len(Actors[n].mSensors) \in Nat
      BY <2>1 DEF Actor
    <2>3. ASSUME NEW m \in 1..Len(Actors[n].mSensors), Valid(n, m)
          PROVE  Actors[n].mSensors[m].kinds \in SUBSET Kinds
      <3>1. Actors[n].mSensors[m] \in Sensor
        BY <2>2, <2>3 DEF Valid, SensorDrawn
      <3> QED  BY <3>1 DEF Sensor
    <2> QED  BY <2>1, <2>2, <2>3
  <1> QED  BY <1>1, <1>2, <1>3

\* The opacity of a branch, and what a visible sensor says of the options.
LEMMA OpacityAsked ==
  ASSUME TypeOK, NEW kinds \in SUBSET Kinds
  PROVE  /\ Opacity(Branch(kinds)) \in 0..20
         /\ Opacity(Branch(kinds)) > 0 =>
              \/ \E kind \in kinds \ {"Trample"} : isShow[kind]
              \/ kinds = {} /\ isShow["Other"]
PROOF
  <1>1. mSensorAlpha \in 0..20
    BY FrameTypes
  <1>2. PICK b : b = Branch(kinds)
    OBVIOUS
  <1>3. (kinds = {} /\ b = "Other") \/ (b \in kinds /\ b \in Kinds)
    BY <1>2, BranchIsKind
  <1>4. b \in Kinds => b # "Other"
    BY DEF Kinds
  <1>5. Opacity(b) \in 0..20
    BY <1>1 DEF Opacity
  <1>6. Opacity(b) > 0 => /\ b # "Trample"
                          /\ isShow[b]
    BY DEF Opacity
  <1> QED  BY <1>2, <1>3, <1>4, <1>5, <1>6

\* One actor more.
LEMMA BeforeNext ==
  ASSUME NEW n \in Nat, n > 0
  PROVE  Before(n + 1) = Before(n) \cup Shown(n)
PROOF
  <1>1. 1..(n + 1 - 1) = 1..(n - 1) \cup {n}
    OBVIOUS
  <1> QED  BY <1>1 DEF Before

\* One sensor more: it is drawn if no eye was before it.
LEMMA SensorsNext ==
  ASSUME NEW n, NEW m \in Nat, m > 0, ~BehindEye(n, m)
  PROVE  /\ Valid(n, m) => SensorsBefore(n, m + 1) =
              SensorsBefore(n, m) \cup {Drawing(n, m, Opacity(BranchOf(n, m)))}
         /\ ~Valid(n, m) => SensorsBefore(n, m + 1) = SensorsBefore(n, m)
         /\ ~(Valid(n, m) /\ BranchOf(n, m) = "Eye") => ~BehindEye(n, m + 1)
PROOF
  <1>1. 1..(m + 1 - 1) = 1..(m - 1) \cup {m}
    OBVIOUS
  <1>2. {l \in 1..(m + 1 - 1) : Valid(n, l) /\ ~BehindEye(n, l)}
          = {l \in 1..(m - 1) : Valid(n, l) /\ ~BehindEye(n, l)} \cup (IF Valid(n, m) THEN {m} ELSE {})
    BY <1>1
  <1>3. ~(Valid(n, m) /\ BranchOf(n, m) = "Eye") => ~BehindEye(n, m + 1)
    BY <1>1 DEF BehindEye
  <1>4. CASE Valid(n, m)
    BY <1>2, <1>3, <1>4 DEF SensorsBefore
  <1>5. CASE ~Valid(n, m)
    BY <1>2, <1>3, <1>5 DEF SensorsBefore
  <1> QED  BY <1>4, <1>5

\* The sensors of an actor are done when none is left, or when the last one
\* that was drawn is an eye.
LEMMA SensorsDone ==
  ASSUME NEW n, Actors[n].mSensors \in Seq(Sensor \cup {Null}), NEW m \in Nat, m > 0,
         m - 1 <= Len(Actors[n].mSensors),
         m = Len(Actors[n].mSensors) + 1 \/ BehindEye(n, m)
  PROVE  SensorsBefore(n, m) = SensorsShown(n)
PROOF
  <1>1. /\ DOMAIN Actors[n].mSensors = 1..Len(Actors[n].mSensors)
        /\ Len(Actors[n].mSensors) \in Nat
    OBVIOUS
  <1>2. ASSUME NEW l \in 1..Len(Actors[n].mSensors), ~BehindEye(n, l)
        PROVE  l \in 1..(m - 1)
    <2>1. CASE l > m - 1 /\ BehindEye(n, m)
      <3>1. 1..(m - 1) \subseteq 1..(l - 1)
        BY <1>1, <2>1
      <3>2. BehindEye(n, l)
        BY <2>1, <3>1 DEF BehindEye
      <3> QED  BY <1>2, <3>2
    <2> QED  BY <1>1, <2>1
  <1>3. 1..(m - 1) \subseteq 1..Len(Actors[n].mSensors)
    BY <1>1
  <1>4. {l \in 1..(m - 1) : Valid(n, l) /\ ~BehindEye(n, l)}
          = {l \in DOMAIN Actors[n].mSensors : Valid(n, l) /\ ~BehindEye(n, l)}
    BY <1>1, <1>2, <1>3
  <1> QED  BY <1>4 DEF SensorsBefore, SensorsShown

\* What a frame will show does not change while it is drawn.
LEMMA ShownStands ==
  ASSUME UNCHANGED <<frame, isShow, mSensorAlpha>>, NEW n, NEW m
  PROVE  /\ Before(n)' = Before(n) /\ PoseOf(n)' = PoseOf(n) /\ Shown(n)' = Shown(n)
         /\ SensorsBefore(n, m)' = SensorsBefore(n, m)
         /\ BehindEye(n, m)' = BehindEye(n, m)
PROOF
  BY DEF Before, Shown, PoseOf, SensorsShown, SensorsBefore, BehindEye, BranchOf, Valid,
         Opacity, Actors

\* The same where the loops are after a step.
LEMMA ShownAtNext ==
  ASSUME UNCHANGED <<frame, isShow, mSensorAlpha>>, NEW n, NEW m, i' = n, j' = m
  PROVE  /\ Before(i)' = Before(n) /\ PoseOf(i)' = PoseOf(n)
         /\ SensorsBefore(i, j)' = SensorsBefore(n, m)
         /\ BehindEye(i, j)' = BehindEye(n, m)
PROOF
  <1>1. Before(n)' = Before(n) /\ PoseOf(n)' = PoseOf(n)
    BY ShownStands
  <1>2. SensorsBefore(n, m)' = SensorsBefore(n, m) /\ BehindEye(n, m)' = BehindEye(n, m)
    BY ShownStands
  <1> QED  BY <1>1, <1>2

\* A sensor is drawn as the menu asks for.
LEMMA SensorAsked ==
  ASSUME TypeOK, phase = "sensors", isShow["Sensors"], j <= Len(Sensors), Valid(i, j)
  PROVE  /\ Drawing(i, j, Opacity(BranchOf(i, j)))
              \in [actor : 1..Len(Actors), sensor : Nat, opacity : 0..20]
         /\ Opacity(BranchOf(i, j)) > 0 => Asked(Drawing(i, j, Opacity(BranchOf(i, j))))
PROOF
  <1>1. i \in 1..Len(Actors) /\ ActorDrawn(Actors[i]) /\ j \in 1..Len(Sensors) /\ j \in Nat
    <2>1. Len(Actors) \in Nat
      BY FrameTypes
    <2>2. Len(Actors[i].mSensors) \in Nat /\ i \in 1..Len(Actors)
      BY <2>1, FrameTypes DEF TypeOK
    <2> QED  BY <2>1, <2>2 DEF TypeOK, Sensors
  <1>2. Actors[i].mSensors[j].kinds \in SUBSET Kinds
    BY <1>1, FrameTypes DEF Sensors
  <1>3. PICK kinds \in SUBSET Kinds : kinds = Actors[i].mSensors[j].kinds
    BY <1>2
  <1>4. PICK o \in 0..20 : o = Opacity(Branch(kinds))
    BY OpacityAsked
  <1>5. o > 0 => \/ \E kind \in kinds \ {"Trample"} : isShow[kind]
                 \/ kinds = {} /\ isShow["Other"]
    BY <1>4, OpacityAsked
  <1>6. Drawing(i, j, o) \in [actor : 1..Len(Actors), sensor : Nat, opacity : 0..20]
    BY <1>1, <1>4 DEF Drawing
  <1>7. o > 0 => Asked(Drawing(i, j, o))
    BY <1>1, <1>3, <1>5 DEF Asked, Drawing
  <1> QED  BY <1>3, <1>4, <1>6, <1>7 DEF BranchOf

LEMMA FrameStarts ==
  Init => IInv
PROOF
  <1> SUFFICES ASSUME Init PROVE IInv
    OBVIOUS
  <1>1. frame \in Frame
    BY HitSensorsAssumption DEF Init
  <1>2. Len(Actors) \in Nat
    BY <1>1 DEF Frame, Actors
  <1>a. begun \in BOOLEAN /\ begun = (phase = "sensors") /\ phase # "sensors"
    BY DEF Init
  <1>b. i \in 1..(Len(Actors) + 1) /\ j \in Nat
    BY <1>2 DEF Init
  <1>3. TypeOK
    BY <1>a, <1>b DEF Init, TypeOK
  <1>4. VisibleIsAsked /\ LoopsOK /\ FrameShown
    BY DEF Init, VisibleIsAsked, LoopsOK, FrameShown
  <1> QED  BY <1>3, <1>4 DEF IInv

\* An actor is done: all is drawn that is drawn of it.
LEMMA ActorDone ==
  ASSUME IInv, NextActor, UNCHANGED <<frame, isShow, mSensorAlpha>>,
         i \in 1..Len(Actors),
         drawn' = Before(i) \cup Shown(i),
         drawn' \subseteq [actor : 1..Len(Actors), sensor : Nat, opacity : 0..20],
         VisibleIsAsked', j' \in Nat, SceneDrawn
  PROVE  IInv'
PROOF
  <1>1. Len(Actors) \in Nat
    BY FrameTypes DEF IInv
  <1>2. i' = i + 1 /\ i + 1 \in 1..(Len(Actors) + 1) /\ phase' = "actors" /\ begun' = FALSE
    BY <1>1 DEF NextActor
  <1>3. drawn' = Before(i + 1)
    BY BeforeNext
  <1>4. Before(i)' = Before(i + 1)
    BY <1>2, ShownAtNext
  <1>5. TypeOK'
    BY <1>2 DEF IInv, TypeOK, Actors
  <1>6. SceneDrawn'
    BY DEF SceneDrawn
  <1>a. LoopsOK'
    BY <1>2, <1>3, <1>4, <1>6 DEF LoopsOK
  <1>7. FrameShown'
    BY <1>2 DEF FrameShown
  <1> QED  BY <1>5, <1>7, <1>a DEF IInv

LEMMA SkipActorKeeps ==
  ASSUME IInv, SkipActor
  PROVE  IInv'
PROOF
  <1>1. Len(Actors) \in Nat /\ i \in 1..Len(Actors) /\ i + 1 \in 1..(Len(Actors) + 1)
    <2>1. Len(Actors) \in Nat /\ i \in 1..(Len(Actors) + 1)
      BY FrameTypes DEF IInv, TypeOK
    <2> QED  BY <2>1 DEF SkipActor
  <1>2. Shown(i) = {}
    BY DEF SkipActor, Shown
  <1>3. drawn' = Before(i + 1)
    <2>1. Before(i + 1) = Before(i) \cup Shown(i)
      BY <1>1, BeforeNext
    <2> QED  BY <1>2, <2>1 DEF IInv, LoopsOK, SkipActor
  <1>4. Before(i)' = Before(i + 1)
    BY ShownAtNext DEF SkipActor
  <1>5. TypeOK'
    BY <1>1 DEF IInv, TypeOK, SkipActor, Actors
  <1>6. VisibleIsAsked'
    BY DEF IInv, SkipActor, VisibleIsAsked, Asked, Actors
  <1>7. LoopsOK' /\ FrameShown'
    BY <1>3, <1>4 DEF IInv, SkipActor, LoopsOK, FrameShown, SceneDrawn
  <1> QED  BY <1>5, <1>6, <1>7 DEF IInv

LEMMA BeginActorKeeps ==
  ASSUME IInv, BeginActor
  PROVE  IInv'
PROOF
  <1>1. Len(Actors) \in Nat /\ i \in 1..Len(Actors) /\ i + 1 \in 1..(Len(Actors) + 1)
    <2>1. Len(Actors) \in Nat /\ i \in 1..(Len(Actors) + 1)
      BY FrameTypes DEF IInv, TypeOK
    <2> QED  BY <2>1 DEF BeginActor
  <1>2. UNCHANGED <<frame, isShow, mSensorAlpha>> /\ SceneDrawn /\ ActorDrawn(Actors[i])
    BY DEF BeginActor, IInv, LoopsOK
  <1>3. CASE isShow["Sensors"]
    <2>1. phase' = "sensors" /\ j' = 1 /\ begun' = TRUE /\ i' = i /\ drawn' = Before(i) \cup PoseOf(i)
      BY <1>3 DEF BeginActor, IInv, LoopsOK, PoseOf
    <2>2. SensorsBefore(i, 1) = {} /\ ~BehindEye(i, 1)
      BY DEF SensorsBefore, BehindEye
    <2>3. /\ Before(i)' = Before(i) /\ PoseOf(i)' = PoseOf(i)
          /\ SensorsBefore(i, j)' = {} /\ ~BehindEye(i, j)'
      BY <1>2, <2>1, <2>2, ShownAtNext
    <2>4. LoopsOK' /\ FrameShown'
      BY <1>2, <1>3, <2>1, <2>3 DEF LoopsOK, FrameShown, SceneDrawn
    <2>5. Drawing(i, 0, 20) \in [actor : 1..Len(Actors), sensor : Nat, opacity : 0..20]
      BY <1>1 DEF Drawing
    <2>6. Len(Sensors) \in Nat
      BY <1>1, <1>2, FrameTypes DEF IInv, Sensors
    <2>7. TypeOK'
      <3>1. drawn' \subseteq [actor : 1..Len(Actors), sensor : Nat, opacity : 0..20]
        BY <1>3, <2>5 DEF BeginActor, IInv, TypeOK
      <3>2. begun' \in BOOLEAN /\ begun' = (phase' = "sensors")
        BY <2>1
      <3>3. 1 \in 1..(Len(Sensors) + 1) /\ Sensors' = Sensors /\ Actors' = Actors
        BY <1>2, <2>1, <2>6 DEF Sensors, Actors
      <3>4. i' \in 1..(Len(Actors) + 1) /\ i' <= Len(Actors) /\ j' \in Nat /\ j' \in 1..(Len(Sensors) + 1)
        BY <1>1, <2>1, <3>3
      <3> QED  BY <1>2, <2>1, <3>1, <3>2, <3>3, <3>4 DEF IInv, TypeOK
    <2>8. VisibleIsAsked'
      <3>1. \A d \in drawn : d.opacity > 0 => Asked(d)'
        BY <1>2 DEF IInv, VisibleIsAsked, Asked, Actors
      <3>2. drawn' # drawn => drawn' = drawn \cup {Drawing(i, 0, 20)} /\ isShow["Trans"]
        BY <1>3 DEF BeginActor
      <3>4. ASSUME NEW d \in drawn', d.opacity > 0
            PROVE  Asked(d)'
        <4>1. CASE d \in drawn
          BY <3>1, <3>4, <4>1
        <4>2. CASE d \notin drawn
          <5>1. d = Drawing(i, 0, 20) /\ isShow["Trans"]
            BY <3>2, <3>4, <4>2
          <5> QED  BY <1>2, <1>3, <5>1 DEF Asked, Drawing
        <4> QED  BY <4>1, <4>2
      <3> QED  BY <3>4 DEF VisibleIsAsked
    <2> QED  BY <2>4, <2>7, <2>8 DEF IInv
  <1>4. CASE ~isShow["Sensors"]
    <2>1. /\ i' = i + 1 /\ phase' = phase /\ j' = j /\ begun' = begun /\ drawn' = drawn
          /\ phase = "actors"
      BY <1>4 DEF BeginActor
    <2>2. Shown(i) = {}
      BY <1>4 DEF Shown
    <2>3. drawn' = Before(i + 1)
      <3>1. Before(i + 1) = Before(i) \cup Shown(i)
        BY <1>1, BeforeNext
      <3> QED  BY <2>1, <2>2, <3>1 DEF IInv, LoopsOK
    <2>4. Before(i)' = Before(i + 1)
      BY <1>2, <2>1, ShownAtNext
    <2>5. TypeOK'
      BY <1>1, <1>2, <2>1 DEF IInv, TypeOK, Actors
    <2>6. VisibleIsAsked'
      BY <1>2, <2>1 DEF IInv, VisibleIsAsked, Asked, Actors
    <2>7. LoopsOK' /\ FrameShown'
      BY <1>2, <2>1, <2>3, <2>4 DEF IInv, LoopsOK, FrameShown, SceneDrawn
    <2> QED  BY <2>5, <2>6, <2>7 DEF IInv
  <1> QED  BY <1>3, <1>4

\* The sensor the inner loop is at, and the drawing of it.
LEMMA InnerTypes ==
  ASSUME IInv, phase = "sensors"
  PROVE  /\ Len(Actors) \in Nat /\ i \in 1..Len(Actors) /\ ActorDrawn(Actors[i])
         /\ Sensors \in Seq(Sensor \cup {Null}) /\ Len(Sensors) \in Nat
         /\ j \in 1..(Len(Sensors) + 1) /\ SceneDrawn /\ isShow["Sensors"]
PROOF
  <1>1. Len(Actors) \in Nat /\ i \in 1..Len(Actors) /\ ActorDrawn(Actors[i])
    <2>1. Len(Actors) \in Nat
      BY FrameTypes DEF IInv
    <2> QED  BY <2>1 DEF IInv, TypeOK
  <1> QED  BY <1>1, FrameTypes DEF IInv, TypeOK, LoopsOK, Sensors

LEMMA SkipSensorKeeps ==
  ASSUME IInv, SkipSensor
  PROVE  IInv'
PROOF
  <1>1. /\ phase = "sensors" /\ j <= Len(Sensors) /\ ~Valid(i, j)
        /\ UNCHANGED <<frame, isShow, mSensorAlpha, phase, i, begun, drawn>> /\ j' = j + 1
    BY DEF SkipSensor, Valid, Sensors
  <1>2. /\ Len(Actors) \in Nat /\ i \in 1..Len(Actors) /\ Len(Sensors) \in Nat
        /\ j \in 1..(Len(Sensors) + 1)
    BY <1>1, InnerTypes
  <1>3. j \in Nat /\ j > 0 /\ j + 1 \in 1..(Len(Sensors) + 1) /\ j + 1 \in Nat
    BY <1>1, <1>2
  <1>4. ~BehindEye(i, j)
    BY <1>1 DEF IInv, LoopsOK
  <1>5. SensorsBefore(i, j + 1) = SensorsBefore(i, j) /\ ~BehindEye(i, j + 1)
    BY <1>1, <1>3, <1>4, SensorsNext
  <1>6. /\ Before(i)' = Before(i) /\ PoseOf(i)' = PoseOf(i)
        /\ SensorsBefore(i, j)' = SensorsBefore(i, j) /\ ~BehindEye(i, j)'
    BY <1>1, <1>5, ShownAtNext
  <1>7. LoopsOK' /\ FrameShown'
    BY <1>1, <1>6 DEF IInv, LoopsOK, FrameShown, SceneDrawn
  <1>8. VisibleIsAsked'
    BY <1>1 DEF IInv, VisibleIsAsked, Asked, Actors
  <1>9. TypeOK'
    BY <1>1, <1>2, <1>3 DEF IInv, TypeOK, Sensors, Actors
  <1> QED  BY <1>7, <1>8, <1>9 DEF IInv

LEMMA DrawSensorKeeps ==
  ASSUME IInv, DrawSensor
  PROVE  IInv'
PROOF
  <1>1. PICK d : d = Drawing(i, j, Opacity(BranchOf(i, j)))
    OBVIOUS
  <1>2. /\ phase = "sensors" /\ j <= Len(Sensors) /\ Valid(i, j)
        /\ UNCHANGED <<frame, isShow, mSensorAlpha>>
        /\ drawn' = drawn \cup {d} /\ AfterDrawing(BranchOf(i, j))
    BY <1>1 DEF DrawSensor, Valid, BranchOf, Sensors
  <1>3. /\ Len(Actors) \in Nat /\ i \in 1..Len(Actors) /\ Len(Sensors) \in Nat
        /\ j \in 1..(Len(Sensors) + 1) /\ SceneDrawn /\ isShow["Sensors"]
        /\ ActorDrawn(Actors[i]) /\ Sensors \in Seq(Sensor \cup {Null})
    BY <1>2, InnerTypes
  <1>4. j \in Nat /\ j > 0 /\ j + 1 \in 1..(Len(Sensors) + 1) /\ j + 1 \in Nat
    BY <1>2, <1>3
  <1>5. ~BehindEye(i, j) /\ drawn = Before(i) \cup PoseOf(i) \cup SensorsBefore(i, j)
    BY <1>2 DEF IInv, LoopsOK
  <1>6. /\ SensorsBefore(i, j + 1) = SensorsBefore(i, j) \cup {d}
        /\ BranchOf(i, j) # "Eye" => ~BehindEye(i, j + 1)
    BY <1>1, <1>2, <1>4, <1>5, SensorsNext
  <1>7. drawn' = Before(i) \cup PoseOf(i) \cup SensorsBefore(i, j + 1)
    BY <1>2, <1>5, <1>6
  <1>8. /\ d \in [actor : 1..Len(Actors), sensor : Nat, opacity : 0..20]
        /\ d.opacity > 0 => Asked(d)
    <2>1. Opacity(BranchOf(i, j)) = d.opacity
      BY <1>1 DEF Drawing
    <2> QED  BY <1>1, <1>2, <1>3, <2>1, SensorAsked DEF IInv
  <1>9. drawn' \subseteq [actor : 1..Len(Actors), sensor : Nat, opacity : 0..20]
    BY <1>2, <1>8 DEF IInv, TypeOK
  <1>10. VisibleIsAsked'
    <2>1. ASSUME NEW e \in drawn', e.opacity > 0
          PROVE  Asked(e)
      BY <1>2, <1>8, <2>1 DEF IInv, VisibleIsAsked
    <2>2. ASSUME NEW e
          PROVE  Asked(e)' = Asked(e)
      BY <1>2 DEF Asked, Actors
    <2> QED  BY <2>1, <2>2 DEF VisibleIsAsked
  <1>11. CASE BranchOf(i, j) = "Eye"
    <2>1. NextActor /\ j' = j
      BY <1>2, <1>11 DEF AfterDrawing
    <2>2. BehindEye(i, j + 1)
      BY <1>2, <1>4, <1>11 DEF BehindEye
    <2>3. SensorsBefore(i, j + 1) = SensorsShown(i)
      <3>1. PICK m \in Nat : m = j + 1 /\ m > 0 /\ m - 1 <= Len(Actors[i].mSensors)
        BY <1>2, <1>3, <1>4 DEF Sensors
      <3> QED  BY <1>3, <2>2, <3>1, SensorsDone DEF Sensors
    <2>4. drawn' = Before(i) \cup Shown(i)
      BY <1>3, <1>7, <2>3 DEF Shown
    <2> QED  BY <1>2, <1>3, <1>4, <1>9, <1>10, <2>1, <2>4, ActorDone
  <1>12. CASE BranchOf(i, j) # "Eye"
    <2>1. j' = j + 1 /\ UNCHANGED <<phase, i, begun>>
      BY <1>2, <1>12 DEF AfterDrawing
    <2>2. /\ Before(i)' = Before(i) /\ PoseOf(i)' = PoseOf(i)
          /\ SensorsBefore(i, j)' = SensorsBefore(i, j + 1) /\ ~BehindEye(i, j)'
      BY <1>2, <1>6, <1>12, <2>1, ShownAtNext
    <2>3. LoopsOK' /\ FrameShown'
      BY <1>2, <1>3, <1>7, <2>1, <2>2 DEF IInv, LoopsOK, FrameShown, SceneDrawn
    <2>4. TypeOK'
      BY <1>2, <1>3, <1>4, <1>9, <2>1 DEF IInv, TypeOK, Sensors, Actors
    <2> QED  BY <1>10, <2>3, <2>4 DEF IInv
  <1> QED  BY <1>11, <1>12

LEMMA EndActorKeeps ==
  ASSUME IInv, EndActor
  PROVE  IInv'
PROOF
  <1>1. /\ phase = "sensors" /\ j > Len(Sensors) /\ NextActor
        /\ UNCHANGED <<frame, isShow, mSensorAlpha, j, drawn>>
    BY DEF EndActor
  <1>2. /\ Len(Actors) \in Nat /\ i \in 1..Len(Actors) /\ Len(Sensors) \in Nat
        /\ j \in 1..(Len(Sensors) + 1) /\ SceneDrawn /\ isShow["Sensors"]
        /\ ActorDrawn(Actors[i]) /\ Sensors \in Seq(Sensor \cup {Null})
    BY <1>1, InnerTypes
  <1>3. j \in Nat /\ j > 0 /\ j = Len(Sensors) + 1 /\ j - 1 <= Len(Sensors)
    BY <1>1, <1>2
  <1>4. SensorsBefore(i, j) = SensorsShown(i)
    BY <1>2, <1>3, SensorsDone DEF Sensors
  <1>5. drawn' = Before(i) \cup Shown(i)
    BY <1>1, <1>2, <1>4 DEF IInv, LoopsOK, Shown
  <1>6. drawn' \subseteq [actor : 1..Len(Actors), sensor : Nat, opacity : 0..20]
    BY <1>1 DEF IInv, TypeOK
  <1>7. VisibleIsAsked'
    BY <1>1 DEF IInv, VisibleIsAsked, Asked, Actors
  <1> QED  BY <1>1, <1>2, <1>3, <1>5, <1>6, <1>7, ActorDone

LEMMA FrameKeeps ==
  IInv /\ [Next]_vars => IInv'
PROOF
  <1> SUFFICES ASSUME IInv, [Next]_vars PROVE IInv'
    OBVIOUS
  <1>1. CASE StartScene
    <2>1. Before(1) = {}
      BY DEF Before
    <2>2. Before(i)' = Before(i)
      BY <1>1, ShownAtNext DEF StartScene
    <2>3. LoopsOK' /\ FrameShown'
      BY <1>1, <2>1, <2>2 DEF IInv, StartScene, LoopsOK, FrameShown, SceneDrawn
    <2>4. TypeOK' /\ VisibleIsAsked'
      BY <1>1 DEF IInv, StartScene, TypeOK, VisibleIsAsked, Asked, Actors
    <2> QED  BY <2>3, <2>4 DEF IInv
  <1>2. CASE EndScene
    <2>1. Len(Actors) \in Nat /\ i = Len(Actors) + 1
      <3>1. Len(Actors) \in Nat /\ i \in 1..(Len(Actors) + 1)
        BY FrameTypes DEF IInv, TypeOK
      <3> QED  BY <1>2, <3>1 DEF EndScene
    <2>2. Before(i) = UNION {Shown(n) : n \in DOMAIN Actors} /\ SceneDrawn
      <3>1. 1..(i - 1) = DOMAIN Actors
        BY <2>1, FrameTypes DEF IInv
      <3> QED  BY <1>2, <3>1 DEF Before, IInv, LoopsOK, EndScene
    <2>3. FrameShown' /\ LoopsOK'
      <3>1. drawn = UNION {Shown(n) : n \in DOMAIN Actors} /\ drawn' = drawn /\ phase' = "done"
        BY <1>2, <2>2 DEF EndScene, IInv, LoopsOK
      <3>2. Actors' = Actors /\ SceneDrawn'
        BY <1>2, <2>2 DEF EndScene, Actors, SceneDrawn
      <3>3. \A n : Shown(n)' = Shown(n)
        BY <1>2, ShownStands DEF EndScene
      <3> QED  BY <3>1, <3>2, <3>3 DEF FrameShown, LoopsOK
    <2>4. TypeOK' /\ VisibleIsAsked'
      BY <1>2 DEF IInv, EndScene, TypeOK, VisibleIsAsked, Asked, Actors
    <2> QED  BY <2>3, <2>4 DEF IInv
  <1>3. CASE UNCHANGED vars
    <2>1. Before(i)' = Before(i) /\ PoseOf(i)' = PoseOf(i)
          /\ SensorsBefore(i, j)' = SensorsBefore(i, j) /\ BehindEye(i, j)' = BehindEye(i, j)
      BY <1>3, ShownAtNext DEF vars
    <2>2. \A n : Shown(n)' = Shown(n)
      BY <1>3, ShownStands DEF vars
    <2>3. LoopsOK' /\ FrameShown'
      BY <1>3, <2>1, <2>2 DEF IInv, vars, LoopsOK, FrameShown, SceneDrawn, Actors
    <2>4. TypeOK' /\ VisibleIsAsked'
      BY <1>3 DEF IInv, vars, TypeOK, VisibleIsAsked, Asked, Actors, Sensors
    <2> QED  BY <2>3, <2>4 DEF IInv
  <1> QED  BY <1>1, <1>2, <1>3, SkipActorKeeps, BeginActorKeeps, SkipSensorKeeps,
              DrawSensorKeeps, EndActorKeeps DEF Next

LEMMA FrameInvariant ==
  Spec => []IInv
PROOF
  <1> QED  BY FrameStarts, FrameKeeps, PTL DEF Spec

-----------------------------------------------------------------------------
(* What follows *)

\* TypeOK: the two loops stay inside the scene, and the renderer is begun
\* exactly while an actor's sensors are drawn, whichever way drawHitSensors
\* returns.
THEOREM FrameTypesKept ==
  Spec => []TypeOK
PROOF
  <1>1. IInv => TypeOK
    BY DEF IInv
  <1> QED  BY <1>1, FrameInvariant, PTL

\* VisibleIsAsked: whatever drawHitSensors makes visible, an option the player
\* has on asks for.
THEOREM FrameShowsAsked ==
  Spec => []VisibleIsAsked
PROOF
  <1>1. IInv => VisibleIsAsked
    BY DEF IInv
  <1> QED  BY <1>1, FrameInvariant, PTL

\* What is promised of an actor and not shown is behind an eye of its.
LEMMA OnlyEyesHide ==
  ASSUME NEW n
  PROVE  /\ Shown(n) \subseteq Promised(n)
         /\ \A d \in Promised(n) : d \in Shown(n) \/ BehindEye(d.actor, d.sensor)
PROOF
  <1>1. ASSUME NEW m \in DOMAIN Actors[n].mSensors, Valid(n, m), ~BehindEye(n, m)
        PROVE  Drawing(n, m, Opacity(BranchOf(n, m))) \in SensorsShown(n)
    BY <1>1 DEF SensorsShown
  <1>2. ASSUME NEW d \in SensorsOf(n)
        PROVE  d \in SensorsShown(n) \/ BehindEye(d.actor, d.sensor)
    <2>1. PICK m \in DOMAIN Actors[n].mSensors :
            Valid(n, m) /\ d = Drawing(n, m, Opacity(BranchOf(n, m)))
      BY <1>2 DEF SensorsOf
    <2>2. d.actor = n /\ d.sensor = m
      BY <2>1 DEF Drawing
    <2> QED  BY <1>1, <2>1, <2>2
  <1>3. SensorsShown(n) \subseteq SensorsOf(n)
    BY DEF SensorsShown, SensorsOf
  <1> QED  BY <1>2, <1>3 DEF Shown, Promised

\* EyesHideOnlyTheirOwn: with any number of actors and sensors, what a frame
\* lacks of what drawHitSensors is to show is behind an eye of its own actor.
THEOREM FrameLacksBehindEyes ==
  Spec => []EyesHideOnlyTheirOwn
PROOF
  <1>1. IInv => EyesHideOnlyTheirOwn
    <2> SUFFICES ASSUME IInv, phase = "done" PROVE EyesHideOnlyTheirOwn
      BY DEF EyesHideOnlyTheirOwn
    <2>1. drawn = IF SceneDrawn THEN UNION {Shown(n) : n \in DOMAIN Actors} ELSE {}
      BY DEF IInv, FrameShown
    <2>2. drawn \subseteq ScenePromised
      BY <2>1, OnlyEyesHide DEF ScenePromised
    <2>3. ASSUME NEW d \in ScenePromised, d \notin drawn
          PROVE  BehindEye(d.actor, d.sensor)
      <3>1. PICK n \in DOMAIN Actors : SceneDrawn /\ d \in Promised(n)
        BY <2>3 DEF ScenePromised
      <3>2. d \notin Shown(n)
        BY <2>1, <2>3, <3>1
      <3> QED  BY <3>1, <3>2, OnlyEyesHide
    <2> QED  BY <2>2, <2>3 DEF EyesHideOnlyTheirOwn
  <1> QED  BY <1>1, FrameInvariant, PTL
=============================================================================
