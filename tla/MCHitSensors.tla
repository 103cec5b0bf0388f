---------------------------- MODULE MCHitSensors ---------------------------
(* Instances of HitSensors for TLC. *)
EXTENDS HitSensors

Of(kind) == [isValid |-> TRUE, kinds |-> {kind}]

OneKind == {Of(kind) : kind \in Kinds}
             \cup {Null, [isValid |-> FALSE, kinds |-> {"Eye"}], [isValid |-> TRUE, kinds |-> {}]}

TwoKinds == OneKind \cup {[isValid |-> TRUE, kinds |-> {a, b}] : a, b \in Kinds}

Alive(sensors) ==
  [mDead |-> FALSE, mClipped |-> FALSE, mDrawClipped |-> FALSE,
   mPoseKeeper |-> TRUE, mSensors |-> sensors]

Scene(actors) ==
  [curScene |-> TRUE, destroys |-> FALSE, mLiveActorKit |-> TRUE,
   mLiveActorGroup2 |-> TRUE, mActors |-> actors]

\* One actor with a sensor of up to two kinds and one of up to one behind it.
OneActor == {Scene(<<Alive(<<s, t>>)>>) : s \in TwoKinds, t \in OneKind}

\* Actors in every state, with an eye before other sensors or without.
SomeActors ==
  {Null} \cup [mDead : BOOLEAN, mClipped : BOOLEAN, mDrawClipped : BOOLEAN,
               mPoseKeeper : {FALSE},
               mSensors : {<<>>, <<Of("Npc"), Of("Eye"), Of("Attack")>>}]

TwoActors == {Scene(<<a, b>>) : a, b \in SomeActors}

\* Every way to draw no actors.
NoActors ==
  [curScene : BOOLEAN, destroys : BOOLEAN, mLiveActorKit : BOOLEAN,
   mLiveActorGroup2 : BOOLEAN, mActors : {<<Alive(<<Of("Npc")>>)>>}]

MCFrames == OneActor \cup TwoActors \cup NoActors

\* All options, none, all but one, and one with that for all sensors.
MCOptionSets ==
  UNION {{[o \in Options |-> o \notin off], [o \in Options |-> o \in off \cup {"Sensors"}]} :
           off \in {{}} \cup {{o} : o \in Options}}
    \cup {[o \in Options |-> FALSE]}

MCAlphas == {0, 3}
=============================================================================
