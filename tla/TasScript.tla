----------------------------- MODULE TasScript -----------------------------
(***************************************************************************)
(* A TAS script as the game holds it (smo-tas/Frame.h): a header and one   *)
(* line of controller input per frame, player and step.  The sticks,       *)
(* accelerometers and gyroscopes a line carries are known by the number of *)
(* the line.                                                               *)
(***************************************************************************)
EXTENDS Integers, Sequences

CONSTANTS
  Buttons,      \* the bits of mButtons
  Scripts,      \* the scripts that may be on the card
  NotAScript    \* the content of a file without the magic number

\* Frame::secondPlayer as a number: port 0 or port 1.
Players == {0, 1}

Lines == [mStep : Nat, secondPlayer : Players, mButtons : SUBSET Buttons]

ScriptType ==
  [mFrames : Seq(Lines), isTwoPlayer : BOOLEAN, changesStage : BOOLEAN,
   hasStartPosition : BOOLEAN]

ASSUME ScriptsAssumption ==
  /\ \A s \in Scripts : s \in ScriptType
  /\ NotAScript \notin Scripts

mFrameCount(s) == Len(s.mFrames)

\* A controller as applyFrame leaves it: the line whose analog data it
\* holds, and the three button masks.
Pad(line, buttons, prev) ==
  [line |-> line, hold |-> buttons, trig |-> buttons \ prev,
   release |-> buttons \cap prev]

\* The empty frame of a player that has no line in this step.
NeutralPad == Pad(0, {}, {})

\* What the hardware reports is not kept.
HardwarePad == [line |-> -1, hold |-> {}, trig |-> {}, release |-> {}]

PadType ==
  [line : Int, hold : SUBSET Buttons, trig : SUBSET Buttons,
   release : SUBSET Buttons]

\* The last of a set of line numbers.
LastOf(S) == CHOOSE i \in S : \A j \in S : j <= i
=============================================================================
