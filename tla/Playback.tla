------------------------------ MODULE Playback ------------------------------
(***************************************************************************)
(* What playing a script promises, without saying how: in the step t of a  *)
(* run, each player's controller holds the last line the script gives that *)
(* player for step t, and is neutral if there is none; a button counts as  *)
(* pressed unless the line before, of this step or the previous one, held  *)
(* it.  A line whose step number is below an earlier line's is played with *)
(* the earlier line.  The run ends with the step that plays the last line. *)
(***************************************************************************)
EXTENDS TasScript

CONSTANT NoScript

VARIABLES
  mode,       \* "idle", "queued" (the game changes mode or stage), "playing"
  script,     \* the script of the run, NoScript when idle
  at,         \* steps of the run that are over
  pad,        \* each player's controller, in the frame that is over
  teleported  \* the player was put on the script's start position

vars == <<mode, script, at, pad, teleported>>

-----------------------------------------------------------------------------

\* A controller: the line its sticks and sensors come from, the buttons held
\* and those that count as pressed.  What counts as released is not promised.
Shows(line, hold, trig) == [line |-> line, hold |-> hold, trig |-> trig]
Neutral   == Shows(0, {}, {})
Untouched == Shows(-1, {}, {})

\* Line i can be played in step t: it and all lines before it are due.
DueBy(s, i, t) == \A j \in 1..i : s.mFrames[j].mStep <= t

PlayedAt(s, i, t) ==
  /\ i \in 1..mFrameCount(s)
  /\ DueBy(s, i, t)
  /\ t > 0 => ~DueBy(s, i, t - 1)

LinesAt(s, p, t) ==
  {i \in 1..mFrameCount(s) :
     PlayedAt(s, i, t) /\ s.mFrames[i].secondPlayer = p}

\* The lines of p before line i that are played in the same step as i or in
\* the step before.
LinesJustBefore(s, p, i, t) ==
  {j \in LinesAt(s, p, t) \cup LinesAt(s, p, t - 1) : j < i}

HeldBefore(s, p, i, t) ==
  LET before == LinesJustBefore(s, p, i, t)
  IN  IF before = {} THEN {} ELSE s.mFrames[LastOf(before)].mButtons

\* Player p's controller in step t of a run of s.
Expected(s, p, t) ==
  LET mine == LinesAt(s, p, t)
      i    == LastOf(mine)
      hold == s.mFrames[i].mButtons
  IN  IF mine = {} THEN Neutral
      ELSE Shows(i, hold, hold \ HeldBefore(s, p, i, t))

IsLastStep(s, t) == DueBy(s, mFrameCount(s), t)

-----------------------------------------------------------------------------

Init ==
  /\ mode = "idle"
  /\ script = NoScript
  /\ at = 0
  /\ pad = [p \in Players |-> Untouched]
  /\ teleported = FALSE

\* A run starts from its first step, also when one was under way.
Begin ==
  /\ mode' \in {"queued", "playing"}
  /\ script' \in ScriptType
  /\ at' = 0
  /\ UNCHANGED <<pad, teleported>>

Idle == mode' = "idle" /\ script' = NoScript /\ at' = 0

Stop == Idle /\ UNCHANGED <<pad, teleported>>

\* One frame of the game.
FrameIdle ==
  /\ mode = "idle"
  /\ pad' = [p \in Players |-> Untouched]
  /\ teleported' = FALSE
  /\ UNCHANGED <<mode, script, at>>

FrameQueued ==
  /\ mode = "queued"
  /\ mode' = "playing"
  /\ pad' = [p \in Players |-> Untouched]
  /\ teleported' = FALSE
  /\ UNCHANGED <<script, at>>

FramePlaying ==
  /\ mode = "playing"
  /\ pad' = [p \in Players |-> Expected(script, p, at)]
  /\ teleported' \in (IF at = 0 /\ script.hasStartPosition
                        THEN BOOLEAN ELSE {FALSE})
  /\ IF IsLastStep(script, at)
       THEN Idle
       ELSE at' = at + 1 /\ UNCHANGED <<mode, script>>

\* The console is switched off and on.
Restart ==
  /\ Idle
  /\ pad' = [p \in Players |-> Untouched]
  /\ teleported' = FALSE

Next == Begin \/ Stop \/ FrameIdle \/ FrameQueued \/ FramePlaying \/ Restart

Spec == Init /\ [][Next]_vars
=============================================================================
