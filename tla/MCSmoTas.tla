------------------------------ MODULE MCSmoTas ------------------------------
(* An instance of SmoTas for TLC. *)
EXTENDS SmoTas, TLC

CONSTANTS a, A, s1, s2

MCButtons == {A}
MCScript(stage) ==
  [mFrames |-> <<[mStep |-> 0, secondPlayer |-> 0, mButtons |-> {A}],
                 [mStep |-> 1, secondPlayer |-> 0, mButtons |-> {}]>>,
   isTwoPlayer |-> FALSE, changesStage |-> stage, hasStartPosition |-> FALSE]
MCScripts == {MCScript(TRUE)}
MCNames == {a}
MCNoFlags == {}
MCPads == {{}, {"Right"}, {"Down"}}
MCStick == {FALSE}
MCScenes == {s1, s2}
MCZero == {0}
MCSymmetry == Permutations({s1, s2})
=============================================================================
