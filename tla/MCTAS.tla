------------------------------- MODULE MCTAS -------------------------------
(* Instances of TAS for TLC. *)
EXTENDS TAS

CONSTANTS a, b, A

MCButtons == {A}

\* Lines of either player in three steps, with and without the button.
MCLines ==
  [mStep : 0..2, secondPlayer : Players, mButtons : SUBSET MCButtons]

Header(frames, two, stage, start) ==
  [mFrames |-> frames, isTwoPlayer |-> two, changesStage |-> stage,
   hasStartPosition |-> start]

\* Every script of up to three lines, in any order of steps.
MCShortScripts ==
  {Header(f, FALSE, FALSE, FALSE) : f \in UNION {[1..n -> MCLines] : n \in 0..3}}

\* One script of each kind of header.
Line(s, p, buttons) == [mStep |-> s, secondPlayer |-> p, mButtons |-> buttons]
MCHeaderScripts ==
  {Header(<<>>, FALSE, FALSE, TRUE),
   Header(<<Line(0, 0, {A}), Line(1, 0, {A})>>, FALSE, FALSE, TRUE),
   Header(<<Line(1, 1, {A}), Line(1, 0, {})>>, TRUE, FALSE, FALSE),
   Header(<<Line(0, 0, {A})>>, FALSE, TRUE, FALSE)}

MCNames    == {a, b}
MCScripts  == MCShortScripts \cup MCHeaderScripts
MCContents == MCScripts \cup {NotAScript}

MCZeroOrOne == {0, 1}

\* A behaviour has either one file, any short script, on a card that stays as
\* it is, or two files of any header, or that are no script, on one that
\* changes.
ShortScript == content[a] \in MCShortScripts

MCInit ==
  /\ \/ /\ content \in {[n \in Names |-> IF n = a THEN s ELSE NotAScript] :
                          s \in MCShortScripts}
        /\ sd = {a}
     \/ /\ content \in [Names -> MCHeaderScripts \cup {NotAScript}]
        /\ sd = Names
  /\ Init

MCNext == Next /\ (ShortScript => sd' = sd)

MCFairSpec == MCInit /\ [][MCNext]_vars /\ WF_vars(Movement)
=============================================================================
