------------------------------- MODULE MCMenu -------------------------------
(* Instances of Menu for TLC. *)
EXTENDS Menu

\* One direction at a time, released in between or not, and the two chords
\* that move and act in the same call.
MCPads == {{}} \cup {{d} : d \in Dirs}
            \cup {{"Down", "Right"}, {"Up", "Right"}}
MCPadsForward == {{}, {"Right"}, {"Down"}}

MCNoFlags  == {}
MCOneFlag  == {11}

\* The stick is pressed in some calls; or the menu is never hidden.
MCAnyStick == BOOLEAN
MCNoStick  == {FALSE}

MCFewEntries   == {0, 13, 14}
MCManyEntries  == {14}
=============================================================================
