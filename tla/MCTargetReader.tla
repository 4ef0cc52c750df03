--------------------------- MODULE MCTargetReader ---------------------------
(* TargetReader for TLC, over databrokers that serve v1, v2, both or none.   *)
(* Telltale refuses one of its targets and Chime has one that raises.        *)
EXTENDS TargetReader
CONSTANTS Telltale, Chime
MCPaths == {Telltale, Chime}
MCRefused == {[path |-> Telltale, value |-> 2]}
MCRaising == {[path |-> Chime, value |-> 1]}

\* A bound: enough for all three targets of one path and one of the other.
MCFewCommands == issued[Telltale] + issued[Chime] <= 4
=============================================================================
