------------------------- MODULE MCRootMaintenance -------------------------
(* With Limit = 2 and Cap = 2 two runs that gain time make the removal due,  *)
(* or three with a short interval, and one alone never does.                 *)
EXTENDS RootMaintenance

CONSTANTS usr, etc

MCPaths == {usr, etc}
=============================================================================
