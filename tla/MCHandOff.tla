----------------------------- MODULE MCHandOff -----------------------------
(* HandOff for TLC.  Values to KUKSA always have a route; a connection to  *)
(* the broker may be valid for one path only.                              *)
EXTENDS HandOff, TLC

CONSTANTS ToVss, ToCan, Speed, Beam

MCPaths == {Speed, Beam}
MCDirections == {ToVss, ToCan}
MCRouteSets == (ToVss :> {MCPaths}) @@ (ToCan :> {MCPaths, {Beam}, {}})
=============================================================================
