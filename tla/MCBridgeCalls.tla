---------------------------- MODULE MCBridgeCalls ----------------------------
(* The JS thread and another one; a plugin of each codec.                  *)
EXTENDS BridgeCalls

CONSTANTS ui, worker, p1, p2

MCThread     == {ui, worker}
MCPlugin     == {p1, p2}
MCPluginType == p1 :> "json" @@ p2 :> "binary"
=============================================================================
