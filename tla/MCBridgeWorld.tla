---------------------------- MODULE MCBridgeWorld ----------------------------
(* The fixture region lies on both sides of the world's origin; the plugin *)
(* under test protects its western half.                                   *)
EXTENDS BridgeWorld
MCSpawn == <<0, 64>>
MCCells == {MCSpawn, <<-1, 64>>}
MCProtected == {<<-1, 64>>}
MCRegion == [minX |-> -1, maxX |-> 0, minY |-> 60, maxY |-> 70]
MCColumns == {-1}
MCChunks == -2..0
=============================================================================
