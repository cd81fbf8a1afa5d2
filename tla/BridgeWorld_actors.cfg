CONSTANTS
  Actors = {"alice", "bob"}
  Cells <- MCCells
  Spawn <- MCSpawn
  Region <- MCRegion
  Allowed = {"minecraft:stone"}
  Protected <- MCProtected
  Chunks <- MCChunks
  TicketColumns <- MCColumns
  Radii = {0, 1}
  MaxPlayers = 3
SPECIFICATION WorldSpec
INVARIANTS
  RecordTellsBlocks
  TicketsHold
  NoStrangers
CHECK_DEADLOCK FALSE
