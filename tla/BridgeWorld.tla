----------------------------- MODULE BridgeWorld -----------------------------
(***************************************************************************)
(* What the Bridge can touch inside Paper: test actors (fake players),     *)
(* blocks, loaded chunks.  Operations run one at a time on Paper's main    *)
(* thread (BridgeActions models how they get there), so that each is one   *)
(* step; what makes them hard is what other plugins and the server do      *)
(* between two of them and, through event listeners, within one.           *)
(*                                                                         *)
(* An operation that is refused (unknown actor, cell outside the fixture   *)
(* region, material or radius not allowed, chunk not loaded) changes       *)
(* nothing and records nothing, and is no step.  Of the coordinates z is   *)
(* treated as x is, and is left out; so are where a player looks and what  *)
(* the commands of a plugin change.                                        *)
(***************************************************************************)
EXTENDS Integers, Sequences, FiniteSets, FiniteSetsExt

CONSTANTS
  Actors,       \* the actor ids that scenarios use
  Cells,        \* the block positions <<x, y>> that are looked at
  Spawn,        \* the cell of the world's spawn location
  Region,       \* fixture-area: [minX, maxX, minY, maxY]
  Allowed,      \* allowed_materials
  Protected,    \* the cells in which the plugin under test cancels breaks
  Chunks,       \* the chunk columns that are looked at
  TicketColumns, Radii,  \* the tickets that are asked for
  MaxPlayers    \* bound: players on the server

ASSUME WorldAssumption ==
  /\ Cells \subseteq Int \X Int /\ Spawn \in Cells /\ Protected \subseteq Cells
  /\ Chunks \subseteq Int /\ TicketColumns \subseteq Int /\ Radii \subseteq Int
  /\ MaxPlayers \in Nat

VARIABLES
  active,    \* NmsActorHandler.activeActors
  players,   \* Paper's player list, in the order of joining
  block,     \* the material in each cell
  loaded,    \* the loaded chunks
  forced,    \* those that are force-loaded
  recorded,  \* the events that the last operation recorded, in order
  \* what a reader of answers and events knows
  told,      \* each cell's material
  granted    \* the tickets <<x, radius>> that were granted

worldVars == <<active, players, block, loaded, forced, recorded, told, granted>>

Air == "minecraft:air"
Dirt == "minecraft:dirt"
Materials == Allowed \cup {Air, Dirt}

PlayerRecords == [id : Actors, at : Cells, stuck : BOOLEAN]

WorldTypeOK ==
  /\ active \subseteq Actors
  /\ players \in Seq(PlayerRecords)
  /\ block \in [Cells -> Materials] /\ told \in [Cells -> Materials]
  /\ loaded \subseteq Int /\ forced \subseteq loaded
  /\ granted \subseteq TicketColumns \X Radii

WorldInit ==
  /\ active = {} /\ players = <<>>
  /\ block = [c \in Cells |-> Dirt] /\ told = block
  /\ loaded = {} /\ forced = {}
  /\ recorded = <<>>
  /\ granted = {}

-----------------------------------------------------------------------------
(* Positions.                                                              *)

\* Mutant: a division, which rounds towards zero.
ChunkDivided(x) == IF x >= 0 THEN x \div 16 ELSE -((-x) \div 16)

(* x >> 4 rounds down, for negative coordinates too.                       *)
ChunkOf(x) == x \div 16

ContainsColumn(x) == x \in Region.minX..Region.maxX
InRegion(c) == ContainsColumn(c[1]) /\ c[2] \in Region.minY..Region.maxY

-----------------------------------------------------------------------------
(* Players.                                                                *)

(* server.getPlayer(uuid): the latest that joined with it; 0 is null.      *)
GetPlayer(a) == Max({0} \cup {n \in DOMAIN players : players[n].id = a})
Online(a) == GetPlayer(a) # 0

(* teleportTo: the first online player that is an active actor's is moved, *)
(* whichever that is; another plugin may cancel the teleport.              *)
Firsts(ps, as) == {n \in DOMAIN ps : ps[n].id \in as}
TeleportTo(ps, as, c, cancelled) ==
  IF Firsts(ps, as) = {} \/ cancelled THEN ps
  ELSE [ps EXCEPT ![Min(Firsts(ps, as))].at = c]

(* Those who stay keep their order.                                        *)
InOrder(kept) ==
  CHOOSE f \in [1..Cardinality(kept) -> kept] : \A m, n \in DOMAIN f : m < n => f[m] < f[n]
Without(ps, ns) ==
  LET kept == InOrder(DOMAIN ps \ ns) IN [n \in DOMAIN kept |-> ps[kept[n]]]

(* Where a player is, the server keeps the chunk.                          *)
Arrive(ps) ==
  /\ players' = ps
  /\ loaded' = loaded \cup {ChunkOf(ps[n].at[1]) : n \in DOMAIN ps}

Nobody == Arrive(players)

-----------------------------------------------------------------------------
(* Actors.                                                                 *)

(* No constructor of the server's own classes fits: nothing was added.     *)
NotConstructed == Nobody

(* The player enters Paper's lists, on a connection without a network.     *)
AddPlayerToServer(a, c) == Append(players, [id |-> a, at |-> c, stuck |-> FALSE])

(* Meant to put the new player at the spawn; it is no active actor yet.    *)
SpawnAndJoinPlayer(a, c, cancelled) ==
  TeleportTo(AddPlayerToServer(a, c), active, Spawn, cancelled)

(* It fails before the player is in the lists, after, or because some      *)
(* listener threw the player out at once.                                  *)
JoinFails(a, c, cancelled) ==
  \/ NotConstructed
  \/ Arrive(AddPlayerToServer(a, c))
  \/ Arrive(SpawnAndJoinPlayer(a, c, cancelled))

\* Mutant: only an actor that joined is remembered.
CreateJoinedOnly(a) ==
  /\ a \notin active /\ Len(players) < MaxPlayers
  /\ \E joined \in BOOLEAN, c \in Cells, cancelled \in BOOLEAN :
       /\ active' = IF joined THEN active \cup {a} ELSE active
       /\ IF joined THEN Arrive(SpawnAndJoinPlayer(a, c, cancelled))
          ELSE JoinFails(a, c, cancelled)
       /\ recorded' = <<[type |-> "test_actor.created", joined |-> joined]>>
  /\ UNCHANGED <<block, forced, told, granted>>

(* An actor that did not join is kept, as "skeletal".                      *)
CreateActor(a) ==
  /\ a \notin active /\ Len(players) < MaxPlayers
  /\ active' = active \cup {a}
  /\ \E joined \in BOOLEAN, c \in Cells, cancelled \in BOOLEAN :
       /\ IF joined THEN Arrive(SpawnAndJoinPlayer(a, c, cancelled))
          ELSE JoinFails(a, c, cancelled)
       /\ recorded' = <<[type |-> "test_actor.created", joined |-> joined]>>
  /\ UNCHANGED <<block, forced, told, granted>>

\* Mutant: the first failure ends the loop.
DisconnectUntilFailure ==
  \E failed \in SUBSET {a \in active : Online(a)} :
    /\ players' = IF failed # {}
         THEN [n \in DOMAIN players |->
                 [players[n] EXCEPT !.stuck = @ \/ \E a \in failed : n = GetPlayer(a)]]
         ELSE Without(players, {GetPlayer(a) : a \in active})
    /\ active' = {}
    /\ recorded' = <<[type |-> "test_actor.disconnected_all"]>>
    /\ UNCHANGED <<block, loaded, forced, told, granted>>

(* disconnectAll: each player is kicked and erased from the lists; where   *)
(* that throws it stays, and the actor is forgotten all the same.          *)
DisconnectAll ==
  \E failed \in SUBSET {a \in active : Online(a)} :
    /\ players' = Without(
         [n \in DOMAIN players |->
            [players[n] EXCEPT !.stuck = @ \/ \E a \in failed : n = GetPlayer(a)]],
         {GetPlayer(a) : a \in active \ failed})
    /\ active' = {}
    /\ recorded' = <<[type |-> "test_actor.disconnected_all"]>>
    /\ UNCHANGED <<block, loaded, forced, told, granted>>

(* A plugin, or the server, throws a player out.                           *)
Kick(n) ==
  /\ players' = Without(players, {n})
  /\ recorded' = <<>>
  /\ UNCHANGED <<active, block, loaded, forced, told, granted>>

(* move.                                                                   *)
Move(a, c) ==
  /\ a \in active
  /\ \E cancelled \in BOOLEAN :
       IF Online(a) THEN Arrive(TeleportTo(players, active, c, cancelled)) ELSE Nobody
  /\ recorded' = <<[type |-> "player.move", dispatched |-> Online(a)]>>
  /\ UNCHANGED <<active, block, forced, told, granted>>

(* look: its own player is turned.                                         *)
Look(a) ==
  /\ a \in active
  /\ recorded' = <<[type |-> "player.look", dispatched |-> Online(a)]>>
  /\ UNCHANGED <<active, players, block, loaded, forced, told, granted>>

-----------------------------------------------------------------------------
(* Blocks.                                                                 *)

(* A block.break event and what it tells its reader.  Who and where the    *)
(* events also name.                                                       *)
BreakEvent(c, cancelled, dispatched) ==
  /\ recorded' = <<[type |-> "block.break",
                    cancelled |-> cancelled, dispatched |-> dispatched]>>
  /\ told' = IF dispatched /\ ~ cancelled THEN [told EXCEPT ![c] = Air] ELSE told

(* Its own player is moved to the block, where the teleport is allowed.    *)
StandAt(a, c, cancelled) ==
  IF cancelled THEN players ELSE [players EXCEPT ![GetPlayer(a)].at = c]

(* Without a player nothing is broken, and it is told as cancelled.        *)
BreakAbsent(a, c) ==
  /\ a \in active /\ ~ Online(a)
  /\ BreakEvent(c, TRUE, TRUE)
  /\ UNCHANGED <<active, players, block, loaded, forced, granted>>

(* Something threw before the block was touched.                           *)
BreakFail(a, c) ==
  /\ a \in active /\ Online(a)
  /\ \E cancelled \in BOOLEAN : Arrive(StandAt(a, c, cancelled))
  /\ BreakEvent(c, FALSE, FALSE)
  /\ UNCHANGED <<active, block, forced, granted>>

\* Mutant: the block is set before the listeners are asked.
BreakBlockFirst(a, c) ==
  /\ a \in active /\ Online(a)
  /\ \E cancelled \in BOOLEAN :
       /\ players' = StandAt(a, c, cancelled)
       /\ loaded' = loaded \cup {ChunkOf(players'[n].at[1]) : n \in DOMAIN players} \cup {ChunkOf(c[1])}
  /\ BreakEvent(c, c \in Protected, TRUE)
  /\ block' = [block EXCEPT ![c] = Air]
  /\ UNCHANGED <<active, forced, granted>>

(* breakBlockNms: the listeners are asked, then the block is set.          *)
BreakBlock(a, c) ==
  /\ a \in active /\ Online(a)
  /\ \E cancelled \in BOOLEAN :
       /\ players' = StandAt(a, c, cancelled)
       /\ loaded' = loaded \cup {ChunkOf(players'[n].at[1]) : n \in DOMAIN players} \cup {ChunkOf(c[1])}
  /\ BreakEvent(c, c \in Protected, TRUE)
  /\ block' = IF c \in Protected THEN block ELSE [block EXCEPT ![c] = Air]
  /\ UNCHANGED <<active, forced, granted>>

(* A read or a write loads no chunk.                                      *)
Readable(c) == ChunkOf(c[1]) \in loaded

(* world.set_block, on behalf of nobody: no listener is asked.             *)
SetBlock(c, material) ==
  /\ InRegion(c) /\ material \in Allowed
  /\ Readable(c)
  /\ block' = [block EXCEPT ![c] = material]
  /\ told' = [told EXCEPT ![c] = material]
  /\ recorded' = <<>>
  /\ UNCHANGED <<active, players, loaded, forced, granted>>

-----------------------------------------------------------------------------
(* Chunks.                                                                 *)

Around(x, radius) == (ChunkOf(x) - radius)..(ChunkOf(x) + radius)

\* Mutant: the last column of the square is missed.
TicketShort(x, radius) ==
  /\ ContainsColumn(x) /\ radius \in 1..4
  /\ loaded' = loaded \cup (Around(x, radius) \ {ChunkOf(x) + radius})
  /\ forced' = forced \cup (Around(x, radius) \ {ChunkOf(x) + radius})
  /\ granted' = granted \cup {<<x, radius>>}
  /\ recorded' = <<>>
  /\ UNCHANGED <<active, players, block, told>>

(* world.set_chunk_ticket: nothing ever takes it back.                     *)
SetChunkTicket(x, radius) ==
  /\ ContainsColumn(x) /\ radius \in 1..4
  /\ loaded' = loaded \cup Around(x, radius)
  /\ forced' = forced \cup Around(x, radius)
  /\ granted' = granted \cup {<<x, radius>>}
  /\ recorded' = <<>>
  /\ UNCHANGED <<active, players, block, told>>

(* The server drops a chunk that nobody is in and nobody forced.           *)
Unload(ch) ==
  /\ ch \in loaded \ forced
  /\ \A n \in DOMAIN players : ChunkOf(players[n].at[1]) # ch
  /\ loaded' = loaded \ {ch}
  /\ recorded' = <<>>
  /\ UNCHANGED <<active, players, block, forced, told, granted>>

-----------------------------------------------------------------------------
(* Chat and commands.                                                      *)

Message(cancelled, dispatched) ==
  [type |-> "player.message", cancelled |-> cancelled, dispatched |-> dispatched]

(* chatNms fires the event: the Bridge's listener, at normal priority,     *)
(* records what it sees; the listeners after it may cancel or allow the    *)
(* message; then the handler records the outcome, twice.  An absent player *)
(* says nothing and is recorded as not cancelled, and so is a failure.     *)
Chat(a) ==
  /\ a \in active
  /\ \E seen, final \in BOOLEAN, fails \in BOOLEAN :
       LET said == Online(a) /\ ~ fails
           outcome == Message(said /\ final, ~ fails)
       IN recorded' = (IF said THEN <<Message(seen, TRUE)>> ELSE <<>>)
                      \o <<[outcome EXCEPT !.type = "player.chat"], outcome>>
  /\ UNCHANGED <<active, players, block, loaded, forced, told, granted>>

(* dispatchCommand: the player's permission decides.                       *)
PluginCommand(a) ==
  /\ a \in active
  /\ \E ok \in BOOLEAN :
       /\ ok => Online(a)
       /\ recorded' = <<[type |-> "player.command", dispatch_ok |-> ok]>>
  /\ UNCHANGED <<active, players, block, loaded, forced, told, granted>>

-----------------------------------------------------------------------------
(* Reads.                                                                  *)

(* getState, by the actor: an actor without a player has a made-up place.  *)
ActorState(a) ==
  [found |-> a \in active, connected |-> a \in active /\ Online(a),
   at |-> IF a \in active /\ Online(a) THEN players[GetPlayer(a)].at ELSE <<0, 64>>]

(* player.get_state of the queries, by the player's name.                  *)
PlayerState(a) ==
  [found |-> Online(a), at |-> IF Online(a) THEN players[GetPlayer(a)].at ELSE <<0, 64>>]

WorldNext ==
  \/ \E a \in Actors : CreateActor(a) \/ Look(a) \/ Chat(a) \/ PluginCommand(a)
  \/ DisconnectAll
  \/ \E n \in DOMAIN players : Kick(n)
  \/ \E a \in Actors, c \in Cells :
       Move(a, c) \/ BreakAbsent(a, c) \/ BreakFail(a, c) \/ BreakBlock(a, c)
  \/ \E c \in Cells, material \in Materials : SetBlock(c, material)
  \/ \E x \in TicketColumns, radius \in Radii : SetChunkTicket(x, radius)
  \/ \E ch \in Chunks : Unload(ch)

WorldSpec == WorldInit /\ [][WorldNext]_worldVars

-----------------------------------------------------------------------------
(* Where no plugin changes blocks itself, answers and events tell what     *)
(* stands in each cell: a break that was cancelled, failed or had no       *)
(* player left its block alone, and every other one removed it, whatever   *)
(* joined, left or was moved in between.                                   *)
RecordTellsBlocks == told = block

(* A granted ticket keeps every column within its radius, sixteen blocks   *)
(* to the chunk, loaded for good, so that world.set_block and get_block    *)
(* are not refused there (determinism.md): on both sides of the origin.    *)
TicketsHold ==
  \A g \in granted :
    \A x \in (g[1] - 16 * g[2])..(g[1] + 16 * g[2]) :
      \E ch \in loaded : 16 * ch <= x /\ x < 16 * ch + 16

(* The two reads of a player agree, and a disconnect_all leaves nobody     *)
(* behind: a player whom getState does not know, or a second one of the    *)
(* same actor, is one whose removal failed, be its joining half done or    *)
(* its actor created again in the meantime.                                *)
NoStrangers ==
  /\ \A a \in Actors :
       /\ ActorState(a).connected => PlayerState(a) = [found |-> TRUE, at |-> ActorState(a).at]
       /\ PlayerState(a).found /\ ~ players[GetPlayer(a)].stuck => ActorState(a).connected
  /\ \A m, n \in DOMAIN players :
       m # n /\ players[m].id = players[n].id => players[m].stuck \/ players[n].stuck

-----------------------------------------------------------------------------
(* What a comment says and the code does not do.                           *)

(* "player.message carries the same meaning whatever the listeners do;     *)
(* assertions read one deterministic source" (NmsActorHandler.chat): the   *)
(* player.message events of one chat agree on whether it was cancelled.    *)
MessagesAgree ==
  \A m, n \in DOMAIN recorded :
    recorded[m].type = "player.message" /\ recorded[n].type = "player.message" =>
      recorded[m] = recorded[n]
=============================================================================
