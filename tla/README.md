# VOXOV in TLA+

VOXOV is a voxel planet game: a native and a browser client, a game server that runs
alone or inside a client, LAN discovery, several planets whose terrain the player
edits, an expedition mission and a saved game. This directory holds TLA+ models of the
parts of it that keep state and act on each other, TLC configurations that check them
on small instances, and TLAPS proofs of the properties for every value of the
constants. Paths below are relative to `src/` of the repository.

- [The system](#the-system): components, state, interactions, what is hard
- [Modules](#modules): which module models what, and how it corresponds to the code
- [Runs](#runs): what TLC checks, the bounds, fairness and deadlock
- [Proofs](#proofs): what TLAPS proves, and along which argument
- [Findings](#findings): where the code and what it says of itself disagree
- [Not modelled](#not-modelled)
- [Plan](#plan): the order of the work and what comes next

To run a check: `tlc -config client.cfg MCClient`; to check proofs:
`tlapm SessionFlowProofs.tla`.

## The system

| component | code | state | operations and events | what makes it correct |
|---|---|---|---|---|
| NetServer | `engine_net/net_server.cpp` | ENet host, tick and send timers, a stream per peer | init, shutdown, pump: CONNECT, DISCONNECT, RECEIVE, ticks, snapshots, chunks, player states | everyone connected is greeted; what is sent is what the session holds; a player who left is removed everywhere |
| ServerSession | `engine_server/server_session.cpp` | players by connection: last input, interest, chunks sent, sequence numbers | connect and disconnect client, accept input and interest, simulate a tick, replicate | inputs never go back, one press is one jump, chunks go out once |
| NetClient | `engine_net/net_client.cpp` | one ENet peer, own id, snapshot, player table, chunk queue, last sequence numbers | connect, disconnect, pump, poll, send | nothing it holds outlives its session or goes back in time |
| wire protocol | `engine_net_proto/` | none | encode, decode, order of wrapping counters | "newer" is the true order; a message is read as it was written, or refused |
| RemoteInterpolator | `engine_net/remote_interp.hpp` | samples per remote player | push, sample | samples in order |
| WebNetClient | `engine_net/web_net_client.cpp` | requests and published state shared with a worker thread | connect, disconnect, send, poll; worker cycle | the worker ends up doing what was asked last |
| LanDiscovery | `engine_net/lan_discovery.cpp` | socket, host table, queue of new hosts | start as host or client, stop, pump, pop | a host in the network is found |
| session flow | `game/runtime_session_flow.cpp`, `engine_runtime/runtime_session_controller.cpp` | searching, timer, last connection state, text for the player | connect, host, search, join, leave, update each frame | one role at a time, attempts end, leaving is final |
| Engine | `engine/engine.cpp` | everything a client simulates: planet runtimes, journal of edits, dirty flag and debounce, ship, mission, network and server objects | one tick per frame, session calls, switch planet, save and load | edits and progress are not lost or put on the wrong planet |
| BlockWorld | `engine_world/planet_blocks.cpp` | resident chunks | stream, evict, generate, edit, walk over the faces of the cube, mesh | a chunk shows its edits; neighbours touch across the edges of the cube; what can be seen is in the mesh |
| terrain scene | `Engine::stream_block_terrain`, `engine_render/sokol_renderer.cpp` | which chunks have which mesh, the globe, copies on the GPU under stable ids | load, mesh under budgets, evict, change body | what is drawn is the ground as it is, of the body the player is at |
| planet streamer | `engine_world/planet.cpp` | quadtree nodes, their meshes, last use | select, generate under a budget, draw, evict | no hole opens in what is drawn |
| navigation, ship, expedition | `Engine` (navigation, boarding, transfer), `engine_gameplay/vehicles/`, `objectives/` | overlay, locked target, ship's body and landing, stage | select, lock, assist, board, pilot, step, transfer | pilot, ship and active body agree; a course leads somewhere and ends |
| saved game | `engine_runtime/persistent_game_state.cpp`, `platform/platform_services.cpp` | main, temporary and backup file | encode, decode, atomic write, read | a save is all or nothing; a file is read as a whole or refused |
| EventBus | `engine_events/event_bus.*` | subscribers, two queues, dispatch list and depth | subscribe, unsubscribe, enqueue, emit, drain, clear | everyone subscribed is told once, also when handlers use the bus |
| JobSystem | `engine_core/jobs.cpp` | queue, count of active workers, one mutex, one condition variable | init, schedule, wait_idle, shutdown, worker loop | every job is run; waiting means it was |
| core utilities | `engine_core/` | arenas, cvars, frame pacing | sequential | |
| game runtime | `engine_runtime/runtime_*`, `game/*` | time accumulator, adapters, entry points | one frame after the other | order of the parts of a frame; a press is not lost between frames and steps |
| Android application | `game/android_main.cpp`, `game/android_runtime_adapter.cpp` | window, EGL objects, focus, multicast lock, fingers and held controls | commands and touches from the looper, frames | the game runs exactly while it has its window; no control is stuck |
| desktop controls | `platform/desktop/input_desktop.cpp`, `game/desktop_runtime_adapter.cpp`, `engine_ui/gui_menu.cpp` | keys held and their edges, cursor policy, menu page | window events, poll, menu keys | the cursor is free when the overlay needs it |
| player motion | `engine_gameplay/player/player_controller.cpp`, `animation/` | locomotion state, timers, jump buffer, animation phase | fixed step, landing, boarding | a press is one jump, heard to its end |
| minigames | `engine_gameplay/minigames/` | board, snake, cursor, score, seed | begin, tick | each keeps its rules (no build of the game starts one) |
| frames, noise, vegetation, picking, physics | `engine_world/`, `engine_physics/` | floating-point geometry | numerics | numerics |
| menu, audio, rendering, assets, platform, third party | `engine_ui/`, `engine_audio/`, `engine_render/`, `engine_presentation/`, `engine_assets/`, `platform/`, `third_party/` | pages, buffers | input and output | |

How they interact. A frame of a client is `GameRuntime::tick`: input, the menu (whose
choices call back into the session flow), `RuntimeSessionFlow::update` (which pumps
LanDiscovery and calls `Engine` to connect or abort) and `Engine::tick`, which runs
fixed steps (pump the local server, pump the client, send the input, simulate), then the
phases that touch the terrain and the saved game. Client and server meet only through
ENet messages on two channels; a local server lives in the same process and is still
reached by loopback messages. Events between parts of the engine go through the
EventBus. The JobSystem is the only component of the native build with threads of its
own; in the browser WebNetClient adds a worker. On a phone the looper of
`android_main` may take the window away between two frames, which shuts the engine down
and later starts it again under the same session flow. The file system is the one thing
that survives the process.

What is hard. Messages on one channel that overtake those on the other; a session that is
left and one that is joined while events of the first are still to come; the single ENet
peer of a client; counters that wrap; handlers that re-enter the bus that called them;
wake-ups of a condition variable shared by two kinds of waiters; state that lives twice
(chunk cache and journal of edits, memory and disk, ENet peer and NetClient) and must
agree (chunk and mesh, mesh and GPU copy, the overlay in the platform and in the engine);
saves that fail or are cut short; frames in which one part decides on what an
earlier part has already changed; frames without a fixed step, or with several; budgets that leave
work for later frames while the world changes; arithmetic across the edges of a cube. `PROJECT.json` lists each hazard at its line with the
properties about it.

## Modules

| module | models | composed with |
|---|---|---|
| `NetSeq` | `net_seq_newer`, `tick_newer`: the order of wrapping counters, width as a parameter | used by the next two |
| `NetSeqWindow` | one counter over a channel that loses and reorders | |
| `NetPlay` | NetServer, ServerSession, NetClient and the network calls of Engine, for any number of clients | |
| `LanDiscovery` | socket, host table and queue | extended by SessionFlow |
| `SessionFlow` | menu choices, RuntimeSessionFlow and the session calls of Engine, frame by frame | LanDiscovery |
| `WebNetClient` | the facade, the shared state and the worker of the browser's client | extended by WebSession |
| `WebSession` | the frames of the page and RuntimeSessionFlow over that client | WebNetClient |
| `WorldEdits` | planet runtimes, chunk cache, journal of edits, expedition, debounce, saved game, crash and restart | its save is one step; SaveFile justifies it |
| `SaveCell` | abstract: what saving promises | |
| `SaveFile` | the file system calls of the atomic write | implements SaveCell |
| `JobPool` | abstract: what a job pool promises | |
| `JobSystem` | critical sections, waits and notifications of the threads | implements JobPool |
| `EventBus` | every operation, with the call stack of dispatches and drains as state | |
| `TerrainScene` | streaming, meshing and eviction of chunks, the globes, the scene and the renderer's copies | the blocks and bodies of WorldEdits, without their saves |
| `Voyage` | navigation, assisted flight, ship, transfer and expedition, phase by phase of a frame | the terrain and the save of these frames are in WorldEdits |
| `PlayerMotion` | accumulator of fixed steps, jump buffer, coyote time, locomotion states, animation events | |
| `DesktopControls` | keys, focus, cursor policy, menus and F6 | |
| `CubeNet` | edge pairings, walks over the cube, streamed area, neighbours of blocks | |
| `PlanetStreamer` | selection, generation, drawing and eviction of the quadtree | |
| `ChunkMesh` | the faces of a chunk's mesh | |
| `AndroidApp` | the application around GameRuntime, EGL, multicast lock, touch controls | its lost window is the action `WindowLost` of SessionFlow |
| `ByteFields` | fields as bytes: writers and readers | extended by the next two |
| `NetCodec` | header and fields of the network's messages, and what a reader refuses | the messages of NetPlay |
| `SaveFormat` | format of a saved game, checks of encoding and decoding | the contents of SaveFile, the disk of WorldEdits |
| `TickPacing` | fixed steps of the client and ticks of its local server | steps are those of PlayerMotion, ticks those of NetPlay |
| `GlobeDetail` | how finely a globe is drawn | the grids of TerrainScene's globes |
| `Minigames` | snake, tetris, tic-tac-toe | |

Five MC modules hold several of these, which share no state. `MCThreads` extends JobSystem and
WebSession: a behaviour runs the threads of one of them. `MCClient` extends WorldEdits and SessionFlow in the same way, and `MCPlayers` NetPlay, DesktopControls,
AndroidApp and PlayerMotion. `MCGround` holds five parts, TerrainScene, CubeNet,
PlanetStreamer, ChunkMesh and GlobeDetail, and `MCParts` eight, NetSeqWindow, SaveFile, Voyage, EventBus,
Minigames, NetCodec, SaveFormat and TickPacing: a behaviour picks
one and runs only that one, from that part's own initial states, while the others rest (`OthersRest`). That is what twenty-one
runs would check, with five starts of TLC; the parts are not interleaved, since nothing one of them does can be seen by
another. Some properties join two or three of a part: `SceneIsCurrent` (TerrainScene), `NoHoleOpens` (PlanetStreamer),
`BusKeepsItsWord` (EventBus), `AppIsInTouch` (AndroidApp), `ClocksStayTogether` (TickPacing), `JumpsAreAnsweredAndHeard`
(PlayerMotion), `CubeIsWhole` (CubeNet) and `MinigamesAreSound` (Minigames) name the properties that they stand for. The MC
modules extend every part, and instantiate none, so that a run and a proof speak of the same definition; where two parts had the same name for a
variable, the name says whose it is (`controls_phase`, `window_input`, `held_controls`, `minigame_seed`, `flow_pc`). `MCPlayerMotion`,
`MCDesktopControls` and `MCChunkMesh` check one part alone, for a violation that takes constants of its own or a short search.

An `MC` module extends the module it is named after with what TLC needs; a `Proofs` module
holds its theorems. Operators with a comment that begins with "mutant" are defects used
to show that a property can fail; no specification uses them.

**NetPlay.** A connection is one incarnation of an ENet peer pair. `down` and `up` hold the
messages on their way, of both channels: reliable ones keep their order among themselves,
the others are lost, or overtaken, at will, except on the connections of `InOrder`,
where no datagram overtakes another. A server step is one event of `NetServer::pump` or one
of the timed parts after its loop; a client step is one event of `NetClient::pump` or one
call of Engine. A client has the one peer of its ENet host: connecting while it still says
goodbye is refused (`ConnectRefused`). Positions are reduced to whether a player is near another, chunks
to the body they are on. Not in it: movement, packet statistics, validation of axes.

**SessionFlow.** `flow_pc` walks through a frame: menu, `update`, engine tick. The four choices
are the whole handlers, from the flags of RuntimeSessionFlow down to the peer, the
discovery socket and the server. `slot` is the ENet peer as NetPlay has it. A server and a
socket may fail to open. Time is counted in frames. `attempt_age` is history: how long the
present attempt has been seen connecting. `WindowLost` is a phone's window that goes and comes back
between two frames: `Engine::shutdown` and `Engine::init` close server, discovery and connection, and
RuntimeSessionFlow is not told; `window` is history. Assumed: ENet itself initialises.

**WebNetClient, WebSession.** A step is one critical section of the main thread or of the worker, or one thing the
worker does between two. `shared` is `SharedState`: its three optional requests are the set `waiting`, which
the worker moves to `taken` (`TakeRequests`), carries out (`Obey`: disconnect, connect, interest), and after its pump
overwrites the rest of `shared` (`Publish`). `page` walks through the calls of a frame: menu, the snapshot and the
decision of `update`, engine tick with a possible switch of planet, whose look at the session and whose request are two critical
sections. The page connects once, when it is opened with `?server=`; in a browser, hosting and searching open
nothing. Closing the page detaches the worker, which ends by its flag. `asked` is history. Inputs,
snapshots and players pass through and are left out.

**WorldEdits.** `pc` walks through the phases of a frame that touch this state: session calls, assisted
landing, simulation (touchdown), transfer of the ship, block interaction, flush of the
save, streaming of terrain. `world` is the active runtime, `parked` the others, `edits` the
journal, `disk` the saved game. A chunk has one block that matters; what is near, aimed at,
or reached is left open. A saved game may be missing or damaged, a save may fail, and the
process may be closed between frames or die anywhere.

**SaveFile.** A step is one call of the file system, and each may fail, except
`fs::exists`; the process may die between any two. The machine does not lose power: the code
calls no `fsync`, and nothing in it promises more. The start reads `ReadBinaryFile`: the main file, or
the backup when there is none.

**JobSystem.** A step is one critical section, one wait, one notification or one job. A
notification comes after the mutex was released, so others may come between; spurious
wake-ups happen. Jobs may schedule jobs.

**EventBus.** The call stack is state: frames of drains and dispatches, so that a handler
that emits, drains, subscribes or unsubscribes is a step like any other. Ids are given in ascending order, so
that the vector of subscribers is a function of ids and the ids that a dispatch has copied are a set, of which it
takes the least. `clear()` is called from outside, as `Engine::init` does. The counter of dropped events is left out.

**TerrainScene.** The chunks of the surface are a ring of columns, the slice of the cube sphere along the
player's way, and a chunk has one block on each side that meets the next column. A frame may move
the player, change a block, evict what is out of reach, generate chunks and build meshes under two
budgets, rebuild the globe, and upload. `scene` holds meshes under their ids with the blocks and
neighbours they were built from, `gpu` the renderer's copies; an arrival at another body swaps the world
and resets both (`SwitchActivePlanet`).

**Voyage.** `phase` walks through `Engine::tick`: input, F6, selection, suppression of actions,
assisted flight, ship and its fixed steps, transfer, blocks. What the cursor hovers, whether the ship is near,
touches ground or has entered another sphere is left open, with one fact of `solar_system.cpp`: a ship on the ground of a
body is in that body's sphere.

**PlayerMotion.** Times are counted in steps of 1/60 s as the float timers count them, velocities in
what gravity takes per step. A frame has `MinSteps` to `MaxSteps` fixed steps. What collision finds is open. The ship and
flying take the player over and hand back what they find.

**DesktopControls.** Window events change `held` between frames, unless the focus is away; a poll takes edges
from `held` and `prev`. Sky navigation is remembered by DesktopInputBackend (`cursor_ui`) and by Engine (`overlay`).
F6 may come at any time, also in an open menu and together with the Escape that opens or closes one; the platform takes
every one, the engine those outside the menus. `apart` is history: the key was pressed in open menus an odd number of times.

**CubeNet.** `EdgePairings` is the table of 24 directed edges, `OffsetChunkAddress` a walk, `BlockNeighbour` and
`MeshNeighbour` the two computations of a block's neighbour, `ChunksTouching` what an edit remeshes. The
reference is geometry: a cell's corners as points of the cube.

**PlanetStreamer.** A node is the path to it from one of the six faces. `Update(v)` is one `PlanetStreamer::update` for a
camera: what the frustum sees and where finer nodes are wanted. Order of requests under the budget is left open.

**ChunkMesh.** `ChunkFaces` is the set of faces that both passes of `build_chunk_mesh` emit. A state is a chunk with the height of the
`ground` beyond its four flanks and what is at its two `ends`; `MeshInit` takes every chunk and surroundings that a height field can generate, and the player breaks or places blocks.
All blocks of the game are full ones, so the fractional heights the code could draw do not come up, and level of detail is 0.

**AndroidApp.** A step is one event of the looper or one pass of the main loop after it. The system may give or
take window and focus in any order, and every step of `AndroidHost::initialize` may fail. A finger is classified by
where it went down, when it goes down and again when it goes up, with the screen as it is at that moment (`Classify`, in thousandths
of a pixel): its size, which `UpdateSurface` changes in any frame, and whether GOD MODE is expanded, which a tap of any finger toggles. The points that are touched and the
sizes of the screen are constants (`Spots`, `Screens`). `zones` and `stranded` are history: the zones the start of a finger has been in since it went down, and
what is held from a zone that its finger's start had left when it was lifted. Taps that are latched for one frame (menu, F1 to F4) change nothing else and are left out.

**ByteFields, NetCodec, SaveFormat.** A field is a name and a width, and its bytes are its value with their
places, so that any mix-up of fields shows. NetCodec has the two lists of fields of each message, as `write_payload`
and `read_payload` have them, and touches the packet on its way: shorter, longer, of another type, version or build.
SaveFormat has `encode_persistent_game_state` and `decode_persistent_game_state` with all their checks over games of this build,
files it wrote that were damaged, and files of a build that knows more stages, bodies or materials. The checksum tells all
payloads apart. Lists are written and read by recursive functions, field after field and edit after edit. How numbers become bytes, and bounds on floats other than "too far" and "not finite", are left out.

**TickPacing.** A frame takes some time, in thirds of a millisecond; `RuntimeGameSession` makes steps of it, `NetServer::pump` ticks,
each with its own clock and limit. The pump that every fixed step repeats finds no time passed. `lead` is history.

**GlobeDetail.** A frame sees the body at some diameter in pixels and asks `planet_globe_subdivisions` for a grid with the last
answer. `turned` is history.

**Minigames.** The state of each game and its tick. Of the random generator the two lowest bits are kept, on which all draws
depend as far as modelled; whether a timer is over is left open.

## Runs

| run | module | states | what it shows |
|---|---|---|---|
| `net_sessions` | NetPlay | 109k | one client, two connections and two server lives: nothing of a session is seen in the next, and who connects is greeted |
| `net_inputs` | NetPlay | 308k | one client's inputs and interests, late, twice or lost: one press is one jump, inputs never go back |
| `players` | four parts, see above | 2.6M (about 65 s) | `SessionInfoIsCurrent`, `RemovedPlayersAreForgotten`, `PlayerStatesNeverGoBack`: two clients come and go; the player count is current, who left is forgotten unless a late state brings him back, states never go back. `CursorPolicyFollowsOverlay`: the desktop. `AppIsInTouch`: the phone. `JumpsAreAnsweredAndHeard`: the player's steps |
| `client` | SessionFlow, WorldEdits | 114k | hosting, searching, joining, leaving and losing the window in every order, with two hosts on the network; edits, expedition, transfers, saves that fail, crashes, restarts, damaged files |
| `session_retry` | SessionFlow | (violation) | see Findings |
| `threads` | JobSystem, WebSession | 24k | the worker pool implements JobPool, jobs are run, waits end; page and network worker in every interleaving, from opening the page to closing it |
| `world_round_trip` | WorldEdits | (violation) | see Findings |
| `ground` | five parts, see above | 359k (about 80 s) | `SceneIsCurrent`, `FacesMatchNeighbours`, `GroundIsDrawn`: what is drawn is the ground as it is, faces agree across chunks, the globe is the right one, and the ground appears in the end. `CubeIsWhole`: walks and neighbours on the cube. `NoHoleOpens`: the quadtree. `SurfaceIsClosed`: the mesh. `GlobesSettle`: detail of globes |
| `parts` | eight parts, see above | 1.7M (about 90 s) | `VerdictIsTrueOrder`: wrapped counters give the verdict of the true order. `SavesAreAtomic`: every failure and crash of the atomic write implements SaveCell. `BusKeepsItsWord`: handlers that use the bus. `PilotIsAboard`, `CourseIsSound`: the voyage. `MessagesSurvive`, `SavesAreReadable`: the two formats. `ClocksStayTogether`: client and server time. `MinigamesAreSound`: their rules |
| `jump_lost` | PlayerMotion | (violation) | see Findings |
| `cursor_caught` | DesktopControls | (violation) | see Findings |
| `tunnel_walls` | ChunkMesh | (violation) | see Findings |

**Bounds, and why they are enough.**

- `net_sessions`: the second connection of the one client is the first that meets leftovers, and two epochs let a
  server die and come back between. Two snapshots per connection make an old and a new
  one; one broadcast, with nobody to tell of. `players`, NetPlay: with two clients and two connections each is once the observer and once the one
  who leaves; connection 1 keeps order, connection 2 does not, so both kinds of path are
  there; two broadcasts make a newer and an older state. `net_inputs`: ticks 0 to 2 give an old, a current and
  a new input; three bodies are the two supported ones and one the server refuses. `MaxFlight` 2 is
  the least that lets messages change places. `HalfWindow` 8 keeps counters from wrapping;
  the wrap is NetSeqWindow's.
- `players`, the others. DesktopControls: two keys held together make the combinations a frame can mistake
  (in `cursor_caught` one is enough). PlayerMotion: `MaxSteps` 2 repeats a step on one input, `MinSteps` 1
  leaves out the short frames of `jump_lost`. AndroidApp: three fingers are one more than are followed
  (the code follows a fixed number too); a 4:3 screen, where the keys of GOD MODE reach into the stick's half, and a wide one, and three points: under the
  stick and those keys, on the toggle of GOD MODE, and on the jump button of the one screen that is the stick's on the other.
- `client`, SessionFlow: four choices are enough to host, leave, search and begin again with leftovers of each;
  a lost window counts as a choice; two hosts make a queue; three frames of timeout and of expiry are more than an attempt and a beacon need to
  pass each other.
- `threads`: a job that schedules another and a caller that waits need two workers to race; with one
  caller, as `schedule` and `wait_idle` are used. In the page two choices put a disconnect before and after the worker has taken the first one; a timeout of two
  frames lets the timer run, and be reset, before it ends an attempt.
- `client`, WorldEdits: two bodies with terrain and the star, one chunk, one material, one block
  edit that fits a saved game, so that the second edited block is beyond the limit; a
  debounce of two frames so that a save waits, is due and is late. Everything between
  bodies needs two, everything between journal and cache one chunk.
- `ground`: TerrainScene has a ring of six columns, one of them of air only, with a reach and a slack of one: two moves leave a column
  on each side, come back, and cross the air; budgets of two are less than what comes into reach; one edit lies on a border of chunks. One
  size of grid, since the grid only numbers the meshes. CubeNet: seven chunks along an edge hold a streamed area of
  radius 2 and its halo inside one face, across one edge and around a corner. PlanetStreamer: a root with two levels of two children, a budget of one mesh per
  update, three updates until eviction; `MaxVisible` holds the whole tree. ChunkMesh: 2 x 2 x 2 blocks have columns with and
  without neighbours on each side and a block below another; every height field on them is tried. GlobeDetail: all grids, and a diameter on and on
  both sides of every threshold, which are all the cases there are.
- `parts`: NetSeqWindow has a counter of 8 values (`HalfWindow` 4) and 18 messages, which wrap twice; the verdict depends on differences only, so width
  adds nothing (and is proved not to). SaveFile has two saved games, an old and a new one. In the voyage two bodies and the star are every kind of target, and `TransferCooldown` 1 still forbids two transfers
  in a row. EventBus: three frames are a handler inside a dispatch inside a drain; queues of two hold events whose order can be
  told and are full after the second of three; two
  subscriptions are the one that runs and the one it changes. Minigames: a grid of 4 x 4 lets the snake
  meet itself, and a board of 5 x 5 fills in a few pieces and clears up to three rows at once; a length of 5 and a score of 300 end the game. NetCodec: every message, as it is in the
  code. SaveFormat: two edits at most, so that three are too many; one more of everything than this build knows. TickPacing: the
  numbers of the code, with frames of a third of a millisecond, of one tick, of just below, at and above the eight ticks that the server
  makes up for, and of more than either counts.

State spaces are bounded by guards on named constants only; no state
constraint and no symmetry is used.

**Fairness, and why the code justifies it.**

- `net_sessions`: `pump` runs each frame on both sides and ENet retransmits what is reliable, so a
  CONNECT event that stays and a message that stays deliverable are taken (weak fairness). Nothing is
  assumed of lost or timed events.
- `client`, SessionFlow: frames go on (weak, the parts of a frame); a goodbye ends, by an answer or by ENet's own
  timeout (strong, since it can end only in the tick part of a frame); hosts repeat their beacons
  (weak). The CONNECT event and the player's choices are not assumed.
- `threads`: threads of the pool that can go on do, and jobs end; spurious wake-ups are not assumed. Frames of the page go on, and so does the worker, whose proxied socket calls do not block for ever (weak).
  Nothing is assumed of the WebSocket, of ENet's events or of the server.
- `ground`: frames of TerrainScene follow one another (weak). That the player stays is a premise of the property, not of the fairness.
- `client`, WorldEdits: a frame goes on; a save tried again and again succeeds in the end (strong).

`net_inputs`, `players` and `parts` assume no fairness: their properties are invariants, step properties and one refinement.

**Deadlock** is checked except in `net_*` and `players`, where the bounds on connections, ticks and messages run out, in
`threads`, where a closed page is the end and `wait_idle` before `init` really waits for ever, and in `tunnel_walls`, where
the bound on edits runs out. In `parts` and `ground` a part that is over (all messages sent, a packet touched, no block to dig) stutters explicitly, so that the others are checked for deadlock.

## Proofs

| module | theorem | by |
|---|---|---|
| `NetPlayProofs` | `TypeOK`, `SnapshotBaselineIsCurrent`, `IdentityIsOfThisSession`, `JumpOncePerPress`, `InputsNeverGoBack`, `PlayerStatesNeverGoBack`, and `SessionStateIsCurrent`, which joins the two about a session | `TypeOK`, the invariants of a session and of the jumps below |
| `NetRosterProofs` | `SessionInfoIsCurrent`, `RemovedPlayersAreForgotten` | `RosterInv` below, on top of NetPlayProofs |
| `WorldEditsProofs` | `TypeOK`, `RuntimesAreOfTheirBodies`, `ChangedBlocksAreRecorded`, `StageIsEarned`, `MemoryCoversDisk`, `SavedProgressIsKept`, `ReloadShowsEveryEdit`, and `WorldIsSound`, which joins what holds of memory and disk | they are inductive together |
| `SessionFlowProofs` | `TypeOK`, `RolesAgree`, `TimerIsOfThisAttempt`, `LeftMeansAlone`, and `OneRoleAtATime`, which joins them | `FlowInv` below |
| `ThreadProofs` | JobSystem: `TypeOK`, `KeepsPromise` (it implements JobPool). WebSession: `WebTypeOK`, `IdNeedsSession` | `Inv` and `WebInv` below |
| `EventBusProofs` | `BusKeepsItsWord`: its invariants and its two action properties | `DispatchInv` and `EventsInv` below |
| `GroundProofs` | TerrainScene: `SceneTypeOK`, `SceneIsCurrent`, `FacesMatchNeighbours`. PlanetStreamer: `DrawnOnce`, `NoHoleOpens`. ChunkMesh: `SurfaceIsClosed`. GlobeDetail: `GlobesSettle`. CubeNet: `CubeIsWhole` | `SceneInv` below; one update at a time; gaps go up; `GlobeInv` below; `WalkIsOnItsWay` below |
| `PartsProofs` | NetSeq: the comparison is the true order inside half a window, for every width, hence `Window`, `VerdictIsTrueOrder`, `NeverOlder`. SaveFile: `FilesInv`, `SavesAreAtomic` (it implements SaveCell). Voyage: `PilotIsAboard`, `CourseIsSound`. DesktopControls: `CursorPolicyFollowsOverlay`. AndroidApp: `AppIsInTouch`. TickPacing: `ClocksStayTogether`. PlayerMotion: `JumpsAreAnsweredAndHeard`. ByteFields: what is written as a list of fields is read as it was. NetCodec: `MessagesSurvive`. SaveFormat: `SavesAreReadable`. Minigames: `MinigamesAreSound` | `Window` and `FilesInv` are inductive; `VoyageInv`, `ControlsInv`, `TouchInv`, `PacingInv`, `MotionInv`, `PacketIsSent`, `FileIsSaved`, `MinigamesInv` below |

A module that proves about several parts treats them one after the other; no proof of one part uses a fact of another.

**Why the properties are not inductive alone.**

- NetPlay. That a client's snapshot is of this session depends on what is still on the wire: the invariant
  ties the messages in `down` to the player the server keeps for that connection, and the peer slot to the
  link's state. That one press makes one jump depends on the press bit being cleared
  by the first tick that reads it: presses accepted, less the one still pending, cover the jumps made.
- NetPlay, the players of a session. That a client forgets who was removed depends on every message that could still bring
  the name back: `RosterInv` says that what a client shows becomes true once the queue of its connection is read: the last
  session message on it has the count; and where datagrams keep their order, whoever the client or a message names is a player of the
  server, or the message that removes him is behind. Where they do not, the property is about a step: a client shows a player who is gone, with no removal to come,
  only if it did before or just read a state that the removal had overtaken (`NoNewGhost`, for each action in `EveryStepKeeps`). Both need that no two clients share a connection (`OwnConns`).
- JobSystem. `Inv` adds that `active` counts exactly the workers between taking a job and giving
  it back, that no job is in two places, that a caller is owed jobs only while it waits,
  and that once a worker has left a shutdown nothing the shutdown answers for is queued. The last is what
  makes `shutdown` an `EndWait` of JobPool.
- WorldEdits. A start takes over an earned stage only because what was on the disk was earned, and
  the disk holds only what memory held: `StageIsEarned` and `MemoryCoversDisk` need each other,
  and `OffIsFresh`, that the process starts with an empty journal.
- SessionFlow. `FlowInv` adds that an attempt that still runs has time left, which makes the timer's range
  hold, and that nothing runs before `--connect`. `TimerIsOfThisAttempt` needs `RolesAgree`: the
  search alone can begin an attempt outside the menu, and it does so with the timer at 0. A lost window is a step
  of its own (`WindowStep`): with discovery off nobody is heard (`NobodyIsHeard`), so a search that lost its socket begins no attempt.
- WebSession. `connect()` shows "connecting" and leaves the player id as it is, as `BridgeFails` does with
  "disconnected". That the id is unset in both places needs: the worker knows its player only in a session, shows nobody before
  its first cycle, and a page that has not connected has no request, no peer and no id (`WebInv`).
- Voyage. The parts of `CourseIsSound` need each other, since a landing is the end of a course and the stage moves when a course is locked,
  and they need `NavigatorsHandsAreFree`: after the actions of the frame were disabled, and as long as sky navigation is on, no button
  boards, digs or builds in the rest of the frame.

- EventBus. What a dispatch promises while its handlers change the bus needs the whole stack: `DispatchInv` says that the depth
  counts the dispatches on it, that the newest finds its ids in `dispatch_ids` and each other its own put aside by the one above
  (`IdsAreKept`), that a dispatch has called everyone it came to but those who unsubscribed (`ProgressIsSound`), and that inactive
  subscribers exist only while one is under way. `EventsInv`: what was accepted waits in order or was dispatched.
- TerrainScene. A mesh is current, or its chunk is marked for a rebuild, only together with what the scene has under its id
  (`MeshesAreCurrent`), what the renderer holds of it (`GpuShowsScene`) and the globe of the body (`GlobesAreCurrent`). A neighbour's
  arrival or an edit on the border marks both sides, which is what `FacesMatchNeighbours` rests on.
- PlanetStreamer. `NoHoleOpens` speaks of one update from the state before it, so the proof is of one step: a node in
  sight that is not drawn lies under a node on its path that is not refined. The least such node is the one that is
  drawn; `LeastNatural` takes it, from the theorem on minimal elements of well-founded orders.
- ChunkMesh. Nothing but the types is needed of a state; the argument is about natural ground. A gap beside a block is beside every block
  over it (`GapsGoUp`, `SidesGoUp`), so the walk down the column does not give up before it comes to that block, and no block
  shows from below.
- GlobeDetail. How far a body must shrink before its grid is coarsened follows from how large it was when the grid was chosen:
  `GlobeInv` keeps that size beside the grid, as the thresholds of refining and coarsening left it.
- CubeNet. A walker is kept with its frame: a face, the axis and sign it goes on with, and the side from which positions across
  are counted. Over an edge a frame goes on as `OnwardFrame`. Two facts about frames are finite and found case by case from the
  table: the cube rolls under the walk (`RollsOver`: the next face is the last one turned about the walk), and after four edges the frame is the first
  one again (`OnceAround`). The rest is for every size: `WalkIsOnItsWay` says which cell of
  which frame the walker and the one before it stand on. Blocks are cells of the finer grid, so the same step serves for
  `BlockNeighbour`. The halo is a question of which band of cells a walk from `start` enters, on its own face or over one edge.
- DesktopControls. Between the poll and the engine's turn, the platform is ahead of the engine by the F6 the engine has still to read, and
  where the history says so by those it ignored (`PlatformIsAhead`); that an open overlay is free of the pointer lock and of clicks is the platform's own doing
  (`CursorIsFree`). Nothing is assumed of when F6 is pressed.
- AndroidApp. A finger is classified when it goes down and when it goes up, and GOD MODE or a new size of the screen may move the zones between the two.
  The zone its start is in now is always one of those the history has (`FingersAreFollowed`), so that what its release does not let go is in `stranded`.
- TickPacing. Between stalls the steps of the client, the ticks of the server and what both carry over add up to one
  constant (`Drift`), so that every bound on what is carried is a bound on how far they are apart.
- PlayerMotion. That a jump is heard needs that the animation has advanced as often as the velocity has lost its two units at most
  (`JumpRises`), and a landing that it is ahead of the timer, which rests aboard the ship (`LandingIsAhead`). That a press is
  answered needs that it is fresh in the first step of its frame (`PressIsFresh`), and the premise that there is one: `MinSteps > 0`, as the
  run has it, and as `jump_lost` shows to be necessary.
- NetCodec, SaveFormat. The states are simple: a packet that was not touched is what was sent (`PacketIsSent`), and a file is the
  saved game or one that is refused (`FileIsSaved`). The work is in what a reader makes of bytes. `FieldsAreReadAsWritten`: any list of
  fields is read from any place as it was written there, by induction over the fields; where each field lies is
  `FieldsLieInOrder`. A message is one list, and the two lists of each type agree (`ReadAsWritten`). A saved game is the list of its head
  and one list per edit (`PayloadInOrder`), and the loop over them ends with all edits or at the first that is not valid
  (`EditsComeBack`), so that a game is accepted only when it could be written and nothing follows it (`GameComesBack`). In both formats
  writer and reader are proved from their own lists and checks.
- Minigames. `MinigamesInv` has the three games side by side. The snake is a line of different cells (`PushedLine`: a head pushed in
  front of one, on a cell that the rest of it leaves, makes another), and its food was drawn off the line and is drawn again when the
  line reaches it. For tetris the work is in the rounds of `tetris_clear_lines`, which moves rows while it looks for full ones:
  `Looped` says after each round that no row below the one looked at is full, that as many rows at the top are empty as were taken
  out, and that each of these took its cells with it; the loop ends, since every round goes up by a row or takes one out
  (`LinesCleared`). A piece is always four cells (`CellsAreFour`) and the score a hundred for each row, so what was placed is what lies there and
  what was scored. In tic-tac-toe the marks count the turns (`FairInWords`): nine is odd, so that the answer of the
  noughts never takes the last square, and one that answers a cross finds a board without a line (`TicTacToeTicks`).

**Assumptions** are the named ASSUMEs of the modules: finiteness and disjointness of the sets, bounds in
`Nat`; `CountersFitAssumption` (counters of NetPlay do not wrap; NetSeqWindow treats the wrap) and
`SavedGameAssumption` (a saved game is none of the marks for a missing or damaged file); `TickPacingAssumption` (a quarter of a second is a number of whole
ticks, and more than the server makes up for); `PlanetStreamerAssumption` (what a camera sees are finitely many nodes); `SaveFormatAssumption` (the numbers that this build knows of
stages, bodies and so on have no gaps, and its games have lists of block edits); `CubeNetAssumption` (a face has a chunk, and a chunk more than one
block along an edge: with one block, its two borders are the same); `MinigamesAssumption` (the new snake has a cell behind
its head and a new piece of tetris fits on an empty board).
TLC evaluates them in every run.

**Model-checked only.** Liveness (`ConnectedIsGreeted`, `EveryJobIsRun`, `WaitsEnd`,
`EditsReachTheDisk`, `ConnectingEnds`, `NewHostsAreJoined`, `DisconnectSettles`, `AttemptsEnd`,
`InterestIsSent`, `ClosingEndsAll`, `GroundIsDrawn`): TLAPS has no rule for fairness here. Every
invariant and every step property of a run that passes is proved as well. The other way round, the type
invariants of JobSystem, WorldEdits, SessionFlow and WebSession, and `Window`, are proved for every value of the constants and in no run.
Recursive operators are outside the prover, and so are the induction theorems of its library, which take an operator as a
parameter; no module uses RECURSIVE. Where a proof needs induction over a number, it takes the least counterexample
(`LeastNatural`), or the set of the numbers of which something holds (`UpTo`); that a function defined by recursion exists is
`Recursion`, for steps that are functions themselves.

## Findings

- `world_round_trip`: `Engine::stream_block_terrain` evicts edited chunks (engine.cpp:1600, 1327), a
  missing chunk is generated from noise alone, and the journal is applied only at a start. After a climb to
  altitude, or a walk away and back, a resident chunk shows the generated block; the comments at
  engine.hpp:217-219 and engine.cpp:2238-2240 say that edits survive round trips. The journal keeps the edit (`ChangedBlocksAreRecorded`), so a restart
  shows it again (`ReloadShowsEveryEdit`).
- `session_retry`: a search started while connected finds the peer still saying goodbye; if a host is heard in that time, `connect` fails, the text
  says "Join failed. Retrying discovery..." (runtime_session_flow.cpp:91), but the host was popped and stays in the table as long as it
  beacons, so `upsert_host` never queues it again: the search goes on without trying it, also after the peer is
  free. `NewHostsAreJoined` says what does hold: a host not heard of before is joined.
- `jump_lost`: a frame shorter than what the accumulator lacks has no fixed step, and `Engine::simulate_frame` still clears
  `jump_pressed` at its end (engine.cpp:1199): on a display faster than 60 Hz a press on the ground may do nothing, though
  README.md:81 says "`Space`: jump". With a step in every frame, `JumpsAreAnsweredAndHeard` holds.
- `cursor_caught`: `DesktopInputBackend::poll` toggles its sky navigation at every F6 (input_desktop.cpp:42-48), while
  `Engine::apply_session_input` ignores the key in an open menu (engine.cpp:813-815). After an F6 in the menu an open overlay has lost its cursor: the next click locks
  the pointer and turns the view, though input_desktop.cpp:45 says "Sky navigation is a cursor UI, not a first-person look mode." `CursorPolicyFollowsOverlay`
  says what does hold: the two agree, unless the key was pressed in open menus an odd number of times.
- `tunnel_walls`: `build_chunk_mesh` leaves a column at the first block that added no face (planet_blocks.cpp:1270) or is air
  (planet_blocks.cpp:1097), so walls and ceiling of a tunnel are missing where the column above is closed in, though
  planet_blocks.cpp:1076 speaks of skipping "Fully buried blocks". As long as nothing hangs over air, `SurfaceIsClosed` holds.

Observed, and promised otherwise nowhere (most are among the hazards in `PROJECT.json`): a host who was connected when
choosing to host is left without its own client, as `connect`'s result is dropped (engine.cpp:2126, 2136); a
host whose server failed to start still advertises (engine.cpp:2137); an interest within 50 ms of the last is
lost (server_session.cpp:252); a damaged saved game is overwritten by the next save (engine.cpp:2358); with a second
caller `schedule` may wake a waiter instead of a worker (jobs.cpp:49); in a browser a disconnect is carried out before a request to connect
that still waits, so an attempt called off while the WebSocket opens is dialled after all (web_net_client.cpp:95); landing and course lock save once and are not retried (engine.cpp:971);
a press of jump shortly before boarding is kept while aboard and jumped on leaving (engine.cpp:1085); a PlayerState that comes after the PlayerRemove it left before brings the player back
until the session ends (net_client.cpp:340); around a corner of the cube a chunk may miss a streamed neighbour; evicting the root above drawn nodes
lets coarsening open a hole (planet.cpp:1456); a search goes on with its socket closed after the window was lost, until the next choice; the
multicast lock is given up with the window and not taken again while the focus stays (android_main.cpp:522), and an
initialization that failed is tried again only when the looper wakes without an event; a control stays held when GOD MODE or the size of the screen
moved its zone between the press and the release of its finger (android_runtime_adapter.cpp:112); after a stall the client runs up to 15 fixed steps and its local server 8 ticks, so that they are
apart by the rest (net_server.cpp:447); `PlanetLODSystem::compute_lod` speaks of a `hysteresis_factor` (planet_lod.cpp:72) that it
does not use, without effect as long as the game keeps `max_lod_level` at 0 (engine.cpp:435). In the minigames: the seed's low bits repeat in a short cycle, so that tetris pieces come in
one fixed order and the snake's food keeps to one class of parity; two quick turns within a step turn the snake back into itself (minigames.cpp:173);
tic-tac-toe counts its cooldown down twice in a tick.

## Not modelled

- Floating-point geometry: planets' noise, orbits and atmosphere, vertices of meshes, picking, physics, vehicles, flight,
  pose blending, camera. TLC has no reals, and the properties would be numerical.
- Output and input: drawing, HUD, audio, assets and their cooker, other platform layers. They keep no state that others depend on.
- Vendored code (`cgltf.h`, `stb`), generated texture tables and the tests, which together are a large part of the lines of the repository.
- Code that nothing runs: `RemoteInterpolator` is never created, `WebSessionFlow` is in no build, and `RuntimeWorldState` and the greedy
  mesher of `VoxelChunk` have no caller in the game. Only tests run `PlanetStreamer`, `PlanetLODSelector`, the transition manager of the
  atmosphere and the minigames; the first and the last are modelled all the same.
- Of the formats: numbers as bytes, the ranges of floats, the device's key store.
- Of the minigames: golf and racing, which are float arithmetic, and the ranking of scores.
- Of modelled components: packet statistics, logging, names of hosts, the text of what is shown beyond what `update` tests,
  the sliders and the pointer in the menu, what the taps on F1 to F4 and on the menu do on touch screens, meshes of coarser levels of detail of chunks, power loss of the machine, errors of `fs::exists`, failure of ENet to initialise.

## Plan

Done, in this order: NetSeq, NetSeqWindow, NetPlay; JobPool, JobSystem; EventBus; SaveCell, SaveFile;
WorldEdits; LanDiscovery, SessionFlow; WebNetClient, WebSession; TerrainScene; Voyage; DesktopControls;
PlayerMotion; CubeNet; PlanetStreamer; ChunkMesh; AndroidApp and the lost window in SessionFlow; NetCodec, SaveFormat,
TickPacing, GlobeDetail, Minigames; the proofs above.

Next, most important first:

1. `WorldSave`: WorldEdits over SaveFile, so that a save of the world is the file system's steps and not one.
   Promise: a crash inside a save leaves the last saved world, journal and expedition together.
2. Voyage composed with WorldEdits and TerrainScene: the three modules have the same changes of body, each with its own part of the state.
3. Voxel collision's integer part, chunk keys and the terrain's block heights against reference definitions.
4. The parser of `.vox` models, and the greedy mesher once something runs it.

Theorem to come: the refinement of WorldEdits' one-step save by WorldSave.
