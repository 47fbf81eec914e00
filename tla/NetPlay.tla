------------------------------ MODULE NetPlay ------------------------------
(***************************************************************************)
(* Multiplayer play: one NetServer with its ServerSession, the NetClient   *)
(* of every player, and the part of Engine that drives a client.           *)
(*                                                                         *)
(* A connection is one incarnation of an ENet peer pair: the client's      *)
(* single peer slot on one side, the ENetPeer pointer that keys            *)
(* client_states on the other.  Channel 0 (Reliable) is delivered in order *)
(* and without loss while both ends live; channel 1 (Unreliable) loses     *)
(* messages.  On the connections of InOrder datagrams keep their order, as *)
(* on the loopback connection of host_local_session; on the others the     *)
(* channels overtake each other and channel 1 reorders.                    *)
(*                                                                         *)
(* A step of the server is one event of the while loop of NetServer::pump, *)
(* or one of the timed parts that follow the loop; a step of a client is   *)
(* one event of NetClient::pump or one call of the Engine.                 *)
(*                                                                         *)
(* Positions are abstracted to whether a subject is near an observer, and  *)
(* the 25 chunk coordinates of an interest of radius 2 around the origin,  *)
(* the only one Engine asks for, to the body they lie on.                  *)
(***************************************************************************)
EXTENDS NetSeq, Sequences, FiniteSets, SequencesExt

CONSTANTS
    Clients,            \* players, one NetClient each
    Bodies,             \* celestial bodies an Engine can be on
    SupportedBodies,    \* those the server accepts (body ids 1 and 3)
    NoBody,             \* no pending interest
    HomeBody,           \* body id 1: spawn body and default interest
    MaxConns,           \* bound: connections ever opened
    MaxEpochs,          \* bound: times the server is started
    MaxTick,            \* bound: inputs a client sends
    MaxSnapshots,       \* bound: snapshots sent to one connection
    MaxBroadcasts,      \* bound: broadcasts of one player's state
    MaxFlight,          \* bound: messages one direction of a connection holds
    InOrder             \* connections on which no datagram overtakes another

ASSUME NetPlayAssumption ==
    /\ NoBody \notin Bodies
    /\ HomeBody \in SupportedBodies
    /\ SupportedBodies \subseteq Bodies
    /\ {MaxConns, MaxEpochs, MaxTick, MaxSnapshots, MaxBroadcasts, MaxFlight} \subseteq Nat
    /\ InOrder \subseteq Nat

\* Counters stay inside the window in which Newer is the true order
\* (NetSeqWindow treats the wrap).
ASSUME CountersFitAssumption ==
    /\ MaxTick < HalfWindow
    /\ MaxSnapshots + 1 < HalfWindow
    /\ MaxBroadcasts + 1 < HalfWindow

Conns == 1..MaxConns
PlayerIds == 1..MaxConns            \* player_id 0 is "not assigned"
NoConn == 0

VARIABLES
    running,            \* NetServer::server # nullptr
    epoch,              \* number of times init() opened the host
    next_player_id,     \* ServerSession::next_player_id
    client_states,      \* ServerSession::client_states, keyed by connection
    link,               \* connection -> how far its ENet handshake is
    down,               \* connection -> messages on their way to the client
    up,                 \* connection -> messages on their way to the server
    slot,               \* client -> state of the one ENet peer of its host
    conn,               \* client -> connection occupying that peer
    net,                \* client -> fields of NetClient
    active_body_index,  \* client -> Engine::active_body_index_
    sim_tick,           \* client -> tick of the last input sent
    chunk_log           \* ghost: connection -> chunks the client was given

server == <<running, epoch, next_player_id, client_states>>
wires == <<link, down, up>>
client == <<slot, conn, net>>
engine == <<active_body_index, sim_tick>>
vars == <<server, wires, client, engine, chunk_log>>
-----------------------------------------------------------------------------
(* Messages *)

AssignPlayer(id) == [type |-> "AssignPlayer", id |-> id]
SessionInfo(n) == [type |-> "SessionInfo", players |-> n]
PlayerRemove(id) == [type |-> "PlayerRemove", id |-> id]
ChunkState(b) == [type |-> "ChunkState", body |-> b]
Snapshot(id, s) == [type |-> "Snapshot", id |-> id, seq |-> s]
PlayerState(id, s, b) == [type |-> "PlayerState", id |-> id, seq |-> s, body |-> b]
Input(t, b, p) == [type |-> "Input", tick |-> t, body |-> b, press |-> p]
ChunkInterest(b) == [type |-> "ChunkInterest", body |-> b]

DownMessages ==
    {AssignPlayer(id) : id \in PlayerIds}
    \cup {SessionInfo(n) : n \in 0..MaxConns}
    \cup {PlayerRemove(id) : id \in PlayerIds}
    \cup {ChunkState(b) : b \in SupportedBodies}
    \cup {Snapshot(id, s) : id \in PlayerIds, s \in Seqs}
    \cup {PlayerState(id, s, b) : id \in PlayerIds, s \in Seqs, b \in Bodies}

UpMessages ==
    {Input(t, b, p) : t \in Seqs, b \in Bodies, p \in BOOLEAN}
    \cup {ChunkInterest(b) : b \in Bodies}

\* NetChannel::Reliable carries everything but state that is soon replaced.
Reliable(m) == m.type \notin {"Snapshot", "PlayerState", "Input"}

\* Message i of a direction of connection n can be the next to arrive.
Deliverable(n, box, i) ==
    IF n \in InOrder THEN i = 1
    ELSE Reliable(box[i]) => \A j \in 1..(i - 1) : ~Reliable(box[j])

\* A client that left reads nothing more from its peer.
Listening(n) == \E c \in Clients : conn[c] = n /\ slot[c] \in {"connecting", "connected"}

\* send_message on the two channels: ms reaches connection n's queue as far as
\* somebody listens, and unreliable messages only while there is room.
SentReliable(n, ms) == IF Listening(n) THEN down[n] \o ms ELSE down[n]
SentUnreliable(n, ms) ==
    IF Listening(n) /\ Len(down[n]) < MaxFlight THEN down[n] \o ms ELSE down[n]
-----------------------------------------------------------------------------
(* ServerSession *)

ServerClientState ==
    [player_id : PlayerIds,
     next_snapshot_sequence : Seqs,
     next_player_state_sequence : Seqs,
     body : SupportedBodies,            \* state.world.body_id
     has_last_input_tick : BOOLEAN,
     tick : Seqs,                       \* last_input.tick
     press : BOOLEAN,                   \* JumpPressed bit of last_input
     recent_interest : BOOLEAN,         \* accepted one less than 50 ms ago
     interest : SupportedBodies,        \* interest.body_id
     sent_chunks : SUBSET SupportedBodies,
     presses : Nat,                     \* ghost: inputs accepted with a press
     jumps : Nat]                       \* ghost: ticks simulated with a press

\* connect_client: the state of a new player
NewClientState(id) ==
    [player_id |-> id,
     next_snapshot_sequence |-> Wire(1),
     next_player_state_sequence |-> Wire(1),
     body |-> HomeBody,
     has_last_input_tick |-> FALSE,
     tick |-> 0,
     press |-> FALSE,
     recent_interest |-> FALSE,
     interest |-> HomeBody,
     sent_chunks |-> {},
     presses |-> 0,
     jumps |-> 0]

\* connect_client: insert_or_assign under the peer of connection n.
WithClient(n, s) ==
    [m \in (DOMAIN client_states) \cup {n} |-> IF m = n THEN s ELSE client_states[m]]

WithoutClient(n) == [m \in (DOMAIN client_states) \ {n} |-> client_states[m]]

\* mutant: ticks are not compared
AcceptsReplayedInput(s, m) == m.body \in SupportedBodies

\* accept_input: which inputs are taken.  The numeric checks on the axes and
\* the flags depend on nothing but the message and are left out.
AcceptsInput(s, m) ==
    /\ m.body \in SupportedBodies
    /\ s.has_last_input_tick => Newer(m.tick, s.tick)

\* accept_input: the new state, where a body change also respawns the player.
WithInput(s, m) ==
    [s EXCEPT !.tick = m.tick,
              !.has_last_input_tick = TRUE,
              !.press = m.press,
              !.body = m.body,
              !.presses = @ + (IF m.press THEN 1 ELSE 0)]

\* mutant: the JumpPressed bit is not consumed
SimulatedKeepingPress(s) == [s EXCEPT !.jumps = @ + (IF s.press THEN 1 ELSE 0)]

\* simulate_client_tick: a pressed jump is consumed by the tick that sees it.
Simulated(s) ==
    [s EXCEPT !.press = FALSE, !.jumps = @ + (IF s.press THEN 1 ELSE 0)]

AcceptsInterest(s, b) == b \in SupportedBodies /\ ~s.recent_interest

\* accept_interest and the chunks of it that are sent from now on.
WithInterest(s, b) ==
    [s EXCEPT !.interest = b, !.recent_interest = TRUE, !.sent_chunks = @ \cup {b}]

\* send_chunk_state for a chunk of body b: nothing when it was sent before.
ChunksFor(s, b) == IF b \in s.sent_chunks THEN <<>> ELSE <<ChunkState(b)>>

\* should_replicate_player_state, near standing for both distance tests.
ShouldReplicate(observer, subject, near) ==
    /\ observer.player_id # subject.player_id
    /\ observer.interest = subject.body
    /\ observer.body = subject.body
    /\ near
-----------------------------------------------------------------------------
(* NetClient *)

NoInfo == MaxConns + 1

PlayerMaps == UNION {[ids -> [seq : Seqs, body : Bodies]] : ids \in SUBSET PlayerIds}

NetClientState ==
    [state : {"Disconnected", "Connecting", "Connected"},
     assigned_player_id : {0} \cup PlayerIds,
     session_players : {NoInfo} \cup (0..MaxConns),
     has_snapshot : BOOLEAN,
     latest_snapshot : [id : {0} \cup PlayerIds, seq : Seqs],
     has_last_snapshot_sequence : BOOLEAN,
     last_snapshot_sequence : Seqs,
     chunk_updates : Seq(SupportedBodies),
     replicated_players : PlayerMaps,   \* with replicated_player_sequences
     pending_interest : {NoBody} \cup Bodies]

NewNetClient ==
    [state |-> "Disconnected",
     assigned_player_id |-> 0,
     session_players |-> NoInfo,
     has_snapshot |-> FALSE,
     latest_snapshot |-> [id |-> 0, seq |-> 0],
     has_last_snapshot_sequence |-> FALSE,
     last_snapshot_sequence |-> 0,
     chunk_updates |-> <<>>,
     replicated_players |-> <<>>,
     pending_interest |-> NoBody]

\* The fields disconnect() and the DISCONNECT event both reset.
SessionCleared(nc) ==
    [nc EXCEPT !.state = "Disconnected",
               !.assigned_player_id = 0,
               !.session_players = NoInfo,
               !.has_snapshot = FALSE,
               !.replicated_players = <<>>]

\* NetClient::disconnect()
Disconnected(nc) == [SessionCleared(nc) EXCEPT !.chunk_updates = <<>>]

\* mutant: the snapshot baseline survives the session
BaselineSurvives(nc) == SessionCleared(nc)

\* The DISCONNECT case of NetClient::pump
DisconnectedByEvent(nc) ==
    [SessionCleared(nc) EXCEPT !.has_last_snapshot_sequence = FALSE,
                               !.last_snapshot_sequence = 0]

\* enet_peer_disconnect: a peer that is connected has to say goodbye first, one
\* that is still connecting is reset on the spot.
SlotAfterDisconnect(s) ==
    CASE s = "connected" -> "disconnecting"
      [] s = "connecting" -> "free"
      [] OTHER -> s

\* The Snapshot case of NetClient::pump
TakesSnapshot(nc, m) ==
    IF nc.has_last_snapshot_sequence => Newer(m.seq, nc.last_snapshot_sequence)
    THEN [nc EXCEPT !.latest_snapshot = [id |-> m.id, seq |-> m.seq],
                    !.has_snapshot = TRUE,
                    !.has_last_snapshot_sequence = TRUE,
                    !.last_snapshot_sequence = m.seq]
    ELSE nc

\* mutant: sequence numbers are not compared
TakesAnyPlayerState(nc, m) ==
    [nc EXCEPT !.replicated_players =
        [id \in (DOMAIN nc.replicated_players) \cup {m.id} |->
            IF id = m.id THEN [seq |-> m.seq, body |-> m.body]
            ELSE nc.replicated_players[id]]]

\* The PlayerState case of NetClient::pump
TakesPlayerState(nc, m) ==
    LET known == nc.replicated_players
    IN  IF m.id \in DOMAIN known => Newer(m.seq, known[m.id].seq)
        THEN [nc EXCEPT !.replicated_players =
                [id \in (DOMAIN known) \cup {m.id} |->
                    IF id = m.id THEN [seq |-> m.seq, body |-> m.body] ELSE known[id]]]
        ELSE nc

\* The PlayerRemove case of NetClient::pump
TakesPlayerRemove(nc, m) ==
    [nc EXCEPT !.replicated_players =
        [id \in (DOMAIN nc.replicated_players) \ {m.id} |-> nc.replicated_players[id]]]

\* The RECEIVE case of NetClient::pump
Received(nc, m) ==
    CASE m.type = "Snapshot" -> TakesSnapshot(nc, m)
      [] m.type = "PlayerState" -> TakesPlayerState(nc, m)
      [] m.type = "PlayerRemove" -> TakesPlayerRemove(nc, m)
      [] m.type = "AssignPlayer" -> [nc EXCEPT !.assigned_player_id = m.id]
      [] m.type = "SessionInfo" -> [nc EXCEPT !.session_players = m.players]
      [] m.type = "ChunkState" -> [nc EXCEPT !.chunk_updates = Append(@, m.body)]
-----------------------------------------------------------------------------
TypeOK ==
    /\ running \in BOOLEAN
    /\ epoch \in 0..MaxEpochs
    /\ next_player_id \in 1..(MaxConns + 1)
    /\ DOMAIN client_states \subseteq Conns
    /\ \A n \in DOMAIN client_states : client_states[n] \in ServerClientState
    /\ link \in [Conns -> {"unused", "connecting", "established", "open", "closed"}]
    /\ down \in [Conns -> Seq(DownMessages)]
    /\ up \in [Conns -> Seq(UpMessages)]
    /\ slot \in [Clients -> {"free", "connecting", "connected", "disconnecting"}]
    /\ conn \in [Clients -> {NoConn} \cup Conns]
    /\ net \in [Clients -> NetClientState]
    /\ active_body_index \in [Clients -> Bodies]
    /\ sim_tick \in [Clients -> 0..MaxTick]
    /\ chunk_log \in [Conns -> Seq(SupportedBodies)]

Init ==
    /\ running = FALSE
    /\ epoch = 0
    /\ next_player_id = 1
    /\ client_states = <<>>
    /\ link = [n \in Conns |-> "unused"]
    /\ down = [n \in Conns |-> <<>>]
    /\ up = [n \in Conns |-> <<>>]
    /\ slot = [c \in Clients |-> "free"]
    /\ conn = [c \in Clients |-> NoConn]
    /\ net = [c \in Clients |-> NewNetClient]
    /\ active_body_index = [c \in Clients |-> HomeBody]
    /\ sim_tick = [c \in Clients |-> 0]
    /\ chunk_log = [n \in Conns |-> <<>>]
-----------------------------------------------------------------------------
(* NetServer *)

\* NetServer::init
StartServer ==
    /\ ~running
    /\ epoch < MaxEpochs
    /\ running' = TRUE
    /\ epoch' = epoch + 1
    /\ next_player_id' = 1
    /\ client_states' = <<>>
    /\ UNCHANGED <<wires, client, engine, chunk_log>>

\* NetServer::shutdown: enet_host_destroy says nothing to the peers, which
\* find out by timing out.
ShutdownServer ==
    /\ running
    /\ running' = FALSE
    /\ next_player_id' = 1
    /\ client_states' = <<>>
    /\ link' = [n \in Conns |->
                    IF link[n] \in {"established", "open"} THEN "closed" ELSE link[n]]
    /\ up' = [n \in Conns |-> <<>>]
    /\ UNCHANGED <<epoch, down, client, engine, chunk_log>>

Players(states) == Cardinality(DOMAIN states)

\* mutant: session info only reaches the players already there
GreetingWithoutInfo(id, states) == <<AssignPlayer(id)>>

\* What a new player is told.  ProtocolInfo is constant and left out.
Greeting(id, states) == <<AssignPlayer(id), SessionInfo(Players(states))>>

\* mutant: broadcast_session_info runs before disconnect_client
FarewellBeforeErase(id, states) == <<SessionInfo(Players(states) + 1), PlayerRemove(id)>>

\* mutant: broadcast_player_remove is forgotten
FarewellWithoutRemove(id, states) == <<SessionInfo(Players(states))>>

\* What the others are told when player id is gone and states are left.
Farewell(id, states) == <<SessionInfo(Players(states)), PlayerRemove(id)>>

\* The CONNECT case: a new player, greeted, and everybody's session info renewed.
ServerConnect(n) ==
    /\ running
    /\ link[n] = "established"
    /\ next_player_id \in PlayerIds    \* bound: one player per connection
    /\ LET states == WithClient(n, NewClientState(next_player_id))
       IN  /\ client_states' = states
           /\ down' = [m \in Conns |->
                        CASE m = n -> SentReliable(m, Greeting(next_player_id, states))
                          [] m \in DOMAIN client_states -> SentReliable(m, <<SessionInfo(Players(states))>>)
                          [] OTHER -> down[m]]
    /\ next_player_id' = next_player_id + 1
    /\ link' = [link EXCEPT ![n] = "open"]
    /\ UNCHANGED <<running, epoch, up, client, engine, chunk_log>>

\* The DISCONNECT case, after a goodbye of the client or a timeout.
ServerDisconnect(n) ==
    /\ running
    /\ link[n] = "open"
    /\ LET states == WithoutClient(n)
           notice == Farewell(client_states[n].player_id, states)
       IN  /\ client_states' = states
           /\ down' = [m \in Conns |->
                        IF m \in DOMAIN states THEN SentReliable(m, notice) ELSE down[m]]
    /\ link' = [link EXCEPT ![n] = "closed"]
    /\ up' = [up EXCEPT ![n] = <<>>]
    /\ UNCHANGED <<running, epoch, next_player_id, client, engine, chunk_log>>

\* The RECEIVE case for Input
ServerReceiveInput(n, i) ==
    /\ running
    /\ n \in DOMAIN client_states
    /\ up[n][i].type = "Input"
    /\ Deliverable(n, up[n], i)
    /\ up' = [up EXCEPT ![n] = RemoveAt(@, i)]
    /\ client_states' =
         IF AcceptsInput(client_states[n], up[n][i])
         THEN [client_states EXCEPT ![n] = WithInput(@, up[n][i])]
         ELSE client_states
    /\ UNCHANGED <<running, epoch, next_player_id, link, down, client, engine, chunk_log>>

\* The RECEIVE case for ChunkInterest: the chunks are sent once each.
ServerReceiveInterest(n, i) ==
    /\ running
    /\ n \in DOMAIN client_states
    /\ up[n][i].type = "ChunkInterest"
    /\ Deliverable(n, up[n], i)
    /\ up' = [up EXCEPT ![n] = RemoveAt(@, i)]
    /\ LET b == up[n][i].body
           s == client_states[n]
       IN  IF AcceptsInterest(s, b)
           THEN /\ client_states' = [client_states EXCEPT ![n] = WithInterest(@, b)]
                /\ down' = [down EXCEPT ![n] = SentReliable(n, ChunksFor(s, b))]
           ELSE UNCHANGED <<client_states, down>>
    /\ UNCHANGED <<running, epoch, next_player_id, link, client, engine, chunk_log>>

\* 50 ms go by since the last interest the server accepted from n.
InterestWindowPasses(n) ==
    /\ n \in DOMAIN client_states
    /\ client_states[n].recent_interest
    /\ client_states' = [client_states EXCEPT ![n].recent_interest = FALSE]
    /\ UNCHANGED <<running, epoch, next_player_id, wires, client, engine, chunk_log>>

\* One pass of the catch-up loop of pump: simulate_fixed_tick.
SimulateFixedTick ==
    /\ running
    /\ client_states' = [n \in DOMAIN client_states |-> Simulated(client_states[n])]
    /\ UNCHANGED <<running, epoch, next_player_id, wires, client, engine, chunk_log>>

\* send_snapshots, when its 33 ms are over
SendSnapshots ==
    /\ running
    /\ DOMAIN client_states # {}
    /\ \A n \in DOMAIN client_states : client_states[n].next_snapshot_sequence <= MaxSnapshots
    /\ down' = [n \in Conns |->
                  IF n \in DOMAIN client_states
                  THEN SentUnreliable(n, <<Snapshot(client_states[n].player_id,
                                          client_states[n].next_snapshot_sequence)>>)
                  ELSE down[n]]
    /\ client_states' = [n \in DOMAIN client_states |->
            [client_states[n] EXCEPT !.next_snapshot_sequence = Wire(@ + 1)]]
    /\ UNCHANGED <<running, epoch, next_player_id, link, up, client, engine, chunk_log>>

ObserverSubjectPairs ==
    {p \in (DOMAIN client_states) \X (DOMAIN client_states) : p[1] # p[2]}

\* broadcast_player_states, when its 50 ms are over: every subject to every
\* observer that should see it; near is the set of <<observer, subject>> pairs
\* close enough.
BroadcastPlayerStates(near) ==
    /\ running
    /\ DOMAIN client_states # {}
    /\ \A n \in DOMAIN client_states : client_states[n].next_player_state_sequence <= MaxBroadcasts
    /\ LET State(s) == PlayerState(client_states[s].player_id,
                                   client_states[s].next_player_state_sequence,
                                   client_states[s].body)
           Seen(o) == {s \in DOMAIN client_states :
                         ShouldReplicate(client_states[o], client_states[s],
                                         <<o, s>> \in near)}
       IN  down' = [o \in Conns |->
                      IF o \in DOMAIN client_states
                      THEN SentUnreliable(o, SetToSeq({State(s) : s \in Seen(o)}))
                      ELSE down[o]]
    /\ client_states' = [n \in DOMAIN client_states |->
            [client_states[n] EXCEPT !.next_player_state_sequence = Wire(@ + 1)]]
    /\ UNCHANGED <<running, epoch, next_player_id, link, up, client, engine, chunk_log>>
-----------------------------------------------------------------------------
(* NetClient and the Engine that drives it *)

\* Client c abandons the connection in its slot: nothing is read from it any
\* more, and a handshake that had not finished never will.
Abandoned(c) ==
    LET n == conn[c]
    IN  /\ down' = IF n = NoConn THEN down ELSE [down EXCEPT ![n] = <<>>]
        /\ link' = IF n # NoConn /\ link[n] = "connecting"
                   THEN [link EXCEPT ![n] = "closed"] ELSE link

FirstUnused(n) == link[n] = "unused" /\ \A m \in 1..(n - 1) : link[m] # "unused"

\* Engine::connect, when enet_host_connect finds the peer free: NetClient::connect
\* and set_chunk_interest, which stays pending until the CONNECT event.
Connect(c, n) ==
    /\ FirstUnused(n)
    /\ SlotAfterDisconnect(slot[c]) = "free"
    /\ LET m == conn[c]
       IN  /\ down' = IF m = NoConn THEN down ELSE [down EXCEPT ![m] = <<>>]
           /\ link' = [k \in Conns |->
                         CASE k = n -> "connecting"
                           [] k = m /\ link[k] = "connecting" -> "closed"
                           [] OTHER -> link[k]]
    /\ slot' = [slot EXCEPT ![c] = "connecting"]
    /\ conn' = [conn EXCEPT ![c] = n]
    /\ net' = [net EXCEPT ![c] = [Disconnected(@) EXCEPT
                    !.state = "Connecting",
                    !.pending_interest = active_body_index[c]]]
    /\ UNCHANGED <<server, up, engine, chunk_log>>

\* Engine::connect, when the one peer is still saying goodbye: enet_host_connect
\* finds no free peer, connect() has disconnected and fails.
ConnectRefused(c) ==
    /\ SlotAfterDisconnect(slot[c]) = "disconnecting"
    /\ slot' = [slot EXCEPT ![c] = "disconnecting"]
    /\ net' = [net EXCEPT ![c] = Disconnected(@)]
    /\ Abandoned(c)
    /\ UNCHANGED <<server, up, conn, engine, chunk_log>>

\* Engine::stop_client_session
Disconnect(c) ==
    /\ slot' = [slot EXCEPT ![c] = SlotAfterDisconnect(@)]
    /\ conn' = IF slot'[c] = "free" THEN [conn EXCEPT ![c] = NoConn] ELSE conn
    /\ net' = [net EXCEPT ![c] = Disconnected(@)]
    /\ Abandoned(c)
    /\ UNCHANGED <<server, up, engine, chunk_log>>

\* The CONNECT case of NetClient::pump, which sends a pending interest.
ClientConnect(c) ==
    /\ slot[c] = "connecting"
    /\ running
    /\ link[conn[c]] = "connecting"
    /\ slot' = [slot EXCEPT ![c] = "connected"]
    /\ link' = [link EXCEPT ![conn[c]] = "established"]
    /\ up' = IF net[c].pending_interest = NoBody THEN up
             ELSE [up EXCEPT ![conn[c]] = Append(@, ChunkInterest(net[c].pending_interest))]
    /\ net' = [net EXCEPT ![c].state = "Connected", ![c].pending_interest = NoBody]
    /\ UNCHANGED <<server, down, conn, engine, chunk_log>>

\* The DISCONNECT case of NetClient::pump: a goodbye answered, a server that
\* left or a timeout.
ClientDisconnect(c) ==
    /\ slot[c] # "free"
    /\ slot' = [slot EXCEPT ![c] = "free"]
    /\ conn' = [conn EXCEPT ![c] = NoConn]
    /\ net' = [net EXCEPT ![c] = DisconnectedByEvent(@)]
    /\ Abandoned(c)
    /\ UNCHANGED <<server, up, engine, chunk_log>>

\* The RECEIVE case of NetClient::pump
ClientReceive(c, i) ==
    /\ slot[c] = "connected"
    /\ Deliverable(conn[c], down[conn[c]], i)
    /\ LET n == conn[c]
           m == down[n][i]
       IN  /\ net' = [net EXCEPT ![c] = Received(@, m)]
           /\ down' = [down EXCEPT ![n] = RemoveAt(@, i)]
           /\ chunk_log' = IF m.type = "ChunkState"
                           THEN [chunk_log EXCEPT ![n] = Append(@, m.body)]
                           ELSE chunk_log
    /\ UNCHANGED <<server, link, up, slot, conn, engine>>

\* NetClient::poll_snapshot, by whoever consumes authoritative snapshots
PollSnapshot(c) ==
    /\ net[c].has_snapshot
    /\ net' = [net EXCEPT ![c].has_snapshot = FALSE]
    /\ UNCHANGED <<server, wires, slot, conn, engine, chunk_log>>

\* NetClient::poll_chunk_state takes the newest
PollChunkState(c) ==
    /\ net[c].chunk_updates # <<>>
    /\ net' = [net EXCEPT ![c].chunk_updates = Front(@)]
    /\ UNCHANGED <<server, wires, slot, conn, engine, chunk_log>>

\* Something client c says to its server; nobody hears it on a closed link.
Said(c, m) ==
    IF link[conn[c]] \in {"established", "open"}
    THEN [up EXCEPT ![conn[c]] = Append(@, m)]
    ELSE up

\* Engine::sync_network_state of one fixed step, while connected
SendInput(c, press) ==
    /\ slot[c] = "connected"
    /\ sim_tick[c] < MaxTick
    /\ Len(up[conn[c]]) < MaxFlight
    /\ sim_tick' = [sim_tick EXCEPT ![c] = @ + 1]
    /\ up' = Said(c, Input(Wire(sim_tick[c] + 1), active_body_index[c], press))
    /\ UNCHANGED <<server, link, down, client, active_body_index, chunk_log>>

\* Engine::switch_active_planet: the new interest is sent only while connected.
SwitchActivePlanet(c, b) ==
    /\ active_body_index[c] # b
    /\ active_body_index' = [active_body_index EXCEPT ![c] = b]
    /\ IF slot[c] = "connected"
       THEN Len(up[conn[c]]) < MaxFlight /\ up' = Said(c, ChunkInterest(b))
       ELSE UNCHANGED up
    /\ UNCHANGED <<server, link, down, client, sim_tick, chunk_log>>
-----------------------------------------------------------------------------
(* The network *)

LoseDown(n, i) ==
    /\ ~Reliable(down[n][i])
    /\ down' = [down EXCEPT ![n] = RemoveAt(@, i)]
    /\ UNCHANGED <<server, link, up, client, engine, chunk_log>>

LoseUp(n, i) ==
    /\ ~Reliable(up[n][i])
    /\ up' = [up EXCEPT ![n] = RemoveAt(@, i)]
    /\ UNCHANGED <<server, link, down, client, engine, chunk_log>>

\* The server gives up on a handshake it never finished: no event, no player.
HandshakeTimeout(n) ==
    /\ link[n] = "established"
    /\ link' = [link EXCEPT ![n] = "closed"]
    /\ up' = [up EXCEPT ![n] = <<>>]
    /\ UNCHANGED <<server, down, client, engine, chunk_log>>
-----------------------------------------------------------------------------
ServerStep ==
    \/ StartServer
    \/ ShutdownServer
    \/ SimulateFixedTick
    \/ SendSnapshots
    \/ \E near \in SUBSET ObserverSubjectPairs : BroadcastPlayerStates(near)
    \/ \E n \in Conns :
          \/ ServerConnect(n)
          \/ ServerDisconnect(n)
          \/ InterestWindowPasses(n)
          \/ \E i \in DOMAIN up[n] : ServerReceiveInput(n, i) \/ ServerReceiveInterest(n, i)

ClientStep(c) ==
    \/ \E n \in Conns : Connect(c, n)
    \/ ConnectRefused(c)
    \/ Disconnect(c)
    \/ ClientConnect(c)
    \/ ClientDisconnect(c)
    \/ conn[c] # NoConn /\ \E i \in DOMAIN down[conn[c]] : ClientReceive(c, i)
    \/ PollSnapshot(c)
    \/ PollChunkState(c)
    \/ \E press \in BOOLEAN : SendInput(c, press)
    \/ \E b \in Bodies : SwitchActivePlanet(c, b)

NetworkStep ==
    \E n \in Conns :
        \/ \E i \in DOMAIN down[n] : LoseDown(n, i)
        \/ \E i \in DOMAIN up[n] : LoseUp(n, i)
        \/ HandshakeTimeout(n)

Next ==
    \/ ServerStep
    \/ \E c \in Clients : ClientStep(c)
    \/ NetworkStep

Spec == Init /\ [][Next]_vars

\* pump runs every frame on both sides and ENet retransmits: an event that stays
\* available is processed.
Fairness ==
    /\ \A n \in Conns : WF_vars(ServerConnect(n))
    /\ \A c \in Clients :
          WF_vars(conn[c] # NoConn /\ \E i \in DOMAIN down[conn[c]] : ClientReceive(c, i))

FairSpec == Spec /\ Fairness
-----------------------------------------------------------------------------
(* Properties *)

\* Client c and the server agree that connection n is theirs.
Joined(c, n) == slot[c] = "connected" /\ conn[c] = n /\ n \in DOMAIN client_states

\* A client never refuses the snapshots of the session it is in because of one
\* it left: whatever it holds is older than the next one the server numbers.
\* disconnect() keeps last_snapshot_sequence; that this is harmless rests on the
\* DISCONNECT event always coming before the next connection.
SnapshotBaselineIsCurrent ==
    \A c \in Clients : net[c].has_last_snapshot_sequence =>
        /\ slot[c] # "free" => link[conn[c]] \notin {"connecting", "established"}
        /\ \A n \in Conns : Joined(c, n) =>
              Newer(client_states[n].next_snapshot_sequence,
                    net[c].last_snapshot_sequence)

\* Nothing a client believes about itself outlives its session: its id and its
\* snapshot are those of the player the server keeps for this connection, and it
\* never sees itself among the others.  About connect, disconnect and the
\* AssignPlayer, Snapshot and PlayerState cases of NetClient::pump.
IdentityIsOfThisSession ==
    \A c \in Clients : \A n \in Conns : Joined(c, n) =>
        /\ net[c].assigned_player_id \in {0, client_states[n].player_id}
        /\ net[c].has_snapshot => net[c].latest_snapshot.id = client_states[n].player_id
        /\ client_states[n].player_id \notin DOMAIN net[c].replicated_players

\* The two together: what a client holds is of the session it is in.
SessionStateIsCurrent == SnapshotBaselineIsCurrent /\ IdentityIsOfThisSession

\* What a client shows of the number of players ends at count: nothing on its way
\* says otherwise after the last SessionInfo, or there is none and it shows count.
InfoEnds(box, shown, count) ==
    LET infos == {i \in DOMAIN box : box[i].type = "SessionInfo"}
    IN  \/ infos = {} /\ shown = count
        \/ \E i \in infos : box[i].players = count /\ \A j \in infos : j <= i

\* The player count a client shows, or the last one on its way to it, is the
\* number of players the server has.  About broadcast_session_info, called after
\* every change of client_states.
SessionInfoIsCurrent ==
    \A c \in Clients : \A n \in Conns : Joined(c, n) =>
        InfoEnds(down[n], net[c].session_players, Players(client_states))

\* The players client c still shows although they left and no PlayerRemove is on its way
Ghosts(c, n) ==
    {id \in DOMAIN net[c].replicated_players :
        /\ \A m \in DOMAIN client_states : client_states[m].player_id # id
        /\ PlayerRemove(id) \notin ToSet(down[n])}

\* Player id is not shown, and a state of his is on its way.
ComesLate(c, n, id) ==
    /\ id \notin DOMAIN net[c].replicated_players
    /\ \E m \in ToSet(down[n]) : m.type = "PlayerState" /\ m.id = id

\* A player who left is forgotten on every screen: where datagrams keep their order,
\* always; elsewhere he comes back only by a PlayerState that his PlayerRemove has
\* overtaken, and a session begins with nobody who left.  About
\* broadcast_player_remove, and the PlayerState and PlayerRemove cases of
\* NetClient::pump, which keep no memory of a removal.
RemovedPlayersAreForgotten ==
    [][\A c \in Clients : \A n \in Conns : Joined(c, n)' =>
         \A id \in Ghosts(c, n)' :
            /\ n \notin InOrder
            /\ \/ Joined(c, n) /\ id \in Ghosts(c, n)
               \/ ComesLate(c, n, id)]_vars

\* Each chunk a session asked for is given to its client exactly once.  About
\* send_chunk_state and sent_chunks.
ChunksAreSentOnce ==
    \A c \in Clients : \A n \in Conns : Joined(c, n) =>
        \A b \in Bodies :
            Len(SelectSeq(down[n], LAMBDA m : m = ChunkState(b)))
            + Len(SelectSeq(chunk_log[n], LAMBDA x : x = b))
            = IF b \in client_states[n].sent_chunks THEN 1 ELSE 0

\* One press of the jump key makes at most one simulated tick jump, however many
\* ticks catch up on one input.  About simulate_client_tick.
JumpOncePerPress ==
    \A n \in DOMAIN client_states : client_states[n].jumps <= client_states[n].presses

\* No input is applied twice and none after a later one, so a late input cannot
\* put a player back on the body it left.  About accept_input.
InputsNeverGoBack ==
    [][\A n \in (DOMAIN client_states) \cap (DOMAIN client_states') :
         LET s == client_states[n]
             t == client_states'[n]
         IN  s.has_last_input_tick /\ (t.tick # s.tick \/ t.body # s.body
                                       \/ t.presses # s.presses)
             => Newer(t.tick, s.tick)]_vars

\* What a client shows of another player never goes back to an older state.
\* About the PlayerState case of NetClient::pump.
PlayerStatesNeverGoBack ==
    [][\A c \in Clients :
         LET old == net[c].replicated_players
             new == net'[c].replicated_players
         IN  \A id \in (DOMAIN old) \cap (DOMAIN new) :
                ~Newer(old[id].seq, new[id].seq)]_vars

\* A client that is connected learns who it is and what session it is in, unless
\* the connection ends first.  About the CONNECT case of NetServer::pump.
ConnectedIsGreeted ==
    \A c \in Clients : \A n \in Conns :
        (slot[c] = "connected" /\ conn[c] = n) ~>
            \/ conn[c] # n \/ slot[c] # "connected" \/ link[n] = "closed"
            \/ net[c].assigned_player_id # 0 /\ net[c].session_players # NoInfo
=============================================================================
