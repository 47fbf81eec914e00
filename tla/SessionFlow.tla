---------------------------- MODULE SessionFlow ----------------------------
(***************************************************************************)
(* How a player gets into a session: the choices of the multiplayer menu,  *)
(* RuntimeSessionFlow, and the calls of Engine it makes on the local       *)
(* server, the client and LanDiscovery, on a native build.                 *)
(*                                                                         *)
(* A frame is GameRuntime::tick: the menu, then RuntimeSessionFlow::update *)
(* and then Engine::tick, whose pumps take the events of ENet.  The client *)
(* is reduced to the one peer of its host, as NetPlay derives it: a peer   *)
(* that was connected has to say goodbye before it can be used again.      *)
(*                                                                         *)
(* On Android the window may be taken away between two frames, and the     *)
(* engine is shut down and started anew under the same RuntimeSessionFlow. *)
(***************************************************************************)
EXTENDS LanDiscovery

CONSTANTS
    Own,                \* 127.0.0.1, port 7777
    Given,              \* the address of --connect
    Nobody,
    ConnectTimeout,     \* k_connect_timeout_seconds, in frames
    MaxChoices          \* bound: choices made in the menu, and windows lost

ASSUME SessionFlowAssumption ==
    /\ Cardinality({Own, Given, Nobody}) = 3
    /\ {Own, Given, Nobody} \cap Hosts = {}
    /\ ConnectTimeout \in Nat \ {0}
    /\ MaxChoices \in Nat

VARIABLES
    flow_pc,        \* part of the frame that comes next
    slot,           \* state of the one ENet peer of NetClient
    target,         \* target_host and target_port
    server,         \* local_server_running_ and local_server_loopback_
    searching,      \* searching_nearby_
    elapsed,        \* net_connect_elapsed_, in frames
    last_state,     \* last_connection_state_
    hint,           \* multiplayer_hint_
    attempt_age,    \* history: frames the present attempt has been seen connecting,
                    \* up to ConnectTimeout
    choices,        \* history: choices made in the menu, and windows lost
    window          \* history: "lost" from the loss of a window to the next choice

engine == <<slot, target, server>>
flow == <<searching, elapsed, last_state, hint>>
history == <<attempt_age, choices, window>>
flow_vars == <<flow_pc, discovery, engine, flow, history>>

States == {"disconnected", "connecting", "connected"}
Hints == {"none", "connecting", "failed", "left", "hosting", "searching", "timed_out",
          "disconnected", "joining", "retrying"}

FlowTypeOK ==
    /\ DiscoveryTypeOK
    /\ flow_pc \in {"start", "menu", "update", "tick"}
    /\ slot \in {"free", "connecting", "connected", "disconnecting"}
    /\ target \in Hosts \cup {Own, Given, Nobody}
    /\ server \in {"off", "loopback", "lan"}
    /\ searching \in BOOLEAN
    /\ elapsed \in 0..ConnectTimeout
    /\ last_state \in States
    /\ hint \in Hints
    /\ attempt_age \in 0..ConnectTimeout
    /\ choices \in 0..MaxChoices
    /\ window \in {"kept", "lost"}

FlowInit ==
    /\ DiscoveryInit
    /\ flow_pc = "start"
    /\ slot = "free"
    /\ target = Nobody
    /\ server = "off"
    /\ searching = FALSE
    /\ elapsed = 0
    /\ last_state = "disconnected"
    /\ hint = "none"
    /\ attempt_age = 0
    /\ choices = 0
    /\ window = "kept"

ConnectionState == IF slot \in {"connecting", "connected"} THEN slot ELSE "disconnected"
-----------------------------------------------------------------------------
(* What Engine does *)

\* enet_peer_disconnect: a peer that is still connecting is reset on the spot.
SlotAfterDisconnect ==
    IF slot = "connected" THEN "disconnecting"
    ELSE IF slot = "connecting" THEN "free"
    ELSE slot

\* stop_client_session
StopClient ==
    /\ slot' = SlotAfterDisconnect
    /\ target' = Nobody
    /\ UNCHANGED attempt_age

\* connect(), with its result: enet_host_connect finds no peer while the only one is
\* saying goodbye.
ConnectTo(h, connected) ==
    /\ connected <=> SlotAfterDisconnect = "free"
    /\ slot' = IF connected THEN "connecting" ELSE SlotAfterDisconnect
    /\ target' = IF connected THEN h ELSE Nobody
    /\ attempt_age' = IF connected THEN 0 ELSE attempt_age

\* start_local_server after leave_session: the port may be taken.
StartServer(kind) == server' \in {kind, "off"}
-----------------------------------------------------------------------------
(* RuntimeSessionFlow *)

\* connect(), called once, before the first frame
ConnectAtStart(resolved) ==
    /\ flow_pc = "start"
    /\ flow_pc' = "menu"
    /\ IF resolved
       THEN /\ ConnectTo(Given, TRUE)
            /\ elapsed' = 0
            /\ hint' = "connecting"
       ELSE /\ hint' = "failed"
            /\ UNCHANGED <<slot, target, elapsed, attempt_age>>
    /\ UNCHANGED <<discovery, server, searching, last_state, choices, window>>

StartWithoutConnect ==
    /\ flow_pc = "start"
    /\ flow_pc' = "menu"
    /\ UNCHANGED <<discovery, engine, flow, history>>

\* A choice of the menu ends the wait of the previous attempt.
Chooses(s, text) ==
    /\ flow_pc = "menu"
    /\ choices < MaxChoices
    /\ choices' = choices + 1
    /\ window' = "kept"
    /\ searching' = s
    /\ elapsed' = 0
    /\ hint' = text
    /\ flow_pc' = "update"
    /\ UNCHANGED last_state

LeaveSession ==
    /\ Chooses(FALSE, "left")
    /\ StopClient
    /\ StopDiscovery
    /\ server' = "off"

\* mutant: hosting on this device leaves a search going on
HostLocalSessionStillSearching ==
    /\ Chooses(searching, "hosting")
    /\ StartServer("loopback")
    /\ \E connected \in BOOLEAN : ConnectTo(Own, connected)
    /\ StopDiscovery

\* The server is started, and connected to whatever came of that; the result of
\* connect() is not looked at.
HostLocalSession ==
    /\ Chooses(FALSE, "hosting")
    /\ StartServer("loopback")
    /\ \E connected \in BOOLEAN : ConnectTo(Own, connected)
    /\ StopDiscovery

HostLanSession ==
    /\ Chooses(FALSE, "hosting")
    /\ StartServer("lan")
    /\ \E connected \in BOOLEAN : ConnectTo(Own, connected)
    /\ \E opened \in BOOLEAN : StartHost(opened)

JoinNearbySession ==
    /\ Chooses(TRUE, "searching")
    /\ StopClient
    /\ server' = "off"
    /\ \E opened \in BOOLEAN : StartClient(opened)

NoChoice ==
    /\ flow_pc = "menu"
    /\ flow_pc' = "update"
    /\ UNCHANGED <<discovery, engine, flow, history>>

\* The part of update() that reports a change of the connection state, after the
\* timeout may have left a text
HintAfter(state, text) ==
    IF state = last_state THEN text
    ELSE IF state = "connected" THEN "none"
    ELSE IF last_state = "connected" /\ text # "left" THEN "disconnected"
    ELSE text

Updates(state) ==
    /\ flow_pc = "update"
    /\ flow_pc' = "tick"
    /\ ConnectionState = state
    /\ last_state' = state
    /\ UNCHANGED <<server, choices, window>>

\* abort_client_session
GivesUp ==
    /\ slot' = SlotAfterDisconnect
    /\ target' = Nobody

\* mutant: the wait is not counted
NeverWaited == elapsed

Waited == elapsed + 1

UpdateConnecting ==
    /\ Updates("connecting")
    /\ elapsed' = Waited
    /\ attempt_age' = IF attempt_age = ConnectTimeout THEN attempt_age ELSE attempt_age + 1
    /\ IF elapsed' >= ConnectTimeout
       THEN GivesUp /\ hint' = HintAfter("connecting", "timed_out")
       ELSE UNCHANGED <<slot, target>> /\ hint' = HintAfter("connecting", hint)
    /\ UNCHANGED <<discovery, searching>>

UpdateConnected ==
    /\ Updates("connected")
    /\ elapsed' = 0
    /\ searching' = FALSE
    /\ hint' = HintAfter("connected", hint)
    /\ UNCHANGED <<discovery, slot, target, attempt_age>>

UpdateDisconnected ==
    /\ Updates("disconnected")
    /\ ~searching
    /\ elapsed' = 0
    /\ hint' = HintAfter("disconnected", hint)
    /\ UNCHANGED <<discovery, slot, target, attempt_age, searching>>

\* The search: discovery is pumped and one host taken from its queue.
UpdateSearch ==
    /\ Updates("disconnected")
    /\ searching
    /\ elapsed' = 0
    /\ Pump
    /\ \E queue \in QueuesAfterPump :
        IF queue = <<>>
        THEN /\ hint' = HintAfter("disconnected", hint)
             /\ pending_hosts' = queue
             /\ UNCHANGED <<slot, target, searching, attempt_age>>
        ELSE /\ pending_hosts' = Tail(queue)
             /\ \E connected \in BOOLEAN :
                    /\ ConnectTo(Head(queue), connected)
                    /\ searching' = ~connected
                    /\ hint' = IF connected THEN "joining" ELSE "retrying"
-----------------------------------------------------------------------------
(* Engine::tick, as far as the client is concerned *)

\* The CONNECT event
Connected ==
    /\ flow_pc = "tick"
    /\ slot = "connecting"
    /\ slot' = "connected"
    /\ UNCHANGED <<flow_pc, discovery, target, server, flow, history>>

\* The DISCONNECT event: the server closed or was not heard of, or the goodbye ended.
PeerGone(state) ==
    /\ flow_pc = "tick"
    /\ slot = state
    /\ slot' = "free"
    /\ target' = Nobody
    /\ UNCHANGED <<flow_pc, discovery, server, flow, history>>

FrameEnds ==
    /\ flow_pc = "tick"
    /\ flow_pc' = "menu"
    /\ TimePasses
    /\ UNCHANGED <<engine, flow, history>>

HostHeard(h) ==
    /\ BeaconArrives(h)
    /\ UNCHANGED <<flow_pc, engine, flow, history>>

-----------------------------------------------------------------------------
\* The window is lost, and there is one again before the next frame: Engine::shutdown
\* destroys the host of ENet and closes discovery and server; Engine::init opens none
\* of them.  RuntimeSessionFlow is not told.
WindowLost ==
    /\ flow_pc = "menu"
    /\ choices < MaxChoices
    /\ choices' = choices + 1
    /\ window' = "lost"
    /\ StopDiscovery
    /\ server' = "off"
    /\ slot' = "free"
    /\ target' = Nobody
    /\ UNCHANGED <<flow_pc, flow, attempt_age>>

FlowStart == StartWithoutConnect \/ \E resolved \in BOOLEAN : ConnectAtStart(resolved)
Choice == LeaveSession \/ HostLocalSession \/ HostLanSession \/ JoinNearbySession
Update == UpdateConnecting \/ UpdateConnected \/ UpdateDisconnected \/ UpdateSearch

FlowNext ==
    \/ FlowStart
    \/ Choice \/ NoChoice
    \/ Update
    \/ Connected
    \/ \E state \in {"connecting", "connected", "disconnecting"} : PeerGone(state)
    \/ FrameEnds
    \/ WindowLost
    \/ \E h \in Hosts : HostHeard(h)

FlowSpec == FlowInit /\ [][FlowNext]_flow_vars

\* Frames go on, a goodbye ends, by an answer or ENet's timeout, and hosts of the
\* network repeat their beacons.
FlowFairness ==
    /\ WF_flow_vars(FlowStart \/ NoChoice \/ Update \/ FrameEnds)
    /\ SF_flow_vars(PeerGone("disconnecting"))
    /\ \A h \in Hosts : WF_flow_vars(HostHeard(h))

FairFlow == FlowSpec /\ FlowFairness
-----------------------------------------------------------------------------
(* Properties *)

\* The player has one role at a time: hosting, searching, or neither, with server,
\* discovery and client to match, and a host plays in no session but its own.  Only
\* who loses the window goes on searching with nothing to search by, until the next
\* choice.  About the order in which the choices stop one thing and start another.
RolesAgree ==
    /\ searching => server = "off" /\ mode = (IF window = "lost" THEN "off" ELSE "client")
    /\ server = "lan" => mode = "host"
    /\ server = "loopback" => mode = "off"
    /\ server # "off" => target \in {Own, Nobody}
    /\ mode # "client" => Known = {} /\ pending_hosts = <<>> /\ inbox = {}

\* The time that counts against an attempt is its own, whatever was tried and given up
\* before.  About net_connect_elapsed_ and everyone who resets it.
TimerIsOfThisAttempt == slot = "connecting" => elapsed = attempt_age

\* Who is told to have left is in no session and on the way to none.  About
\* leave_session, while events of the client are still to come.
LeftMeansAlone ==
    hint = "left" => /\ slot \notin {"connecting", "connected"}
                     /\ ~searching
                     /\ server = "off" /\ mode = "off"

\* The player has one role at a time, whatever is left over from the one before: the
\* three together.
OneRoleAtATime == RolesAgree /\ TimerIsOfThisAttempt /\ LeftMeansAlone

\* An attempt to connect ends, in a session or not.  About the timeout of update().
ConnectingEnds == slot = "connecting" ~> slot # "connecting"

\* A search joins a host it has not heard of before, unless the player ends it or the
\* peer is not free when the host comes up.  About upsert_host and update().
NewHostsAreJoined ==
    (searching /\ running /\ Known # Hosts) ~>
        (~searching \/ ~running \/ slot = "disconnecting")

\* "Join failed. Retrying discovery...": the search that failed to join goes on to
\* join once the peer is free, as hosts go on to be heard.
RetriesDiscovery == hint = "retrying" ~> ~searching
=============================================================================
