---------------------------- MODULE WebNetClient ----------------------------
(***************************************************************************)
(* WebNetClient, the client of the browser build: a facade on the main     *)
(* thread, a worker that owns the NetClient and blocks on its proxied      *)
(* sockets, and the state they share under one mutex.                      *)
(*                                                                         *)
(* A step is one critical section of either thread, or one thing the       *)
(* worker does between two of them.  The worker takes the requests, obeys  *)
(* them, pumps, and publishes what its NetClient says of itself.  That     *)
(* NetClient is reduced to its one peer, as in SessionFlow, to what the    *)
(* server told it and to the interest it has still to send.                *)
(*                                                                         *)
(* The page opens one session at most, so a session has no name here.      *)
(* Inputs, snapshots and players only pass through.                        *)
(***************************************************************************)
EXTENDS Naturals

VARIABLES
    shared,         \* SharedState
    stop,           \* its atomic flag
    worker,         \* where the worker is
    taken,          \* requests the worker took in this cycle
    peer,           \* state of the one ENet peer of its NetClient
    assigned,       \* its assigned_player_id is set
    unsent,         \* its has_pending_interest
    asked           \* history: the server was sent the interest of this session

transport == <<peer, assigned, unsent, asked>>
webclient == <<shared, stop, worker, taken, transport>>

States == {"disconnected", "connecting", "connected"}
Requests == {"connect", "disconnect", "interest"}

\* The requests that wait are connect_request, disconnect_requested and
\* pending_interest.
SharedState ==
    [initialized : BOOLEAN,
     waiting : SUBSET Requests,
     connection_state : States,
     local_player_id : BOOLEAN]

WebClientTypeOK ==
    /\ shared \in SharedState
    /\ stop \in BOOLEAN
    /\ worker \in {"none", "bridge", "take", "obey", "pump", "exited"}
    /\ taken \in SUBSET Requests
    /\ peer \in {"free", "connecting", "connected", "disconnecting"}
    /\ {assigned, unsent, asked} \subseteq BOOLEAN

WebClientInit ==
    /\ shared = [initialized |-> FALSE, waiting |-> {},
                 connection_state |-> "disconnected", local_player_id |-> FALSE]
    /\ stop = FALSE
    /\ worker = "none"
    /\ taken = {}
    /\ peer = "free"
    /\ assigned = FALSE /\ unsent = FALSE /\ asked = FALSE
-----------------------------------------------------------------------------
(* The facade: each operation is one critical section *)

\* init() starts a worker, once.
InitClient ==
    /\ IF shared.initialized
       THEN UNCHANGED <<shared, stop, worker>>
       ELSE /\ shared' = [shared EXCEPT !.initialized = TRUE]
            /\ stop' = FALSE
            /\ worker' = "bridge"
    /\ UNCHANGED <<taken, transport>>

RequestConnect ==
    /\ shared' = [shared EXCEPT !.waiting = @ \cup {"connect"},
                                !.connection_state = "connecting"]
    /\ UNCHANGED <<stop, worker, taken, transport>>

SetChunkInterest ==
    /\ shared' = [shared EXCEPT !.waiting = @ \cup {"interest"}]
    /\ UNCHANGED <<stop, worker, taken, transport>>

\* A request to connect that still waits is not withdrawn.
AfterRequestDisconnect ==
    [shared EXCEPT !.waiting = @ \cup {"disconnect"},
                   !.connection_state = "disconnected",
                   !.local_player_id = FALSE]

RequestDisconnect ==
    /\ shared' = AfterRequestDisconnect
    /\ UNCHANGED <<stop, worker, taken, transport>>

\* shutdown() lets the worker end by itself.
ShutdownClient ==
    /\ stop' = TRUE
    /\ shared' = [shared EXCEPT !.initialized = FALSE]
    /\ UNCHANGED <<worker, taken, transport>>
-----------------------------------------------------------------------------
(* The worker *)

\* The WebSocket opens and ENet with it.
BridgeOpens ==
    /\ worker = "bridge"
    /\ ~stop
    /\ worker' = "take"
    /\ UNCHANGED <<shared, stop, taken, transport>>

\* The WebSocket could not be opened, or the page is closing.
BridgeFails ==
    /\ worker = "bridge"
    /\ shared' = [shared EXCEPT !.initialized = FALSE,
                                !.connection_state = "disconnected"]
    /\ worker' = "exited"
    /\ UNCHANGED <<stop, taken, transport>>

\* NetClient::init fails.  The state that is shown stays.
TransportFails ==
    /\ worker = "bridge"
    /\ ~stop
    /\ shared' = [shared EXCEPT !.initialized = FALSE]
    /\ worker' = "exited"
    /\ UNCHANGED <<stop, taken, transport>>

TakeRequests ==
    /\ worker = "take"
    /\ ~stop
    /\ taken' = shared.waiting
    /\ shared' = [shared EXCEPT !.waiting = {}]
    /\ worker' = "obey"
    /\ UNCHANGED <<stop, transport>>

\* enet_peer_disconnect
PeerAfterDisconnect ==
    IF peer = "connected" THEN "disconnecting"
    ELSE IF peer = "connecting" THEN "free"
    ELSE peer

\* Disconnect first, then connect, which disconnects too and needs a free peer and an
\* address that resolves, then the interest, which waits for a session.
Obey ==
    /\ worker = "obey"
    /\ worker' = "pump"
    /\ taken' = {}
    /\ IF {"connect", "disconnect"} \cap taken = {}
       THEN UNCHANGED <<peer, assigned>>
       ELSE /\ \/ peer' = PeerAfterDisconnect
               \/ "connect" \in taken /\ PeerAfterDisconnect = "free" /\ peer' = "connecting"
            /\ assigned' = FALSE
    /\ unsent' = (peer' # "connected" /\ (unsent \/ "interest" \in taken))
    /\ asked' = (peer' = "connected" /\ (asked \/ "interest" \in taken))
    /\ UNCHANGED <<shared, stop>>

\* mutant: the interest that waited for the session is not sent
ConnectedUnasked ==
    /\ worker = "pump" /\ peer = "connecting"
    /\ peer' = "connected"
    /\ asked' = FALSE
    /\ unsent' = unsent
    /\ UNCHANGED <<shared, stop, worker, taken, assigned>>

\* The CONNECT event sends the interest that waited.
Connected ==
    /\ worker = "pump" /\ peer = "connecting"
    /\ peer' = "connected"
    /\ asked' = unsent
    /\ unsent' = FALSE
    /\ UNCHANGED <<shared, stop, worker, taken, assigned>>

\* AssignPlayer arrives.
Assigned ==
    /\ worker = "pump" /\ peer = "connected"
    /\ assigned' = TRUE
    /\ UNCHANGED <<shared, stop, worker, taken, peer, unsent, asked>>

\* The DISCONNECT event, also of a goodbye that ends
PeerGone ==
    /\ worker = "pump" /\ peer # "free"
    /\ peer' = "free"
    /\ assigned' = FALSE
    /\ asked' = FALSE
    /\ UNCHANGED <<shared, stop, worker, taken, unsent>>

\* NetClient::connection_state
Shown == IF peer \in {"connecting", "connected"} THEN peer ELSE "disconnected"

\* mutant: requests are cleared only when they have been carried out
PublishedAndCleared ==
    [shared EXCEPT !.connection_state = Shown, !.local_player_id = assigned, !.waiting = {}]

\* What the main thread asked for since the requests were taken waits; what it showed is
\* overwritten.
Published == [shared EXCEPT !.connection_state = Shown, !.local_player_id = assigned]

Publish ==
    /\ worker = "pump"
    /\ shared' = Published
    /\ worker' = "take"
    /\ UNCHANGED <<stop, taken, transport>>

\* mutant: the end of the loop is never reached
NeverLeaves ==
    /\ worker = "take"
    /\ stop
    /\ UNCHANGED webclient

\* The end of the loop: the goodbye is flushed and the host destroyed.
Leave ==
    /\ worker = "take"
    /\ stop
    /\ worker' = "exited"
    /\ peer' = "free"
    /\ assigned' = FALSE /\ unsent' = FALSE /\ asked' = FALSE
    /\ UNCHANGED <<shared, stop, taken>>

\* What the worker does whatever the network does
WorkerGoesOn == (stop /\ BridgeFails) \/ TakeRequests \/ Obey \/ Publish \/ Leave

WebWorkerStep ==
    \/ WorkerGoesOn
    \/ BridgeOpens \/ BridgeFails \/ TransportFails
    \/ Connected \/ Assigned \/ PeerGone
=============================================================================
