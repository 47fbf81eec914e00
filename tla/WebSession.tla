----------------------------- MODULE WebSession -----------------------------
(***************************************************************************)
(* The page of the browser build: it connects when it is opened with a     *)
(* server, then its frames run RuntimeSessionFlow over WebNetClient, until *)
(* it is closed.                                                           *)
(*                                                                         *)
(* The calls of one frame come one after the other, each with the mutex of *)
(* WebNetClient, and the worker may come between.  Discovery and hosting   *)
(* do nothing in a browser; the texts for the player are those of          *)
(* SessionFlow and are left out.                                           *)
(***************************************************************************)
EXTENDS WebNetClient

CONSTANTS
    ConnectTimeout,     \* k_connect_timeout_seconds, in frames
    MaxChoices          \* bound: choices made in the menu

ASSUME WebSessionAssumption == ConnectTimeout \in Nat \ {0} /\ MaxChoices \in Nat

VARIABLES
    page,           \* call of the main thread that comes next
    seen,           \* connection_state of the snapshot update() took
    elapsed,        \* net_connect_elapsed_, in frames, up to ConnectTimeout
    choices         \* history: choices made in the menu

web_vars == <<webclient, page, seen, elapsed, choices>>

WebTypeOK ==
    /\ WebClientTypeOK
    /\ page \in {"init", "connect", "interest", "menu", "look", "update", "play", "planet",
                "closing", "closed"}
    /\ seen \in States
    /\ elapsed \in 0..ConnectTimeout
    /\ choices \in 0..MaxChoices

WebInit ==
    /\ WebClientInit
    /\ page \in {"init", "menu"}        \* with or without ?server=
    /\ seen = "disconnected"
    /\ elapsed = 0
    /\ choices = 0

Goto(from, to) == page = from /\ page' = to

\* Engine::connect, of RuntimeSessionFlow::connect
OpenClient == Goto("init", "connect") /\ InitClient /\ UNCHANGED <<seen, elapsed, choices>>

OpenSession ==
    Goto("connect", "interest") /\ RequestConnect /\ UNCHANGED <<seen, elapsed, choices>>

AskForChunks ==
    Goto("interest", "menu") /\ SetChunkInterest /\ UNCHANGED <<seen, elapsed, choices>>

\* A choice of the menu resets the timer.
Choice ==
    /\ Goto("menu", "look")
    /\ choices < MaxChoices
    /\ choices' = choices + 1
    /\ elapsed' = 0
    /\ UNCHANGED seen

\* leave_session and join_nearby_session, whose search finds nobody
EndSession == Choice /\ RequestDisconnect

\* host_local_session and host_lan_session
HostSession == Choice /\ UNCHANGED webclient

NoChoice == Goto("menu", "look") /\ UNCHANGED <<webclient, seen, elapsed, choices>>

\* The snapshot update() decides on
Look ==
    /\ Goto("look", "update")
    /\ seen' = shared.connection_state
    /\ UNCHANGED <<webclient, elapsed, choices>>

\* mutant: the timer runs but is never looked at
NeverTimedOut == FALSE

TimedOut == elapsed + 1 >= ConnectTimeout

Update ==
    /\ Goto("update", "play")
    /\ IF seen = "connecting"
       THEN /\ elapsed' = IF elapsed + 1 <= ConnectTimeout THEN elapsed + 1 ELSE ConnectTimeout
            /\ IF TimedOut THEN RequestDisconnect ELSE UNCHANGED webclient
       ELSE elapsed' = 0 /\ UNCHANGED webclient
    /\ UNCHANGED <<seen, choices>>

\* Engine::tick, which may switch the active planet; the session is looked at first.
Play == Goto("play", "menu") /\ UNCHANGED <<webclient, seen, elapsed, choices>>

SwitchActivePlanet ==
    /\ Goto("play", "planet")
    /\ shared.connection_state = "connected"
    /\ UNCHANGED <<webclient, seen, elapsed, choices>>

AskForPlanet ==
    Goto("planet", "menu") /\ SetChunkInterest /\ UNCHANGED <<seen, elapsed, choices>>

\* Engine::shutdown
ClosePage == Goto("menu", "closing") /\ RequestDisconnect /\ UNCHANGED <<seen, elapsed, choices>>

CloseClient == Goto("closing", "closed") /\ ShutdownClient /\ UNCHANGED <<seen, elapsed, choices>>

PageGoesOn ==
    \/ OpenClient \/ OpenSession \/ AskForChunks
    \/ NoChoice \/ Look \/ Update \/ Play \/ AskForPlanet
    \/ CloseClient

PageStep == PageGoesOn \/ EndSession \/ HostSession \/ SwitchActivePlanet \/ ClosePage

WebNext == PageStep \/ (WebWorkerStep /\ UNCHANGED <<page, seen, elapsed, choices>>)

WebSpec == WebInit /\ [][WebNext]_web_vars

\* Frames go on, and so does the worker, whose calls of the proxy return.  Nothing is
\* assumed of the WebSocket or of the server.
WebFairness == WF_web_vars(PageGoesOn) /\ WF_web_vars(WorkerGoesOn /\ UNCHANGED <<page, seen, elapsed, choices>>)

(* Properties *)

\* The page shows itself as a player only in a session, whoever wrote last what it
\* shows.  About Publish and disconnect(), which both write it.
IdNeedsSession == shared.local_player_id => shared.connection_state = "connected"

\* A disconnect that finds no request to connect waiting is carried out, and what an
\* older cycle of the worker publishes after it is gone in the end.  About the requests
\* the worker takes and resets under the mutex.
DisconnectSettles ==
    ("disconnect" \in shared.waiting /\ "connect" \notin shared.waiting)
        ~> (stop \/ [](shared.connection_state = "disconnected"))

\* The page does not go on connecting for ever, also when the worker has given up, or
\* takes a request to connect only after it was called off.  About the timeout of
\* update(), which works on a snapshot.
AttemptsEnd == <>[](stop \/ shared.connection_state # "connecting")

\* The server is told which chunks the page wants in a session that lasts, though
\* connect() and set_chunk_interest() may be taken in different cycles, before or after
\* the CONNECT event.
InterestIsSent == peer = "connected" ~> asked \/ peer # "connected"

\* A page that is closed leaves its session, and its worker ends.  About the flag the
\* worker looks at between its cycles.
ClosingEndsAll == stop ~> worker \in {"none", "exited"} /\ Shown = "disconnected"
=============================================================================
