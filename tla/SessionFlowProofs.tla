-------------------------- MODULE SessionFlowProofs --------------------------
(***************************************************************************)
(* The safety properties of SessionFlow for any network, timeout and       *)
(* number of choices.  They need each other: the timer is of this attempt  *)
(* because only a player who searches or chooses can begin another, and a  *)
(* search finds nothing that an earlier role left in the queue.            *)
(***************************************************************************)
EXTENDS SessionFlow, FiniteSetTheorems, TLAPS

\* An attempt that still runs has time left.
AttemptHasTime == slot = "connecting" => elapsed < ConnectTimeout

\* --connect comes before everything else.
NothingBeforeStart == flow_pc = "start" => server = "off" /\ mode = "off"

FlowInv ==
    /\ FlowTypeOK
    /\ RolesAgree
    /\ TimerIsOfThisAttempt
    /\ LeftMeansAlone
    /\ AttemptHasTime
    /\ NothingBeforeStart

\* The order in which the hosts of an inbox are queued is a sequence of hosts.
LEMMA OrdersAreSequences ==
  ASSUME NEW S, S \subseteq Hosts, NEW order \in SetToSeqs(S)
  PROVE  order \in Seq(Hosts)
  <1>1. IsFiniteSet(S)
    BY LanDiscoveryAssumption, FS_Subset
  <1>2. Cardinality(S) \in Nat
    BY <1>1, FS_CardinalityType
  <1> QED
    BY <1>2 DEF SetToSeqs, IsInjective

LEMMA QueuesAreTyped ==
  ASSUME FlowTypeOK, NEW queue \in QueuesAfterPump
  PROVE  queue \in Seq(Hosts)
  <1>1. PICK new \in SetToSeqs(inbox \ Known) : queue = pending_hosts \o new
    BY DEF QueuesAfterPump
  <1>2. new \in Seq(Hosts)
    BY OrdersAreSequences DEF FlowTypeOK, DiscoveryTypeOK
  <1> QED
    BY <1>1, <1>2 DEF FlowTypeOK, DiscoveryTypeOK

\* What a state, or the next one, must satisfy beside the two truth values
Rest ==
    /\ mode \in {"off", "host", "client"}
    /\ Known \subseteq Hosts
    /\ \A h \in Known : discovered_hosts[h] \in Ages
    /\ pending_hosts \in Seq(Hosts)
    /\ inbox \subseteq Hosts
    /\ flow_pc \in {"start", "menu", "update", "tick"}
    /\ slot \in {"free", "connecting", "connected", "disconnecting"}
    /\ target \in Hosts \cup {Own, Given, Nobody}
    /\ server \in {"off", "loopback", "lan"}
    /\ elapsed \in 0..ConnectTimeout
    /\ last_state \in States
    /\ hint \in Hints
    /\ attempt_age \in 0..ConnectTimeout
    /\ choices \in 0..MaxChoices
    /\ window \in {"kept", "lost"}
    /\ RolesAgree
    /\ TimerIsOfThisAttempt
    /\ LeftMeansAlone
    /\ AttemptHasTime
    /\ NothingBeforeStart

LEMMA InvParts == FlowInv <=> running \in BOOLEAN /\ searching \in BOOLEAN /\ Rest
  BY DEF FlowInv, FlowTypeOK, DiscoveryTypeOK, Rest

LEMMA InitFlow == FlowInit => FlowInv
  <1> SUFFICES ASSUME FlowInit PROVE FlowInv
    OBVIOUS
  <1>1. running \in BOOLEAN /\ searching \in BOOLEAN
    BY Zenon DEF FlowInit, DiscoveryInit
  <1>2. Rest
    BY SessionFlowAssumption
       DEF FlowInit, Rest, RolesAgree, TimerIsOfThisAttempt, LeftMeansAlone,
           AttemptHasTime, NothingBeforeStart, DiscoveryInit, NoHosts, Known, States, Hints
  <1> QED
    BY <1>1, <1>2, InvParts
-----------------------------------------------------------------------------
(* The start and the choices of the menu *)

\* What a step has to keep, but for the two truth values
LEMMA RestSuffices ==
  ASSUME running' \in BOOLEAN, searching' \in BOOLEAN, Rest'
  PROVE  FlowInv'
  BY DEF FlowInv, FlowTypeOK, DiscoveryTypeOK, Rest

LEMMA StartStep == FlowInv /\ FlowStart => FlowInv'
  <1> SUFFICES ASSUME FlowInv, FlowStart PROVE FlowInv'
    OBVIOUS
  <1> USE DEF Rest, RolesAgree, TimerIsOfThisAttempt, LeftMeansAlone, AttemptHasTime,
          NothingBeforeStart, Known
  <1>1. running' \in BOOLEAN /\ searching' \in BOOLEAN
    BY InvParts DEF FlowStart, StartWithoutConnect, ConnectAtStart, discovery, flow
  <1>2. Rest
    BY InvParts
  <1>3. ASSUME StartWithoutConnect PROVE Rest'
    BY <1>2, <1>3 DEF StartWithoutConnect, discovery, engine, flow, history
  <1>4. ASSUME NEW resolved \in BOOLEAN, ConnectAtStart(resolved)
        PROVE  Rest'
    <2>1. CASE resolved
      BY <1>2, <1>4, <2>1, SessionFlowAssumption
         DEF ConnectAtStart, ConnectTo, discovery, Hints
    <2>2. CASE ~resolved
      BY <1>2, <1>4, <2>2 DEF ConnectAtStart, discovery, Hints
    <2> QED
      BY <2>1, <2>2
  <1>5. Rest'
    BY <1>3, <1>4 DEF FlowStart
  <1> QED
    BY <1>1, <1>5, RestSuffices

\* Whatever connect() returns, the peer is not connected and the timer can start.
LEMMA ConnectToKeeps ==
  ASSUME FlowInv, NEW h \in Hosts \cup {Own, Given}, NEW connected \in BOOLEAN,
         ConnectTo(h, connected)
  PROVE  /\ slot' \in {"free", "connecting", "disconnecting"}
         /\ slot' = "connecting" => connected
         /\ target' \in {h, Nobody}
         /\ connected => target' = h /\ attempt_age' = 0
         /\ ~connected => attempt_age' = attempt_age /\ target' = Nobody
  BY DEF FlowInv, FlowTypeOK, ConnectTo, SlotAfterDisconnect

LEMMA StopClientKeeps ==
  ASSUME FlowInv, StopClient
  PROVE  /\ slot' \in {"free", "disconnecting"}
         /\ target' = Nobody
         /\ attempt_age' = attempt_age
  BY DEF FlowInv, FlowTypeOK, StopClient, SlotAfterDisconnect

LEMMA ChoiceStep == FlowInv /\ Choice => FlowInv'
  <1> SUFFICES ASSUME FlowInv, Choice PROVE FlowInv'
    OBVIOUS
  <1> USE SessionFlowAssumption
      DEF Rest, RolesAgree, TimerIsOfThisAttempt, LeftMeansAlone, AttemptHasTime,
          NothingBeforeStart, Known, Stopped, NoHosts, Hints, Chooses
  <1>1. Rest
    BY InvParts
  <1>2. ASSUME LeaveSession PROVE FlowInv'
    <2>1. ~searching' /\ ~running'
      BY <1>2 DEF LeaveSession, StopDiscovery
    <2>2. searching' \in BOOLEAN /\ running' \in BOOLEAN
      BY <1>2, Zenon DEF LeaveSession, StopDiscovery
    <2>3. Rest'
      BY <1>1, <1>2, <2>1, StopClientKeeps DEF LeaveSession, StopDiscovery
    <2> QED
      BY <2>2, <2>3, RestSuffices
  <1>3. ASSUME HostLocalSession PROVE FlowInv'
    <2>1. ~searching' /\ ~running'
      BY <1>3 DEF HostLocalSession, StopDiscovery
    <2>2. searching' \in BOOLEAN /\ running' \in BOOLEAN
      BY <1>3, Zenon DEF HostLocalSession, StopDiscovery
    <2>3. PICK connected \in BOOLEAN : ConnectTo(Own, connected)
      BY <1>3 DEF HostLocalSession
    <2>4. Rest'
      BY <1>1, <1>3, <2>1, <2>3, ConnectToKeeps
         DEF HostLocalSession, StopDiscovery, StartServer
    <2> QED
      BY <2>2, <2>4, RestSuffices
  <1>4. ASSUME HostLanSession PROVE FlowInv'
    <2>1. PICK opened \in BOOLEAN : StartHost(opened)
      BY <1>4 DEF HostLanSession
    <2>2. ~searching'
      BY <1>4 DEF HostLanSession
    <2>3. searching' \in BOOLEAN /\ running' \in BOOLEAN
      BY <1>4, <2>1, Zenon DEF HostLanSession, StartHost
    <2>4. PICK connected \in BOOLEAN : ConnectTo(Own, connected)
      BY <1>4 DEF HostLanSession
    <2>5. /\ mode' = "host"
          /\ discovered_hosts' = [h \in {} |-> 0]
          /\ pending_hosts' = <<>>
          /\ inbox' = {}
      BY <2>1, Zenon DEF StartHost
    <2>6. /\ server' \in {"lan", "off"}
          /\ choices' = choices + 1 /\ choices < MaxChoices
          /\ elapsed' = 0
          /\ hint' = "hosting"
          /\ flow_pc' = "update"
          /\ last_state' = last_state
          /\ window' = "kept"
      BY <1>4, Zenon DEF HostLanSession, StartServer
    <2>7. /\ slot' \in {"free", "connecting", "disconnecting"}
          /\ target' \in {Own, Nobody}
          /\ slot' = "connecting" => attempt_age' = 0
          /\ attempt_age' = 0 \/ attempt_age' = attempt_age
      BY <2>4, ConnectToKeeps
    <2>8. Rest'
      BY <1>1, <2>2, <2>5, <2>6, <2>7
    <2> QED
      BY <2>3, <2>8, RestSuffices
  <1>5. ASSUME JoinNearbySession PROVE FlowInv'
    <2>1. PICK opened \in BOOLEAN : StartClient(opened)
      BY <1>5 DEF JoinNearbySession
    <2>2. searching' \in BOOLEAN /\ running' \in BOOLEAN
      BY <1>5, <2>1, Zenon DEF JoinNearbySession, StartClient
    <2>3. Rest'
      BY <1>1, <1>5, <2>1, StopClientKeeps DEF JoinNearbySession, StartClient
    <2> QED
      BY <2>2, <2>3, RestSuffices
  <1> QED
    BY <1>2, <1>3, <1>4, <1>5 DEF Choice

LEMMA NoChoiceStep == FlowInv /\ NoChoice => FlowInv'
  <1> SUFFICES ASSUME FlowInv, NoChoice PROVE FlowInv'
    OBVIOUS
  <1>1. running' \in BOOLEAN /\ searching' \in BOOLEAN
    BY InvParts DEF NoChoice, discovery, flow
  <1>2. Rest'
    BY InvParts DEF NoChoice, Rest, RolesAgree, TimerIsOfThisAttempt, LeftMeansAlone,
       AttemptHasTime, NothingBeforeStart, Known, discovery, engine, flow, history
  <1> QED
    BY <1>1, <1>2, RestSuffices
-----------------------------------------------------------------------------
(* update() *)

LEMMA HintAfterTyped ==
  ASSUME NEW state \in States, NEW text \in Hints
  PROVE  /\ HintAfter(state, text) \in Hints
         /\ HintAfter(state, text) = "left" => text = "left"
  BY DEF HintAfter, Hints

LEMMA UpdateConnectingStep == FlowInv /\ UpdateConnecting => FlowInv'
  <1> SUFFICES ASSUME FlowInv, UpdateConnecting PROVE FlowInv'
    OBVIOUS
  <1>1. running' \in BOOLEAN /\ searching' = searching
    BY InvParts DEF UpdateConnecting, discovery
  <1>2. searching' \in BOOLEAN
    BY <1>1, InvParts
  <1>3. slot = "connecting" /\ elapsed' = elapsed + 1 /\ attempt_age' = elapsed'
        /\ last_state' = "connecting" /\ flow_pc' = "tick"
    BY InvParts, SessionFlowAssumption
       DEF UpdateConnecting, Updates, ConnectionState, Waited, Rest, TimerIsOfThisAttempt,
           AttemptHasTime, States
  <1>4. elapsed' \in 0..ConnectTimeout
    BY <1>3, InvParts, SessionFlowAssumption DEF Rest, AttemptHasTime
  <1>5. hint' \in Hints /\ hint' # "left"
    <2>1. hint \in Hints /\ hint # "left"
      BY <1>3, InvParts DEF Rest, LeftMeansAlone
    <2>2. hint' = HintAfter("connecting", "timed_out") \/ hint' = HintAfter("connecting", hint)
      BY DEF UpdateConnecting
    <2>3. "connecting" \in States /\ "timed_out" \in Hints
      BY DEF States, Hints
    <2> QED
      BY <2>1, <2>2, <2>3, HintAfterTyped
  <1>6. \/ elapsed' >= ConnectTimeout /\ slot' = "free" /\ target' = Nobody
        \/ elapsed' < ConnectTimeout /\ slot' = slot /\ target' = target
    <2>1. CASE elapsed' >= ConnectTimeout
      BY <1>3, <2>1 DEF UpdateConnecting, GivesUp, SlotAfterDisconnect
    <2>2. CASE ~(elapsed' >= ConnectTimeout)
      BY <1>4, <2>2, SessionFlowAssumption DEF UpdateConnecting
    <2> QED
      BY <2>1, <2>2
  <1>7. UNCHANGED <<mode, discovered_hosts, pending_hosts, inbox, server, choices, window>>
    BY DEF UpdateConnecting, Updates, discovery
  <1>8. Rest'
    BY <1>1, <1>3, <1>4, <1>5, <1>6, <1>7, InvParts
       DEF Rest, RolesAgree, TimerIsOfThisAttempt, LeftMeansAlone, AttemptHasTime,
           NothingBeforeStart, Known, States
  <1> QED
    BY <1>1, <1>2, <1>8, RestSuffices

LEMMA UpdateConnectedStep == FlowInv /\ UpdateConnected => FlowInv'
  <1> SUFFICES ASSUME FlowInv, UpdateConnected PROVE FlowInv'
    OBVIOUS
  <1>1. running' \in BOOLEAN /\ searching' \in BOOLEAN
    BY InvParts, Zenon DEF UpdateConnected, discovery
  <1>2. ~searching' /\ slot = "connected" /\ slot' = "connected" /\ elapsed' = 0
    BY InvParts DEF UpdateConnected, Updates, ConnectionState, Rest
  <1>3. hint' \in Hints /\ hint' # "left"
    <2>1. hint \in Hints /\ hint # "left" /\ "connected" \in States
      BY <1>2, InvParts DEF Rest, LeftMeansAlone, States
    <2> QED
      BY <2>1, HintAfterTyped DEF UpdateConnected
  <1>4. Rest'
    BY <1>2, <1>3, InvParts, SessionFlowAssumption
       DEF UpdateConnected, Updates, discovery, Rest, RolesAgree, TimerIsOfThisAttempt,
           LeftMeansAlone, AttemptHasTime, NothingBeforeStart, Known, States
  <1> QED
    BY <1>1, <1>4, RestSuffices

LEMMA UpdateDisconnectedStep == FlowInv /\ UpdateDisconnected => FlowInv'
  <1> SUFFICES ASSUME FlowInv, UpdateDisconnected PROVE FlowInv'
    OBVIOUS
  <1>1. running' \in BOOLEAN /\ searching' \in BOOLEAN /\ searching' = searching
    BY InvParts, Zenon DEF UpdateDisconnected, discovery
  <1>2. slot \notin {"connected", "connecting"} /\ slot' = slot /\ elapsed' = 0
    BY InvParts DEF UpdateDisconnected, Updates, ConnectionState, Rest
  <1>3. hint' \in Hints /\ (hint' = "left" => hint = "left")
    <2>1. hint \in Hints /\ "disconnected" \in States
      BY InvParts DEF Rest, States
    <2> QED
      BY <2>1, HintAfterTyped DEF UpdateDisconnected
  <1>4. Rest'
    BY <1>1, <1>2, <1>3, InvParts, SessionFlowAssumption
       DEF UpdateDisconnected, Updates, discovery, Rest, RolesAgree,
           TimerIsOfThisAttempt, LeftMeansAlone, AttemptHasTime, NothingBeforeStart,
           Known, States
  <1> QED
    BY <1>1, <1>4, RestSuffices

\* pump() keeps the types of what it changes.
LEMMA PumpKeeps ==
  ASSUME FlowInv, Pump
  PROVE  /\ Known' \subseteq Hosts
         /\ \A h \in Known' : discovered_hosts'[h] \in Ages
         /\ inbox' = {} /\ mode' = mode /\ running' = running
  BY LanDiscoveryAssumption
     DEF FlowInv, FlowTypeOK, DiscoveryTypeOK, Pump, HostsAfterPump, Known, Ages

\* With discovery closed nobody is found.
LEMMA NobodyIsHeard ==
  ASSUME FlowInv, Pump, mode = "off", NEW queue \in QueuesAfterPump
  PROVE  Known' = {} /\ queue = <<>>
  <1>1. Known = {} /\ pending_hosts = <<>> /\ inbox = {}
    BY DEF FlowInv, RolesAgree
  <1>2. Known' = {}
    BY <1>1 DEF Pump, HostsAfterPump, Known
  <1>3. PICK new \in SetToSeqs({}) : queue = <<>> \o new
    BY <1>1 DEF QueuesAfterPump
  <1>4. Cardinality({}) = 0
    BY FS_EmptySet
  <1>5. new \in [1..0 -> {}]
    BY <1>4 DEF SetToSeqs, IsInjective
  <1>6. new \in Seq({}) /\ Len(new) = 0
    BY <1>5
  <1>7. queue = <<>>
    BY <1>3, <1>6
  <1> QED
    BY <1>2, <1>7

LEMMA UpdateSearchStep == FlowInv /\ UpdateSearch => FlowInv'
  <1> SUFFICES ASSUME FlowInv, UpdateSearch PROVE FlowInv'
    OBVIOUS
  <1>1. /\ Rest /\ searching /\ server = "off" /\ hint # "left"
        /\ mode = (IF window = "lost" THEN "off" ELSE "client")
    BY InvParts DEF UpdateSearch, Rest, RolesAgree, LeftMeansAlone
  <1>2. PICK queue \in QueuesAfterPump :
            IF queue = <<>>
            THEN /\ hint' = HintAfter("disconnected", hint)
                 /\ pending_hosts' = queue
                 /\ UNCHANGED <<slot, target, searching, attempt_age>>
            ELSE /\ pending_hosts' = Tail(queue)
                 /\ \E connected \in BOOLEAN :
                        /\ ConnectTo(Head(queue), connected)
                        /\ searching' = ~connected
                        /\ hint' = IF connected THEN "joining" ELSE "retrying"
    BY DEF UpdateSearch
  <1>3. queue \in Seq(Hosts)
    BY QueuesAreTyped DEF FlowInv
  <1>4. /\ slot \notin {"connected", "connecting"} /\ elapsed' = 0
        /\ flow_pc' = "tick" /\ last_state' = "disconnected"
        /\ server' = server /\ choices' = choices /\ window' = window
    BY <1>1 DEF UpdateSearch, Updates, ConnectionState, Rest
  <1>5. running' \in BOOLEAN
    BY InvParts, PumpKeeps DEF UpdateSearch
  <1>6. mode = "off" => Known' = {} /\ queue = <<>>
    BY NobodyIsHeard DEF UpdateSearch
  <1>7. CASE queue = <<>>
    <2>1. searching' \in BOOLEAN
      BY <1>2, <1>7, InvParts
    <2>2. hint' \in Hints /\ hint' # "left"
      <3>1. hint \in Hints /\ "disconnected" \in States
        BY <1>1 DEF Rest, States
      <3> QED
        BY <1>1, <1>2, <1>7, <3>1, HintAfterTyped
    <2>3. Rest'
      BY <1>1, <1>2, <1>3, <1>4, <1>7, <1>6, <2>2, PumpKeeps, SessionFlowAssumption
         DEF UpdateSearch, Rest, RolesAgree, TimerIsOfThisAttempt, LeftMeansAlone,
             AttemptHasTime, NothingBeforeStart, States
    <2> QED
      BY <1>5, <2>1, <2>3, RestSuffices
  <1>8. CASE queue # <<>>
    <2>1. PICK connected \in BOOLEAN :
              /\ ConnectTo(Head(queue), connected)
              /\ searching' = ~connected
              /\ hint' = IF connected THEN "joining" ELSE "retrying"
      BY <1>2, <1>8
    <2>2. Head(queue) \in Hosts /\ Tail(queue) \in Seq(Hosts)
      BY <1>3, <1>8
    <2>3. searching' \in BOOLEAN
      BY <2>1, Zenon
    <2>4. hint' \in Hints /\ hint' # "left"
      BY <2>1 DEF Hints
    <2>5. /\ slot' \in {"free", "connecting", "disconnecting"}
          /\ slot' = "connecting" => attempt_age' = 0
          /\ target' \in {Head(queue), Nobody}
          /\ attempt_age' \in {0, attempt_age}
      BY <2>1, <2>2, ConnectToKeeps
    <2>6. pending_hosts' = Tail(queue)
      BY <1>2, <1>8
    <2>7. Rest'
      BY <1>1, <1>4, <1>8, <1>6, <2>2, <2>4, <2>5, <2>6, PumpKeeps, SessionFlowAssumption
         DEF UpdateSearch, Rest, RolesAgree, TimerIsOfThisAttempt, LeftMeansAlone,
             AttemptHasTime, NothingBeforeStart, States
    <2> QED
      BY <1>5, <2>3, <2>7, RestSuffices
  <1> QED
    BY <1>7, <1>8
-----------------------------------------------------------------------------
(* Engine::tick, and the network *)

LEMMA TickStep ==
  ASSUME FlowInv,
         \/ Connected
         \/ \E state \in {"connecting", "connected", "disconnecting"} : PeerGone(state)
         \/ FrameEnds
         \/ \E h \in Hosts : HostHeard(h)
  PROVE  FlowInv'
  <1> USE DEF Rest, RolesAgree, TimerIsOfThisAttempt, LeftMeansAlone, AttemptHasTime,
          NothingBeforeStart, Known
  <1>1. Rest
    BY InvParts
  <1>2. running' = running /\ searching' = searching
    BY DEF Connected, PeerGone, FrameEnds, HostHeard, BeaconArrives, TimePasses,
       discovery, flow
  <1>3. running' \in BOOLEAN /\ searching' \in BOOLEAN
    BY <1>2, InvParts
  <1>4. ASSUME Connected PROVE Rest'
    BY <1>1, <1>2, <1>4 DEF Connected, discovery, flow, history
  <1>5. ASSUME NEW state \in {"connecting", "connected", "disconnecting"}, PeerGone(state)
        PROVE  Rest'
    BY <1>1, <1>2, <1>5 DEF PeerGone, discovery, flow, history
  <1>6. ASSUME FrameEnds PROVE Rest'
    <2>1. /\ Known' = Known
          /\ \A h \in Known : discovered_hosts'[h] \in Ages
      BY <1>1, <1>6, LanDiscoveryAssumption DEF FrameEnds, TimePasses, Ages
    <2> QED
      BY <1>1, <1>2, <1>6, <2>1 DEF FrameEnds, TimePasses, engine, flow, history
  <1>7. ASSUME NEW h \in Hosts, HostHeard(h) PROVE Rest'
    BY <1>1, <1>2, <1>7 DEF HostHeard, BeaconArrives, engine, flow, history
  <1>8. Rest'
    BY <1>4, <1>5, <1>6, <1>7
  <1> QED
    BY <1>3, <1>8, RestSuffices

\* Losing the window ends every role but the search, and with it the attempt to connect.
LEMMA WindowStep == FlowInv /\ WindowLost => FlowInv'
  <1> SUFFICES ASSUME FlowInv, WindowLost PROVE FlowInv'
    OBVIOUS
  <1> USE DEF Rest, RolesAgree, TimerIsOfThisAttempt, LeftMeansAlone, AttemptHasTime,
          NothingBeforeStart, Known, StopDiscovery, Stopped, NoHosts
  <1>1. Rest
    BY InvParts
  <1>2. running' \in BOOLEAN /\ searching' \in BOOLEAN
    BY InvParts DEF WindowLost, flow
  <1>3. flow_pc' = "menu" /\ mode' = "off" /\ server' = "off" /\ slot' = "free"
    BY DEF WindowLost
  <1>4. Known' = {} /\ pending_hosts' = <<>> /\ inbox' = {}
    BY DEF WindowLost
  <1>5. RolesAgree'
    BY <1>3, <1>4 DEF WindowLost
  <1>6. LeftMeansAlone'
    BY <1>1, <1>3 DEF WindowLost, flow
  <1>7. Rest'
    BY <1>1, <1>3, <1>4, <1>5, <1>6, SessionFlowAssumption DEF WindowLost, flow
  <1> QED
    BY <1>2, <1>7, RestSuffices

LEMMA StepFlow == FlowInv /\ [FlowNext]_flow_vars => FlowInv'
  <1> SUFFICES ASSUME FlowInv, [FlowNext]_flow_vars PROVE FlowInv'
    OBVIOUS
  <1>1. CASE UNCHANGED flow_vars
    <2>1. running' \in BOOLEAN /\ searching' \in BOOLEAN
      BY <1>1, InvParts DEF flow_vars, discovery, flow
    <2>2. Rest'
      BY <1>1, InvParts
         DEF flow_vars, Rest, RolesAgree, TimerIsOfThisAttempt, LeftMeansAlone, AttemptHasTime,
             NothingBeforeStart, Known, discovery, engine, flow, history
    <2> QED
      BY <2>1, <2>2, RestSuffices
  <1>2. CASE FlowNext
    BY <1>2, StartStep, ChoiceStep, NoChoiceStep, UpdateConnectingStep,
       UpdateConnectedStep, UpdateDisconnectedStep, UpdateSearchStep, TickStep,
       WindowStep DEF FlowNext, Update
  <1> QED
    BY <1>1, <1>2
-----------------------------------------------------------------------------
(* The properties *)

LEMMA FlowInvHolds == FlowSpec => []FlowInv
  BY InitFlow, StepFlow, PTL DEF FlowSpec

\* Server, client, discovery and session flow keep their types.
THEOREM FlowTypeOKHolds == FlowSpec => []FlowTypeOK
  <1>1. FlowInv => FlowTypeOK
    BY DEF FlowInv
  <1> QED
    BY <1>1, FlowInvHolds, PTL

\* A player hosts, searches or does neither, whatever was chosen before and wherever a
\* choice failed halfway.
THEOREM RolesAlwaysAgree == FlowSpec => []RolesAgree
  <1>1. FlowInv => RolesAgree
    BY DEF FlowInv
  <1> QED
    BY <1>1, FlowInvHolds, PTL

\* No attempt to connect pays for the time of another.
THEOREM TimerIsAlwaysOfThisAttempt == FlowSpec => []TimerIsOfThisAttempt
  <1>1. FlowInv => TimerIsOfThisAttempt
    BY DEF FlowInv
  <1> QED
    BY <1>1, FlowInvHolds, PTL

\* Leaving is final until the player chooses again, whatever events are still to come.
THEOREM LeavingIsFinal == FlowSpec => []LeftMeansAlone
  <1>1. FlowInv => LeftMeansAlone
    BY DEF FlowInv
  <1> QED
    BY <1>1, FlowInvHolds, PTL

\* The player has one role at a time, for any number of hosts and any timeouts.
THEOREM OneRoleAlways == FlowSpec => []OneRoleAtATime
  <1>1. FlowInv => OneRoleAtATime
    BY DEF FlowInv, OneRoleAtATime
  <1> QED
    BY <1>1, FlowInvHolds, PTL
=============================================================================
